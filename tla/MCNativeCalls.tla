---------------------------- MODULE MCNativeCalls ----------------------------
(* An instance of NativeCalls: every native function on one thread, and a  *)
(* second thread that answers, leaves messages and fails as well.          *)
EXTENDS NativeCalls

CONSTANTS t1, t2

Calls ==
    [t \in Threads |-> IF t = t1 THEN NativeFunctions
                       ELSE {db_query, db_unset, db_signup}]
=============================================================================
