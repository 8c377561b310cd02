-------------------------- MODULE SharedConnection --------------------------
(***************************************************************************)
(* What connection reuse promises, without pointers, counts, locks and     *)
(* threads: the Database objects of one RocksDB directory share one        *)
(* connection.  The first of them opens it, the last of them to leave      *)
(* closes it, and until it is closed nobody opens another one.             *)
(***************************************************************************)
CONSTANTS Databases, Paths

VARIABLES
    conn,   \* the state of each directory's connection
    users   \* the objects that use it

shared == <<conn, users>>

Init ==
    /\ conn = [p \in Paths |-> "closed"]
    /\ users = [p \in Paths |-> {}]

Open(p) ==
    /\ conn[p] = "closed"
    /\ conn' = [conn EXCEPT ![p] = "opening"]
    /\ UNCHANGED users

Attach(d, p) ==
    /\ conn[p] \in {"opening", "open"}
    /\ \A q \in Paths : d \notin users[q]
    /\ conn' = [conn EXCEPT ![p] = "open"]
    /\ users' = [users EXCEPT ![p] = @ \cup {d}]

Detach(d, p) ==
    /\ d \in users[p]
    /\ users' = [users EXCEPT ![p] = @ \ {d}]
    /\ conn' = [conn EXCEPT ![p] = IF users[p] = {d} THEN "closing" ELSE @]

Close(p) ==
    /\ conn[p] = "closing"
    /\ conn' = [conn EXCEPT ![p] = "closed"]
    /\ UNCHANGED users

Next ==
    \E p \in Paths :
        \/ Open(p)
        \/ Close(p)
        \/ \E d \in Databases : Attach(d, p) \/ Detach(d, p)

Spec == Init /\ [][Next]_shared
=============================================================================
