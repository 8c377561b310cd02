-------------------------- MODULE MCDatabaseObject --------------------------
(* An instance of DatabaseObject: a Database in each of two isolates.      *)
EXTENDS DatabaseObject

CONSTANTS i1, i2, d1, d2

SplitHome == [d \in Databases |-> IF d = d2 THEN i2 ELSE i1]

\* A queue holds an operation and the close() called after it.
QueueBounds == [i \in Isolates |-> 2]
=============================================================================
