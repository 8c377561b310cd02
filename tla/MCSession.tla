------------------------------- MODULE MCSession -------------------------------
(* An instance of Session: two objects in one isolate, one in another, and *)
(* a call of each.                                                         *)
EXTENDS Session

CONSTANTS i1, i2, d1, d2, d3, c1, c2, c3

Objects == [d \in Databases |-> IF d = d3 THEN i2 ELSE i1]
Callers == [c \in Calls |-> IF c = c1 THEN d1 ELSE IF c = c2 THEN d2 ELSE d3]

\* One of the callbacks writes twice.
WriteBounds == [c \in Calls |-> IF c = c1 THEN 2 ELSE 1]
=============================================================================
