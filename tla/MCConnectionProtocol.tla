------------------------ MODULE MCConnectionProtocol ------------------------
(* Instances of ConnectionProtocol: which isolate each Database lives in.  *)
EXTENDS ConnectionProtocol

CONSTANTS i1, i2, d1, d2, d3

\* d1 and d2 share an isolate with each other, d3 lives in the other one.
SplitHome == [d \in Databases |-> IF d = d3 THEN i2 ELSE i1]
OneHome == [d \in Databases |-> i1]
=============================================================================
