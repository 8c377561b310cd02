------------------------------- MODULE MCRecords -------------------------------
(* A record with two fields; every tail a string like a time can have.     *)
EXTENDS Records

\* The inputs tell apart every branch of the conversions.
Written == {Null, Scalar, Text("quoted"),
            Stamp(0, "no_zone", 0), Stamp(0, "Z", 0),
            Stamp(0, "offset", 1), Stamp(0, "no_time", 0)}

\* One field, or both: the second may take the first down with it.
SmallDrafts == {[f \in {} |-> Null]} \cup UNION {[{f} -> Written] : f \in Fields}
                \cup {[f \in Fields |-> IF f = "f" THEN j ELSE Stamp(0, "no_time", 0)] :
                        j \in Written}
=============================================================================
