----------------------------- MODULE MCMigration -----------------------------
(***************************************************************************)
(* Small designs for TLC: two tables, two fields.                          *)
(***************************************************************************)
EXTENDS Migration

CONSTANTS t, u, f, g

Field(type, optional, assert, default, indexed) ==
    [type |-> type, optional |-> optional, assert |-> assert, default |-> default,
     indexed |-> indexed]

Table(ff, gg) ==
    [fields |-> [x \in {f, g} |-> IF x = f THEN ff ELSE gg], vectorIndexes |-> {}]

Design(tt, uu) == [x \in {t, u} |-> IF x = t THEN tt ELSE uu]

Name  == Field("string", FALSE, "none", NoDefault, TRUE)
Age   == Field("int", TRUE, "a", Literal, FALSE)

One      == Design(Table(Name, Absent), Absent)
Two      == Design(Table(Name, Age), Absent)
Other    == Design(Table([Name EXCEPT !.type = "int", !.assert = "b"], Absent), Absent)
Strict   == Design(Table([Name EXCEPT !.indexed = FALSE, !.assert = "a"],
                         [Age EXCEPT !.optional = FALSE]),
                   Table(Name, Absent))

\* Designs whose types and defaults are read back as they were written; from
\* one to another there is every kind of statement but that on vector indexes.
Settled == {Other, Two, Strict}

Pair == {One, Two}

\* One design for each of: an object, a sized array, a string default, a
\* vector index.
Awkward == {Design(Table(Field("object", FALSE, "none", NoDefault, FALSE), Absent), Absent),
            Design(Table(Field("sized", TRUE, "none", NoDefault, FALSE), Absent), Absent),
            Design(Table(Field("string", FALSE, "none", Text(0), FALSE), Absent), Absent),
            Design([Table(Name, Absent) EXCEPT !.vectorIndexes = {f}], Absent)}

=============================================================================
