------------------------------- MODULE Schema -------------------------------
(***************************************************************************)
(* Table structures in Dart, the schema SurrealDB keeps, what introspection*)
(* reads back of it, the difference between the two, and the DDL that      *)
(* removes the difference.  Names and types are compared as text in the    *)
(* code, so a text that does not survive the way through the database is   *)
(* a difference: the operators say which texts those are.                  *)
(***************************************************************************)
EXTENDS Naturals

CONSTANTS
    Tables,     \* names of user tables (system tables start with _ )
    Fields,     \* names of top-level fields
    Absent      \* no such table, or no such field

(* Types, by what becomes of their text.  "string" and "int" stand for all *)
(* types that are read back as written.  "sized" is a type whose text has  *)
(* a space in it: array<T, n>, vector<F, n>.  "object" (and array<object>) *)
(* is written to the database as any.                                      *)
Types == {"string", "int", "any", "object", "sized"}

\* A default is absent, a Boolean or an unsigned number ("literal"), or a
\* string in that many pairs of quotes.
NoDefault == [kind |-> "none", quotes |-> 0]
Literal   == [kind |-> "literal", quotes |-> 0]
Text(n)   == [kind |-> "text", quotes |-> n]

Defaults == {NoDefault, Literal} \cup [kind : {"text"}, quotes : Nat]

\* No assertion, or one of two.
Asserts == {"none", "a", "b"}

FieldDefinition == [type : Types, optional : BOOLEAN, assert : Asserts,
                    default : Defaults, indexed : BOOLEAN]

TableStructure == [fields : [Fields -> FieldDefinition \cup {Absent}],
                   vectorIndexes : SUBSET Fields]

\* The type texts introspection can return: the last two are what is left of
\* "sized" and of an optional "sized" when the text is cut at its space.
ReadTypes == (Types \ {"sized"}) \cup {"sizedCut", "optionCut"}

FieldSchema == [type : ReadTypes, optional : BOOLEAN, assert : Asserts,
                default : Defaults]

\* What Dart can ask for, what the database can have, and what introspection
\* can find in it.
Designs == [Tables -> TableStructure \cup {Absent}]

DatabaseField == [type : Types \ {"object"}, optional : BOOLEAN,
                  assert : Asserts, default : Defaults]

DatabaseTable == [fields : [Fields -> DatabaseField \cup {Absent}],
                  indexes : SUBSET Fields, vectorIndexes : SUBSET Fields]

DatabaseTables == [Tables -> DatabaseTable \cup {Absent}]

\* IndexSchema.parse takes all text after FIELDS for the field: of a vector
\* index that is the field together with the index parameters.
VectorText(f) == <<f, "MTREE">>

IndexTexts == Fields \cup {VectorText(f) : f \in Fields}

TableSchema == [fields : [Fields -> FieldSchema \cup {Absent}], indexed : SUBSET IndexTexts]

Snapshots == [Tables -> TableSchema \cup {Absent}]

\* null is no object.
ASSUME AbsentAssumption ==
    /\ Absent \notin FieldDefinition /\ Absent \notin TableStructure
    /\ Absent \notin DatabaseField /\ Absent \notin DatabaseTable
    /\ Absent \notin FieldSchema /\ Absent \notin TableSchema
    /\ Absent \notin DatabaseTables /\ Absent \notin Designs

-----------------------------------------------------------------------------
(* DDL and the database it is run on                                       *)

\* generateDefineField, as the field the database then has.
DefinedField(f) ==
    [type |-> IF f.type = "object" THEN "any" ELSE f.type,
     optional |-> f.optional, assert |-> f.assert, default |-> f.default]

NewTable == [fields |-> [f \in Fields |-> Absent], indexes |-> {}, vectorIndexes |-> {}]

EmptySchema == [t \in Tables |-> Absent]

\* A statement, by the phase of generateFromDiff it comes from: the seven
\* "create", "add" and "modify" ones are DEFINE, the others REMOVE.
Statement(op, t, f, def) == [op |-> op, table |-> t, field |-> f, def |-> def]

DDL == [op : {"createTable", "createField", "createIndex", "createVector", "addField",
              "modifyField", "addIndex", "removeIndex", "removeField", "removeTable"},
        table : Tables, field : IndexTexts \cup {Absent}, def : DatabaseField \cup {Absent}]

\* What running statement s makes of schema c.  (External: SurrealDB.)
Execute(c, s) ==
    CASE s.op = "createTable"  -> [c EXCEPT ![s.table] = NewTable]
      [] s.op \in {"createField", "addField", "modifyField"} ->
            [c EXCEPT ![s.table].fields[s.field] = s.def]
      [] s.op \in {"createIndex", "addIndex"} ->
            [c EXCEPT ![s.table].indexes = @ \cup {s.field}]
      [] s.op = "createVector" -> [c EXCEPT ![s.table].vectorIndexes = @ \cup {s.field}]
      [] s.op = "removeIndex"  -> [c EXCEPT ![s.table].indexes = @ \ {s.field}]
      [] s.op = "removeField"  -> [c EXCEPT ![s.table].fields[s.field] = Absent]
      [] s.op = "removeTable"  -> [c EXCEPT ![s.table] = Absent]

\* An index removed by a name that is not an identifier is a syntax error.
\* (External: SurrealDB.)
Invalid(s) == s.op = "removeIndex" /\ s.field \notin Fields

-----------------------------------------------------------------------------
(* Introspection                                                           *)

\* Variant: option<...> is left around the type.
ReadType_KeepsOption(f) ==
    IF f.optional THEN "optionCut" ELSE IF f.type = "sized" THEN "sizedCut" ELSE f.type

\* FieldSchema.parse: TYPE\s+(\S+), then option<...> is taken off.
ReadType(f) ==
    IF f.type # "sized" THEN f.type
    ELSE IF f.optional THEN "optionCut" ELSE "sizedCut"

\* A string default comes back with its quotes, everything else as it was.
ReadDefault(v) == IF v.kind = "text" THEN Text(v.quotes + 1) ELSE v

ReadField(f) ==
    [type |-> ReadType(f), optional |-> f.optional /\ f.type # "sized",
     assert |-> f.assert, default |-> ReadDefault(f.default)]

ReadTable(tb) ==
    [fields  |-> [f \in Fields |-> IF tb.fields[f] = Absent THEN Absent
                                   ELSE ReadField(tb.fields[f])],
     indexed |-> tb.indexes \cup {VectorText(f) : f \in tb.vectorIndexes}]

\* DatabaseSchema.introspect
Introspect(c) == [t \in Tables |-> IF c[t] = Absent THEN Absent ELSE ReadTable(c[t])]

-----------------------------------------------------------------------------
(* SchemaDiff.calculate: cur is introspected, want is what Dart declares   *)

Present(m) == {k \in DOMAIN m : m[k] # Absent}

FieldsOf(m) ==
    {tf \in Tables \X Fields : m[tf[1]] # Absent /\ m[tf[1]].fields[tf[2]] # Absent}

\* The indexes Dart declares, and those found in the database.
Indexed(want) == {tf \in FieldsOf(want) : want[tf[1]].fields[tf[2]].indexed}
IndexesOf(cur) ==
    {tx \in Tables \X IndexTexts : cur[tx[1]] # Absent /\ tx[2] \in cur[tx[1]].indexed}

TypeChanged(old, new) == old.type # new.type

\* _compareFields
Modified(old, new) ==
    \/ TypeChanged(old, new)
    \/ old.optional # new.optional
    \/ old.assert # new.assert
    \/ old.default # new.default

\* Variant: making a field required is taken for harmless.
DestructiveModification_AllowsRequired(old, new) ==
    \/ TypeChanged(old, new)
    \/ old.assert # "none" /\ new.assert # "none" /\ old.assert # new.assert

\* FieldModification.isDestructive
DestructiveModification(old, new) ==
    \/ TypeChanged(old, new)
    \/ old.optional /\ ~new.optional
    \/ old.assert # "none" /\ new.assert # "none" /\ old.assert # new.assert

Diff(cur, want) ==
    LET mods == {tf \in FieldsOf(cur) \cap FieldsOf(want) :
                    Modified(cur[tf[1]].fields[tf[2]], want[tf[1]].fields[tf[2]])}
    IN [tablesAdded    |-> Present(want) \ Present(cur),
        tablesRemoved  |-> Present(cur) \ Present(want),
        fieldsAdded    |-> FieldsOf(want) \ FieldsOf(cur),
        fieldsRemoved  |-> FieldsOf(cur) \ FieldsOf(want),
        fieldsModified |-> mods,
        indexesAdded   |-> Indexed(want) \ IndexesOf(cur),
        indexesRemoved |-> IndexesOf(cur) \ Indexed(want),
        destructive    |-> \/ Present(cur) \ Present(want) # {}
                           \/ FieldsOf(cur) \ FieldsOf(want) # {}
                           \/ \E tf \in mods : DestructiveModification(
                                cur[tf[1]].fields[tf[2]], want[tf[1]].fields[tf[2]])]

HasChanges(d) ==
    \/ d.tablesAdded # {} \/ d.tablesRemoved # {}
    \/ d.fieldsAdded # {} \/ d.fieldsRemoved # {} \/ d.fieldsModified # {}
    \/ d.indexesAdded # {} \/ d.indexesRemoved # {}

-----------------------------------------------------------------------------
(* DdlGenerator.generateFromDiff: the statements, and their order          *)

Define(op, want, tfs) ==
    {Statement(op, tf[1], tf[2], DefinedField(want[tf[1]].fields[tf[2]])) : tf \in tfs}

On(op, tfs) == {Statement(op, tf[1], tf[2], Absent) : tf \in tfs}

OnTables(op, ts) == {Statement(op, t, Absent, Absent) : t \in ts}

\* Phase 1: the new tables with their fields and indexes.
CreateTables(d, want) ==
    LET New(tfs) == {tf \in tfs : tf[1] \in d.tablesAdded}
    IN OnTables("createTable", d.tablesAdded)
       \cup Define("createField", want, New(d.fieldsAdded))
       \cup On("createIndex", New(d.indexesAdded))
       \cup On("createVector", {tf \in New(Tables \X Fields) :
                                    tf[2] \in want[tf[1]].vectorIndexes})

\* Phases 2 to 7.  What a removed table held needs no statement of its own.
AlterTables(d, want) ==
    LET Old(tfs)  == {tf \in tfs : tf[1] \notin d.tablesAdded}
        Kept(tfs) == {tf \in tfs : tf[1] \notin d.tablesRemoved}
    IN Define("addField", want, Old(d.fieldsAdded))
       \cup Define("modifyField", want, d.fieldsModified)
       \cup On("addIndex", Old(d.indexesAdded))
       \cup On("removeIndex", Kept(d.indexesRemoved))
       \cup On("removeField", Kept(d.fieldsRemoved))
       \cup OnTables("removeTable", d.tablesRemoved)

GenerateFromDiff(d, want) == CreateTables(d, want) \cup AlterTables(d, want)

Phase(s) ==
    CASE s.op = "createTable"  -> 0
      [] s.op = "createField"  -> 1
      [] s.op = "createIndex"  -> 2
      [] s.op = "createVector" -> 3
      [] s.op = "addField"     -> 4
      [] s.op = "modifyField"  -> 5
      [] s.op = "addIndex"     -> 6
      [] s.op = "removeIndex"  -> 7
      [] s.op = "removeField"  -> 8
      [] s.op = "removeTable"  -> 9

\* Statement s of todo may be the next: one new table after the other, then
\* phase after phase.  Within these the order is that of a Dart map, and
\* could be any.
IsNext(s, todo) ==
    /\ \A r \in todo : r.table = s.table \/ Phase(s) > 3 => Phase(s) <= Phase(r)
    /\ s.op = "createTable" =>
          \A r \in todo : Phase(r) \in 1 .. 3 =>
              \E q \in todo : q.op = "createTable" /\ q.table = r.table

-----------------------------------------------------------------------------
(* _convertSchemaToTableStructures: a snapshot as something to migrate to  *)

\* _parseTypeString: a text it cannot parse is any.
ParseType(s) == IF s \in {"string", "int", "object"} THEN s ELSE "any"

Converted(f) == [type |-> ParseType(f.type), optional |-> f.optional, assert |-> f.assert,
                 default |-> f.default, indexed |-> FALSE]

ConvertSchema(c) ==
    [t \in Tables |->
        IF c[t] = Absent THEN Absent
        ELSE [fields |-> [f \in Fields |-> IF c[t].fields[f] = Absent THEN Absent
                                           ELSE Converted(c[t].fields[f])],
              vectorIndexes |-> {}]]

=============================================================================
