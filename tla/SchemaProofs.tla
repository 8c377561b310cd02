----------------------------- MODULE SchemaProofs -----------------------------
(***************************************************************************)
(* Lemmas about Schema, for any tables and fields: what the statements of  *)
(* generateFromDiff make of a database, executed in any order IsNext       *)
(* allows; that together they make the design; and that without the word   *)
(* "destructive" they take nothing away.                                   *)
(***************************************************************************)
EXTENDS Schema, TLAPS

-----------------------------------------------------------------------------
(* What a set of statements makes of a database                            *)

DefineOps == {"createField", "addField", "modifyField"}
IndexOps  == {"createIndex", "addIndex"}

\* One of the statements of done is an op of ops on that table and field.
Ran(done, ops, t, f) == \E s \in done : s.op \in ops /\ s.table = t /\ s.field = f
RanOn(done, op, t)   == \E s \in done : s.op = op /\ s.table = t

\* The table before any statement on its fields and indexes.
Base(c, t) == IF c[t] = Absent THEN NewTable ELSE c[t]

FieldNow(c, want, done, t, f) ==
    IF Ran(done, DefineOps, t, f) THEN DefinedField(want[t].fields[f])
    ELSE IF Ran(done, {"removeField"}, t, f) THEN Absent
    ELSE Base(c, t).fields[f]

FieldsNow(c, want, done, t) == [f \in Fields |-> FieldNow(c, want, done, t, f)]

IndexesNow(c, done, t) ==
    {f \in Fields : /\ f \in Base(c, t).indexes \/ Ran(done, IndexOps, t, f)
                    /\ ~Ran(done, {"removeIndex"}, t, f)}

VectorsNow(c, done, t) ==
    {f \in Fields : f \in Base(c, t).vectorIndexes \/ Ran(done, {"createVector"}, t, f)}

TableOf(F, I, V) == [fields |-> F, indexes |-> I, vectorIndexes |-> V]

TableNow(c, want, done, t) ==
    TableOf(FieldsNow(c, want, done, t), IndexesNow(c, done, t), VectorsNow(c, done, t))

Exists(c, done, t) ==
    IF c[t] = Absent THEN RanOn(done, "createTable", t) ELSE ~RanOn(done, "removeTable", t)

\* The statements of done, in whichever order, have made this of c.
Applied(c, want, done) ==
    [t \in Tables |-> IF Exists(c, done, t) THEN TableNow(c, want, done, t) ELSE Absent]

\* The migration of database c to the design want.
Changes(c, want) == Diff(Introspect(c), want)
DDLFor(c, want)  == GenerateFromDiff(Changes(c, want), want)

\* On a table that is new, nothing is done before it is created.
CreatedFirst(c, done) ==
    \A s \in done : c[s.table] = Absent => RanOn(done, "createTable", s.table)

-----------------------------------------------------------------------------
(* Introspection and difference                                            *)

\* Introspection sees the tables and fields there are.
LEMMA IntrospectSees ==
    ASSUME NEW c \in DatabaseTables
    PROVE  /\ Introspect(c) \in Snapshots
           /\ \A t \in Tables :
                /\ Introspect(c)[t] = Absent <=> c[t] = Absent
                /\ c[t] # Absent =>
                    /\ Introspect(c)[t].indexed =
                         c[t].indexes \cup {VectorText(f) : f \in c[t].vectorIndexes}
                    /\ \A f \in Fields :
                         /\ Introspect(c)[t].fields[f] = Absent <=> c[t].fields[f] = Absent
                         /\ c[t].fields[f] # Absent =>
                              Introspect(c)[t].fields[f] = ReadField(c[t].fields[f])
<1>1. ASSUME NEW x \in DatabaseField PROVE ReadField(x) \in FieldSchema
  <2>1. ReadDefault(x.default) \in Defaults
    <3>1. x.default \in Defaults
      BY DEF DatabaseField
    <3>2. CASE x.default.kind = "text"
      <4>1. x.default.quotes \in Nat
        BY <3>1, <3>2 DEF Defaults, NoDefault, Literal
      <4>2. Text(x.default.quotes + 1) \in Defaults
        BY <4>1 DEF Defaults, Text
      <4> QED
        BY <3>2, <4>2 DEF ReadDefault
    <3> QED
      BY <3>1, <3>2 DEF ReadDefault
  <2>2. ReadType(x) \in ReadTypes
    BY DEF ReadType, DatabaseField, ReadTypes, Types
  <2> QED
    BY <2>1, <2>2 DEF ReadField, FieldSchema, DatabaseField
<1>2. ASSUME NEW tb \in DatabaseTable
      PROVE  /\ ReadTable(tb) \in TableSchema
             /\ ReadTable(tb).indexed = tb.indexes \cup {VectorText(f) : f \in tb.vectorIndexes}
             /\ \A f \in Fields :
                    /\ ReadTable(tb).fields[f] = Absent <=> tb.fields[f] = Absent
                    /\ tb.fields[f] # Absent => ReadTable(tb).fields[f] = ReadField(tb.fields[f])
  <2> DEFINE F == [f \in Fields |-> IF tb.fields[f] = Absent THEN Absent ELSE ReadField(tb.fields[f])]
             I == tb.indexes \cup {VectorText(f) : f \in tb.vectorIndexes}
  <2>1. F \in [Fields -> FieldSchema \cup {Absent}]
    BY <1>1 DEF DatabaseTable
  <2>2. I \in SUBSET IndexTexts
    BY DEF DatabaseTable, IndexTexts
  <2>3. ReadTable(tb) = [fields |-> F, indexed |-> I]
    BY DEF ReadTable
  <2>4. \A f \in Fields :
            /\ F[f] = Absent <=> tb.fields[f] = Absent
            /\ tb.fields[f] # Absent => F[f] = ReadField(tb.fields[f])
    BY <1>1, AbsentAssumption DEF DatabaseTable
  <2> HIDE DEF F, I
  <2> QED
    BY <2>1, <2>2, <2>3, <2>4 DEF TableSchema, I
<1>3. ASSUME NEW t \in Tables
      PROVE  /\ Introspect(c)[t] = IF c[t] = Absent THEN Absent ELSE ReadTable(c[t])
             /\ Introspect(c)[t] \in TableSchema \cup {Absent}
             /\ Introspect(c)[t] = Absent <=> c[t] = Absent
  BY <1>2, AbsentAssumption DEF Introspect, DatabaseTables
<1>4. Introspect(c) \in Snapshots
  BY <1>3 DEF Introspect, Snapshots
<1> QED
  BY <1>2, <1>3, <1>4 DEF DatabaseTables

HasField(c, t, f) == c[t] # Absent /\ c[t].fields[f] # Absent

\* The difference, table by table and field by field.
LEMMA ChangesAre ==
    ASSUME NEW c \in DatabaseTables, NEW want \in Designs, NEW t \in Tables
    PROVE  LET d == Changes(c, want) IN
           /\ t \in d.tablesAdded <=> c[t] = Absent /\ want[t] # Absent
           /\ t \in d.tablesRemoved <=> c[t] # Absent /\ want[t] = Absent
           /\ \A f \in Fields :
                /\ <<t, f>> \in d.fieldsAdded <=> HasField(want, t, f) /\ ~HasField(c, t, f)
                /\ <<t, f>> \in d.fieldsRemoved <=> HasField(c, t, f) /\ ~HasField(want, t, f)
                /\ <<t, f>> \in d.fieldsModified <=>
                     /\ HasField(c, t, f) /\ HasField(want, t, f)
                     /\ Modified(ReadField(c[t].fields[f]), want[t].fields[f])
           /\ \A x \in IndexTexts :
                /\ <<t, x>> \in d.indexesAdded <=>
                     <<t, x>> \in Indexed(want) /\ <<t, x>> \notin IndexesOf(Introspect(c))
                /\ <<t, x>> \in d.indexesRemoved <=>
                     <<t, x>> \in IndexesOf(Introspect(c)) /\ <<t, x>> \notin Indexed(want)
<1> DEFINE cur == Introspect(c)
<1>1. /\ DOMAIN cur = Tables /\ DOMAIN want = Tables
      /\ cur[t] = Absent <=> c[t] = Absent
      /\ \A f \in Fields : c[t] # Absent =>
            /\ cur[t].fields[f] = Absent <=> c[t].fields[f] = Absent
            /\ c[t].fields[f] # Absent => cur[t].fields[f] = ReadField(c[t].fields[f])
  BY IntrospectSees DEF Snapshots, Designs
<1> HIDE DEF cur
<1>2. \A f \in Fields : /\ <<t, f>> \in FieldsOf(cur) <=> HasField(c, t, f)
                        /\ <<t, f>> \in FieldsOf(want) <=> HasField(want, t, f)
  BY <1>1 DEF FieldsOf, HasField
<1>3. /\ t \in Present(cur) <=> c[t] # Absent
      /\ t \in Present(want) <=> want[t] # Absent
  BY <1>1 DEF Present
<1> QED
  BY <1>1, <1>2, <1>3 DEF Changes, Diff, cur, HasField

\* A difference is destructive for a table or a field that goes away, or for a
\* field that is modified destructively.
LEMMA HarmlessIs ==
    ASSUME NEW c \in DatabaseTables, NEW want \in Designs
    PROVE  ~Changes(c, want).destructive <=>
             \A t \in Tables :
                /\ c[t] # Absent => want[t] # Absent
                /\ \A f \in Fields : HasField(c, t, f) =>
                      /\ HasField(want, t, f)
                      /\ Modified(ReadField(c[t].fields[f]), want[t].fields[f]) =>
                           ~DestructiveModification(ReadField(c[t].fields[f]), want[t].fields[f])
<1> DEFINE cur == Introspect(c)
<1>1. /\ DOMAIN cur = Tables /\ DOMAIN want = Tables
      /\ \A t \in Tables :
            /\ cur[t] = Absent <=> c[t] = Absent
            /\ \A f \in Fields : HasField(c, t, f) =>
                  cur[t].fields[f] = ReadField(c[t].fields[f])
  BY IntrospectSees DEF Snapshots, Designs, HasField
<1>2. \A t \in Tables, f \in Fields : HasField(cur, t, f) <=> HasField(c, t, f)
  BY IntrospectSees DEF HasField
<1> HIDE DEF cur
<1>3. \A t \in Tables, f \in Fields : /\ <<t, f>> \in FieldsOf(cur) <=> HasField(c, t, f)
                                      /\ <<t, f>> \in FieldsOf(want) <=> HasField(want, t, f)
  BY <1>2 DEF FieldsOf, HasField
<1>4. Present(cur) \ Present(want) = {} <=> \A t \in Tables : c[t] # Absent => want[t] # Absent
  BY <1>1 DEF Present
<1> DEFINE Bad(old, new) == Modified(old, new) /\ DestructiveModification(old, new)
<1>5. ~Changes(c, want).destructive <=>
         /\ Present(cur) \ Present(want) = {}
         /\ FieldsOf(cur) \ FieldsOf(want) = {}
         /\ \A tf \in FieldsOf(cur) \cap FieldsOf(want) :
              ~Bad(cur[tf[1]].fields[tf[2]], want[tf[1]].fields[tf[2]])
  BY DEF Changes, Diff, cur
<1> HIDE DEF Bad
<1>6. ASSUME FieldsOf(cur) \ FieldsOf(want) = {},
             \A tf \in FieldsOf(cur) \cap FieldsOf(want) :
                ~Bad(cur[tf[1]].fields[tf[2]], want[tf[1]].fields[tf[2]]),
             NEW t \in Tables, NEW f \in Fields, HasField(c, t, f)
      PROVE  /\ HasField(want, t, f)
             /\ ~Bad(ReadField(c[t].fields[f]), want[t].fields[f])
  <2>1. <<t, f>> \in FieldsOf(cur) \cap FieldsOf(want)
    BY <1>3, <1>6
  <2>2. ~Bad(cur[t].fields[f], want[t].fields[f])
    BY <1>6, <2>1
  <2> QED
    BY <1>1, <1>3, <1>6, <2>1, <2>2
<1>7. ASSUME \A t \in Tables, f \in Fields : HasField(c, t, f) =>
                /\ HasField(want, t, f)
                /\ ~Bad(ReadField(c[t].fields[f]), want[t].fields[f])
      PROVE  /\ FieldsOf(cur) \ FieldsOf(want) = {}
             /\ \A tf \in FieldsOf(cur) \cap FieldsOf(want) :
                   ~Bad(cur[tf[1]].fields[tf[2]], want[tf[1]].fields[tf[2]])
  <2>1. ASSUME NEW tf \in FieldsOf(cur)
        PROVE  /\ tf \in FieldsOf(want)
               /\ ~Bad(cur[tf[1]].fields[tf[2]], want[tf[1]].fields[tf[2]])
    <3>1. PICK t \in Tables, f \in Fields : tf = <<t, f>>
      BY DEF FieldsOf
    <3>2. HasField(c, t, f)
      BY <1>3, <2>1, <3>1
    <3>3. HasField(want, t, f) /\ ~Bad(cur[t].fields[f], want[t].fields[f])
      BY <1>1, <1>7, <3>2
    <3> QED
      BY <1>3, <3>1, <3>3
  <2> QED
    BY <2>1
<1>8. ~Changes(c, want).destructive <=>
         /\ \A t \in Tables : c[t] # Absent => want[t] # Absent
         /\ \A t \in Tables, f \in Fields : HasField(c, t, f) =>
               /\ HasField(want, t, f)
               /\ ~Bad(ReadField(c[t].fields[f]), want[t].fields[f])
  BY <1>4, <1>5, <1>6, <1>7
<1> QED
  BY <1>8 DEF Bad

-----------------------------------------------------------------------------
(* The statements of a migration                                           *)

\* The names a difference speaks of are tables, fields and index texts.
LEMMA ChangesTyped ==
    ASSUME NEW c \in DatabaseTables, NEW want \in Designs
    PROVE  LET d == Changes(c, want) IN
           /\ d.tablesAdded \subseteq Tables /\ d.tablesRemoved \subseteq Tables
           /\ d.fieldsAdded \subseteq Tables \X Fields
           /\ d.fieldsRemoved \subseteq Tables \X Fields
           /\ d.fieldsModified \subseteq Tables \X Fields
           /\ d.indexesAdded \subseteq Tables \X Fields
           /\ d.indexesRemoved \subseteq Tables \X IndexTexts
<1> DEFINE cur == Introspect(c)
<1>1. DOMAIN cur = Tables /\ DOMAIN want = Tables
  BY IntrospectSees DEF Snapshots, Designs
<1> HIDE DEF cur
<1> QED
  BY <1>1 DEF Changes, Diff, cur, Present, FieldsOf, Indexed, IndexesOf

\* What a statement says of the table and field it is about.
LEMMA StatementIs ==
    ASSUME NEW c \in DatabaseTables, NEW want \in Designs, NEW s \in DDLFor(c, want)
    PROVE  /\ s \in DDL
           /\ s.op \in {"createTable", "createField", "createIndex", "createVector"} =>
                c[s.table] = Absent /\ want[s.table] # Absent
           /\ s.op \in {"addField", "modifyField", "addIndex", "removeIndex", "removeField"} =>
                c[s.table] # Absent /\ want[s.table] # Absent
           /\ s.op = "removeTable" => c[s.table] # Absent /\ want[s.table] = Absent
           /\ s.op = "createTable" => s = Statement("createTable", s.table, Absent, Absent)
           /\ s.op \in DefineOps =>
                /\ s.field \in Fields /\ HasField(want, s.table, s.field)
                /\ s.def = DefinedField(want[s.table].fields[s.field])
           /\ s.op \in IndexOps => s.field \in Fields /\ <<s.table, s.field>> \in Indexed(want)
           /\ s.op = "createVector" =>
                s.field \in Fields /\ s.field \in want[s.table].vectorIndexes
           /\ s.op = "removeField" =>
                /\ s.field \in Fields
                /\ HasField(c, s.table, s.field) /\ ~HasField(want, s.table, s.field)
           /\ s.op = "removeIndex" =>
                /\ s.field \in IndexTexts
                /\ <<s.table, s.field>> \in IndexesOf(Introspect(c))
                /\ <<s.table, s.field>> \notin Indexed(want)
<1> DEFINE d == Changes(c, want)
           New(tfs)  == {tf \in tfs : tf[1] \in d.tablesAdded}
           Old(tfs)  == {tf \in tfs : tf[1] \notin d.tablesAdded}
           Kept(tfs) == {tf \in tfs : tf[1] \notin d.tablesRemoved}
           vectors   == {tf \in New(Tables \X Fields) : tf[2] \in want[tf[1]].vectorIndexes}
<1>0. /\ d.tablesAdded \subseteq Tables /\ d.tablesRemoved \subseteq Tables
      /\ d.fieldsAdded \subseteq Tables \X Fields /\ d.fieldsRemoved \subseteq Tables \X Fields
      /\ d.fieldsModified \subseteq Tables \X Fields /\ d.indexesAdded \subseteq Tables \X Fields
      /\ d.indexesRemoved \subseteq Tables \X IndexTexts
  BY ChangesTyped
<1> HIDE DEF d
<1>1. Fields \subseteq IndexTexts
  BY DEF IndexTexts
<1>2. ASSUME NEW x \in FieldDefinition PROVE DefinedField(x) \in DatabaseField
  BY <1>2 DEF DefinedField, DatabaseField, FieldDefinition, Types
<1>3. ASSUME NEW t \in Tables, NEW f \in Fields, HasField(want, t, f)
      PROVE  DefinedField(want[t].fields[f]) \in DatabaseField
  BY <1>2, <1>3 DEF HasField, Designs, TableStructure
<1>4. /\ \A t \in Tables :
            /\ t \in d.tablesAdded <=> c[t] = Absent /\ want[t] # Absent
            /\ t \in d.tablesRemoved <=> c[t] # Absent /\ want[t] = Absent
      /\ \A t \in Tables, f \in Fields :
            /\ <<t, f>> \in d.fieldsAdded <=> HasField(want, t, f) /\ ~HasField(c, t, f)
            /\ <<t, f>> \in d.fieldsRemoved <=> HasField(c, t, f) /\ ~HasField(want, t, f)
            /\ <<t, f>> \in d.fieldsModified => HasField(c, t, f) /\ HasField(want, t, f)
      /\ \A t \in Tables, x \in IndexTexts :
            /\ <<t, x>> \in d.indexesAdded => <<t, x>> \in Indexed(want)
            /\ <<t, x>> \in d.indexesRemoved =>
                 <<t, x>> \in IndexesOf(Introspect(c)) /\ <<t, x>> \notin Indexed(want)
  BY ChangesAre DEF d
<1>5. /\ \A t \in Tables, f \in Fields : HasField(want, t, f) => want[t] # Absent
      /\ \A t \in Tables, f \in Fields : HasField(c, t, f) => c[t] # Absent
      /\ \A t \in Tables, f \in Fields : <<t, f>> \in Indexed(want) => want[t] # Absent
      /\ \A t \in Tables, x \in IndexTexts : <<t, x>> \in IndexesOf(Introspect(c)) => c[t] # Absent
  BY IntrospectSees DEF HasField, Indexed, FieldsOf, IndexesOf
<1>6. \/ s \in OnTables("createTable", d.tablesAdded)
      \/ s \in Define("createField", want, New(d.fieldsAdded))
      \/ s \in On("createIndex", New(d.indexesAdded))
      \/ s \in On("createVector", vectors)
      \/ s \in Define("addField", want, Old(d.fieldsAdded))
      \/ s \in Define("modifyField", want, d.fieldsModified)
      \/ s \in On("addIndex", Old(d.indexesAdded))
      \/ s \in On("removeIndex", Kept(d.indexesRemoved))
      \/ s \in On("removeField", Kept(d.fieldsRemoved))
      \/ s \in OnTables("removeTable", d.tablesRemoved)
  BY DEF DDLFor, GenerateFromDiff, CreateTables, AlterTables, d
<1>7. ASSUME NEW ts \in SUBSET Tables, NEW op, s \in OnTables(op, ts)
      PROVE  s.op = op /\ s.table \in ts /\ s.field = Absent /\ s.def = Absent
             /\ s = [op |-> s.op, table |-> s.table, field |-> s.field, def |-> s.def]
  BY <1>7 DEF OnTables, Statement
<1>8. ASSUME NEW tfs \in SUBSET (Tables \X IndexTexts), NEW op, s \in On(op, tfs)
      PROVE  /\ s.op = op /\ <<s.table, s.field>> \in tfs /\ s.def = Absent
             /\ s = [op |-> s.op, table |-> s.table, field |-> s.field, def |-> s.def]
  BY <1>8 DEF On, Statement
<1>9. ASSUME NEW tfs \in SUBSET (Tables \X Fields), NEW op, s \in Define(op, want, tfs)
      PROVE  /\ s.op = op /\ <<s.table, s.field>> \in tfs
             /\ s.def = DefinedField(want[s.table].fields[s.field])
             /\ s = [op |-> s.op, table |-> s.table, field |-> s.field, def |-> s.def]
  BY <1>9 DEF Define, Statement
<1> USE DEF DefineOps, IndexOps
<1>11. CASE s \in OnTables("createTable", d.tablesAdded)
  <2>1. /\ s.op = "createTable" /\ s.table \in d.tablesAdded /\ s.field = Absent /\ s.def = Absent
        /\ s = [op |-> s.op, table |-> s.table, field |-> s.field, def |-> s.def]
    BY <1>0, <1>7, <1>11
  <2>2. s.table \in Tables
    BY <1>0, <2>1
  <2>3. s \in DDL
    BY <2>1, <2>2 DEF DDL
  <2>4. s = Statement("createTable", s.table, Absent, Absent)
    BY <2>1 DEF Statement
  <2> QED
    BY <1>4, <2>1, <2>2, <2>3, <2>4
<1>12. CASE s \in Define("createField", want, New(d.fieldsAdded))
  <2>1. /\ s.op = "createField" /\ <<s.table, s.field>> \in New(d.fieldsAdded)
        /\ s.def = DefinedField(want[s.table].fields[s.field])
        /\ s = [op |-> s.op, table |-> s.table, field |-> s.field, def |-> s.def]
    BY <1>0, <1>9, <1>12
  <2>2. s.table \in Tables /\ s.field \in Fields /\ HasField(want, s.table, s.field)
    BY <1>0, <1>4, <2>1
  <2>3. s \in DDL
    BY <1>1, <1>3, <2>1, <2>2 DEF DDL
  <2> QED
    BY <1>4, <2>1, <2>2, <2>3
<1>13. CASE s \in On("createIndex", New(d.indexesAdded))
  <2>1. /\ s.op = "createIndex" /\ <<s.table, s.field>> \in New(d.indexesAdded) /\ s.def = Absent
        /\ s = [op |-> s.op, table |-> s.table, field |-> s.field, def |-> s.def]
    BY <1>0, <1>1, <1>8, <1>13
  <2>2. s.table \in Tables /\ s.field \in Fields /\ s \in DDL
    BY <1>0, <1>1, <2>1 DEF DDL
  <2> QED
    BY <1>1, <1>4, <2>1, <2>2
<1>14. CASE s \in On("createVector", vectors)
  <2>1. /\ s.op = "createVector" /\ <<s.table, s.field>> \in vectors /\ s.def = Absent
        /\ s = [op |-> s.op, table |-> s.table, field |-> s.field, def |-> s.def]
    BY <1>1, <1>8, <1>14
  <2>2. s.table \in Tables /\ s.field \in Fields /\ s \in DDL
    BY <1>1, <2>1 DEF DDL
  <2> QED
    BY <1>4, <2>1, <2>2
<1>15. CASE s \in Define("addField", want, Old(d.fieldsAdded))
  <2>1. /\ s.op = "addField" /\ <<s.table, s.field>> \in Old(d.fieldsAdded)
        /\ s.def = DefinedField(want[s.table].fields[s.field])
        /\ s = [op |-> s.op, table |-> s.table, field |-> s.field, def |-> s.def]
    BY <1>0, <1>9, <1>15
  <2>2. s.table \in Tables /\ s.field \in Fields /\ HasField(want, s.table, s.field)
    BY <1>0, <1>4, <2>1
  <2>3. s \in DDL
    BY <1>1, <1>3, <2>1, <2>2 DEF DDL
  <2> QED
    BY <1>4, <1>5, <2>1, <2>2, <2>3
<1>16. CASE s \in Define("modifyField", want, d.fieldsModified)
  <2>1. /\ s.op = "modifyField" /\ <<s.table, s.field>> \in d.fieldsModified
        /\ s.def = DefinedField(want[s.table].fields[s.field])
        /\ s = [op |-> s.op, table |-> s.table, field |-> s.field, def |-> s.def]
    BY <1>0, <1>9, <1>16
  <2>2. /\ s.table \in Tables /\ s.field \in Fields
        /\ HasField(want, s.table, s.field) /\ HasField(c, s.table, s.field)
    BY <1>0, <1>4, <2>1
  <2>3. s \in DDL
    BY <1>1, <1>3, <2>1, <2>2 DEF DDL
  <2> QED
    BY <1>4, <1>5, <2>1, <2>2, <2>3
<1>17. CASE s \in On("addIndex", Old(d.indexesAdded))
  <2>1. /\ s.op = "addIndex" /\ <<s.table, s.field>> \in Old(d.indexesAdded) /\ s.def = Absent
        /\ s = [op |-> s.op, table |-> s.table, field |-> s.field, def |-> s.def]
    BY <1>0, <1>1, <1>8, <1>17
  <2>2. s.table \in Tables /\ s.field \in Fields /\ s \in DDL
    BY <1>0, <1>1, <2>1 DEF DDL
  <2> QED
    BY <1>1, <1>4, <1>5, <2>1, <2>2
<1>18. CASE s \in On("removeIndex", Kept(d.indexesRemoved))
  <2>1. /\ s.op = "removeIndex" /\ <<s.table, s.field>> \in Kept(d.indexesRemoved) /\ s.def = Absent
        /\ s = [op |-> s.op, table |-> s.table, field |-> s.field, def |-> s.def]
    BY <1>0, <1>8, <1>18
  <2>2. s.table \in Tables /\ s.field \in IndexTexts /\ s \in DDL
    BY <1>0, <2>1 DEF DDL
  <2> QED
    BY <1>4, <1>5, <2>1, <2>2
<1>19. CASE s \in On("removeField", Kept(d.fieldsRemoved))
  <2>1. /\ s.op = "removeField" /\ <<s.table, s.field>> \in Kept(d.fieldsRemoved) /\ s.def = Absent
        /\ s = [op |-> s.op, table |-> s.table, field |-> s.field, def |-> s.def]
    BY <1>0, <1>1, <1>8, <1>19
  <2>2. s.table \in Tables /\ s.field \in Fields /\ s \in DDL
    BY <1>0, <1>1, <2>1 DEF DDL
  <2> QED
    BY <1>4, <1>5, <2>1, <2>2
<1>20. CASE s \in OnTables("removeTable", d.tablesRemoved)
  <2>1. /\ s.op = "removeTable" /\ s.table \in d.tablesRemoved /\ s.field = Absent /\ s.def = Absent
        /\ s = [op |-> s.op, table |-> s.table, field |-> s.field, def |-> s.def]
    BY <1>0, <1>7, <1>20
  <2>2. s.table \in Tables
    BY <1>0, <2>1
  <2>3. s \in DDL
    BY <2>1, <2>2 DEF DDL
  <2> QED
    BY <1>4, <2>1, <2>2, <2>3
<1> QED
  BY <1>6, <1>11, <1>12, <1>13, <1>14, <1>15, <1>16, <1>17, <1>18, <1>19, <1>20


\* Which tables there are statements on.
LEMMA StatementOn ==
    ASSUME NEW c \in DatabaseTables, NEW want \in Designs, NEW s \in DDLFor(c, want)
    PROVE  /\ s.table \in Tables
           /\ s.op # "removeTable" => want[s.table] # Absent
           /\ c[s.table] = Absent =>
                s.op \in {"createTable", "createField", "createIndex", "createVector"}
<1>1. s \in DDL
  BY StatementIs
<1>2. s.op \in {"createTable", "createField", "createIndex", "createVector"} =>
         want[s.table] # Absent
  BY StatementIs
<1>3. s.op \in {"addField", "modifyField", "addIndex", "removeIndex", "removeField"} =>
         c[s.table] # Absent /\ want[s.table] # Absent
  BY StatementIs
<1>4. s.op = "removeTable" => c[s.table] # Absent
  BY StatementIs
<1> QED
  BY <1>1, <1>2, <1>3, <1>4 DEF DDL

\* And every change there is to make has its statement.
LEMMA StatementFor ==
    ASSUME NEW c \in DatabaseTables, NEW want \in Designs, NEW t \in Tables
    PROVE  LET G == DDLFor(c, want) IN
           /\ c[t] = Absent /\ want[t] # Absent => RanOn(G, "createTable", t)
           /\ c[t] # Absent /\ want[t] = Absent => RanOn(G, "removeTable", t)
           /\ want[t] # Absent => \A f \in Fields :
                /\ /\ HasField(want, t, f)
                   /\ \/ ~HasField(c, t, f)
                      \/ Modified(ReadField(c[t].fields[f]), want[t].fields[f])
                   => Ran(G, DefineOps, t, f)
                /\ HasField(c, t, f) /\ ~HasField(want, t, f) => Ran(G, {"removeField"}, t, f)
                /\ <<t, f>> \in Indexed(want) /\ <<t, f>> \notin IndexesOf(Introspect(c)) =>
                     Ran(G, IndexOps, t, f)
                /\ <<t, f>> \in IndexesOf(Introspect(c)) /\ <<t, f>> \notin Indexed(want) =>
                     Ran(G, {"removeIndex"}, t, f)
<1> DEFINE G == DDLFor(c, want)
           d == Changes(c, want)
           New(tfs)  == {tf \in tfs : tf[1] \in d.tablesAdded}
           Old(tfs)  == {tf \in tfs : tf[1] \notin d.tablesAdded}
           Rest(tfs) == {tf \in tfs : tf[1] \notin d.tablesRemoved}
<1>1. /\ t \in d.tablesAdded <=> c[t] = Absent /\ want[t] # Absent
      /\ t \in d.tablesRemoved <=> c[t] # Absent /\ want[t] = Absent
      /\ \A f \in Fields :
           /\ <<t, f>> \in d.fieldsAdded <=> HasField(want, t, f) /\ ~HasField(c, t, f)
           /\ <<t, f>> \in d.fieldsRemoved <=> HasField(c, t, f) /\ ~HasField(want, t, f)
           /\ <<t, f>> \in d.fieldsModified <=>
                /\ HasField(c, t, f) /\ HasField(want, t, f)
                /\ Modified(ReadField(c[t].fields[f]), want[t].fields[f])
           /\ <<t, f>> \in d.indexesAdded <=>
                <<t, f>> \in Indexed(want) /\ <<t, f>> \notin IndexesOf(Introspect(c))
           /\ <<t, f>> \in d.indexesRemoved <=>
                <<t, f>> \in IndexesOf(Introspect(c)) /\ <<t, f>> \notin Indexed(want)
  BY ChangesAre DEF IndexTexts
<1>2. /\ OnTables("createTable", d.tablesAdded) \subseteq G
      /\ Define("createField", want, New(d.fieldsAdded)) \subseteq G
      /\ On("createIndex", New(d.indexesAdded)) \subseteq G
      /\ Define("addField", want, Old(d.fieldsAdded)) \subseteq G
      /\ Define("modifyField", want, d.fieldsModified) \subseteq G
      /\ On("addIndex", Old(d.indexesAdded)) \subseteq G
      /\ On("removeIndex", Rest(d.indexesRemoved)) \subseteq G
      /\ On("removeField", Rest(d.fieldsRemoved)) \subseteq G
      /\ OnTables("removeTable", d.tablesRemoved) \subseteq G
  BY DEF DDLFor, GenerateFromDiff, CreateTables, AlterTables
<1> HIDE DEF d, G
<1>3. ASSUME NEW op, NEW ts, t \in ts, OnTables(op, ts) \subseteq G
      PROVE  RanOn(G, op, t)
  <2>1. Statement(op, t, Absent, Absent) \in G
    BY <1>3 DEF OnTables
  <2> QED
    BY <2>1 DEF RanOn, Statement
<1>4. ASSUME NEW op, NEW ops, op \in ops, NEW f, NEW tfs, <<t, f>> \in tfs,
             On(op, tfs) \subseteq G
      PROVE  Ran(G, ops, t, f)
  <2>1. Statement(op, t, f, Absent) \in G
    BY <1>4 DEF On
  <2> QED
    BY <1>4, <2>1 DEF Ran, Statement
<1>5. ASSUME NEW op \in DefineOps, NEW f, NEW tfs, <<t, f>> \in tfs,
             Define(op, want, tfs) \subseteq G
      PROVE  Ran(G, DefineOps, t, f)
  <2>1. Statement(op, t, f, DefinedField(want[t].fields[f])) \in G
    BY <1>5 DEF Define
  <2> QED
    BY <2>1 DEF Ran, Statement
<1>6. c[t] = Absent /\ want[t] # Absent => RanOn(G, "createTable", t)
  BY <1>1, <1>2, <1>3
<1>7. c[t] # Absent /\ want[t] = Absent => RanOn(G, "removeTable", t)
  BY <1>1, <1>2, <1>3
<1>8. ASSUME want[t] # Absent, NEW f \in Fields
      PROVE  /\ <<t, f>> \in d.fieldsAdded => Ran(G, DefineOps, t, f)
             /\ <<t, f>> \in d.fieldsModified => Ran(G, DefineOps, t, f)
             /\ <<t, f>> \in d.fieldsRemoved => Ran(G, {"removeField"}, t, f)
             /\ <<t, f>> \in d.indexesAdded => Ran(G, IndexOps, t, f)
             /\ <<t, f>> \in d.indexesRemoved => Ran(G, {"removeIndex"}, t, f)
  <2>0. {"createField", "addField", "modifyField"} \subseteq DefineOps
    BY DEF DefineOps
  <2>1. ASSUME <<t, f>> \in d.fieldsAdded PROVE Ran(G, DefineOps, t, f)
    <3>1. CASE t \in d.tablesAdded
      <4>1. <<t, f>> \in New(d.fieldsAdded)
        BY <2>1, <3>1
      <4> HIDE DEF New
      <4> QED
        BY <1>2, <1>5, <2>0, <4>1
    <3>2. CASE t \notin d.tablesAdded
      <4>1. <<t, f>> \in Old(d.fieldsAdded)
        BY <2>1, <3>2
      <4> HIDE DEF Old
      <4> QED
        BY <1>2, <1>5, <2>0, <4>1
    <3> QED
      BY <3>1, <3>2
  <2>2. <<t, f>> \in d.fieldsModified => Ran(G, DefineOps, t, f)
    BY <1>2, <1>5, <2>0
  <2>3. ASSUME <<t, f>> \in d.fieldsRemoved PROVE Ran(G, {"removeField"}, t, f)
    <3>1. <<t, f>> \in Rest(d.fieldsRemoved)
      BY <1>1, <1>8, <2>3
    <3> HIDE DEF Rest
    <3> QED
      BY <1>2, <1>4, <3>1
  <2>4. ASSUME <<t, f>> \in d.indexesAdded PROVE Ran(G, IndexOps, t, f)
    <3>0. "createIndex" \in IndexOps /\ "addIndex" \in IndexOps
      BY DEF IndexOps
    <3>1. CASE t \in d.tablesAdded
      <4>1. <<t, f>> \in New(d.indexesAdded)
        BY <2>4, <3>1
      <4> HIDE DEF New
      <4> QED
        BY <1>2, <1>4, <3>0, <4>1
    <3>2. CASE t \notin d.tablesAdded
      <4>1. <<t, f>> \in Old(d.indexesAdded)
        BY <2>4, <3>2
      <4> HIDE DEF Old
      <4> QED
        BY <1>2, <1>4, <3>0, <4>1
    <3> QED
      BY <3>1, <3>2
  <2>5. ASSUME <<t, f>> \in d.indexesRemoved PROVE Ran(G, {"removeIndex"}, t, f)
    <3>1. <<t, f>> \in Rest(d.indexesRemoved)
      BY <1>1, <1>8, <2>5
    <3> HIDE DEF Rest
    <3> QED
      BY <1>2, <1>4, <3>1
  <2> QED
    BY <2>1, <2>2, <2>3, <2>4, <2>5
<1> QED
  BY <1>1, <1>6, <1>7, <1>8 DEF G


-----------------------------------------------------------------------------
(* One statement                                                           *)

\* Statement s replaces its table by that one.
Puts(A, s, F, I, V) == Execute(A, s) = [A EXCEPT ![s.table] = TableOf(F, I, V)]

\* What a statement on a field or an index makes of its table.
LEMMA Executed ==
    ASSUME NEW A, NEW s, s.table \in DOMAIN A, NEW F, NEW I, NEW V,
           A[s.table] = TableOf(F, I, V)
    PROVE  /\ s.op \in DefineOps => Puts(A, s, [F EXCEPT ![s.field] = s.def], I, V)
           /\ s.op \in IndexOps => Puts(A, s, F, I \cup {s.field}, V)
           /\ s.op = "createVector" => Puts(A, s, F, I, V \cup {s.field})
           /\ s.op = "removeIndex" => Puts(A, s, F, I \ {s.field}, V)
           /\ s.op = "removeField" => Puts(A, s, [F EXCEPT ![s.field] = Absent], I, V)
<1>1. /\ A[s.table].fields = F /\ A[s.table].indexes = I /\ A[s.table].vectorIndexes = V
      /\ \A X : [TableOf(F, I, V) EXCEPT !.fields = X] = TableOf(X, I, V)
      /\ \A X : [TableOf(F, I, V) EXCEPT !.indexes = X] = TableOf(F, X, V)
      /\ \A X : [TableOf(F, I, V) EXCEPT !.vectorIndexes = X] = TableOf(F, I, X)
  BY DEF TableOf
<1>2. CASE s.op \in DefineOps
  <2>1. Execute(A, s) = [A EXCEPT ![s.table].fields[s.field] = s.def]
    BY <1>2 DEF Execute, DefineOps
  <2>2. [A[s.table] EXCEPT !.fields[s.field] = s.def] = TableOf([F EXCEPT ![s.field] = s.def], I, V)
    BY DEF TableOf
  <2> QED
    BY <1>2, <2>1, <2>2 DEF DefineOps, IndexOps, Puts
<1>3. CASE s.op \in IndexOps
  <2>1. Execute(A, s) = [A EXCEPT ![s.table].indexes = @ \cup {s.field}]
    BY <1>3 DEF Execute, IndexOps
  <2>2. [A[s.table] EXCEPT !.indexes = @ \cup {s.field}] = TableOf(F, I \cup {s.field}, V)
    BY DEF TableOf
  <2> QED
    BY <1>3, <2>1, <2>2 DEF DefineOps, IndexOps, Puts
<1>4. CASE s.op = "createVector"
  <2>1. Execute(A, s) = [A EXCEPT ![s.table].vectorIndexes = @ \cup {s.field}]
    BY <1>4 DEF Execute
  <2>2. [A[s.table] EXCEPT !.vectorIndexes = @ \cup {s.field}] = TableOf(F, I, V \cup {s.field})
    BY DEF TableOf
  <2> QED
    BY <1>4, <2>1, <2>2 DEF DefineOps, IndexOps, Puts
<1>5. CASE s.op = "removeIndex"
  <2>1. Execute(A, s) = [A EXCEPT ![s.table].indexes = @ \ {s.field}]
    BY <1>5 DEF Execute
  <2>2. [A[s.table] EXCEPT !.indexes = @ \ {s.field}] = TableOf(F, I \ {s.field}, V)
    BY DEF TableOf
  <2> QED
    BY <1>5, <2>1, <2>2 DEF DefineOps, IndexOps, Puts
<1>6. CASE s.op = "removeField"
  <2>1. Execute(A, s) = [A EXCEPT ![s.table].fields[s.field] = Absent]
    BY <1>6 DEF Execute
  <2>2. [A[s.table] EXCEPT !.fields[s.field] = Absent] = TableOf([F EXCEPT ![s.field] = Absent], I, V)
    BY DEF TableOf
  <2> QED
    BY <1>6, <2>1, <2>2 DEF DefineOps, IndexOps, Puts
<1> QED
  BY <1>2, <1>3, <1>4, <1>5, <1>6

\* What has run, with one statement more.
LEMMA OneMore ==
    ASSUME NEW done, NEW s
    PROVE  /\ \A ops, t, f : Ran(done \cup {s}, ops, t, f) <=>
                Ran(done, ops, t, f) \/ (s.op \in ops /\ s.table = t /\ s.field = f)
           /\ \A op, t : RanOn(done \cup {s}, op, t) <=>
                RanOn(done, op, t) \/ (s.op = op /\ s.table = t)
BY DEF Ran, RanOn

\* On a new table the statement that comes next is the one that creates it,
\* or finds it created.
LEMMA TableFirst ==
    ASSUME NEW c \in DatabaseTables, NEW want \in Designs,
           NEW done \in SUBSET DDLFor(c, want), CreatedFirst(c, done),
           NEW s \in DDLFor(c, want) \ done, IsNext(s, DDLFor(c, want) \ done)
    PROVE  /\ c[s.table] = Absent /\ s.op # "createTable" =>
                RanOn(done, "createTable", s.table)
           /\ s.op = "createTable" => \A r \in done : r.table # s.table
           /\ CreatedFirst(c, done \cup {s})
<1> DEFINE G == DDLFor(c, want)
<1>1. ASSUME c[s.table] = Absent, s.op # "createTable"
      PROVE  RanOn(done, "createTable", s.table)
  <2>1. s \in DDL /\ s.op \in {"createField", "createIndex", "createVector"}
        /\ want[s.table] # Absent
    <3>1. s \in DDL
      BY StatementIs
    <3> QED
      BY <1>1, <3>1, StatementOn
  <2>2. PICK r \in G : r.op = "createTable" /\ r.table = s.table
    <3>1. s.table \in Tables
      BY <2>1 DEF DDL
    <3>2. RanOn(G, "createTable", s.table)
      BY <1>1, <2>1, <3>1, StatementFor
    <3> QED
      BY <3>2 DEF RanOn
  <2>3. Phase(r) = 0 /\ Phase(s) \in {1, 2, 3}
    BY <2>1, <2>2 DEF Phase
  <2>4. r \notin G \ done
    BY <2>2, <2>3 DEF IsNext
  <2> QED
    BY <2>2, <2>4 DEF RanOn
<1>2. ASSUME s.op = "createTable", NEW r \in done PROVE r.table # s.table
  <2>1. SUFFICES ASSUME r.table = s.table PROVE FALSE
    OBVIOUS
  <2>2. c[r.table] = Absent
    <3>1. c[s.table] = Absent
      BY <1>2, StatementIs
    <3> QED
      BY <2>1, <3>1
  <2>3. PICK q \in done : q.op = "createTable" /\ q.table = s.table
    BY <2>1, <2>2 DEF CreatedFirst, RanOn
  <2>4. q = Statement("createTable", s.table, Absent, Absent)
    BY <2>3, StatementIs
  <2>5. s = Statement("createTable", s.table, Absent, Absent)
    BY <1>2, StatementIs
  <2> QED
    BY <2>4, <2>5
<1>3. CreatedFirst(c, done \cup {s})
  BY <1>1, OneMore DEF CreatedFirst
<1> QED
  BY <1>1, <1>2, <1>3


\* Executing the next statement on what the earlier ones made.
THEOREM StepApplies ==
    ASSUME NEW c \in DatabaseTables, NEW want \in Designs,
           NEW done \in SUBSET DDLFor(c, want), CreatedFirst(c, done),
           NEW s \in DDLFor(c, want) \ done, IsNext(s, DDLFor(c, want) \ done), ~Invalid(s)
    PROVE  Execute(Applied(c, want, done), s) = Applied(c, want, done \cup {s})
<1> DEFINE A == Applied(c, want, done)
           B == Applied(c, want, done \cup {s})
           t == s.table
           g == s.field
           F == FieldsNow(c, want, done, t)
           I == IndexesNow(c, done, t)
           V == VectorsNow(c, done, t)
           F2 == FieldsNow(c, want, done \cup {s}, t)
           I2 == IndexesNow(c, done \cup {s}, t)
           V2 == VectorsNow(c, done \cup {s}, t)
<1>1. /\ DOMAIN A = Tables /\ DOMAIN B = Tables
      /\ A = [x \in Tables |-> A[x]] /\ B = [x \in Tables |-> B[x]]
      /\ t \in Tables
  BY StatementIs DEF Applied, DDL
<1>2. ASSUME NEW x \in Tables, x # t PROVE B[x] = A[x]
  <2>1. Exists(c, done \cup {s}, x) <=> Exists(c, done, x)
    BY <1>2, OneMore DEF Exists
  <2>2. /\ FieldsNow(c, want, done \cup {s}, x) = FieldsNow(c, want, done, x)
        /\ IndexesNow(c, done \cup {s}, x) = IndexesNow(c, done, x)
        /\ VectorsNow(c, done \cup {s}, x) = VectorsNow(c, done, x)
    <3>1. \A ops, f : Ran(done \cup {s}, ops, x, f) <=> Ran(done, ops, x, f)
      BY <1>2, OneMore
    <3> QED
      BY <3>1 DEF FieldsNow, FieldNow, IndexesNow, VectorsNow
  <2> QED
    BY <2>1, <2>2 DEF Applied, TableNow
<1>3. SUFFICES Execute(A, s) = [A EXCEPT ![t] = B[t]]
  <2>1. ASSUME Execute(A, s) = [A EXCEPT ![t] = B[t]] PROVE Execute(A, s) = B
    <3> HIDE DEF A, B, t
    <3> QED
      BY <1>1, <1>2, <2>1
  <2> QED
    BY <2>1
<1>4. CASE s.op = "createTable"
  <2>1. c[t] = Absent /\ want[t] # Absent
    BY <1>4, StatementIs
  <2>2. \A ops, f : ~Ran(done, ops, t, f)
    BY <1>4, TableFirst DEF Ran
  <2>0. s.op \notin DefineOps \cup IndexOps \cup {"removeField", "removeIndex", "createVector"}
    BY <1>4 DEF DefineOps, IndexOps
  <2>3. \A f : /\ ~Ran(done \cup {s}, DefineOps, t, f)
               /\ ~Ran(done \cup {s}, {"removeField"}, t, f)
               /\ ~Ran(done \cup {s}, IndexOps, t, f)
               /\ ~Ran(done \cup {s}, {"removeIndex"}, t, f)
               /\ ~Ran(done \cup {s}, {"createVector"}, t, f)
    <3>1. ASSUME NEW f, NEW ops, s.op \notin ops PROVE ~Ran(done \cup {s}, ops, t, f)
      BY <3>1, <2>2, OneMore
    <3> QED
      BY <2>0, <3>1
  <2>4. /\ F2 = [f \in Fields |-> Absent] /\ I2 = {} /\ V2 = {}
    BY <2>1, <2>3 DEF FieldsNow, FieldNow, IndexesNow, VectorsNow, Base, NewTable
  <2>5. B[t] = TableOf(F2, I2, V2)
    <3>1. Exists(c, done \cup {s}, t)
      BY <1>4, <2>1, OneMore DEF Exists
    <3> QED
      BY <1>1, <3>1 DEF Applied, TableNow
  <2>6. B[t] = NewTable
    BY <2>4, <2>5 DEF TableOf, NewTable
  <2> QED
    BY <1>4, <2>6 DEF Execute
<1>5. CASE s.op = "removeTable"
  <2>1. ~Exists(c, done \cup {s}, t)
    BY <1>5, StatementIs, OneMore DEF Exists
  <2>2. B[t] = Absent
    BY <1>1, <2>1 DEF Applied
  <2> QED
    BY <1>5, <2>2 DEF Execute
<1>6. CASE s.op \notin {"createTable", "removeTable"}
  <2>1. Exists(c, done, t) /\ Exists(c, done \cup {s}, t)
    <3>1. CASE c[t] = Absent
      BY <1>6, <3>1, TableFirst, OneMore DEF Exists
    <3>2. CASE c[t] # Absent
      <4>1. want[t] # Absent
        BY <1>6, StatementOn
      <4>2. ~RanOn(done, "removeTable", t)
        <5>1. ASSUME NEW r \in done, r.op = "removeTable" PROVE want[r.table] = Absent
          BY <5>1, StatementIs
        <5> HIDE DEF t
        <5> QED
          BY <4>1, <5>1 DEF RanOn
      <4> QED
        BY <1>6, <3>2, <4>2, OneMore DEF Exists
    <3> QED
      BY <3>1, <3>2
  <2>2. A[t] = TableOf(F, I, V) /\ B[t] = TableOf(F2, I2, V2)
    BY <1>1, <2>1 DEF Applied, TableNow
  <2>3. /\ s \in DDL /\ g \in Fields
        /\ s.op \in DefineOps => /\ HasField(want, t, g) /\ s.def = DefinedField(want[t].fields[g])
        /\ s.op \in IndexOps => <<t, g>> \in Indexed(want)
        /\ s.op = "removeField" => ~HasField(want, t, g)
    BY <1>6, StatementIs DEF DDL, Invalid, DefineOps, IndexOps
  <2>10. /\ s.op \in DefineOps => Puts(A, s, [F EXCEPT ![s.field] = s.def], I, V)
         /\ s.op \in IndexOps => Puts(A, s, F, I \cup {s.field}, V)
         /\ s.op = "createVector" => Puts(A, s, F, I, V \cup {s.field})
         /\ s.op = "removeIndex" => Puts(A, s, F, I \ {s.field}, V)
         /\ s.op = "removeField" => Puts(A, s, [F EXCEPT ![s.field] = Absent], I, V)
    <3> HIDE DEF F, I, V, F2, I2, V2, A, B
    <3>1. s.table \in DOMAIN A /\ A[s.table] = TableOf(F, I, V)
      BY <1>1, <2>2
    <3> QED
      BY <3>1, Executed
  <2>4. \A ops, f : Ran(done \cup {s}, ops, t, f) <=> Ran(done, ops, t, f) \/ (s.op \in ops /\ f = g)
    BY OneMore
  <2>5. CASE s.op \in DefineOps
    <3>1. F2 = [F EXCEPT ![g] = s.def]
      BY <2>3, <2>4, <2>5 DEF FieldsNow, FieldNow, DefineOps
    <3>2. I2 = I /\ V2 = V
      BY <2>4, <2>5 DEF IndexesNow, VectorsNow, DefineOps, IndexOps
    <3> HIDE DEF F, I, V, F2, I2, V2, A, B, t, g
    <3>3. Execute(A, s) = [A EXCEPT ![t] = TableOf([F EXCEPT ![g] = s.def], I, V)]
      BY <2>5, <2>10 DEF Puts, t, g
    <3> QED
      BY <2>2, <3>1, <3>2, <3>3
  <2>6. CASE s.op \in IndexOps
    <3>1. F2 = F /\ V2 = V
      BY <2>4, <2>6 DEF FieldsNow, FieldNow, VectorsNow, DefineOps, IndexOps
    <3>2. ~Ran(done, {"removeIndex"}, t, g)
      BY <2>3, <2>6, StatementIs DEF Ran
    <3>3. I2 = I \cup {g}
      BY <2>3, <2>4, <2>6, <3>2 DEF IndexesNow, IndexOps
    <3> HIDE DEF F, I, V, F2, I2, V2, A, B, t, g
    <3>4. Execute(A, s) = [A EXCEPT ![t] = TableOf(F, I \cup {g}, V)]
      BY <2>6, <2>10 DEF Puts, t, g
    <3> QED
      BY <2>2, <3>1, <3>3, <3>4
  <2>7. CASE s.op = "createVector"
    <3>1. F2 = F /\ I2 = I
      BY <2>4, <2>7 DEF FieldsNow, FieldNow, IndexesNow, DefineOps, IndexOps
    <3>2. V2 = V \cup {g}
      BY <2>3, <2>4, <2>7 DEF VectorsNow
    <3> HIDE DEF F, I, V, F2, I2, V2, A, B, t, g
    <3>3. Execute(A, s) = [A EXCEPT ![t] = TableOf(F, I, V \cup {g})]
      BY <2>7, <2>10 DEF Puts, t, g
    <3> QED
      BY <2>2, <3>1, <3>2, <3>3
  <2>8. CASE s.op = "removeIndex"
    <3>1. F2 = F /\ V2 = V
      BY <2>4, <2>8 DEF FieldsNow, FieldNow, VectorsNow, DefineOps
    <3>2. I2 = I \ {g}
      BY <2>3, <2>4, <2>8 DEF IndexesNow, IndexOps
    <3> HIDE DEF F, I, V, F2, I2, V2, A, B, t, g
    <3>3. Execute(A, s) = [A EXCEPT ![t] = TableOf(F, I \ {g}, V)]
      BY <2>8, <2>10 DEF Puts, t, g
    <3> QED
      BY <2>2, <3>1, <3>2, <3>3
  <2>9. CASE s.op = "removeField"
    <3>1. I2 = I /\ V2 = V
      BY <2>4, <2>9 DEF IndexesNow, VectorsNow, IndexOps
    <3>2. ~Ran(done, DefineOps, t, g)
      BY <2>3, <2>9, StatementIs DEF Ran
    <3>3. F2 = [F EXCEPT ![g] = Absent]
      BY <2>3, <2>4, <2>9, <3>2 DEF FieldsNow, FieldNow, DefineOps
    <3> HIDE DEF F, I, V, F2, I2, V2, A, B, t, g
    <3>4. Execute(A, s) = [A EXCEPT ![t] = TableOf([F EXCEPT ![g] = Absent], I, V)]
      BY <2>9, <2>10 DEF Puts, t, g
    <3> QED
      BY <2>2, <3>1, <3>3, <3>4
  <2> QED
    BY <1>6, <2>3, <2>5, <2>6, <2>7, <2>8, <2>9 DEF DDL, DefineOps, IndexOps
<1> QED
  BY <1>4, <1>5, <1>6


-----------------------------------------------------------------------------
(* All the statements                                                      *)

\* Before the first statement there is the database as it was.
LEMMA AppliedNothing ==
    ASSUME NEW c \in DatabaseTables, NEW want
    PROVE  Applied(c, want, {}) = c /\ CreatedFirst(c, {})
<1>1. ASSUME NEW t \in Tables
      PROVE  /\ \A ops, f : ~Ran({}, ops, t, f)
             /\ \A op : ~RanOn({}, op, t)
  BY DEF Ran, RanOn
<1>2. ASSUME NEW t \in Tables, c[t] # Absent
      PROVE  TableNow(c, want, {}, t) = c[t]
  <2>1. c[t] \in DatabaseTable
    BY <1>2 DEF DatabaseTables
  <2>2. FieldsNow(c, want, {}, t) = c[t].fields
    BY <1>1, <1>2, <2>1 DEF FieldsNow, FieldNow, Base, DatabaseTable
  <2>3. IndexesNow(c, {}, t) = c[t].indexes /\ VectorsNow(c, {}, t) = c[t].vectorIndexes
    BY <1>1, <1>2, <2>1 DEF IndexesNow, VectorsNow, Base, DatabaseTable
  <2>4. c[t] = TableOf(c[t].fields, c[t].indexes, c[t].vectorIndexes)
    BY <2>1 DEF DatabaseTable, TableOf
  <2> QED
    BY <2>2, <2>3, <2>4 DEF TableNow
<1>3. ASSUME NEW t \in Tables PROVE Applied(c, want, {})[t] = c[t]
  BY <1>1, <1>2 DEF Applied, Exists
<1>4. DOMAIN Applied(c, want, {}) = Tables /\ c = [t \in Tables |-> c[t]]
      /\ Applied(c, want, {}) = [t \in Tables |-> Applied(c, want, {})[t]]
  BY DEF Applied, DatabaseTables
<1> QED
  BY <1>3, <1>4 DEF CreatedFirst

\* The field a design describes is one a database can have.
LEMMA DefinedTyped ==
    ASSUME NEW want \in Designs, NEW t \in Tables, NEW f \in Fields, HasField(want, t, f)
    PROVE  /\ want[t].fields[f] \in FieldDefinition
           /\ DefinedField(want[t].fields[f]) \in DatabaseField
<1>1. want[t].fields[f] \in FieldDefinition
  BY DEF HasField, Designs, TableStructure
<1>2. ASSUME NEW x \in FieldDefinition PROVE DefinedField(x) \in DatabaseField
  BY <1>2 DEF DefinedField, DatabaseField, FieldDefinition, Types
<1> QED
  BY <1>1, <1>2

\* Statements make a database of a database.
LEMMA AppliedTyped ==
    ASSUME NEW c \in DatabaseTables, NEW want \in Designs, NEW done \in SUBSET DDLFor(c, want)
    PROVE  /\ Applied(c, want, done) \in DatabaseTables
           /\ \A t \in Tables : TableNow(c, want, done, t) \in DatabaseTable
<1>1. ASSUME NEW t \in Tables PROVE Base(c, t) \in DatabaseTable
  BY DEF Base, NewTable, DatabaseTables, DatabaseTable
<1>2. ASSUME NEW t \in Tables, NEW f \in Fields
      PROVE  FieldNow(c, want, done, t, f) \in DatabaseField \cup {Absent}
  <2>1. ASSUME Ran(done, DefineOps, t, f) PROVE DefinedField(want[t].fields[f]) \in DatabaseField
    <3>1. PICK s \in done : s.op \in DefineOps /\ s.table = t /\ s.field = f
      BY <2>1 DEF Ran
    <3>2. HasField(want, t, f)
      BY <3>1, StatementIs
    <3> QED
      BY <3>2, DefinedTyped
  <2>2. Base(c, t).fields[f] \in DatabaseField \cup {Absent}
    BY <1>1 DEF DatabaseTable
  <2> QED
    BY <2>1, <2>2 DEF FieldNow
<1>3. ASSUME NEW t \in Tables PROVE TableNow(c, want, done, t) \in DatabaseTable
  <2>1. FieldsNow(c, want, done, t) \in [Fields -> DatabaseField \cup {Absent}]
    BY <1>2 DEF FieldsNow
  <2>2. IndexesNow(c, done, t) \in SUBSET Fields /\ VectorsNow(c, done, t) \in SUBSET Fields
    BY DEF IndexesNow, VectorsNow
  <2> QED
    BY <2>1, <2>2 DEF TableNow, TableOf, DatabaseTable
<1> QED
  BY <1>3 DEF Applied, DatabaseTables

\* In a change that is not destructive, what is there after some statements is
\* there after more, with its type, and optional if it was.
THEOREM NothingDestroyed ==
    ASSUME NEW c \in DatabaseTables, NEW want \in Designs, ~Changes(c, want).destructive,
           NEW more \in SUBSET DDLFor(c, want), NEW done \in SUBSET more,
           NEW t \in Tables, Applied(c, want, done)[t] # Absent
    PROVE  LET A == Applied(c, want, done)
               B == Applied(c, want, more)
           IN /\ B[t] # Absent
              /\ \A f \in Fields : A[t].fields[f] # Absent =>
                    /\ B[t].fields[f] # Absent
                    /\ B[t].fields[f].type = A[t].fields[f].type
                    /\ A[t].fields[f].optional => B[t].fields[f].optional
<1> DEFINE cur == Introspect(c)
<1>1. /\ Present(cur) \ Present(want) = {}
      /\ FieldsOf(cur) \ FieldsOf(want) = {}
      /\ \A tf \in FieldsOf(cur) \cap FieldsOf(want) :
            LET old == cur[tf[1]].fields[tf[2]]
                new == want[tf[1]].fields[tf[2]]
            IN Modified(old, new) => ~DestructiveModification(old, new)
  BY DEF Changes, Diff
<1>2. c[t] # Absent => want[t] # Absent
  BY <1>1, IntrospectSees DEF Present, Snapshots, Designs
<1>3. ASSUME NEW f \in Fields, HasField(c, t, f)
      PROVE  /\ HasField(want, t, f)
             /\ LET old == ReadField(c[t].fields[f])
                    new == want[t].fields[f]
                IN Modified(old, new) => ~DestructiveModification(old, new)
  <2>1. cur[t] # Absent /\ cur[t].fields[f] = ReadField(c[t].fields[f])
        /\ cur[t].fields[f] # Absent
    BY <1>3, IntrospectSees DEF HasField
  <2> HIDE DEF cur
  <2>2. <<t, f>> \in FieldsOf(cur)
    BY <2>1 DEF FieldsOf
  <2>3. <<t, f>> \in FieldsOf(want)
    BY <1>1, <2>2
  <2>4. HasField(want, t, f)
    BY <2>3 DEF FieldsOf, HasField
  <2> QED
    BY <1>1, <2>1, <2>2, <2>3, <2>4
<1>4. Exists(c, done, t) /\ Exists(c, more, t)
  <2>1. Exists(c, done, t)
    BY DEF Applied
  <2>2. RanOn(done, "createTable", t) => RanOn(more, "createTable", t)
    BY DEF RanOn
  <2>3. ASSUME NEW s \in more, s.op = "removeTable" PROVE want[s.table] = Absent
    BY <2>3, StatementIs
  <2>4. c[t] # Absent => ~RanOn(more, "removeTable", t)
    BY <1>2, <2>3 DEF RanOn
  <2> QED
    BY <2>1, <2>2, <2>4 DEF Exists
<1>5. /\ Applied(c, want, done)[t] = TableNow(c, want, done, t)
      /\ Applied(c, want, more)[t] = TableNow(c, want, more, t)
  BY <1>4 DEF Applied
<1>6. ASSUME NEW f \in Fields, HasField(c, t, f)
      PROVE  LET old == c[t].fields[f]
                 new == FieldNow(c, want, more, t, f)
             IN new # Absent /\ new.type = old.type /\ (old.optional => new.optional)
  <2> DEFINE old == c[t].fields[f]
             new == want[t].fields[f]
  <2>1. old \in DatabaseField /\ new \in FieldDefinition
        /\ DefinedField(new) \in DatabaseField
    BY <1>3, <1>6, DefinedTyped DEF HasField, DatabaseTables, DatabaseTable
  <2>2. ReadField(old).type = new.type /\ (ReadField(old).optional => new.optional)
    BY <1>3, <1>6, <2>1 DEF Modified, DestructiveModification, TypeChanged, FieldDefinition,
          DatabaseField, ReadField
  <2>3. /\ DefinedField(new).type = old.type
        /\ old.optional => DefinedField(new).optional
    <3> HIDE DEF old, new
    <3>1. old.type \in Types \ {"object"} /\ new.type \in Types
      BY <2>1 DEF DatabaseField, FieldDefinition
    <3>2. old.type # "sized" /\ new.type = old.type
      BY <2>2, <3>1 DEF ReadField, ReadType, Types
    <3> QED
      BY <2>1, <2>2, <3>1, <3>2 DEF ReadField, DefinedField, DatabaseField, FieldDefinition
  <2>4. ~Ran(more, {"removeField"}, t, f)
    BY <1>3, <1>6, StatementIs DEF Ran
  <2>5. DefinedField(new) # Absent /\ old # Absent /\ Base(c, t).fields[f] = old
    BY <1>6, <2>1, AbsentAssumption DEF Base, HasField
  <2> HIDE DEF old, new
  <2>6. FieldNow(c, want, more, t, f) = DefinedField(new) \/ FieldNow(c, want, more, t, f) = old
    BY <2>4, <2>5 DEF FieldNow, new
  <2> QED
    BY <2>3, <2>5, <2>6 DEF old
<1>7. ASSUME NEW f \in Fields, FieldNow(c, want, done, t, f) # Absent
      PROVE  LET old == FieldNow(c, want, done, t, f)
                 new == FieldNow(c, want, more, t, f)
             IN new # Absent /\ new.type = old.type /\ (old.optional => new.optional)
  <2>1. CASE Ran(done, DefineOps, t, f)
    <3>1. Ran(more, DefineOps, t, f)
      BY <2>1 DEF Ran
    <3>2. FieldNow(c, want, more, t, f) = FieldNow(c, want, done, t, f)
      BY <2>1, <3>1 DEF FieldNow
    <3> QED
      BY <1>7, <3>2
  <2>2. CASE ~Ran(done, DefineOps, t, f)
    <3>1. FieldNow(c, want, done, t, f) = Base(c, t).fields[f]
      BY <1>7, <2>2 DEF FieldNow
    <3>2. HasField(c, t, f) /\ FieldNow(c, want, done, t, f) = c[t].fields[f]
      BY <1>7, <3>1 DEF Base, NewTable, HasField
    <3> QED
      BY <1>6, <3>2
  <2> QED
    BY <2>1, <2>2
<1>8. /\ \A f \in Fields : TableNow(c, want, done, t).fields[f] = FieldNow(c, want, done, t, f)
      /\ \A f \in Fields : TableNow(c, want, more, t).fields[f] = FieldNow(c, want, more, t, f)
  BY DEF TableNow, TableOf, FieldsNow
<1>9. TableNow(c, want, more, t) # Absent
  BY AppliedTyped, AbsentAssumption
<1> QED
  BY <1>5, <1>7, <1>8, <1>9


\* A design that is read back as it was written.
SettledDesign(want) ==
    \A t \in Tables : want[t] # Absent =>
        /\ want[t].vectorIndexes = {}
        /\ \A f \in Fields : want[t].fields[f] # Absent =>
              /\ want[t].fields[f].type \in {"string", "int", "any"}
              /\ want[t].fields[f].default.kind # "text"

NoVectors(c) == \A t \in Tables : c[t] # Absent => c[t].vectorIndexes = {}

\* Of a settled field nothing is lost on the way through the database.
LEMMA ReadAsWritten ==
    ASSUME NEW x \in FieldDefinition, x.type \in {"string", "int", "any"},
           x.default.kind # "text"
    PROVE  ~Modified(ReadField(DefinedField(x)), x)
<1>1. /\ DefinedField(x).type = x.type /\ DefinedField(x).optional = x.optional
      /\ DefinedField(x).assert = x.assert /\ DefinedField(x).default = x.default
  BY DEF DefinedField
<1> HIDE DEF DefinedField
<1>2. /\ ReadField(DefinedField(x)).type = x.type
      /\ ReadField(DefinedField(x)).optional = x.optional
      /\ ReadField(DefinedField(x)).assert = x.assert
      /\ ReadField(DefinedField(x)).default = x.default
  BY <1>1 DEF ReadField, ReadType, ReadDefault, FieldDefinition
<1> QED
  BY <1>2 DEF Modified, TypeChanged

\* All statements together make of the database what the design asks for: the
\* next difference is empty.
THEOREM AllApplied ==
    ASSUME NEW c \in DatabaseTables, NoVectors(c), NEW want \in Designs, SettledDesign(want)
    PROVE  LET A == Applied(c, want, DDLFor(c, want))
           IN NoVectors(A) /\ ~HasChanges(Changes(A, want))
<1> DEFINE G == DDLFor(c, want)
           A == Applied(c, want, G)
<1>1. A \in DatabaseTables
  BY AppliedTyped
<1>2. ASSUME NEW t \in Tables PROVE A[t] # Absent <=> want[t] # Absent
  <2>1. A[t] # Absent <=> Exists(c, G, t)
    BY AppliedTyped, AbsentAssumption DEF Applied
  <2>2. ASSUME NEW s \in G
        PROVE  /\ s.op = "createTable" => want[s.table] # Absent
               /\ s.op = "removeTable" => want[s.table] = Absent
    BY StatementIs
  <2>3. /\ RanOn(G, "createTable", t) => want[t] # Absent
        /\ RanOn(G, "removeTable", t) => want[t] = Absent
    BY <2>2 DEF RanOn
  <2>4. /\ c[t] = Absent /\ want[t] # Absent => RanOn(G, "createTable", t)
        /\ c[t] # Absent /\ want[t] = Absent => RanOn(G, "removeTable", t)
    BY StatementFor
  <2> HIDE DEF A, G
  <2> QED
    BY <2>1, <2>3, <2>4 DEF Exists
<1>3. ASSUME NEW t \in Tables, want[t] # Absent
      PROVE  A[t] = TableNow(c, want, G, t) /\ A[t].vectorIndexes = {}
  <2>1. A[t] = TableNow(c, want, G, t)
    BY <1>2, <1>3 DEF Applied
  <2>2. ASSUME NEW s \in G, s.op = "createVector", s.table = t PROVE FALSE
    <3>1. s.field \in want[t].vectorIndexes
      BY <2>2, StatementIs
    <3> QED
      BY <1>3, <3>1 DEF SettledDesign
  <2>3. \A f : ~Ran(G, {"createVector"}, t, f)
    BY <2>2 DEF Ran
  <2>4. Base(c, t).vectorIndexes = {}
    BY DEF Base, NewTable, NoVectors
  <2>5. VectorsNow(c, G, t) = {}
    BY <2>3, <2>4 DEF VectorsNow
  <2> HIDE DEF A, G
  <2> QED
    BY <2>1, <2>5 DEF TableNow, TableOf
<1>4. NoVectors(A)
  BY <1>2, <1>3 DEF NoVectors
<1>5. ASSUME NEW t \in Tables, NEW f \in Fields
      PROVE  /\ HasField(A, t, f) <=> HasField(want, t, f)
             /\ HasField(want, t, f) =>
                  ~Modified(ReadField(A[t].fields[f]), want[t].fields[f])
  <2>1. CASE want[t] = Absent
    BY <1>2, <2>1 DEF HasField
  <2>2. CASE want[t] # Absent
    <3>1. A[t] # Absent /\ A[t].fields[f] = FieldNow(c, want, G, t, f)
      <4>1. A[t] # Absent /\ A[t] = TableNow(c, want, G, t)
        BY <1>2, <1>3, <2>2
      <4> HIDE DEF A, G
      <4> QED
        BY <4>1 DEF TableNow, TableOf, FieldsNow
    <3>2. ASSUME Ran(G, DefineOps, t, f) PROVE HasField(want, t, f)
      <4>1. PICK s \in G : s.op \in DefineOps /\ s.table = t /\ s.field = f
        BY <3>2 DEF Ran
      <4> QED
        BY <4>1, StatementIs
    <3>3. ASSUME Ran(G, {"removeField"}, t, f) PROVE ~HasField(want, t, f)
      <4>1. PICK s \in G : s.op = "removeField" /\ s.table = t /\ s.field = f
        BY <3>3 DEF Ran
      <4> QED
        BY <4>1, StatementIs
    <3>4. /\ /\ HasField(want, t, f)
             /\ \/ ~HasField(c, t, f)
                \/ Modified(ReadField(c[t].fields[f]), want[t].fields[f])
             => Ran(G, DefineOps, t, f)
          /\ HasField(c, t, f) /\ ~HasField(want, t, f) => Ran(G, {"removeField"}, t, f)
      BY <2>2, StatementFor
    <3>5. CASE Ran(G, DefineOps, t, f)
      <4>1. FieldNow(c, want, G, t, f) = DefinedField(want[t].fields[f])
        BY <3>5 DEF FieldNow
      <4>2. HasField(want, t, f)
        BY <3>2, <3>5
      <4>3. /\ want[t].fields[f] \in FieldDefinition
            /\ DefinedField(want[t].fields[f]) # Absent
        BY <4>2, DefinedTyped, AbsentAssumption
      <4>4. ~Modified(ReadField(DefinedField(want[t].fields[f])), want[t].fields[f])
        BY <2>2, <4>2, <4>3, ReadAsWritten DEF SettledDesign, HasField
      <4> HIDE DEF A, G
      <4> QED
        BY <3>1, <4>1, <4>2, <4>3, <4>4 DEF HasField
    <3>6. CASE ~Ran(G, DefineOps, t, f) /\ HasField(want, t, f)
      <4>1. HasField(c, t, f) /\ ~Modified(ReadField(c[t].fields[f]), want[t].fields[f])
        BY <3>4, <3>6
      <4>2. FieldNow(c, want, G, t, f) = c[t].fields[f]
        BY <3>3, <3>6, <4>1 DEF FieldNow, Base, HasField
      <4> HIDE DEF A, G
      <4> QED
        BY <3>1, <3>6, <4>1, <4>2 DEF HasField
    <3>7. CASE ~Ran(G, DefineOps, t, f) /\ ~HasField(want, t, f)
      <4>1. FieldNow(c, want, G, t, f) = Absent
        <5>1. CASE HasField(c, t, f)
          BY <3>4, <3>7, <5>1 DEF FieldNow
        <5>2. CASE ~HasField(c, t, f)
          BY <3>7, <5>2 DEF FieldNow, Base, NewTable, HasField
        <5> QED
          BY <5>1, <5>2
      <4> HIDE DEF A, G
      <4> QED
        BY <3>1, <3>7, <4>1 DEF HasField
    <3> QED
      BY <3>5, <3>6, <3>7
  <2> QED
    BY <2>1, <2>2
<1>6. ASSUME NEW t \in Tables, NEW x \in IndexTexts
      PROVE  <<t, x>> \in IndexesOf(Introspect(A)) <=> <<t, x>> \in Indexed(want)
  <2>1. <<t, x>> \in IndexesOf(Introspect(A)) <=> A[t] # Absent /\ x \in A[t].indexes
    <3>1. /\ Introspect(A)[t] = Absent <=> A[t] = Absent
          /\ A[t] # Absent => Introspect(A)[t].indexed =
                A[t].indexes \cup {VectorText(f) : f \in A[t].vectorIndexes}
      BY <1>1, IntrospectSees
    <3>2. A[t] # Absent => A[t].vectorIndexes = {}
      BY <1>4 DEF NoVectors
    <3> HIDE DEF A
    <3> QED
      BY <3>1, <3>2 DEF IndexesOf
  <2>2. <<t, x>> \in Indexed(want) => want[t] # Absent /\ x \in Fields
    BY DEF Indexed, FieldsOf
  <2>3. CASE want[t] = Absent
    BY <1>2, <2>1, <2>2, <2>3
  <2>4. CASE want[t] # Absent
    <3>1. A[t] # Absent /\ A[t].indexes = IndexesNow(c, G, t)
      <4>1. A[t] # Absent /\ A[t] = TableNow(c, want, G, t)
        BY <1>2, <1>3, <2>4
      <4> HIDE DEF A, G
      <4> QED
        BY <4>1 DEF TableNow, TableOf
    <3>2. <<t, x>> \in IndexesOf(Introspect(A)) <=> x \in IndexesNow(c, G, t)
      BY <2>1, <3>1
    <3>3. CASE x \notin Fields
      BY <2>2, <3>2, <3>3 DEF IndexesNow
    <3>4. CASE x \in Fields
      <4>1. <<t, x>> \in IndexesOf(Introspect(c)) <=> x \in Base(c, t).indexes
        <5>1. /\ Introspect(c)[t] = Absent <=> c[t] = Absent
              /\ c[t] # Absent => Introspect(c)[t].indexed =
                    c[t].indexes \cup {VectorText(f) : f \in c[t].vectorIndexes}
          BY IntrospectSees
        <5>2. c[t] # Absent => c[t].vectorIndexes = {}
          BY DEF NoVectors
        <5> QED
          BY <5>1, <5>2 DEF IndexesOf, Base, NewTable
      <4>2. ASSUME Ran(G, IndexOps, t, x) PROVE <<t, x>> \in Indexed(want)
        <5>1. PICK s \in G : s.op \in IndexOps /\ s.table = t /\ s.field = x
          BY <4>2 DEF Ran
        <5> QED
          BY <5>1, StatementIs
      <4>3. ASSUME Ran(G, {"removeIndex"}, t, x) PROVE <<t, x>> \notin Indexed(want)
        <5>1. PICK s \in G : s.op = "removeIndex" /\ s.table = t /\ s.field = x
          BY <4>3 DEF Ran
        <5> QED
          BY <5>1, StatementIs
      <4>4. /\ <<t, x>> \in Indexed(want) /\ <<t, x>> \notin IndexesOf(Introspect(c)) =>
                 Ran(G, IndexOps, t, x)
            /\ <<t, x>> \in IndexesOf(Introspect(c)) /\ <<t, x>> \notin Indexed(want) =>
                 Ran(G, {"removeIndex"}, t, x)
        BY <2>4, <3>4, StatementFor
      <4> QED
        BY <3>2, <3>4, <4>1, <4>2, <4>3, <4>4 DEF IndexesNow
    <3> QED
      BY <3>3, <3>4
  <2> QED
    BY <2>3, <2>4
<1> HIDE DEF A, G
<1>7. ASSUME NEW t \in Tables
      PROVE  LET d == Changes(A, want) IN
             /\ t \notin d.tablesAdded /\ t \notin d.tablesRemoved
             /\ \A f \in Fields : /\ <<t, f>> \notin d.fieldsAdded
                                  /\ <<t, f>> \notin d.fieldsRemoved
                                  /\ <<t, f>> \notin d.fieldsModified
             /\ \A x \in IndexTexts : /\ <<t, x>> \notin d.indexesAdded
                                      /\ <<t, x>> \notin d.indexesRemoved
  BY <1>1, <1>2, <1>5, <1>6, ChangesAre
<1>8. ~HasChanges(Changes(A, want))
  <2> DEFINE d == Changes(A, want)
  <2>1. /\ d.tablesAdded \subseteq Tables /\ d.tablesRemoved \subseteq Tables
        /\ d.fieldsAdded \subseteq Tables \X Fields
        /\ d.fieldsRemoved \subseteq Tables \X Fields
        /\ d.fieldsModified \subseteq Tables \X Fields
        /\ d.indexesAdded \subseteq Tables \X Fields
        /\ d.indexesRemoved \subseteq Tables \X IndexTexts
    BY <1>1, ChangesTyped
  <2>2. Fields \subseteq IndexTexts
    BY DEF IndexTexts
  <2> HIDE DEF d
  <2>3. /\ d.tablesAdded = {} /\ d.tablesRemoved = {}
        /\ d.fieldsAdded = {} /\ d.fieldsRemoved = {} /\ d.fieldsModified = {}
        /\ d.indexesAdded = {} /\ d.indexesRemoved = {}
    BY <1>7, <2>1, <2>2 DEF d
  <2> QED
    BY <2>3 DEF HasChanges, d
<1> QED
  BY <1>4, <1>8 DEF A, G

\* If the whole difference is harmless, what is left of it after some of its
\* statements is: a table or field these made is of the design, and a field
\* they did not touch is as harmless to modify as before.
THEOREM RestIsHarmless ==
    ASSUME NEW c \in DatabaseTables, NEW want \in Designs, SettledDesign(want),
           ~Changes(c, want).destructive, NEW done \in SUBSET DDLFor(c, want)
    PROVE  ~Changes(Applied(c, want, done), want).destructive
<1> DEFINE A == Applied(c, want, done)
<1>1. A \in DatabaseTables
  BY AppliedTyped
<1>2. \A t \in Tables :
         /\ c[t] # Absent => want[t] # Absent
         /\ \A f \in Fields : HasField(c, t, f) =>
               /\ HasField(want, t, f)
               /\ Modified(ReadField(c[t].fields[f]), want[t].fields[f]) =>
                    ~DestructiveModification(ReadField(c[t].fields[f]), want[t].fields[f])
  BY HarmlessIs
<1>3. ASSUME NEW t \in Tables, A[t] # Absent PROVE want[t] # Absent
  <2>1. Exists(c, done, t)
    BY <1>3 DEF Applied
  <2>2. ASSUME RanOn(done, "createTable", t) PROVE want[t] # Absent
    <3>1. PICK s \in done : s.op = "createTable" /\ s.table = t
      BY <2>2 DEF RanOn
    <3> QED
      BY <3>1, StatementIs
  <2> QED
    BY <1>2, <2>1, <2>2 DEF Exists
<1>4. ASSUME NEW t \in Tables, NEW f \in Fields, HasField(A, t, f)
      PROVE  /\ HasField(want, t, f)
             /\ Modified(ReadField(A[t].fields[f]), want[t].fields[f]) =>
                  ~DestructiveModification(ReadField(A[t].fields[f]), want[t].fields[f])
  <2>1. A[t].fields[f] = FieldNow(c, want, done, t, f)
    BY <1>4 DEF HasField, Applied, TableNow, TableOf, FieldsNow
  <2>2. CASE Ran(done, DefineOps, t, f)
    <3>1. PICK s \in done : s.op \in DefineOps /\ s.table = t /\ s.field = f
      BY <2>2 DEF Ran
    <3>2. HasField(want, t, f)
      BY <3>1, StatementIs
    <3>3. A[t].fields[f] = DefinedField(want[t].fields[f])
      BY <2>1, <2>2 DEF FieldNow
    <3>4. want[t].fields[f] \in FieldDefinition
      BY <3>2, DefinedTyped
    <3>5. ~Modified(ReadField(DefinedField(want[t].fields[f])), want[t].fields[f])
      BY <3>2, <3>4, ReadAsWritten DEF SettledDesign, HasField
    <3> HIDE DEF A
    <3> QED
      BY <3>2, <3>3, <3>5
  <2>3. CASE ~Ran(done, DefineOps, t, f)
    <3>1. A[t].fields[f] # Absent
      BY <1>4 DEF HasField
    <3> HIDE DEF A
    <3>2. HasField(c, t, f) /\ A[t].fields[f] = c[t].fields[f]
      BY <2>1, <2>3, <3>1 DEF FieldNow, Base, NewTable, HasField
    <3> QED
      BY <1>2, <3>2
  <2> QED
    BY <2>2, <2>3
<1> HIDE DEF A
<1>5. ~Changes(A, want).destructive
  BY <1>1, <1>3, <1>4, HarmlessIs
<1> QED
  BY <1>5 DEF A

=============================================================================
