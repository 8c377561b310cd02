----------------------------- MODULE RecordsProofs -----------------------------
(***************************************************************************)
(* Proofs about Records, for any fields, texts, clocks and offsets: a      *)
(* value goes through its conversion and back and through it again to      *)
(* where it was, so read-modify-write is safe.  The inductive invariant    *)
(* says which values each way of writing can leave behind.                 *)
(***************************************************************************)
EXTENDS Records, TLAPS

-----------------------------------------------------------------------------
(* The conversions                                                         *)

\* The values that Literal and Content can make of JSON.
SetValues     == {Literal(j) : j \in Json} \ {Refused}
ContentValues == {Content(j) : j \in Json}

LEMMA JsonCases ==
    ASSUME NEW j \in Json
    PROVE  \/ j = Null
           \/ j = Scalar
           \/ \E t \in Texts : j = Text(t)
           \/ j.type = "stamp"
BY DEF Json, Stamps, Stamp

\* A time the database prints is read back as that time.
LEMMA PrintedTime ==
    ASSUME NEW i
    PROVE  /\ ToJson(Datetime(i)) = Stamp(i, "Z", 0)
           /\ Literal(Stamp(i, "Z", 0)) = Datetime(i)
<1>1. ToJson(Datetime(i)) = Stamp(i, "Z", 0)
  BY DEF ToJson, Datetime
<1>2. EnsureTimezone(Stamp(i, "Z", 0)) = Stamp(i, "Z", 0)
  BY DEF EnsureTimezone, HasTimezone, Stamp
<1>3. Parsed(Stamp(i, "Z", 0)) = Datetime(i)
  BY DEF Parsed, Stamp
<1>4. Literal(Stamp(i, "Z", 0)) = Parsed(EnsureTimezone(Stamp(i, "Z", 0)))
  BY DEF Literal, Stamp
<1> QED BY <1>1, <1>2, <1>3, <1>4

\* What a literal that starts like a time becomes.
LEMMA LiteralOfStamp ==
    ASSUME NEW s, s.type = "stamp"
    PROVE  Literal(s) = Refused \/ \E i : Literal(s) = Datetime(i)
<1>1. Literal(s) = Parsed(EnsureTimezone(s))
  BY DEF Literal
<1>2. \A r : Parsed(r) = Refused \/ \E i : Parsed(r) = Datetime(i)
  BY DEF Parsed
<1> QED BY <1>1, <1>2

\* Reading back what a literal stored, and writing it again, stores the same.
LEMMA LiteralKeeps ==
    ASSUME NEW v \in SetValues
    PROVE  Literal(ToJson(v)) = v
<1>1. PICK j \in Json : v = Literal(j) /\ v # Refused
  BY DEF SetValues
<1>2. CASE j = Null
  BY <1>1, <1>2 DEF Literal, ToJson, Null, NoValue
<1>3. CASE j = Scalar
  BY <1>1, <1>3 DEF Literal, ToJson, Scalar
<1>4. ASSUME NEW t \in Texts, j = Text(t) PROVE Literal(ToJson(v)) = v
  <2>1. v = String(j)
    BY <1>1, <1>4 DEF Literal, Text
  <2>2. ToJson(String(j)) = j
    BY DEF ToJson, String
  <2> QED BY <1>1, <2>1, <2>2
<1>5. CASE j.type = "stamp"
  <2>1. PICK i : v = Datetime(i)
    BY <1>1, <1>5, LiteralOfStamp
  <2> QED BY <2>1, PrintedTime
<1> QED BY <1>2, <1>3, <1>4, <1>5, JsonCases

\* So it does with what CONTENT and MERGE stored.
LEMMA ContentKeeps ==
    ASSUME NEW v \in ContentValues
    PROVE  Content(ToJson(v)) = v
<1>1. PICK j \in Json : v = Content(j)
  BY DEF ContentValues
<1>2. CASE j = Null
  BY <1>1, <1>2 DEF Content, ToJson, Null
<1>3. CASE j = Scalar
  BY <1>1, <1>3 DEF Content, ToJson, Scalar
<1>4. CASE j.type \in {"text", "stamp"}
  <2>1. v = String(j)
    BY <1>1, <1>4 DEF Content
  <2>2. ToJson(String(j)) = j
    BY DEF ToJson, String
  <2> QED BY <1>1, <2>1, <2>2
<1> QED BY <1>2, <1>3, <1>4, JsonCases DEF Text

\* What a literal, or the text itself, stores is a value.
LEMMA ConversionsTyped ==
    ASSUME NEW j \in Json
    PROVE  Literal(j) \in Values \cup {Refused} /\ Content(j) \in Values
<1>1. CASE j \in {Null, Scalar}
  BY <1>1 DEF Literal, Content, Values, Null, Scalar
<1>2. ASSUME NEW t \in Texts, j = Text(t) PROVE Literal(j) = String(j) /\ Content(j) = String(j)
  BY <1>2 DEF Literal, Content, Text
<1>3. ASSUME j.type \in {"text", "stamp"} PROVE String(j) \in Values
  BY <1>3 DEF Values
<1>4. ASSUME NEW at, NEW tail, NEW shift, j = Stamp(at, tail, shift),
             at \in Instants, tail = "offset" => at - shift \in Instants
      PROVE  Literal(j) \in Values \cup {Refused} /\ Content(j) = String(j)
  <2>1. EnsureTimezone(j).at = at /\ EnsureTimezone(j).shift = shift
            /\ (EnsureTimezone(j).tail = "offset" => tail = "offset")
    BY <1>4 DEF EnsureTimezone, HasTimezone, Stamp
  <2>2. Literal(j) = Parsed(EnsureTimezone(j))
    BY <1>4 DEF Literal, Stamp
  <2>3. \/ Literal(j) = Datetime(at)
        \/ tail = "offset" /\ Literal(j) = Datetime(at - shift)
        \/ Literal(j) = Refused
    BY <2>1, <2>2 DEF Parsed
  <2>4. Content(j) = String(j)
    BY <1>4 DEF Content, Stamp
  <2> QED BY <1>4, <2>3, <2>4 DEF Values
<1>5. ASSUME j \in Stamps \cup {Stamp(i, "Z", 0) : i \in Instants}
      PROVE  \E at, tail, shift :
                /\ j = Stamp(at, tail, shift) /\ at \in Instants
                /\ tail = "offset" => at - shift \in Instants
  BY <1>5 DEF Stamps, Instants
<1>6. j.type = "stamp" => j \in Stamps \cup {Stamp(i, "Z", 0) : i \in Instants}
  BY DEF Json, Null, Scalar, Text
<1>7. CASE j.type = "stamp"
  <2>1. PICK at, tail, shift :
            /\ j = Stamp(at, tail, shift) /\ at \in Instants
            /\ tail = "offset" => at - shift \in Instants
    BY <1>5, <1>6, <1>7
  <2>2. Literal(j) \in Values \cup {Refused} /\ Content(j) = String(j)
    BY <1>4, <2>1
  <2>3. String(j) \in Values
    BY <1>3, <1>7
  <2> QED BY <2>2, <2>3
<1>8. \A t : Text(t).type = "text"
  BY DEF Text
<1> QED BY <1>1, <1>2, <1>3, <1>7, <1>8, JsonCases

\* What is read is JSON.
LEMMA ReadsTyped ==
    ASSUME NEW v \in Values
    PROVE  ToJson(v) \in Json
<1>1. CASE v \in {NoValue, Null, Scalar}
  BY <1>1 DEF ToJson, NoValue, Null, Scalar, Json
<1>2. ASSUME NEW j \in Json, v = String(j) PROVE ToJson(v) = j
  BY <1>2 DEF ToJson, String
<1>3. ASSUME NEW i \in Instants, v = Datetime(i) PROVE ToJson(v) \in Json
  BY <1>3, PrintedTime DEF Json
<1>4. ASSUME NEW t \in Texts, v = Typed(t) PROVE ToJson(v) = Text(t)
  BY <1>4 DEF ToJson, Typed
<1>5. ASSUME NEW t \in Texts PROVE Text(t) \in Json
  BY DEF Json
<1> QED BY <1>1, <1>2, <1>3, <1>4, <1>5 DEF Values

-----------------------------------------------------------------------------
(* The inductive invariant                                                 *)

\* What each way of writing can have left in a field.
WrittenAs(f) ==
    /\ by[f] = "none" => field[f] = NoValue
    /\ by[f] = "set" => field[f] \in SetValues
    /\ by[f] = "content" => field[f] \in ContentValues

IInv == TypeOK /\ \A f \in Fields : WrittenAs(f)

LEMMA ObjectsApply ==
    ASSUME NEW object \in Objects
    PROVE  /\ DOMAIN object \subseteq Fields
           /\ \A f \in DOMAIN object : object[f] \in Json
BY DEF Objects

LEMMA EditedTyped ==
    ASSUME TypeOK, NEW object \in Objects
    PROVE  Edited(object) \in Objects
<1>1. DOMAIN copy \cup DOMAIN object \in SUBSET Fields
  BY ObjectsApply DEF TypeOK
<1>2. Edited(object) \in [DOMAIN copy \cup DOMAIN object -> Json]
  BY ObjectsApply DEF TypeOK, Edited, Mentions
<1> QED BY <1>1, <1>2 DEF Objects

LEMMA RefusePreserves ==
    ASSUME IInv, Refuse, UNCHANGED copy
    PROVE  IInv'
<1>1. TypeOK'
  BY DEF IInv, Refuse, TypeOK
<1>2. ASSUME NEW f \in Fields PROVE WrittenAs(f)'
  BY DEF IInv, Refuse, WrittenAs
<1> QED BY <1>1, <1>2 DEF IInv

LEMMA SetFieldsPreserves ==
    ASSUME IInv, NEW object \in Objects, SetFields(object), UNCHANGED copy
    PROVE  IInv'
<1> USE DEF IInv
<1>1. CASE ~Parses(object)
  BY <1>1, RefusePreserves DEF SetFields
<1>2. CASE Parses(object)
  <2>1. /\ field' = [f \in Fields |-> IF Mentions(object, f) THEN Literal(object[f]) ELSE field[f]]
        /\ by' = [f \in Fields |-> IF Mentions(object, f) THEN "set" ELSE by[f]]
        /\ exists' = TRUE /\ refused' = FALSE
    BY <1>2 DEF SetFields, Touched
  <2>2. ASSUME NEW f \in Fields, Mentions(object, f)
        PROVE  Literal(object[f]) \in SetValues \cap Values
    <3>1. object[f] \in Json /\ Literal(object[f]) # Refused
      BY <1>2, <2>2, ObjectsApply DEF Mentions, Parses
    <3>2. Literal(object[f]) \in Values
      BY <3>1, ConversionsTyped
    <3> QED BY <3>1, <3>2 DEF SetValues
  <2>3. TypeOK'
    BY <2>1, <2>2 DEF TypeOK
  <2>4. ASSUME NEW f \in Fields PROVE WrittenAs(f)'
    BY <2>1, <2>2 DEF WrittenAs
  <2> QED BY <2>3, <2>4
<1> QED BY <1>1, <1>2

LEMMA ContentTyped ==
    ASSUME NEW object \in Objects, NEW f \in Fields, Mentions(object, f)
    PROVE  Content(object[f]) \in ContentValues \cap Values
<1>1. object[f] \in Json
  BY ObjectsApply DEF Mentions
<1> QED BY <1>1, ConversionsTyped DEF ContentValues

LEMMA WriteContentPreserves ==
    ASSUME IInv, NEW object \in Objects, WriteContent(object)
    PROVE  IInv'
<1> USE DEF IInv
<1>1. TypeOK'
  BY ContentTyped DEF WriteContent, TypeOK, Values
<1>2. ASSUME NEW f \in Fields PROVE WrittenAs(f)'
  BY ContentTyped DEF WriteContent, WrittenAs
<1> QED BY <1>1, <1>2

LEMMA UpsertMergePreserves ==
    ASSUME IInv, NEW object \in Objects, UpsertMerge(object)
    PROVE  IInv'
<1> USE DEF IInv
<1>1. TypeOK'
  BY ContentTyped DEF UpsertMerge, Touched, TypeOK
<1>2. ASSUME NEW f \in Fields PROVE WrittenAs(f)'
  BY ContentTyped DEF UpsertMerge, Touched, WrittenAs
<1> QED BY <1>1, <1>2

LEMMA NextPreservesIInv == IInv /\ [Next]_vars => IInv'
<1> SUFFICES ASSUME IInv, [Next]_vars PROVE IInv'
  OBVIOUS
<1> USE DEF IInv
<1>1. ASSUME NEW object \in Objects, Create(object) \/ Update(object) PROVE IInv'
  BY <1>1, SetFieldsPreserves, RefusePreserves DEF Create, Update
<1>2. ASSUME NEW object \in Objects, WriteContent(object) \/ UpsertMerge(object) PROVE IInv'
  BY <1>2, WriteContentPreserves, UpsertMergePreserves
<1>3. ASSUME NEW object \in Drafts PROVE object \in Objects /\ Edited(object) \in Objects
  BY DraftsAssumption, EditedTyped
<1>4. copy \in Objects
  BY DEF TypeOK
<1>5. CASE Delete
  <2>1. TypeOK'
    BY <1>5 DEF Delete, TypeOK, Values
  <2>2. ASSUME NEW f \in Fields PROVE WrittenAs(f)'
    BY <1>5 DEF Delete, WrittenAs
  <2> QED BY <2>1, <2>2
<1>6. CASE Read
  <2>1. ASSUME NEW f \in Fields PROVE ToJson(field[f]) \in Json
    BY ReadsTyped DEF TypeOK
  <2>2. copy' \in [{f \in Fields : field[f] # NoValue} -> Json]
    BY <1>6, <2>1 DEF Read
  <2>3. copy' \in Objects
    BY <2>2 DEF Objects
  <2>4. TypeOK'
    BY <1>6, <2>3 DEF Read, TypeOK
  <2>5. ASSUME NEW f \in Fields PROVE WrittenAs(f)'
    BY <1>6 DEF Read, WrittenAs
  <2> QED BY <2>4, <2>5
<1>7. ASSUME NEW f \in Fields, NEW v \in Values, EngineWrites(f, v) PROVE IInv'
  <2>1. TypeOK'
    BY <1>7 DEF EngineWrites, TypeOK
  <2>2. ASSUME NEW g \in Fields PROVE WrittenAs(g)'
    BY <1>7 DEF EngineWrites, WrittenAs, TypeOK
  <2> QED BY <2>1, <2>2
<1>8. CASE UNCHANGED vars
  <2>1. TypeOK'
    BY <1>8 DEF vars, TypeOK
  <2>2. ASSUME NEW f \in Fields PROVE WrittenAs(f)'
    BY <1>8 DEF vars, WrittenAs
  <2> QED BY <2>1, <2>2
<1> QED BY <1>1, <1>2, <1>3, <1>4, <1>5, <1>6, <1>7, <1>8 DEF Next

LEMMA InitIInv == Init => IInv
<1> SUFFICES ASSUME Init PROVE IInv
  OBVIOUS
<1>1. copy \in [{} -> Json]
  BY DEF Init
<1>2. copy \in Objects
  BY <1>1 DEF Objects
<1>3. TypeOK
  BY <1>2 DEF Init, TypeOK, Values
<1> QED BY <1>3 DEF Init, IInv, WrittenAs

LEMMA Invariance == Spec => []IInv
BY InitIInv, NextPreservesIInv, PTL DEF Spec

-----------------------------------------------------------------------------
(* Read, modify, write                                                     *)

\* Fields hold values and the application holds JSON, whatever is written.
THEOREM TypeCorrect == Spec => []TypeOK
<1>1. IInv => TypeOK
  BY DEF IInv
<1> QED BY <1>1, Invariance, PTL

\* Writing back what was read changes no field that was written the same way,
\* and no time, for every string, zone and time.
THEOREM WriteBackIsSafe == Spec => WriteBackKeeps
<1>1. ASSUME IInv, NEW f \in Fields, Fresh(f)
      PROVE  /\ Update(copy) /\ (by[f] = "set" \/ field[f].type = "datetime")
                    => field'[f] = field[f]
             /\ (WriteContent(copy) \/ UpsertMerge(copy)) /\ by[f] = "content"
                    => field'[f] = field[f]
  <2>1. Mentions(copy, f) /\ copy[f] = ToJson(field[f]) /\ field[f] \in Values /\ WrittenAs(f)
    BY <1>1 DEF Fresh, IInv, TypeOK
  <2>2. ASSUME by[f] = "set" \/ field[f].type = "datetime" PROVE Literal(copy[f]) = field[f]
    <3>1. CASE by[f] = "set"
      BY <2>1, <3>1, LiteralKeeps DEF WrittenAs
    <3>2. CASE field[f].type = "datetime"
      <4>1. PICK i : field[f] = Datetime(i)
        BY <2>1, <3>2 DEF Values, NoValue, Null, Scalar, String, Typed
      <4> QED BY <2>1, <4>1, PrintedTime
    <3> QED BY <2>2, <3>1, <3>2
  <2>3. ASSUME Update(copy), by[f] = "set" \/ field[f].type = "datetime" PROVE field'[f] = field[f]
    BY <1>1, <2>1, <2>2, <2>3 DEF Update, SetFields, Refuse
  <2>4. by[f] = "content" => Content(copy[f]) = field[f]
    BY <2>1, ContentKeeps DEF WrittenAs
  <2>5. ASSUME WriteContent(copy) \/ UpsertMerge(copy), by[f] = "content" PROVE field'[f] = field[f]
    BY <2>1, <2>4, <2>5 DEF WriteContent, UpsertMerge
  <2> QED BY <2>3, <2>5
<1>2. IInv => \A f \in Fields : Fresh(f) =>
        /\ Update(copy) /\ (by[f] = "set" \/ field[f].type = "datetime")
            => field'[f] = field[f]
        /\ (WriteContent(copy) \/ UpsertMerge(copy)) /\ by[f] = "content"
            => field'[f] = field[f]
  BY <1>1
<1> QED BY <1>2, Invariance, PTL DEF WriteBackKeeps

\* update() refuses an object that was read and not changed only for a string
\* that begins like a time and that something else than create() and update()
\* has stored, for every text, zone and time.
THEOREM ReadsStayAcceptable == Spec => ReadsAreAccepted
<1>1. ASSUME NEW v \in Values, v # NoValue, ~TimeLike(v)
      PROVE  Literal(ToJson(v)) # Refused
  <2>1. CASE v \in {Null, Scalar}
    BY <2>1 DEF Literal, ToJson, Null, Scalar, NoValue, Refused
  <2>2. ASSUME NEW j \in Json, j.type \in {"text", "stamp"}, v = String(j)
        PROVE  Literal(ToJson(v)) = String(j)
    <3>1. ToJson(v) = j /\ j.type = "text"
      BY <1>1, <2>2 DEF TimeLike, ToJson, String
    <3> QED BY <3>1 DEF Literal
  <2>3. ASSUME NEW i, v = Datetime(i) PROVE Literal(ToJson(v)) = Datetime(i)
    BY <2>3, PrintedTime
  <2>4. ASSUME NEW t, v = Typed(t) PROVE Literal(ToJson(v)) = String(Text(t))
    <3>1. ToJson(v) = Text(t)
      BY <2>4 DEF ToJson, Typed
    <3> QED BY <3>1 DEF Literal, Text
  <2>5. \A x : String(x) # Refused /\ Datetime(x) # Refused
    BY DEF String, Datetime, Refused
  <2> QED BY <1>1, <2>1, <2>2, <2>3, <2>4, <2>5 DEF Values
<1>2. ASSUME IInv, Update(copy), DOMAIN copy # {}, ~HasWide(copy),
             \A f \in DOMAIN copy : Fresh(f) /\ (by[f] = "set" \/ ~TimeLike(field[f]))
      PROVE  ~refused'
  <2>1. ASSUME NEW f \in DOMAIN copy PROVE Literal(copy[f]) # Refused
    <3>1. /\ f \in Fields /\ field[f] # NoValue /\ copy[f] = ToJson(field[f])
          /\ field[f] \in Values /\ WrittenAs(f)
      BY <1>2, ObjectsApply DEF IInv, TypeOK, Fresh
    <3>2. CASE by[f] = "set"
      BY <3>1, <3>2, LiteralKeeps DEF WrittenAs, SetValues
    <3>3. CASE ~TimeLike(field[f])
      BY <1>1, <3>1, <3>3
    <3> QED BY <1>2, <3>2, <3>3
  <2>2. Parses(copy)
    BY <1>2, <2>1 DEF Parses
  <2> QED BY <1>2, <2>2 DEF Update, SetFields
<1> QED BY <1>2, Invariance, PTL DEF ReadsAreAccepted
=============================================================================
