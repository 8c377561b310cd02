-------------------------------- MODULE Records --------------------------------
(***************************************************************************)
(* The fields of one record, as its writers send them in JSON and its      *)
(* readers get them back.  create and update render each value as a        *)
(* SurrealQL literal (SET f = ...), in which a string that begins like an  *)
(* ISO 8601 time becomes a datetime; insert and the upserts hand the JSON  *)
(* text over (CONTENT, MERGE), in which it stays a string.  A read makes   *)
(* every type JSON does not have a string.                                 *)
(*                                                                         *)
(* A value inside an array or an object is converted like one outside; the *)
(* record has no schema.  The id that a read object has is no field: an    *)
(* application that writes the object back has taken it out (what the      *)
(* database makes of SET id = '...' is not in the repository).             *)
(***************************************************************************)
EXTENDS Integers

CONSTANTS
    Fields,     \* fields of the record
    Texts,      \* strings that do not begin like a time
    Quoted,     \* those with characters that a literal must escape
    Wide,       \* those that can have a character across byte 500 of an UPDATE
    Clocks,     \* readings of date and time
    Shifts,     \* time zone offsets
    Drafts      \* JSON objects an application makes up

ASSUME RecordsAssumption ==
    /\ Quoted \subseteq Texts
    /\ Wide \subseteq Texts
    /\ Clocks \subseteq Int
    /\ Shifts \subseteq Int

-----------------------------------------------------------------------------
(* Values                                                                  *)

Null    == [type |-> "null"]
Scalar  == [type |-> "scalar"]      \* numbers and booleans
Text(t) == [type |-> "text", text |-> t]

\* What is_iso8601_datetime accepts: digits in the right places, and any tail.
\* no time: the digits are no date or the tail is neither a fraction nor a zone
\* (the slice of has_timezone_suffix panics on some, which refuses them too).
Stamp(at, tail, shift) == [type |-> "stamp", at |-> at, tail |-> tail, shift |-> shift]

Stamps  == {Stamp(at, tail, 0) : at \in Clocks, tail \in {"no_zone", "Z", "no_time"}}
            \cup {Stamp(at, "offset", shift) : at \in Clocks, shift \in Shifts}

Instants == Clocks \cup {at - shift : at \in Clocks, shift \in Shifts}

\* What a read can give.
Json == {Null, Scalar} \cup {Text(t) : t \in Texts} \cup Stamps
            \cup {Stamp(i, "Z", 0) : i \in Instants}

NoValue     == [type |-> "NONE"]
Refused     == [type |-> "refused"]
String(j)   == [type |-> "string", json |-> j]
Datetime(i) == [type |-> "datetime", instant |-> i]
\* Decimals, UUIDs, durations, bytes, record ids: values with a text.
Typed(t)    == [type |-> "typed", text |-> t]

Values == {NoValue, Null, Scalar}
            \cup {String(j) : j \in {j \in Json : j.type \in {"text", "stamp"}}}
            \cup {Datetime(i) : i \in Instants}
            \cup {Typed(t) : t \in Texts}

\* JSON objects: some of the fields.
Objects == UNION {[D -> Json] : D \in SUBSET Fields}

ASSUME DraftsAssumption == Drafts \subseteq Objects

-----------------------------------------------------------------------------
(* Conversions                                                             *)

\* Definitions with a name like Op_Fault are slips the code could have had;
\* no action uses them, they show which property would notice.

\* has_timezone_suffix
HasTimezone(s) == s.tail \in {"Z", "offset"}

\* ensure_timezone: no zone means UTC.  A second zone would be no time.
EnsureTimezone(s) ==
    IF HasTimezone(s) THEN s
    ELSE [s EXCEPT !.tail = IF s.tail = "no_zone" THEN "Z" ELSE "no_time"]

\* d"...", as the parser reads it.
Parsed(s) ==
    CASE s.tail = "Z"      -> Datetime(s.at)
      [] s.tail = "offset" -> Datetime(s.at - s.shift)
      [] OTHER             -> Refused

Literal_Unescaped(j) ==
    CASE j.type = "null"   -> NoValue
      [] j.type = "scalar" -> Scalar
      [] j.type = "text"   -> IF j.text \in Quoted THEN Refused ELSE String(j)
      [] j.type = "stamp"  -> Parsed(EnsureTimezone(j))

\* json_value_to_surreal_value; escape_surreal_string keeps every text.
Literal(j) ==
    CASE j.type = "null"   -> NoValue
      [] j.type = "scalar" -> Scalar
      [] j.type = "text"   -> String(j)
      [] j.type = "stamp"  -> Parsed(EnsureTimezone(j))

\* The JSON text itself, as the parser reads it.
Content(j) == IF j.type \in {"text", "stamp"} THEN String(j) ELSE j

\* surreal_value_to_json
ToJson_LocalTime(v) ==
    CASE v.type = "scalar"   -> Scalar
      [] v.type = "string"   -> v.json
      [] v.type = "datetime" -> Stamp(v.instant + (CHOOSE s \in Shifts : TRUE), "no_zone", 0)
      [] v.type = "typed"    -> Text(v.text)
      [] OTHER               -> Null
ToJson(v) ==
    CASE v.type = "scalar"   -> Scalar
      [] v.type = "string"   -> v.json
      [] v.type = "datetime" -> Stamp(v.instant, "Z", 0)
      [] v.type = "typed"    -> Text(v.text)
      [] OTHER               -> Null

-----------------------------------------------------------------------------
(* A record and an application                                             *)

VARIABLES
    exists,     \* is the record there?
    field,      \* the value of each field
    by,         \* how each field was last written
    copy,       \* what the application has last read: a JSON object
    refused     \* was the last write refused?

vars == <<exists, field, by, copy, refused>>

TypeOK ==
    /\ exists \in BOOLEAN
    /\ field \in [Fields -> Values]
    /\ by \in [Fields -> {"none", "set", "content", "engine"}]
    /\ copy \in Objects
    /\ refused \in BOOLEAN
    /\ ~exists => \A f \in Fields : field[f] = NoValue

Init ==
    /\ exists = FALSE
    /\ field = [f \in Fields |-> NoValue]
    /\ by = [f \in Fields |-> "none"]
    /\ copy = [f \in {} |-> Null]
    /\ refused = FALSE

Mentions(object, f) == f \in DOMAIN object

Touched(object, how) == [f \in Fields |-> IF Mentions(object, f) THEN how ELSE by[f]]

\* One refused literal is a text that does not parse, like a SET of nothing.
Parses(object) ==
    /\ DOMAIN object # {}
    /\ \A f \in DOMAIN object : Literal(object[f]) # Refused

\* Nothing is done at all.
Refuse ==
    /\ refused' = TRUE
    /\ UNCHANGED <<exists, field, by>>

SetFields(object) ==
    IF Parses(object)
    THEN /\ field' = [f \in Fields |-> IF Mentions(object, f) THEN Literal(object[f]) ELSE field[f]]
         /\ by' = Touched(object, "set")
         /\ exists' = TRUE
         /\ refused' = FALSE
    ELSE Refuse

\* db_create: CREATE ... SET.
Create(object) ==
    /\ ~exists
    /\ SetFields(object)
    /\ UNCHANGED copy

\* The log line of db_update cuts its text at byte 500 and panics inside a
\* character.
HasWide(object) == \E f \in DOMAIN object : object[f] \in {Text(t) : t \in Wide}

\* db_update: UPDATE ... SET leaves the other fields alone.
Update(object) ==
    /\ exists
    /\ SetFields(object) \/ (HasWide(object) /\ Refuse)
    /\ UNCHANGED copy

\* db_insert (of a record that is not there), db_upsert_content.
WriteContent(object) ==
    /\ exists' = TRUE
    /\ field' = [f \in Fields |-> IF Mentions(object, f) THEN Content(object[f]) ELSE NoValue]
    /\ by' = [f \in Fields |-> IF Mentions(object, f) THEN "content" ELSE "none"]
    /\ refused' = FALSE
    /\ UNCHANGED copy

\* db_upsert_merge: only the fields that are mentioned.
UpsertMerge(object) ==
    /\ exists' = TRUE
    /\ field' = [f \in Fields |-> IF Mentions(object, f) THEN Content(object[f]) ELSE field[f]]
    /\ by' = Touched(object, "content")
    /\ refused' = FALSE
    /\ UNCHANGED copy

\* db_delete
Delete_KeepsFields ==
    /\ exists
    /\ exists' = FALSE
    /\ UNCHANGED <<field, by, copy, refused>>
Delete ==
    /\ exists
    /\ exists' = FALSE
    /\ field' = [f \in Fields |-> NoValue]
    /\ by' = [f \in Fields |-> "none"]
    /\ UNCHANGED <<copy, refused>>

\* The text of db_query, a default or a function: any value, and a string that
\* begins like a time stays one.
EngineWrites(f, v) ==
    /\ exists
    /\ field' = [field EXCEPT ![f] = v]
    /\ by' = [by EXCEPT ![f] = "engine"]
    /\ UNCHANGED <<exists, copy, refused>>

\* db_get, db_select: a field that is NONE is not in the object.
Read ==
    /\ exists
    /\ copy' = [f \in {f \in Fields : field[f] # NoValue} |-> ToJson(field[f])]
    /\ UNCHANGED <<exists, field, by, refused>>

\* A read, some of it changed in Dart, and the whole written back.
Edited(object) == [f \in DOMAIN copy \cup DOMAIN object |->
                    IF Mentions(object, f) THEN object[f] ELSE copy[f]]

Next ==
    \/ \E object \in Drafts :
        \/ Create(object) \/ WriteContent(object) \/ UpsertMerge(object)
        \/ Update(object) \/ Update(Edited(object))
    \/ Update(copy) \/ WriteContent(copy) \/ UpsertMerge(copy)
    \/ Delete \/ Read
    \/ \E f \in Fields, v \in Values : EngineWrites(f, v)

Spec == Init /\ [][Next]_vars

-----------------------------------------------------------------------------
(* Read, modify, write                                                     *)

\* copy is what a read would give now.
Fresh(f) == Mentions(copy, f) /\ field[f] # NoValue /\ copy[f] = ToJson(field[f])

\* Writing back what was read changes nothing, if the field was written the
\* same way as it is written back: however often it goes back and forth, no
\* string becomes another and a time keeps its instant.  A time that update()
\* writes back is kept whoever stored it.
WriteBackKeeps ==
    [][\A f \in Fields : Fresh(f) =>
        /\ Update(copy) /\ (by[f] = "set" \/ field[f].type = "datetime")
            => field'[f] = field[f]
        /\ (WriteContent(copy) \/ UpsertMerge(copy)) /\ by[f] = "content"
            => field'[f] = field[f]]_vars

\* A string that create() and update() would have made a datetime of.
TimeLike(v) == v.type = "string" /\ v.json.type = "stamp"

\* update() never refuses an object that was read and not changed since, unless
\* one of its fields was written by something else than create() or update()
\* and is a string that begins like a time: insert(), the upserts and the text
\* of a query store such a string, which need be no time.  Quotes, line breaks
\* and zones survive the way there and back.  Left out are the object without
\* fields and the texts that the log line of db_update can cut.
ReadsAreAccepted ==
    [][(/\ Update(copy)
        /\ DOMAIN copy # {} /\ ~HasWide(copy)
        /\ \A f \in DOMAIN copy : Fresh(f) /\ (by[f] = "set" \/ ~TimeLike(field[f])))
        => ~refused']_vars
=============================================================================
