------------------------------ MODULE NativeCalls ------------------------------
(***************************************************************************)
(* The C functions of the library and how an event body of the class       *)
(* Database calls one: the native function answers with a Response box, a  *)
(* string or a status, and leaves a message in the LAST_ERROR slot of its  *)
(* thread when it fails; the body then asks for errors, fetches the        *)
(* message or the results, and frees everything it was given.              *)
(*                                                                         *)
(* A body is synchronous, so it runs on one thread from call to end.  The  *)
(* next body of the same isolate may run on another thread, and the next   *)
(* body of this thread may be another isolate's.  Which bytes an argument  *)
(* or a message has is left out; what is kept of an argument is the flaw a *)
(* function would refuse it for.                                           *)
(***************************************************************************)
EXTENDS Naturals, Sequences

CONSTANTS
    Threads,        \* threads on which isolates run their bodies
    MaxStatements,  \* bound: statements in the text of one query
    Workload        \* the native functions that bodies on a thread call

ASSUME NativeCallsAssumption == MaxStatements \in Nat \ {0}

VARIABLES
    lastError,      \* LAST_ERROR of each thread
    heap,           \* what the body on each thread has to free
    body            \* the body running on each thread

vars == <<lastError, heap, body>>

-----------------------------------------------------------------------------
(* The native functions                                                    *)

\* refuses: for what a call is turned away before anything is done.
\* runs:    SurrealQL statements, another call of the engine, or nothing.
\* gives:   a Response box, a string, a status that the body checks, or a
\*          code that it only translates.
Function(name, refuses, runs, gives) ==
    [name |-> name, refuses |-> refuses, runs |-> runs, gives |-> gives]

NullHandle == {"null_handle"}
Validated  == {"null_handle", "stale_handle"}
Argument   == {"null_argument", "not_UTF8"}

db_query          == Function("db_query", Validated \cup Argument, "statements", "response")
db_select         == Function("db_select", Validated \cup Argument, "statement", "response")
db_get            == Function("db_get", Validated \cup Argument \cup {"empty"},
                              "statement", "response")

\* Both panic before the query is sent where they slice a text inside a
\* character: has_timezone_suffix six bytes from the end of a string that
\* begins like a time, and the log line of db_update at byte 500.
db_create         == Function("db_create",
                              Validated \cup Argument
                                \cup {"not_JSON", "not_object", "split_character"},
                              "statement", "response")
db_update         == Function("db_update",
                              Validated \cup Argument
                                \cup {"not_JSON", "not_object", "split_character"},
                              "statement", "response")

db_delete         == Function("db_delete", Validated \cup Argument, "statement", "response")
db_upsert_content == Function("db_upsert_content",
                              Validated \cup Argument \cup {"no_record_id", "not_JSON"},
                              "statement", "response")
db_upsert_merge   == Function("db_upsert_merge",
                              Validated \cup Argument \cup {"no_record_id", "not_JSON"},
                              "statement", "response")
db_upsert_patch   == Function("db_upsert_patch",
                              Validated \cup Argument
                                \cup {"no_record_id", "not_JSON", "no_patches"},
                              "statement", "response")
db_insert         == Function("db_insert", Validated \cup Argument \cup {"not_JSON"},
                              "statement", "response")
db_run            == Function("db_run", Validated \cup Argument \cup {"empty", "not_JSON"},
                              "statement", "response")
db_set            == Function("db_set", Validated \cup Argument \cup {"empty", "not_JSON"},
                              "call", "status")
db_unset          == Function("db_unset", Validated \cup Argument \cup {"empty"},
                              "call", "status")
db_export         == Function("db_export", Validated \cup Argument, "call", "status")
db_import         == Function("db_import", Validated \cup Argument, "call", "status")
db_version        == Function("db_version", Validated, "call", "string")

db_signin         == Function("db_signin", NullHandle \cup Argument \cup {"not_JSON"},
                              "statement", "string")
db_signup         == Function("db_signup", NullHandle \cup Argument \cup {"not_JSON"},
                              "nothing", "string")
db_authenticate   == Function("db_authenticate", NullHandle \cup Argument \cup {"empty"},
                              "nothing", "status")
db_invalidate     == Function("db_invalidate", NullHandle, "nothing", "status")
db_refresh_token  == Function("db_refresh_token", NullHandle \cup Argument \cup {"empty"},
                              "call", "string")

db_new            == Function("db_new", Argument, "call", "status")
db_connect        == Function("db_connect", NullHandle, "nothing", "status")
db_use_ns         == Function("db_use_ns", NullHandle \cup Argument, "call", "status")
db_use_db         == Function("db_use_db", NullHandle \cup Argument, "call", "status")
db_begin          == Function("db_begin", NullHandle, "statement", "status")
db_commit         == Function("db_commit", NullHandle, "statement", "status")
db_rollback       == Function("db_rollback", NullHandle, "statement", "status")
db_verify_rocksdb == Function("db_verify_rocksdb", Argument, "call", "code")
db_repair_rocksdb == Function("db_repair_rocksdb", Argument, "call", "code")

NativeFunctions ==
    {db_query, db_select, db_get, db_create, db_update, db_delete, db_upsert_content,
     db_upsert_merge, db_upsert_patch, db_insert, db_run, db_set, db_unset, db_export,
     db_import, db_version, db_signin, db_signup, db_authenticate, db_invalidate,
     db_refresh_token, db_new, db_connect, db_use_ns, db_use_db, db_begin, db_commit,
     db_rollback, db_verify_rocksdb, db_repair_rocksdb}

ASSUME WorkloadAssumption == Workload \in [Threads -> SUBSET NativeFunctions]

\* How the statements of a text may end, each by itself; no text, no statements.
Lengths(f) ==
    {n \in 0 .. MaxStatements :
        /\ f.runs = "statements" => n > 0
        /\ f.runs = "statement" => n = 1
        /\ f.runs \in {"call", "nothing"} => n = 0}

Outcomes(f) == UNION {[1 .. n -> {"value", "error"}] : n \in Lengths(f)}

\* Definitions with a name like Op_Fault are slips the code could have had;
\* no action uses them, they show which property would notice.

\* take_errors, then take(n) of every statement: n stands for its value, and
\* a statement that failed leaves the placeholder 0 in its place.
Results_NoPlaceholder(outcomes) ==
    SelectSeq([n \in DOMAIN outcomes |-> IF outcomes[n] = "value" THEN n ELSE 0],
              LAMBDA r : r # 0)
Results(outcomes) == [n \in DOMAIN outcomes |-> IF outcomes[n] = "value" THEN n ELSE 0]
Errors(outcomes)  == {n \in DOMAIN outcomes : outcomes[n] = "error"}

-----------------------------------------------------------------------------
(* State                                                                   *)

NoMessage == [of |-> "none", why |-> "none", mine |-> FALSE]

\* why: a flaw, the engine's error, or signup's notice.  mine says whether
\* the call that stored the message is the last one made on its thread.
Flaws == UNION {f.refuses : f \in NativeFunctions}
Messages == [of   : {f.name : f \in NativeFunctions},
             why  : Flaws \cup {"engine", "notice"},
             mine : BOOLEAN]

Kinds == {"response", "json", "token", "message"}

NewBody(pc, f) == [pc |-> pc, fn |-> f, outcomes |-> <<>>, results |-> <<>>,
                   todo |-> <<>>, message |-> NoMessage]

NoBody == NewBody("idle", db_connect)

\* todo: what the finally blocks on the way out still free.
Bodies ==
    [pc       : {"idle", "native", "response", "failed", "results", "return", "throw"},
     fn       : NativeFunctions,
     outcomes : UNION {Outcomes(f) : f \in NativeFunctions},
     results  : Seq(Nat),
     todo     : Seq(Kinds),
     message  : Messages \cup {NoMessage}]

TypeOK ==
    /\ lastError \in [Threads -> Messages \cup {NoMessage}]
    /\ heap \in [Threads -> SUBSET Kinds]
    /\ body \in [Threads -> Bodies]

Init ==
    /\ lastError = [t \in Threads |-> NoMessage]
    /\ heap = [t \in Threads |-> {}]
    /\ body = [t \in Threads |-> NoBody]

\* LAST_ERROR is thread_local!.
Slot_Static(t) == CHOOSE u \in Threads : TRUE
Slot(t) == t

At(t, pc) == body[t].pc = pc

-----------------------------------------------------------------------------
(* Inside the native function                                              *)

\* A body on thread t calls f.  A message still in the slot is not its own.
Call(t, f) ==
    /\ At(t, "idle")
    /\ body' = [body EXCEPT ![t] = NewBody("native", f)]
    /\ lastError' = [lastError EXCEPT ![Slot(t)].mine = FALSE]
    /\ UNCHANGED heap

SetLastError_Anonymous(t, why) ==
    lastError' = [lastError EXCEPT ![Slot(t)] = [of |-> "none", why |-> why, mine |-> TRUE]]

SetLastError(t, why) ==
    lastError' = [lastError EXCEPT ![Slot(t)] = [of |-> body[t].fn.name, why |-> why, mine |-> TRUE]]

Fail_Silent(t) ==
    /\ At(t, "native")
    /\ body' = [body EXCEPT ![t].pc = IF body[t].fn.gives = "code" THEN "return" ELSE "failed"]
    /\ UNCHANGED <<lastError, heap>>

\* The function turns the call away, or the engine fails as a whole (a text
\* that does not parse, a directory that cannot be opened): null or -1, with
\* a message.  The codes of verify and repair that are not 0 are of this
\* kind, and nobody asks for their message.
Fail(t) ==
    /\ At(t, "native")
    /\ LET f == body[t].fn IN
        /\ \E why \in f.refuses \cup (IF f.runs = "nothing" THEN {} ELSE {"engine"}) :
            SetLastError(t, why)
        /\ body' = [body EXCEPT ![t].pc = IF f.gives = "code" THEN "return" ELSE "failed"]
    /\ UNCHANGED heap

\* The engine ran the text: a Response box, whatever became of each statement.
Respond(t) ==
    /\ At(t, "native")
    /\ body[t].fn.gives = "response"
    /\ \E outcomes \in Outcomes(body[t].fn) :
        body' = [body EXCEPT ![t].pc = "response", ![t].outcomes = outcomes,
                             ![t].results = Results(outcomes)]
    /\ heap' = [heap EXCEPT ![t] = @ \cup {"response"}]
    /\ UNCHANGED lastError

\* A string to be freed, or 0.  db_signin, db_begin, db_commit and
\* db_rollback do not look at what became of their statement; db_signup
\* stores a notice and succeeds.
Succeed(t) ==
    /\ At(t, "native")
    /\ LET f == body[t].fn IN
        /\ f.gives # "response"
        /\ \E outcomes \in Outcomes(f) :
            body' = [body EXCEPT ![t].pc = "return", ![t].outcomes = outcomes,
                                 ![t].todo = IF f.gives = "string" THEN <<"token">> ELSE <<>>]
        /\ heap' = [heap EXCEPT ![t] = @ \cup (IF f.gives = "string" THEN {"token"} ELSE {})]
        /\ IF f = db_signup THEN SetLastError(t, "notice") ELSE UNCHANGED lastError

-----------------------------------------------------------------------------
(* Back in the body                                                        *)

HasErrors_Ignored(t) ==
    /\ At(t, "response")
    /\ body' = [body EXCEPT ![t].pc = "results"]
    /\ UNCHANGED <<lastError, heap>>

\* response_has_errors.
HasErrors(t) ==
    /\ At(t, "response")
    /\ body' = [body EXCEPT ![t].pc = IF Errors(body[t].outcomes) # {} THEN "failed" ELSE "results"]
    /\ UNCHANGED <<lastError, heap>>

\* response_get_results: the JSON is decoded, then both are freed.
GetResults(t) ==
    /\ At(t, "results")
    /\ body' = [body EXCEPT ![t].pc = "return", ![t].todo = <<"json", "response">>]
    /\ heap' = [heap EXCEPT ![t] = @ \cup {"json"}]
    /\ UNCHANGED lastError

TakeMessage_LeavesBox(t) ==
    /\ At(t, "failed")
    /\ LET message == lastError[Slot(t)]
           given   == IF message = NoMessage THEN <<>> ELSE <<"message">>
       IN  /\ body' = [body EXCEPT ![t].pc = "throw", ![t].message = message, ![t].todo = given]
           /\ heap' = [heap EXCEPT ![t] = @ \cup (IF message = NoMessage THEN {} ELSE {"message"})]
    /\ lastError' = [lastError EXCEPT ![Slot(t)] = NoMessage]

TakeMessage_KeepsSlot(t) ==
    /\ At(t, "failed")
    /\ LET message == lastError[Slot(t)]
           given   == IF message = NoMessage THEN <<>> ELSE <<"message">>
           box     == IF "response" \in heap[t] THEN <<"response">> ELSE <<>>
       IN  /\ body' = [body EXCEPT ![t].pc = "throw", ![t].message = message, ![t].todo = given \o box]
           /\ heap' = [heap EXCEPT ![t] = @ \cup (IF message = NoMessage THEN {} ELSE {"message"})]
    /\ UNCHANGED lastError

\* _getLastErrorString: the message is taken out of the slot, its string is
\* freed, and the exception leaves through the finally that frees the box.
TakeMessage(t) ==
    /\ At(t, "failed")
    /\ LET message == lastError[Slot(t)]
           given   == IF message = NoMessage THEN <<>> ELSE <<"message">>
           box     == IF "response" \in heap[t] THEN <<"response">> ELSE <<>>
       IN  /\ body' = [body EXCEPT ![t].pc = "throw", ![t].message = message, ![t].todo = given \o box]
           /\ heap' = [heap EXCEPT ![t] = @ \cup (IF message = NoMessage THEN {} ELSE {"message"})]
    /\ lastError' = [lastError EXCEPT ![Slot(t)] = NoMessage]

\* free_string, response_free.
Free(t) ==
    /\ body[t].todo # <<>>
    /\ heap' = [heap EXCEPT ![t] = @ \ {Head(body[t].todo)}]
    /\ body' = [body EXCEPT ![t].todo = Tail(@)]
    /\ UNCHANGED lastError

\* The Future of the call completes, with a value or an exception.
Finish(t) ==
    /\ At(t, "return") \/ At(t, "throw")
    /\ body[t].todo = <<>>
    /\ body' = [body EXCEPT ![t] = NoBody]
    /\ UNCHANGED <<lastError, heap>>

Step(t) ==
    \/ Fail(t) \/ Respond(t) \/ Succeed(t)
    \/ HasErrors(t) \/ GetResults(t) \/ TakeMessage(t) \/ Free(t) \/ Finish(t)

Next == \E t \in Threads : Step(t) \/ \E f \in Workload[t] : Call(t, f)

Spec == Init /\ [][Next]_vars

-----------------------------------------------------------------------------
(* What the two sides owe each other                                       *)

\* The Response box and every string that crosses the boundary are freed
\* once and only once, whichever way the body ends: on its way out it frees
\* what it holds, each thing once, and afterwards it holds nothing.
FreedExactlyOnce ==
    \A t \in Threads :
        LET todo == body[t].todo IN
        /\ At(t, "idle") => heap[t] = {}
        /\ At(t, "return") \/ At(t, "throw") =>
            /\ heap[t] = {todo[n] : n \in DOMAIN todo}
            /\ \A m, n \in DOMAIN todo : todo[m] = todo[n] => m = n

\* A statement that failed is never passed over: the body throws, though the
\* statements before it have taken effect and its own results are lost.
\* Only db_signin and the three transaction functions answer with success.
FailedStatementsThrow ==
    \A t \in Threads : At(t, "return") /\ Errors(body[t].outcomes) # {} =>
        body[t].fn \in {db_signin, db_begin, db_commit, db_rollback}

\* A Response keeps every result at the index of its statement, also behind
\* statements that failed, and lacks one exactly where it has an error.
ResponseIsComplete ==
    \A t \in Threads : "response" \in heap[t] =>
        LET outcomes == body[t].outcomes
            results  == body[t].results
        IN  /\ DOMAIN results = DOMAIN outcomes
            /\ \A n \in DOMAIN results :
                results[n] = IF n \in Errors(outcomes) THEN 0 ELSE n

\* What an argument or a handle can be blamed for, or the engine: all that
\* makes a call fail, except the slices of db_create and db_update.
Deserved == (Flaws \ {"split_character"}) \cup {"engine"}

\* A native function that answers null or -1 has said why, and the body that
\* called it reports exactly that: not what another isolate's call, on this
\* thread before it or on another at the same time, has left.
MessageIsOwn ==
    \A t \in Threads : At(t, "throw") /\ body[t].outcomes = <<>> =>
        /\ body[t].message.mine
        /\ body[t].message.of = body[t].fn.name
        /\ body[t].message.why \in Deserved \/ body[t].fn \in {db_create, db_update}

\* A message that outlives its body was left by one of three functions:
\* db_signup, which stores one and succeeds, and verify and repair, whose
\* codes are not 0 but whose message nobody takes.
LeftoversKnown ==
    \A t \in Threads : At(t, "idle") /\ lastError[t] # NoMessage =>
        lastError[t].of \in {"db_signup", "db_verify_rocksdb", "db_repair_rocksdb"}
=============================================================================
