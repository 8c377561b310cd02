-------------------------- MODULE NativeCallsProofs --------------------------
(***************************************************************************)
(* Proofs about NativeCalls, for any number of threads, any workload and   *)
(* texts of any length: type correctness and the five invariants follow    *)
(* from one inductive invariant, which says what the body on each thread   *)
(* has in hand at every point of its way.                                  *)
(***************************************************************************)
EXTENDS NativeCalls, SequenceTheorems, TLAPS

-----------------------------------------------------------------------------
(* The inductive invariant                                                 *)

\* The finally blocks a body can still have before it.
WayOut == {<<>>, <<"token">>, <<"json", "response">>, <<"response">>, <<"message">>,
           <<"message", "response">>}

Inside(t)  == At(t, "idle") \/ At(t, "native") \/ At(t, "response") \/ At(t, "failed")
                \/ At(t, "results")
Leaving(t) == At(t, "return") \/ At(t, "throw")

LeavesMessage == {"db_signup", "db_verify_rocksdb", "db_repair_rocksdb"}

\* What is to be freed, where.
Memory(t) ==
    /\ body[t].todo \in WayOut
    /\ Inside(t) => body[t].todo = <<>>
    /\ At(t, "idle") \/ At(t, "native") => heap[t] = {}
    /\ At(t, "response") \/ At(t, "results") => heap[t] = {"response"}
    /\ At(t, "failed") => heap[t] \in {{}, {"response"}}
    /\ Leaving(t) => heap[t] = {body[t].todo[n] : n \in DOMAIN body[t].todo}

\* Which statements have failed, and what the box says of them.
Answer(t) ==
    /\ At(t, "idle") \/ At(t, "native") => body[t].outcomes = <<>>
    /\ At(t, "results") => Errors(body[t].outcomes) = {}
    /\ At(t, "return") /\ Errors(body[t].outcomes) # {} =>
        body[t].fn \in {db_signin, db_begin, db_commit, db_rollback}
    /\ "response" \in heap[t] =>
        /\ body[t].outcomes # <<>>
        /\ body[t].results = Results(body[t].outcomes)

\* A message the body's own call has left for it.
OwnMessage(t, message) ==
    /\ message.mine
    /\ message.of = body[t].fn.name
    /\ message.why \in body[t].fn.refuses \cup {"engine"}

\* Whose message is in the slot, and in the exception.
Message(t) ==
    /\ At(t, "failed") /\ heap[t] = {} => OwnMessage(t, lastError[t])
    /\ At(t, "throw") /\ body[t].outcomes = <<>> => OwnMessage(t, body[t].message)
    /\ ~At(t, "failed") /\ lastError[t] # NoMessage => lastError[t].of \in LeavesMessage

Sound(t) == Memory(t) /\ Answer(t) /\ Message(t)

IInv == TypeOK /\ \A t \in Threads : Sound(t)

-----------------------------------------------------------------------------
(* The table of functions                                                  *)

\* What runs, and what a function answers with.
LEMMA RowsTyped ==
    \A f \in NativeFunctions :
        /\ f.runs \in {"statements", "statement", "call", "nothing"}
        /\ f.gives \in {"response", "string", "status", "code"}
BY DEF NativeFunctions, Function, db_query, db_select, db_get, db_create, db_update, db_delete,
    db_upsert_content, db_upsert_merge, db_upsert_patch, db_insert, db_run, db_set, db_unset,
    db_export, db_import, db_version, db_signin, db_signup, db_authenticate, db_invalidate,
    db_refresh_token, db_new, db_connect, db_use_ns, db_use_db, db_begin, db_commit, db_rollback,
    db_verify_rocksdb, db_repair_rocksdb

\* No function is called none.
LEMMA NamesAndNone == \A f \in NativeFunctions : f.name # "none"
BY DEF NativeFunctions, Function, db_query, db_select, db_get, db_create, db_update, db_delete,
    db_upsert_content, db_upsert_merge, db_upsert_patch, db_insert, db_run, db_set, db_unset,
    db_export, db_import, db_version, db_signin, db_signup, db_authenticate, db_invalidate,
    db_refresh_token, db_new, db_connect, db_use_ns, db_use_db, db_begin, db_commit, db_rollback,
    db_verify_rocksdb, db_repair_rocksdb

\* Only verify and repair answer with a code, only db_create and
\* db_update panic.
LEMMA SpecialRows ==
    \A f \in NativeFunctions :
        /\ f.gives = "code" => f.name \in LeavesMessage
        /\ f.gives = "response" => f.runs \in {"statements", "statement"}
        /\ f.runs \in {"statements", "statement"} /\ f.gives # "response" =>
                f \in {db_signin, db_begin, db_commit, db_rollback}
        /\ "split_character" \in f.refuses => f \in {db_create, db_update}
BY DEF NativeFunctions, Function, LeavesMessage, NullHandle, Validated, Argument,
    db_query, db_select, db_get, db_create, db_update, db_delete,
    db_upsert_content, db_upsert_merge, db_upsert_patch, db_insert, db_run, db_set, db_unset,
    db_export, db_import, db_version, db_signin, db_signup, db_authenticate, db_invalidate,
    db_refresh_token, db_new, db_connect, db_use_ns, db_use_db, db_begin, db_commit, db_rollback,
    db_verify_rocksdb, db_repair_rocksdb

\* A Response has a statement, a result for each, and NULL for the failed ones.
LEMMA OutcomesTyped ==
    ASSUME NEW f \in NativeFunctions, NEW outcomes \in Outcomes(f)
    PROVE  /\ Results(outcomes) \in Seq(Nat)
           /\ f.gives = "response" => outcomes # <<>>
           /\ f.runs \notin {"statements", "statement"} => outcomes = <<>>
<1>1. PICK k \in Lengths(f) : outcomes \in [1 .. k -> {"value", "error"}]
  BY DEF Outcomes
<1>2. k \in Nat
  BY <1>1, NativeCallsAssumption DEF Lengths
<1>3. Results(outcomes) \in [1 .. k -> Nat]
  BY <1>1, <1>2 DEF Results
<1>4. Results(outcomes) \in Seq(Nat)
  BY <1>2, <1>3, SeqDef
<1>5. ASSUME f.gives = "response" PROVE outcomes # <<>>
  <2>1. k # 0
    BY <1>1, <1>5, SpecialRows DEF Lengths
  <2>2. 1 \in DOMAIN outcomes
    BY <1>1, <1>2, <2>1
  <2> QED BY <2>2
<1>6. ASSUME f.runs \notin {"statements", "statement"} PROVE outcomes = <<>>
  <2>1. k = 0
    BY <1>1, <1>6, RowsTyped DEF Lengths
  <2>2. DOMAIN outcomes = {}
    BY <1>1, <2>1
  <2> QED BY <1>1, <2>1, <2>2
<1> QED BY <1>4, <1>5, <1>6

LEMMA ConnectIsRow == db_connect \in NativeFunctions /\ db_connect.runs = "nothing"
BY DEF NativeFunctions, db_connect, Function

\* A call that runs no text has no outcomes: <<>> has its type.
LEMMA OutcomesExist == <<>> \in UNION {Outcomes(f) : f \in NativeFunctions}
<1>1. db_connect \in NativeFunctions
  BY ConnectIsRow
<1>2. 0 \in Lengths(db_connect)
  BY ConnectIsRow, NativeCallsAssumption DEF Lengths
<1>3. <<>> \in [1 .. 0 -> {"value", "error"}]
  OBVIOUS
<1>4. <<>> \in Outcomes(db_connect)
  BY <1>2, <1>3 DEF Outcomes
<1> QED BY <1>1, <1>4

-----------------------------------------------------------------------------
(* One step of one thread                                                  *)

\* A step of thread t touches nothing of the others.
Touches(t) ==
    \A u \in Threads \ {t} :
        body'[u] = body[u] /\ heap'[u] = heap[u] /\ lastError'[u] = lastError[u]

LEMMA StepIsLocal ==
    ASSUME IInv, NEW t \in Threads, TypeOK', Touches(t), Sound(t)'
    PROVE  IInv'
<1>1. ASSUME NEW u \in Threads PROVE Sound(u)'
  <2>1. CASE u = t
    BY <2>1
  <2>2. CASE u # t
    <3>1. Sound(u)
      BY DEF IInv
    <3>2. body'[u] = body[u] /\ heap'[u] = heap[u] /\ lastError'[u] = lastError[u]
      BY <2>2 DEF Touches
    <3> QED BY <3>1, <3>2 DEF Sound, Memory, Answer, Message, OwnMessage, Inside, Leaving, At
  <2> QED BY <2>1, <2>2
<1> QED BY <1>1 DEF IInv

\* A message whose call is over is still a message, of the same function.
LEMMA Disowned ==
    ASSUME NEW m \in Messages \cup {NoMessage}
    PROVE  /\ [m EXCEPT !.mine = FALSE] \in Messages \cup {NoMessage}
           /\ [m EXCEPT !.mine = FALSE] = NoMessage <=> m = NoMessage
           /\ [m EXCEPT !.mine = FALSE].of = m.of
<1>1. CASE m = NoMessage
  <2>1. m \in [of : {"none"}, why : {"none"}, mine : {FALSE}] /\ m.mine = FALSE
    BY <1>1 DEF NoMessage
  <2>2. [m EXCEPT !.mine = FALSE] = m
    BY <2>1
  <2> QED BY <1>1, <2>2
<1>2. CASE m \in Messages
  <2>1. [m EXCEPT !.mine = FALSE] \in Messages /\ [m EXCEPT !.mine = FALSE].of = m.of
    BY <1>2 DEF Messages
  <2>2. NoMessage \notin Messages
    BY NamesAndNone DEF Messages, NoMessage
  <2> QED BY <1>2, <2>1, <2>2
<1> QED BY <1>1, <1>2

LEMMA CallPreserves ==
    ASSUME IInv, NEW t \in Threads, NEW f \in Workload[t], Call(t, f)
    PROVE  IInv'
<1> USE DEF IInv, TypeOK, Call, Slot, At
<1>1. f \in NativeFunctions
  BY WorkloadAssumption
<1>2. PICK m \in Messages \cup {NoMessage} :
        /\ lastError' = [lastError EXCEPT ![t] = m]
        /\ m = NoMessage <=> lastError[t] = NoMessage
        /\ m.of = lastError[t].of
  <2>1. lastError[t] \in Messages \cup {NoMessage}
    OBVIOUS
  <2>2. lastError' = [lastError EXCEPT ![t] = [lastError[t] EXCEPT !.mine = FALSE]]
    BY <2>1
  <2> QED BY <2>1, <2>2, Disowned
<1>3. body' = [body EXCEPT ![t] = NewBody("native", f)] /\ heap' = heap
  OBVIOUS
<1>4. NewBody("native", f) \in Bodies
  BY <1>1, OutcomesExist DEF NewBody, Bodies
<1>5. TypeOK'
  <2>1. lastError' \in [Threads -> Messages \cup {NoMessage}]
    BY <1>2
  <2>2. body' \in [Threads -> Bodies]
    BY <1>3, <1>4
  <2> QED BY <1>3, <2>1, <2>2
<1>6. Touches(t)
  BY <1>2, <1>3 DEF Touches
<1>7. Sound(t)'
  <2>1. Sound(t)
    OBVIOUS
  <2>2. Memory(t)' /\ Answer(t)'
    BY <1>3, <2>1 DEF NewBody, Sound, Memory, Answer, Inside, Leaving, WayOut
  <2>3. Message(t)'
    BY <1>2, <1>3, <2>1 DEF NewBody, Sound, Message
  <2> QED BY <2>2, <2>3 DEF Sound
<1> QED BY <1>5, <1>6, <1>7, StepIsLocal

\* What SetLastError stores is a message of the body's own call.
LEMMA StoredMessage ==
    ASSUME TypeOK, NEW t \in Threads, NEW why \in Flaws \cup {"engine", "notice"},
           SetLastError(t, why)
    PROVE  /\ lastError' = [lastError EXCEPT ![t] =
                                [of |-> body[t].fn.name, why |-> why, mine |-> TRUE]]
           /\ lastError' \in [Threads -> Messages \cup {NoMessage}]
<1>1. body[t].fn \in NativeFunctions
  BY DEF TypeOK, Bodies
<1>2. [of |-> body[t].fn.name, why |-> why, mine |-> TRUE] \in Messages
  BY <1>1 DEF Messages
<1> QED BY <1>2 DEF TypeOK, SetLastError, Slot

LEMMA FailPreserves ==
    ASSUME IInv, NEW t \in Threads, Fail(t)
    PROVE  IInv'
<1> USE DEF IInv, Slot, At
<1>1. body[t].fn \in NativeFunctions /\ Sound(t) /\ At(t, "native")
  BY DEF TypeOK, Bodies, Fail
<1>2. PICK why \in body[t].fn.refuses \cup {"engine"} : SetLastError(t, why)
  BY DEF Fail
<1>3. why \in Flaws \cup {"engine", "notice"}
  BY <1>1, <1>2 DEF Flaws
<1>4. /\ lastError' = [lastError EXCEPT ![t] =
                            [of |-> body[t].fn.name, why |-> why, mine |-> TRUE]]
      /\ lastError' \in [Threads -> Messages \cup {NoMessage}]
  BY <1>2, <1>3, StoredMessage
<1>5. PICK pc \in {"return", "failed"} :
        /\ body' = [body EXCEPT ![t].pc = pc]
        /\ pc = "return" <=> body[t].fn.gives = "code"
  BY DEF Fail
<1>6. heap' = heap
  BY DEF Fail
<1>7. TypeOK'
  <2>1. body' \in [Threads -> Bodies]
    <3>1. body[t] \in Bodies
      BY DEF TypeOK
    <3>2. [body[t] EXCEPT !.pc = pc] \in Bodies
      BY <1>5, <3>1 DEF Bodies
    <3> QED BY <1>5, <3>2 DEF TypeOK
  <2> QED BY <1>4, <1>6, <2>1 DEF TypeOK
<1>8. Touches(t)
  BY <1>4, <1>5, <1>6 DEF Touches, TypeOK
<1>9. Sound(t)'
  <2>1. body'[t].pc = pc /\ body'[t].outcomes = body[t].outcomes /\ body'[t].todo = body[t].todo
            /\ body'[t].fn = body[t].fn /\ heap'[t] = heap[t]
    BY <1>5, <1>6 DEF TypeOK, Bodies
  <2>2. Memory(t)'
    BY <1>1, <2>1 DEF Sound, Memory, Inside, Leaving
  <2>3. Answer(t)'
    BY <1>1, <2>1 DEF Sound, Answer, Memory, Errors
  <2>4. lastError'[t] = [of |-> body[t].fn.name, why |-> why, mine |-> TRUE]
    BY <1>4 DEF TypeOK
  <2>5. Message(t)'
    BY <1>1, <1>2, <1>5, <2>1, <2>4, SpecialRows DEF Message, OwnMessage
  <2> QED BY <2>2, <2>3, <2>5 DEF Sound
<1> QED BY <1>7, <1>8, <1>9, StepIsLocal

LEMMA RespondPreserves ==
    ASSUME IInv, NEW t \in Threads, Respond(t)
    PROVE  IInv'
<1> USE DEF IInv, At
<1>1. body[t] \in Bodies /\ body[t].fn \in NativeFunctions /\ Sound(t)
  BY DEF TypeOK, Bodies
<1>2. PICK outcomes \in Outcomes(body[t].fn) :
        body' = [body EXCEPT ![t].pc = "response", ![t].outcomes = outcomes,
                             ![t].results = Results(outcomes)]
  BY DEF Respond
<1>3. Results(outcomes) \in Seq(Nat) /\ outcomes # <<>>
  BY <1>1, OutcomesTyped DEF Respond
<1>4. /\ At(t, "native") /\ lastError' = lastError
      /\ heap' = [heap EXCEPT ![t] = heap[t] \cup {"response"}]
  BY DEF Respond
<1>5. TypeOK'
  <2>1. outcomes \in UNION {Outcomes(f) : f \in NativeFunctions}
    BY <1>1, <1>2
  <2>2. [body[t] EXCEPT !.pc = "response", !.outcomes = outcomes,
                        !.results = Results(outcomes)] \in Bodies
    BY <1>1, <1>3, <2>1 DEF Bodies
  <2>3. body' \in [Threads -> Bodies] /\ heap' \in [Threads -> SUBSET Kinds]
    BY <1>2, <1>4, <2>2 DEF TypeOK, Kinds
  <2> QED BY <1>4, <2>3 DEF TypeOK
<1>6. Touches(t)
  BY <1>2, <1>4 DEF Touches, TypeOK
<1>7. Sound(t)'
  <2>1. /\ body'[t].pc = "response" /\ body'[t].outcomes = outcomes
        /\ body'[t].results = Results(outcomes) /\ body'[t].todo = body[t].todo
    BY <1>2 DEF TypeOK, Bodies
  <2>2. heap[t] = {} /\ heap'[t] = {"response"}
    BY <1>1, <1>4 DEF TypeOK, Sound, Memory
  <2>3. Memory(t)' /\ Answer(t)'
    BY <1>1, <1>3, <1>4, <2>1, <2>2 DEF Sound, Memory, Answer, Inside, Leaving
  <2>4. Message(t)'
    BY <1>1, <1>4, <2>1 DEF Sound, Message
  <2> QED BY <2>3, <2>4 DEF Sound
<1> QED BY <1>5, <1>6, <1>7, StepIsLocal

LEMMA SucceedPreserves ==
    ASSUME IInv, NEW t \in Threads, Succeed(t)
    PROVE  IInv'
<1> DEFINE f == body[t].fn
           todo == IF f.gives = "string" THEN <<"token">> ELSE <<>>
           held == IF f.gives = "string" THEN {"token"} ELSE {}
<1> USE DEF IInv, At
<1>1. body[t] \in Bodies /\ f \in NativeFunctions /\ Sound(t) /\ At(t, "native")
  BY DEF TypeOK, Bodies, Succeed
<1>2. PICK outcomes \in Outcomes(f) :
        body' = [body EXCEPT ![t].pc = "return", ![t].outcomes = outcomes, ![t].todo = todo]
  BY DEF Succeed
<1>3. heap' = [heap EXCEPT ![t] = heap[t] \cup held]
  BY DEF Succeed
<1>4. heap[t] = {} /\ heap'[t] = held
  BY <1>1, <1>3 DEF TypeOK, Sound, Memory
<1>5. todo \in WayOut /\ todo \in Seq(Kinds) /\ held = {todo[n] : n \in DOMAIN todo}
  <2>1. CASE f.gives = "string"
    BY <2>1 DEF WayOut, Kinds
  <2>2. CASE f.gives # "string"
    BY <2>2 DEF WayOut, Kinds
  <2> QED BY <2>1, <2>2
<1>6. /\ lastError' \in [Threads -> Messages \cup {NoMessage}]
      /\ \A u \in Threads \ {t} : lastError'[u] = lastError[u]
      /\ lastError'[t] # NoMessage => lastError'[t].of \in LeavesMessage
  <2>1. CASE f = db_signup
    <3>1. SetLastError(t, "notice")
      BY <2>1 DEF Succeed
    <3>2. lastError' = [lastError EXCEPT ![t] = [of |-> f.name, why |-> "notice", mine |-> TRUE]]
      BY <3>1, StoredMessage
    <3>3. lastError' \in [Threads -> Messages \cup {NoMessage}]
      BY <3>1, StoredMessage
    <3>4. f.name = "db_signup"
      BY <2>1 DEF db_signup, Function
    <3> QED BY <3>2, <3>3, <3>4 DEF TypeOK, LeavesMessage
  <2>2. CASE f # db_signup
    <3>1. lastError' = lastError
      BY <2>2 DEF Succeed
    <3> QED BY <1>1, <3>1 DEF TypeOK, Sound, Message
  <2> QED BY <2>1, <2>2
<1> HIDE DEF todo, held
<1>7. TypeOK'
  <2>1. outcomes \in UNION {Outcomes(g) : g \in NativeFunctions}
    BY <1>1, <1>2
  <2>2. [body[t] EXCEPT !.pc = "return", !.outcomes = outcomes, !.todo = todo] \in Bodies
    BY <1>1, <1>5, <2>1 DEF Bodies
  <2>3. body' \in [Threads -> Bodies]
    BY <1>2, <2>2 DEF TypeOK
  <2>4. heap' \in [Threads -> SUBSET Kinds]
    BY <1>3 DEF TypeOK, Kinds, held
  <2> QED BY <1>6, <2>3, <2>4 DEF TypeOK
<1>8. Touches(t)
  BY <1>2, <1>3, <1>6 DEF Touches, TypeOK
<1>9. Sound(t)'
  <2>1. /\ body'[t].pc = "return" /\ body'[t].outcomes = outcomes
        /\ body'[t].fn = f /\ body'[t].todo = todo
    BY <1>2 DEF TypeOK, Bodies
  <2>2. Memory(t)'
    BY <1>4, <1>5, <2>1 DEF Memory, Inside, Leaving
  <2>3. Answer(t)'
    <3>1. f.gives # "response"
      BY DEF Succeed
    <3>2. Errors(outcomes) # {} => f \in {db_signin, db_begin, db_commit, db_rollback}
      BY <1>1, <1>2, <3>1, OutcomesTyped, SpecialRows DEF Errors
    <3>3. "response" \notin held
      BY DEF held
    <3> QED BY <1>4, <2>1, <3>2, <3>3 DEF Answer
  <2>4. Message(t)'
    BY <1>6, <2>1 DEF Message
  <2> QED BY <2>2, <2>3, <2>4 DEF Sound
<1> QED BY <1>7, <1>8, <1>9, StepIsLocal

LEMMA HasErrorsPreserves ==
    ASSUME IInv, NEW t \in Threads, HasErrors(t)
    PROVE  IInv'
<1> USE DEF IInv, At
<1>1. Sound(t) /\ At(t, "response") /\ lastError' = lastError /\ heap' = heap
  BY DEF HasErrors
<1>2. PICK pc \in {"failed", "results"} :
        /\ body' = [body EXCEPT ![t].pc = pc]
        /\ pc = "results" => Errors(body[t].outcomes) = {}
  BY DEF HasErrors
<1>3. TypeOK'
  <2>1. body' \in [Threads -> Bodies]
    <3>1. body[t] \in Bodies
      BY DEF TypeOK
    <3>2. [body[t] EXCEPT !.pc = pc] \in Bodies
      BY <1>2, <3>1 DEF Bodies
    <3> QED BY <1>2, <3>2 DEF TypeOK
  <2> QED BY <1>1, <2>1 DEF TypeOK
<1>4. Touches(t)
  BY <1>1, <1>2 DEF Touches, TypeOK
<1>5. Sound(t)'
  <2>1. /\ body'[t].pc = pc /\ body'[t].outcomes = body[t].outcomes /\ body'[t].fn = body[t].fn
        /\ body'[t].results = body[t].results /\ body'[t].todo = body[t].todo
    BY <1>2 DEF TypeOK, Bodies
  <2>2. Memory(t)' /\ Answer(t)' /\ Message(t)'
    BY <1>1, <1>2, <2>1 DEF Sound, Memory, Answer, Message, Inside, Leaving
  <2> QED BY <2>2 DEF Sound
<1> QED BY <1>3, <1>4, <1>5, StepIsLocal

LEMMA GetResultsPreserves ==
    ASSUME IInv, NEW t \in Threads, GetResults(t)
    PROVE  IInv'
<1> DEFINE todo == <<"json", "response">>
<1> USE DEF IInv, At
<1>1. body[t] \in Bodies /\ Sound(t) /\ At(t, "results") /\ lastError' = lastError
  BY DEF GetResults, TypeOK
<1>2. /\ body' = [body EXCEPT ![t].pc = "return", ![t].todo = todo]
      /\ heap' = [heap EXCEPT ![t] = heap[t] \cup {"json"}]
  BY DEF GetResults
<1>3. todo \in WayOut /\ todo \in Seq(Kinds) /\ {todo[n] : n \in DOMAIN todo} = {"json", "response"}
  BY DEF WayOut, Kinds
<1> HIDE DEF todo
<1>4. TypeOK'
  <2>1. [body[t] EXCEPT !.pc = "return", !.todo = todo] \in Bodies
    BY <1>1, <1>3 DEF Bodies
  <2>2. body' \in [Threads -> Bodies] /\ heap' \in [Threads -> SUBSET Kinds]
    BY <1>2, <2>1 DEF TypeOK, Kinds
  <2> QED BY <1>1, <2>2 DEF TypeOK
<1>5. Touches(t)
  BY <1>1, <1>2 DEF Touches, TypeOK
<1>6. Sound(t)'
  <2>1. /\ body'[t].pc = "return" /\ body'[t].outcomes = body[t].outcomes
        /\ body'[t].results = body[t].results /\ body'[t].todo = todo
    BY <1>2 DEF TypeOK, Bodies
  <2>2. heap'[t] = {"json", "response"} /\ heap[t] = {"response"}
    BY <1>1, <1>2 DEF TypeOK, Sound, Memory
  <2>3. Memory(t)'
    BY <1>3, <2>1, <2>2 DEF Memory, Inside, Leaving
  <2>4. Answer(t)' /\ Message(t)'
    BY <1>1, <2>1, <2>2 DEF Sound, Answer, Message
  <2> QED BY <2>3, <2>4 DEF Sound
<1> QED BY <1>4, <1>5, <1>6, StepIsLocal

LEMMA PairOfSingles ==
    ASSUME NEW a, NEW b
    PROVE  <<a>> \o <<b>> = <<a, b>>
<1>1. <<a>> \in Seq({a, b}) /\ <<b>> \in Seq({a, b}) /\ <<a, b>> \in Seq({a, b})
  OBVIOUS
<1>2. <<a>> \o <<b>> \in Seq({a, b})
  BY <1>1, ConcatProperties
<1>3. Len(<<a>> \o <<b>>) = Len(<<a, b>>)
  BY <1>1, ConcatProperties
<1>4. \A i \in 1 .. Len(<<a>> \o <<b>>) : (<<a>> \o <<b>>)[i] = <<a, b>>[i]
  <2>1. (<<a>> \o <<b>>)[1] = a /\ (<<a>> \o <<b>>)[2] = b
    BY <1>1, ConcatProperties
  <2>2. Len(<<a>> \o <<b>>) = 2
    BY <1>3
  <2> QED BY <2>1, <2>2
<1> QED BY <1>1, <1>2, <1>3, <1>4, SeqEqual

LEMMA TakeMessagePreserves ==
    ASSUME IInv, NEW t \in Threads, TakeMessage(t)
    PROVE  IInv'
<1> DEFINE given == IF lastError[t] = NoMessage THEN <<>> ELSE <<"message">>
           box   == IF "response" \in heap[t] THEN <<"response">> ELSE <<>>
           todo  == given \o box
           more  == IF lastError[t] = NoMessage THEN {} ELSE {"message"}
<1> USE DEF IInv, At
<1>1. body[t] \in Bodies /\ Sound(t) /\ At(t, "failed") /\ lastError[t] \in Messages \cup {NoMessage}
  BY DEF TakeMessage, TypeOK
<1>2. /\ body' = [body EXCEPT ![t].pc = "throw", ![t].message = lastError[t], ![t].todo = todo]
      /\ heap' = [heap EXCEPT ![t] = heap[t] \cup more]
      /\ lastError' = [lastError EXCEPT ![t] = NoMessage]
  BY DEF TakeMessage, Slot
<1>3. heap[t] \in {{}, {"response"}}
  BY <1>1 DEF Sound, Memory
<1>4. todo \in WayOut /\ todo \in Seq(Kinds) /\ {todo[n] : n \in DOMAIN todo} = heap[t] \cup more
  <2>1. CASE lastError[t] = NoMessage /\ heap[t] = {}
    <3>1. todo = <<>>
      BY <2>1
    <3> QED BY <2>1, <3>1 DEF WayOut, Kinds
  <2>2. CASE lastError[t] = NoMessage /\ heap[t] = {"response"}
    <3>1. todo = <<"response">>
      BY <2>2
    <3> QED BY <2>2, <3>1 DEF WayOut, Kinds
  <2>3. CASE lastError[t] # NoMessage /\ heap[t] = {}
    <3>1. todo = <<"message">>
      BY <2>3
    <3> QED BY <2>3, <3>1 DEF WayOut, Kinds
  <2>4. CASE lastError[t] # NoMessage /\ heap[t] = {"response"}
    <3>1. todo = <<"message", "response">>
      <4>1. <<"message">> \o <<"response">> = <<"message", "response">>
        BY PairOfSingles
      <4>2. given = <<"message">> /\ box = <<"response">>
        BY <2>4
      <4> QED BY <4>1, <4>2
    <3> QED BY <2>4, <3>1 DEF WayOut, Kinds
  <2> QED BY <1>3, <2>1, <2>2, <2>3, <2>4
<1> HIDE DEF todo
<1>5. TypeOK'
  <2>1. [body[t] EXCEPT !.pc = "throw", !.message = lastError[t], !.todo = todo] \in Bodies
    BY <1>1, <1>4 DEF Bodies
  <2>2. body' \in [Threads -> Bodies]
    BY <1>2, <2>1 DEF TypeOK
  <2>3. heap' \in [Threads -> SUBSET Kinds]
    BY <1>2 DEF TypeOK, Kinds
  <2>4. lastError' \in [Threads -> Messages \cup {NoMessage}]
    BY <1>2 DEF TypeOK
  <2> QED BY <2>2, <2>3, <2>4 DEF TypeOK
<1>6. Touches(t)
  BY <1>2 DEF Touches, TypeOK
<1>7. Sound(t)'
  <2>1. /\ body'[t].pc = "throw" /\ body'[t].outcomes = body[t].outcomes /\ body'[t].fn = body[t].fn
        /\ body'[t].results = body[t].results /\ body'[t].todo = todo
        /\ body'[t].message = lastError[t]
    BY <1>2 DEF TypeOK, Bodies
  <2>2. heap'[t] = heap[t] \cup more /\ lastError'[t] = NoMessage
    BY <1>2 DEF TypeOK
  <2>3. Memory(t)'
    <3>1. body'[t].todo \in WayOut /\ ~Inside(t)'
      BY <1>4, <2>1 DEF Inside
    <3>2. heap'[t] = {body'[t].todo[n] : n \in DOMAIN body'[t].todo}
      BY <1>4, <2>1, <2>2
    <3>3. ~At(t, "failed")'
      BY <2>1
    <3> QED BY <3>1, <3>2, <3>3 DEF Memory, Inside
  <2>4. Answer(t)'
    BY <1>1, <2>1, <2>2 DEF Sound, Answer
  <2>5. Message(t)'
    BY <1>1, <1>3, <2>1, <2>2 DEF Sound, Answer, Message, OwnMessage
  <2> QED BY <2>3, <2>4, <2>5 DEF Sound
<1> QED BY <1>5, <1>6, <1>7, StepIsLocal

\* What Free does to a way out: it gets shorter by what is freed.
LEMMA Freed ==
    ASSUME NEW todo \in WayOut, todo # <<>>
    PROVE  /\ Tail(todo) \in WayOut /\ Tail(todo) \in Seq(Kinds)
           /\ {Tail(todo)[n] : n \in DOMAIN Tail(todo)}
                = {todo[n] : n \in DOMAIN todo} \ {Head(todo)}
<1>1. ASSUME NEW x \in Kinds, todo = <<x>>
      PROVE  /\ Tail(todo) \in WayOut /\ Tail(todo) \in Seq(Kinds)
             /\ {Tail(todo)[n] : n \in DOMAIN Tail(todo)}
                    = {todo[n] : n \in DOMAIN todo} \ {Head(todo)}
  <2>1. Tail(todo) = <<>> /\ Head(todo) = x
    BY <1>1
  <2>2. {todo[n] : n \in DOMAIN todo} = {x}
    BY <1>1
  <2>3. {<<>>[n] : n \in DOMAIN <<>>} = {}
    OBVIOUS
  <2>4. <<>> \in WayOut /\ <<>> \in Seq(Kinds)
    BY DEF WayOut
  <2> QED BY <2>1, <2>2, <2>3, <2>4
<1>2. ASSUME NEW x \in Kinds, NEW y \in Kinds, x # y, todo = <<x, y>>, <<y>> \in WayOut
      PROVE  /\ Tail(todo) \in WayOut /\ Tail(todo) \in Seq(Kinds)
             /\ {Tail(todo)[n] : n \in DOMAIN Tail(todo)}
                    = {todo[n] : n \in DOMAIN todo} \ {Head(todo)}
  <2>1. Tail(todo) = <<y>> /\ Head(todo) = x
    BY <1>2
  <2>2. {todo[n] : n \in DOMAIN todo} = {x, y} /\ {<<y>>[n] : n \in DOMAIN <<y>>} = {y}
    BY <1>2
  <2> QED BY <1>2, <2>1, <2>2
<1>3. CASE todo = <<"json", "response">>
  BY <1>2, <1>3 DEF Kinds, WayOut
<1>4. CASE todo = <<"message", "response">>
  BY <1>2, <1>4 DEF Kinds, WayOut
<1>5. CASE todo \in {<<"token">>, <<"response">>, <<"message">>}
  <2>1. PICK x \in Kinds : todo = <<x>>
    BY <1>5 DEF Kinds
  <2> QED BY <1>1, <2>1
<1> QED BY <1>3, <1>4, <1>5 DEF WayOut

LEMMA FreePreserves ==
    ASSUME IInv, NEW t \in Threads, Free(t)
    PROVE  IInv'
<1> DEFINE todo == body[t].todo
<1> USE DEF IInv, At
<1>1. body[t] \in Bodies /\ Sound(t) /\ lastError' = lastError /\ todo # <<>>
  BY DEF Free, TypeOK
<1>2. /\ body' = [body EXCEPT ![t].todo = Tail(todo)]
      /\ heap' = [heap EXCEPT ![t] = heap[t] \ {Head(todo)}]
  BY DEF Free, TypeOK
<1>3. todo \in WayOut /\ Leaving(t)
  <2>1. ~Inside(t) => Leaving(t)
    BY <1>1 DEF Inside, Leaving, Bodies
  <2> QED BY <1>1, <2>1 DEF Sound, Memory
<1>4. /\ Tail(todo) \in WayOut /\ Tail(todo) \in Seq(Kinds)
      /\ {Tail(todo)[n] : n \in DOMAIN Tail(todo)} = {todo[n] : n \in DOMAIN todo} \ {Head(todo)}
  BY <1>1, <1>3, Freed
<1>5. TypeOK'
  <2>1. [body[t] EXCEPT !.todo = Tail(todo)] \in Bodies
    BY <1>1, <1>4 DEF Bodies
  <2>2. body' \in [Threads -> Bodies]
    BY <1>2, <2>1 DEF TypeOK
  <2>3. heap' \in [Threads -> SUBSET Kinds]
    BY <1>2 DEF TypeOK
  <2> QED BY <1>1, <2>2, <2>3 DEF TypeOK
<1>6. Touches(t)
  BY <1>1, <1>2 DEF Touches, TypeOK
<1>7. Sound(t)'
  <2>1. /\ body'[t].pc = body[t].pc /\ body'[t].outcomes = body[t].outcomes
        /\ body'[t].fn = body[t].fn /\ body'[t].results = body[t].results
        /\ body'[t].todo = Tail(todo) /\ body'[t].message = body[t].message
    BY <1>2 DEF TypeOK, Bodies
  <2>2. heap'[t] = heap[t] \ {Head(todo)}
    BY <1>2 DEF TypeOK
  <2>3. heap[t] = {todo[n] : n \in DOMAIN todo}
    BY <1>1, <1>3 DEF Sound, Memory
  <2>4. Memory(t)'
    <3>1. body'[t].todo \in WayOut /\ ~Inside(t)'
      BY <1>3, <1>4, <2>1 DEF Inside, Leaving
    <3>2. heap'[t] = {body'[t].todo[n] : n \in DOMAIN body'[t].todo}
      <4>1. heap'[t] = {Tail(todo)[n] : n \in DOMAIN Tail(todo)}
        BY <1>4, <2>2, <2>3
      <4> QED BY <2>1, <4>1
    <3> QED BY <3>1, <3>2 DEF Memory, Inside
  <2>5. Answer(t)' /\ Message(t)'
    BY <1>1, <1>3, <2>1, <2>2 DEF Sound, Answer, Message, OwnMessage, Leaving
  <2> QED BY <2>4, <2>5 DEF Sound
<1> QED BY <1>5, <1>6, <1>7, StepIsLocal

LEMMA FinishPreserves ==
    ASSUME IInv, NEW t \in Threads, Finish(t)
    PROVE  IInv'
<1> USE DEF IInv, At
<1>1. /\ Sound(t) /\ Leaving(t) /\ lastError' = lastError /\ heap' = heap
      /\ body' = [body EXCEPT ![t] = NoBody] /\ body[t].todo = <<>>
  BY DEF Finish, Leaving
<1>2. TypeOK'
  <2>1. NoBody \in Bodies
    BY OutcomesExist, ConnectIsRow DEF NoBody, NewBody, Bodies
  <2>2. body' \in [Threads -> Bodies]
    BY <1>1, <2>1 DEF TypeOK
  <2> QED BY <1>1, <2>2 DEF TypeOK
<1>3. Touches(t)
  BY <1>1 DEF Touches, TypeOK
<1>4. Sound(t)'
  <2>1. body'[t].pc = "idle" /\ body'[t].outcomes = <<>> /\ body'[t].todo = <<>>
    BY <1>1 DEF TypeOK, NoBody, NewBody
  <2>2. heap[t] = {}
    BY <1>1 DEF Sound, Memory
  <2>3. Memory(t)' /\ Answer(t)'
    BY <1>1, <2>1, <2>2 DEF Memory, Answer, Inside, Leaving, WayOut
  <2>4. Message(t)'
    BY <1>1, <2>1 DEF Sound, Message, Leaving
  <2> QED BY <2>3, <2>4 DEF Sound
<1> QED BY <1>2, <1>3, <1>4, StepIsLocal

-----------------------------------------------------------------------------
(* The specification                                                       *)

LEMMA InitIInv == Init => IInv
<1> SUFFICES ASSUME Init PROVE IInv
  OBVIOUS
<1> USE DEF Init
<1>1. NoBody \in Bodies
  BY OutcomesExist, ConnectIsRow DEF NoBody, NewBody, Bodies
<1>2. TypeOK
  BY <1>1 DEF TypeOK
<1>3. ASSUME NEW t \in Threads PROVE Sound(t)
  <2>1. body[t].pc = "idle" /\ body[t].outcomes = <<>> /\ body[t].todo = <<>>
    BY DEF NoBody, NewBody
  <2>2. heap[t] = {} /\ lastError[t] = NoMessage
    OBVIOUS
  <2> QED BY <2>1, <2>2 DEF Sound, Memory, Answer, Message, Inside, Leaving, WayOut, At
<1> QED BY <1>2, <1>3 DEF IInv

LEMMA NextPreservesIInv == IInv /\ [Next]_vars => IInv'
<1> SUFFICES ASSUME IInv, [Next]_vars PROVE IInv'
  OBVIOUS
<1>1. ASSUME NEW t \in Threads, Step(t) PROVE IInv'
  <2>1. CASE Fail(t)
    BY <2>1, FailPreserves
  <2>2. CASE Respond(t)
    BY <2>2, RespondPreserves
  <2>3. CASE Succeed(t)
    BY <2>3, SucceedPreserves
  <2>4. CASE HasErrors(t)
    BY <2>4, HasErrorsPreserves
  <2>5. CASE GetResults(t)
    BY <2>5, GetResultsPreserves
  <2>6. CASE TakeMessage(t)
    BY <2>6, TakeMessagePreserves
  <2>7. CASE Free(t)
    BY <2>7, FreePreserves
  <2>8. CASE Finish(t)
    BY <2>8, FinishPreserves
  <2> QED BY <1>1, <2>1, <2>2, <2>3, <2>4, <2>5, <2>6, <2>7, <2>8 DEF Step
<1>2. ASSUME NEW t \in Threads, NEW f \in Workload[t], Call(t, f) PROVE IInv'
  BY <1>2, CallPreserves
<1>3. CASE UNCHANGED vars
  <2>1. TypeOK'
    BY <1>3 DEF IInv, TypeOK, vars
  <2>2. ASSUME NEW t \in Threads PROVE Sound(t)'
    BY <1>3 DEF IInv, vars, Sound, Memory, Answer, Message, OwnMessage, Inside, Leaving, At
  <2> QED BY <2>1, <2>2 DEF IInv
<1> QED BY <1>1, <1>2, <1>3 DEF Next

LEMMA Invariance == Spec => []IInv
BY InitIInv, NextPreservesIInv, PTL DEF Spec

-----------------------------------------------------------------------------
(* What follows                                                            *)

\* The slots, the heap and the bodies have their types, for every workload.
THEOREM TypeCorrect == Spec => []TypeOK
<1>1. IInv => TypeOK
  BY DEF IInv
<1> QED BY <1>1, Invariance, PTL

\* The Response box and every string that crosses the boundary are freed once
\* and only once, by every body of every thread.
THEOREM BodiesFreeEverything == Spec => []FreedExactlyOnce
<1>1. \A todo \in WayOut : \A m, n \in DOMAIN todo : todo[m] = todo[n] => m = n
  BY DEF WayOut
<1>2. IInv => FreedExactlyOnce
  <2> SUFFICES ASSUME IInv, NEW t \in Threads
               PROVE  /\ At(t, "idle") => heap[t] = {}
                      /\ Leaving(t) =>
                            /\ heap[t] = {body[t].todo[n] : n \in DOMAIN body[t].todo}
                            /\ \A m, n \in DOMAIN body[t].todo :
                                    body[t].todo[m] = body[t].todo[n] => m = n
    BY DEF FreedExactlyOnce, Leaving
  <2> QED BY <1>1 DEF IInv, Sound, Memory
<1> QED BY <1>2, Invariance, PTL

\* A statement that failed makes the body throw, except for db_signin and the
\* transaction functions, which do not look.
THEOREM FailuresAreReported == Spec => []FailedStatementsThrow
<1>1. IInv => FailedStatementsThrow
  BY DEF IInv, Sound, Answer, FailedStatementsThrow
<1> QED BY <1>1, Invariance, PTL

\* A Response keeps every result at the index of its statement, in texts of
\* any length.
THEOREM ResponsesAreComplete == Spec => []ResponseIsComplete
<1>1. IInv => ResponseIsComplete
  <2> SUFFICES ASSUME IInv, NEW t \in Threads, "response" \in heap[t]
               PROVE  /\ DOMAIN body[t].results = DOMAIN body[t].outcomes
                      /\ \A n \in DOMAIN body[t].results : body[t].results[n] =
                            IF n \in Errors(body[t].outcomes) THEN 0 ELSE n
    BY DEF ResponseIsComplete
  <2>1. body[t].results = Results(body[t].outcomes)
    BY DEF IInv, Sound, Answer
  <2>2. PICK f \in NativeFunctions : body[t].outcomes \in Outcomes(f)
    BY DEF IInv, TypeOK, Bodies
  <2>3. PICK k \in Lengths(f) : body[t].outcomes \in [1 .. k -> {"value", "error"}]
    BY <2>2 DEF Outcomes
  <2> QED BY <2>1, <2>3 DEF Results, Errors
<1> QED BY <1>1, Invariance, PTL

\* An exception of a call that was turned away carries the message of that
\* very call, whatever other calls its thread and other threads have made.
THEOREM MessagesAreOwn == Spec => []MessageIsOwn
<1>1. IInv => MessageIsOwn
  <2> SUFFICES ASSUME IInv, NEW t \in Threads, At(t, "throw"), body[t].outcomes = <<>>
               PROVE  /\ body[t].message.mine
                      /\ body[t].message.of = body[t].fn.name
                      /\ body[t].message.why \in Deserved \/ body[t].fn \in {db_create, db_update}
    BY DEF MessageIsOwn
  <2>1. OwnMessage(t, body[t].message) /\ body[t].fn \in NativeFunctions
    BY DEF IInv, Sound, Message, TypeOK, Bodies
  <2>2. body[t].message.why \in Flaws \cup {"engine"}
    BY <2>1 DEF OwnMessage, Flaws
  <2> QED BY <2>1, <2>2, SpecialRows DEF OwnMessage, Deserved
<1> QED BY <1>1, Invariance, PTL

\* Only db_signup, db_verify_rocksdb and db_repair_rocksdb leave a message that
\* a later body on the thread can find.
THEOREM FewLeaveMessages == Spec => []LeftoversKnown
<1>1. IInv => LeftoversKnown
  BY DEF IInv, Sound, Message, LeftoversKnown, LeavesMessage, At
<1> QED BY <1>1, Invariance, PTL
=============================================================================
