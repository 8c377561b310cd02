-------------------------------- MODULE Session --------------------------------
(***************************************************************************)
(* What Database objects that share one connection do to each other        *)
(* through its session: the parameters that searchSimilar binds, and the   *)
(* transaction that transaction() opens.  The connection outlives every    *)
(* object here; ConnectionProtocol is about how it is shared.              *)
(*                                                                         *)
(* A call is cut at its awaits.  Each part is an event in the queue of the *)
(* object's isolate and reads _handle when it runs; the query of a search  *)
(* is a microtask of the event that bound its parameter.  Between any two  *)
(* native calls of one isolate the other isolates make theirs.             *)
(***************************************************************************)
EXTENDS Naturals, Sequences, FiniteSets

CONSTANTS
    Isolates,
    Databases,      \* Database objects on the connection
    Calls,          \* calls the application may make
    Home,           \* the isolate each object lives in
    Owner,          \* the object each call is made on
    Opener,         \* the isolate that opened the connection
    MaxWrites,      \* bound: writes of each call's callback
    None            \* no call; no parameter

ASSUME SessionAssumption ==
    /\ IsFiniteSet(Calls)
    /\ Home \in [Databases -> Isolates]
    /\ Owner \in [Calls -> Databases]
    /\ Opener \in Isolates
    /\ MaxWrites \in [Calls -> Nat \ {0}]
    /\ None \notin Calls

VARIABLES
    obj,            \* each object: open, closed, or lost with its isolate
    counter,        \* _paramCounter of each object
    queue,          \* the calls whose next event waits in each isolate
    running,        \* the call whose event an isolate is in the middle of
    call,           \* how far each call has come
    params,         \* the session's parameters: who has bound each number
    txn,            \* the session's transaction
    store           \* writes in the database

vars == <<obj, counter, queue, running, call, params, txn, store>>

Numbers == 0 .. Cardinality(Calls)
Writes  == UNION {{c} \X (1 .. MaxWrites[c]) : c \in Calls}

NoTransaction == [open |-> FALSE, writes |-> {}]

\* name, got: of a search, the number of its parameter and the call whose
\* vector its query was computed with.  written, mixed: of a transaction, the
\* writes its callback was told have succeeded, and whether anything else
\* used the session between its BEGIN and its end.
NewCall(pc, kind) == [pc |-> pc, kind |-> kind, name |-> 0, got |-> None,
                      written |-> {}, mixed |-> FALSE]

Waiting == {"called", "binding", "unbinding", "writing"}
Ended   == {"returned", "threw", "abandoned"}

TypeOK ==
    /\ obj \in [Databases -> {"open", "closed", "lost"}]
    /\ counter \in [Databases -> Numbers]
    /\ queue \in [Isolates -> Seq(Calls)]
    /\ running \in [Isolates -> Calls \cup {None}]
    /\ call \in [Calls ->
            [pc : {"none", "bound", "failed", "callback", "lost"} \cup Waiting \cup Ended,
             kind : {"none", "search", "transaction", "write"},
             name : Numbers, got : Calls \cup {None}, written : SUBSET Writes, mixed : BOOLEAN]]
    /\ DOMAIN params \subseteq Numbers /\ \A k \in DOMAIN params : params[k] \in Calls
    /\ txn \in [open : BOOLEAN, writes : SUBSET Writes]
    /\ store \in SUBSET Writes
    /\ \A c \in Calls, i \in Isolates :
        (\E n \in 1 .. Len(queue[i]) : queue[i][n] = c)
            <=> call[c].pc \in Waiting \cup {"failed"} /\ Home[Owner[c]] = i

Init ==
    /\ obj = [d \in Databases |-> "open"]
    /\ counter = [d \in Databases |-> 0]
    /\ queue = [i \in Isolates |-> <<>>]
    /\ running = [i \in Isolates |-> None]
    /\ call = [c \in Calls |-> NewCall("none", "none")]
    /\ params = [k \in {} |-> None]
    /\ txn = NoTransaction
    /\ store = {}

-----------------------------------------------------------------------------
(* Events                                                                  *)

At(c, pc)    == call[c].pc = pc
IsOpen(c)    == obj[Owner[c]] = "open"
Isolate(c)   == Home[Owner[c]]
Between(i)   == running[i] = None

Schedule(c) == queue' = [queue EXCEPT ![Isolate(c)] = Append(@, c)]

\* The next event of the isolate is c's.
Dispatch(c) ==
    /\ Between(Isolate(c))
    /\ queue[Isolate(c)] # <<>>
    /\ Head(queue[Isolate(c)]) = c
    /\ queue' = [queue EXCEPT ![Isolate(c)] = Tail(@)]

\* Dispatch, and schedule what comes next.
Requeue(c) ==
    /\ Between(Isolate(c))
    /\ queue[Isolate(c)] # <<>>
    /\ Head(queue[Isolate(c)]) = c
    /\ queue' = [queue EXCEPT ![Isolate(c)] = Append(Tail(@), c)]

Goes(c, pc) == call' = [call EXCEPT ![c].pc = pc]

\* searchSimilar, transaction, createQL: _ensureNotClosed, then the event.
Make(c, kind) ==
    /\ At(c, "none") /\ IsOpen(c)
    /\ Between(Isolate(c))
    /\ Schedule(c)
    /\ call' = [call EXCEPT ![c] = NewCall("called", kind)]
    /\ UNCHANGED <<obj, counter, running, params, txn, store>>

UnderWay(c) == call[c].pc \notin Ended \cup {"none", "lost"}

\* close(): _handle is null from now on.  With none of the object's calls
\* under way it would only be the end of the object.
Close(d) ==
    /\ obj[d] = "open"
    /\ \E c \in Calls : Owner[c] = d /\ UnderWay(c)
    /\ Between(Home[d])
    /\ obj' = [obj EXCEPT ![d] = "closed"]
    /\ UNCHANGED <<counter, queue, running, call, params, txn, store>>

\* The isolate goes with its objects and its queue; the session stays.
HotRestart(i) ==
    /\ \E c \in Calls : Isolate(c) = i /\ UnderWay(c)
    /\ obj' = [d \in Databases |-> IF Home[d] = i THEN "lost" ELSE obj[d]]
    /\ call' = [c \in Calls |-> IF Isolate(c) = i /\ UnderWay(c)
                                THEN [call[c] EXCEPT !.pc = "lost"] ELSE call[c]]
    /\ queue' = [queue EXCEPT ![i] = <<>>]
    /\ running' = [running EXCEPT ![i] = None]
    /\ UNCHANGED <<counter, params, txn, store>>

-----------------------------------------------------------------------------
(* searchSimilar                                                           *)

Value(k)   == IF k \in DOMAIN params THEN params[k] ELSE None
Set(k, c)  == params' = [n \in DOMAIN params \cup {k} |-> IF n = k THEN c ELSE params[n]]
Unset(k)   == params' = [n \in DOMAIN params \ {k} |-> params[n]]

\* Definitions with a name like Op_Fault are slips the code could have had;
\* no action uses them, they show which property would notice.

\* The Future that set() is given is never completed.
NameParameter_ForgetsSet(c) ==
    /\ At(c, "called") /\ call[c].kind = "search"
    /\ counter' = [counter EXCEPT ![Owner[c]] = @ + 1]
    /\ Dispatch(c)
    /\ IF IsOpen(c)
       THEN call' = [call EXCEPT ![c].pc = "binding", ![c].name = counter[Owner[c]]]
       ELSE Goes(c, "threw")
    /\ UNCHANGED <<obj, running, params, txn, store>>

\* A number for the parameter, and set(), which schedules db_set.
NameParameter(c) ==
    /\ At(c, "called") /\ call[c].kind = "search"
    /\ counter' = [counter EXCEPT ![Owner[c]] = @ + 1]
    /\ IF IsOpen(c)
       THEN /\ Requeue(c)
            /\ call' = [call EXCEPT ![c].pc = "binding", ![c].name = counter[Owner[c]]]
       ELSE Dispatch(c) /\ Goes(c, "threw")
    /\ UNCHANGED <<obj, running, params, txn, store>>

\* The query scheduled, like that of queryQL, and not made at once.
BindParameter_Yields(c) ==
    /\ At(c, "binding")
    /\ Dispatch(c)
    /\ IF IsOpen(c)
       THEN Goes(c, "bound") /\ Set(call[c].name, c)
       ELSE Goes(c, "threw") /\ UNCHANGED params
    /\ UNCHANGED <<obj, counter, running, txn, store>>

\* db_set, before the try.  The query follows in the same event.
BindParameter(c) ==
    /\ At(c, "binding")
    /\ Dispatch(c)
    /\ IF IsOpen(c)
       THEN /\ Goes(c, "bound")
            /\ Set(call[c].name, c)
            /\ running' = [running EXCEPT ![Isolate(c)] = c]
       ELSE Goes(c, "threw") /\ UNCHANGED <<params, running>>
    /\ UNCHANGED <<obj, counter, txn, store>>

Search_UnbindsAfterSuccess(c) ==
    /\ At(c, "bound")
    /\ \/ /\ Value(call[c].name) # None
          /\ call' = [call EXCEPT ![c].pc = "unbinding", ![c].got = Value(call[c].name)]
          /\ Schedule(c)
       \/ Goes(c, "threw") /\ UNCHANGED queue
    /\ running' = [running EXCEPT ![Isolate(c)] = None]
    /\ UNCHANGED <<obj, counter, params, txn, store>>

\* db_query with whatever the parameter is now (a distance to an unset one is
\* an error, and so may be anything else in the text), then unset() in the
\* finally, which schedules db_unset.
Search(c) ==
    /\ At(c, "bound")
    /\ \/ /\ Value(call[c].name) # None
          /\ call' = [call EXCEPT ![c].pc = "unbinding", ![c].got = Value(call[c].name)]
       \/ call' = [call EXCEPT ![c].pc = "failed", ![c].got = Value(call[c].name)]
    /\ Schedule(c)
    /\ running' = [running EXCEPT ![Isolate(c)] = None]
    /\ UNCHANGED <<obj, counter, params, txn, store>>

\* db_unset.  After a close() it fails, and its exception replaces the result
\* of the search.
UnbindParameter(c) ==
    /\ At(c, "unbinding") \/ At(c, "failed")
    /\ Dispatch(c)
    /\ IF IsOpen(c)
       THEN /\ Unset(call[c].name)
            /\ Goes(c, IF At(c, "failed") THEN "threw" ELSE "returned")
       ELSE Goes(c, "threw") /\ UNCHANGED params
    /\ UNCHANGED <<obj, counter, running, txn, store>>

-----------------------------------------------------------------------------
(* The session's transaction, as the engine keeps it.  BEGIN, COMMIT and   *)
(* CANCEL are queries of their own, and the native functions look at the   *)
(* query, not at the statement: each answers 0 whether or not the          *)
(* statement did anything.  A BEGIN need not span the queries after it     *)
(* (the engine the repository measured never did that), and then every     *)
(* write is stored at once; inside a transaction it is a statement error,  *)
(* as COMMIT and CANCEL are outside one.                                   *)

InSpan(c) == call[c].kind = "transaction" /\ call[c].pc \in {"callback", "writing"}

\* Call c executes a statement and goes to pc: to every other transaction in
\* its span, something else has used the session.
Executes(c, pc, written) ==
    call' = [e \in Calls |->
                IF e = c THEN [call[c] EXCEPT !.pc = pc, !.written = @ \cup written,
                                !.mixed = @ \/ (pc = "callback" /\ At(c, "called") /\ txn.open)]
                ELSE IF InSpan(e) THEN [call[e] EXCEPT !.mixed = TRUE]
                ELSE call[e]]

BeginTransaction == \E spans \in BOOLEAN : txn' = [txn EXCEPT !.open = @ \/ spans]

\* A COMMIT that fails as a statement loses what it should have stored.
CommitTransaction ==
    /\ store' \in {store \cup txn.writes, store}
    /\ txn' = NoTransaction

CancelTransaction ==
    /\ txn' = NoTransaction
    /\ UNCHANGED store

WriteRecord(w) ==
    IF txn.open
    THEN txn' = [txn EXCEPT !.writes = @ \cup {w}] /\ UNCHANGED store
    ELSE store' = store \cup {w} /\ UNCHANGED txn

-----------------------------------------------------------------------------
(* transaction() and createQL                                              *)

Unowned == UNCHANGED <<obj, counter, running, params>>

\* db_begin, then the callback.
RunTransaction(c) ==
    /\ At(c, "called") /\ call[c].kind = "transaction"
    /\ Dispatch(c)
    /\ IF IsOpen(c)
       THEN Executes(c, "callback", {}) /\ BeginTransaction
       ELSE Goes(c, "threw") /\ UNCHANGED txn
    /\ Unowned /\ UNCHANGED store

\* createQL on the object, by the callback.
CallbackWrites(c) ==
    /\ At(c, "callback")
    /\ IsOpen(c)
    /\ Between(Isolate(c))
    /\ Cardinality(call[c].written) < MaxWrites[c]
    /\ Schedule(c)
    /\ Goes(c, "writing")
    /\ Unowned /\ UNCHANGED <<txn, store>>

\* db_create, for a callback or by itself.
RunWrite(c) ==
    /\ At(c, "writing") \/ (At(c, "called") /\ call[c].kind = "write")
    /\ Dispatch(c)
    /\ IsOpen(c)
    /\ LET w == <<c, Cardinality(call[c].written) + 1>> IN
        /\ WriteRecord(w)
        /\ Executes(c, IF At(c, "writing") THEN "callback" ELSE "returned", {w})
    /\ Unowned

\* The statement fails, and is answered with a CANCEL.
WriteFails_Cancels(c) ==
    /\ At(c, "writing") \/ (At(c, "called") /\ call[c].kind = "write")
    /\ Dispatch(c)
    /\ Goes(c, IF At(c, "writing") THEN "callback" ELSE "threw")
    /\ txn' = NoTransaction
    /\ Unowned /\ UNCHANGED store

\* The statement fails, or the handle is null: an exception, to the callback
\* or to the application.
WriteFails(c) ==
    /\ At(c, "writing") \/ (At(c, "called") /\ call[c].kind = "write")
    /\ Dispatch(c)
    /\ Goes(c, IF At(c, "writing") THEN "callback" ELSE "threw")
    /\ Unowned /\ UNCHANGED <<txn, store>>

\* The callback is done, and its transaction stays as it is: there is no
\* handle, or db_rollback fails too, which transaction() does not tell.
Abandon(c) ==
    /\ At(c, "callback")
    /\ Between(Isolate(c))
    /\ Goes(c, "abandoned")
    /\ Unowned /\ UNCHANGED <<queue, txn, store>>

\* db_commit answers 0.
Commit(c) ==
    /\ At(c, "callback")
    /\ IsOpen(c)
    /\ Between(Isolate(c))
    /\ CommitTransaction
    /\ Executes(c, "returned", {})
    /\ Unowned /\ UNCHANGED queue

RollBack_Forgotten(c) ==
    /\ At(c, "callback")
    /\ IsOpen(c)
    /\ Between(Isolate(c))
    /\ Goes(c, "threw")
    /\ Unowned /\ UNCHANGED <<queue, txn, store>>

\* The callback threw, or db_commit failed: db_rollback, and the exception.
RollBack(c) ==
    /\ At(c, "callback")
    /\ IsOpen(c)
    /\ Between(Isolate(c))
    /\ CancelTransaction
    /\ Executes(c, "threw", {})
    /\ Unowned /\ UNCHANGED queue

-----------------------------------------------------------------------------
\* What happens by itself once a call is made.
Proceed(c) ==
    \/ NameParameter(c) \/ BindParameter(c) \/ Search(c) \/ UnbindParameter(c)
    \/ RunTransaction(c) \/ RunWrite(c) \/ WriteFails(c)

\* What the callback decides.
Callback(c) == CallbackWrites(c) \/ Abandon(c) \/ Commit(c) \/ RollBack(c)

EventLoop(i) == \E c \in Calls : Isolate(c) = i /\ Proceed(c)

Next ==
    \/ \E c \in Calls :
        \/ \E kind \in {"search", "transaction", "write"} : Make(c, kind)
        \/ Proceed(c)
        \/ Callback(c)
    \/ \E d \in Databases : Close(d)
    \/ \E i \in Isolates : HotRestart(i)

Spec == Init /\ [][Next]_vars

\* Dart's event loop runs what is queued.  A native call of the isolate that
\* opened the connection ends; one of another isolate waits for the opener's
\* thread, and a callback may wait for ever.
FairSpec == Spec /\ WF_vars(EventLoop(Opener))

-----------------------------------------------------------------------------
(* What holds whatever the objects do                                      *)

\* Another isolate's object has numbered a parameter alike.
SharesName(c) ==
    \E e \in Calls :
        /\ Isolate(e) # Isolate(c)
        /\ call[e].kind = "search"
        /\ call[e].name = call[c].name

\* A search is computed with the vector it was given.  The number in the name
\* of its parameter is unique in one object only; what keeps objects apart
\* that share a connection is that binding and querying are one event, and
\* that fails between isolates only.
OwnVector ==
    \A c \in Calls : call[c].pc \in {"unbinding", "returned"} /\ call[c].got # None =>
        call[c].got = c \/ SharesName(c)

\* A parameter in the session belongs to a search under way, or was left by
\* one whose object was closed, or lost, before it could remove it: searches
\* that fail leave none.
ParametersRemoved ==
    \A k \in DOMAIN params :
        call[params[k]].pc \in {"bound", "unbinding", "failed"} \/ ~IsOpen(params[k])

\* Its own isolate gives a search no reason to fail: its parameter is there
\* when its query is made, whichever searches of the isolate end meanwhile.
ParameterIsBound ==
    \A c \in Calls : At(c, "bound") /\ Value(call[c].name) = None => SharesName(c)

\* transaction(), if nothing else used the session in between: what its
\* callback was told has been written is stored together or not at all, now
\* and later, whichever of its three statements took effect.  (Which of the
\* two, the caller is not told: after a BEGIN that began nothing the writes of
\* a callback that threw stay, against database.dart:1690.)
AllOrNothing ==
    \A c \in Calls :
        /\ call[c].kind = "transaction" /\ call[c].pc \in {"returned", "threw"}
        /\ ~call[c].mixed
        => call[c].written \subseteq store \/ call[c].written \cap store = {}

\* No transaction is left open for the calls that follow on the connection,
\* however callbacks overlap, unless an object was closed, or lost, inside
\* its callback, or the CANCEL itself failed: nobody can end that one but a
\* later transaction().
NothingLeftOpen ==
    txn.open =>
        \E c \in Calls : InSpan(c) \/ (call[c].kind = "transaction"
                                        /\ call[c].pc \in {"abandoned", "lost"})

\* Every search and every write of the isolate that opened the connection
\* comes to an end, with a result or an exception, or is lost with it.
CallsEnd ==
    \A c \in Calls :
        (Isolate(c) = Opener /\ call[c].kind \in {"search", "write"} /\ At(c, "called"))
            ~> call[c].pc \in Ended \cup {"lost"}
=============================================================================
