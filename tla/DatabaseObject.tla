--------------------------- MODULE DatabaseObject ---------------------------
(***************************************************************************)
(* The Dart class Database over the native side.  Every operation checks   *)
(* _closed when it is called and returns Future(() { ... }): its body runs *)
(* later, from the isolate's event queue, and reads _handle then.  close() *)
(* zeroes _handle at once and closes the captured pointer from the queue.  *)
(* Bodies of the events of one isolate never overlap; an FFI call blocks   *)
(* its isolate, and other isolates run meanwhile.                          *)
(***************************************************************************)
EXTENDS ConnectionRegistry, Sequences

CONSTANTS
    Home,       \* the isolate each Database object lives in
    MaxQueue    \* bound: events waiting in the queue of each isolate

ASSUME DatabaseAssumption ==
    /\ Home \in [Databases -> Isolates]
    /\ MaxQueue \in [Isolates -> Nat \ {0}]

VARIABLES
    obj,        \* the Database objects
    queue,      \* the event queue of each isolate
    job,        \* the event body an isolate is in
    outcome     \* how the object's last native operation ended

vars == <<native, obj, queue, job, outcome>>

\* handle is the field _handle; local is the pointer in a local variable:
\* connect()'s handle until the object exists, close()'s handleToClose.
\* txn: a transaction() callback is running between its begin and its end.
Absent == [st |-> "absent", at |-> Mem, handle |-> Null, local |-> Null, txn |-> FALSE]

NoJob == [kind |-> "none", db |-> Null]

Events == [kind : {"connect", "query", "use", "txn", "close"}, db : Databases]

Pointers == Handles \cup {Null}

Object ==
    [st : {"absent", "connecting", "open", "closed", "lost"}, at : Endpoints,
     handle : Pointers, local : Pointers, txn : BOOLEAN]

Job ==
    [kind : {"none", "connect", "setup", "abort", "op", "txn", "commit", "rollback", "close"},
     db : Databases \cup {Null}]

TypeOK ==
    /\ NativeTypeOK
    /\ obj \in [Databases -> Object]
    /\ queue \in [Isolates -> Seq(Events)]
    /\ \A i \in Isolates : Len(queue[i]) <= MaxQueue[i]
    /\ job \in [Isolates -> Job]
    /\ outcome \in [Databases -> {"none", "ok", "rejected"}]
    /\ \A d \in Databases : obj[d].handle # Null <=> obj[d].st \in {"open", "lost"}

Init ==
    /\ NativeInit
    /\ obj = [d \in Databases |-> Absent]
    /\ queue = [i \in Isolates |-> <<>>]
    /\ job = [i \in Isolates |-> NoJob]
    /\ outcome = [d \in Databases |-> "none"]

-----------------------------------------------------------------------------
(* Calls of the class: synchronous parts, which only schedule a body.      *)

\* Dart code runs between two events, or in an async body that awaits.
Between(i) == At(i, "idle") /\ job[i] = NoJob

Schedule(d, kind) ==
    /\ Between(Home[d])
    /\ Len(queue[Home[d]]) < MaxQueue[Home[d]]
    /\ queue' = [queue EXCEPT ![Home[d]] = Append(@, [kind |-> kind, db |-> d])]

Pending(d) == \E n \in 1 .. Len(queue[Home[d]]) : queue[Home[d]][n].db = d

\* Database.connect: d stands for a new object; an old one that nothing
\* refers to any more is garbage.
CallConnect(d, e) ==
    /\ obj[d].st \in {"absent", "closed"} /\ obj[d].local = Null
    /\ ~obj[d].txn /\ ~Pending(d)
    /\ Schedule(d, "connect")
    /\ obj' = [obj EXCEPT ![d] = [Absent EXCEPT !.st = "connecting", !.at = e]]
    /\ UNCHANGED <<native, job, outcome>>

\* queryQL, createQL, ... ("query"), useNamespace and the auth calls ("use"),
\* transaction ("txn"): _ensureNotClosed now, the body later.
CallOperation(d, kind) ==
    /\ obj[d].st = "open"
    /\ Schedule(d, kind)
    /\ UNCHANGED <<native, obj, job, outcome>>

CallClose_KeepsHandle(d) ==
    /\ obj[d].st = "open"
    /\ Schedule(d, "close")
    /\ obj' = [obj EXCEPT ![d].st = "closed", ![d].local = obj[d].handle]
    /\ UNCHANGED <<native, job, outcome>>

CallClose_KeepsOpen(d) ==
    /\ obj[d].st = "open"
    /\ Schedule(d, "close")
    /\ obj' = [obj EXCEPT ![d].local = obj[d].handle]
    /\ UNCHANGED <<native, job, outcome>>

CallClose_NoBody(d) ==
    /\ obj[d].st = "open"
    /\ Between(Home[d])
    /\ obj' = [obj EXCEPT ![d].st = "closed", ![d].handle = Null, ![d].local = obj[d].handle]
    /\ UNCHANGED <<native, queue, job, outcome>>

\* close() keeps the pointer for its own body only.
CallClose(d) ==
    /\ obj[d].st = "open"
    /\ Schedule(d, "close")
    /\ obj' = [obj EXCEPT ![d].st = "closed", ![d].handle = Null, ![d].local = obj[d].handle]
    /\ UNCHANGED <<native, job, outcome>>

-----------------------------------------------------------------------------
(* The event loop                                                          *)

\* The next event of isolate i is a kind event of object d.
Dispatch(i, kind, d) ==
    /\ Between(i)
    /\ queue[i] # <<>>
    /\ Head(queue[i]) = [kind |-> kind, db |-> d]
    /\ queue' = [queue EXCEPT ![i] = Tail(@)]

Enter(i, kind, d) == job' = [job EXCEPT ![i] = [kind |-> kind, db |-> d]]
Leave(i) == job' = [job EXCEPT ![i] = NoJob]

RunConnectShared(i, d) ==
    /\ Dispatch(i, "connect", d)
    /\ obj[d].at \in Paths
    /\ ReuseConnection(i, obj[d].at)
    /\ obj' = [obj EXCEPT ![d].local = registry[obj[d].at].ptr]
    /\ outcome' = [outcome EXCEPT ![d] = "none"]
    /\ Enter(i, "setup", d)

RunConnectNew(i, d) ==
    /\ Dispatch(i, "connect", d)
    /\ MissConnection(i, d, obj[d].at)
    /\ outcome' = [outcome EXCEPT ![d] = "none"]
    /\ Enter(i, "connect", d)
    /\ UNCHANGED obj

ConnectReturns(i) ==
    /\ RegisterConnection(i)
    /\ obj' = [obj EXCEPT ![job[i].db].local = call[i].ptr]
    /\ Enter(i, "setup", job[i].db)
    /\ UNCHANGED <<queue, outcome>>

\* db_new returned null: ConnectionException, there is no object.
ConnectThrows(i) ==
    /\ ConnectFailed(i)
    /\ obj' = [obj EXCEPT ![job[i].db] = Absent]
    /\ Leave(i)
    /\ UNCHANGED <<queue, outcome>>

\* db_use_ns and db_use_db on the new pointer, in the same event.
Setup(i) ==
    /\ job[i].kind = "setup"
    /\ UncheckedOp(i, job[i].db, obj[job[i].db].local)
    /\ UNCHANGED <<obj, queue, job, outcome>>

\* Database._(handle): the object exists.
Construct(i) ==
    /\ LET d == job[i].db IN
        obj' = [obj EXCEPT ![d].st = "open", ![d].handle = obj[d].local, ![d].local = Null]
    /\ Leave(i)
    /\ UNCHANGED queue

SetupSucceeds(i) ==
    /\ job[i].kind = "setup"
    /\ UseHandle(i)
    /\ outcome' = [outcome EXCEPT ![job[i].db] = "ok"]
    /\ Construct(i)

\* Neither a namespace nor a database was given (db_connect does nothing).
SetupSkipped(i) ==
    /\ job[i].kind = "setup"
    /\ At(i, "idle")
    /\ Construct(i)
    /\ UNCHANGED <<native, outcome>>

\* A setup call failed: dbClose(handle), then the exception.
SetupFails(i) ==
    /\ job[i].kind = "setup"
    /\ UseHandle(i)
    /\ Enter(i, "abort", job[i].db)
    /\ outcome' = [outcome EXCEPT ![job[i].db] = "ok"]
    /\ UNCHANGED <<obj, queue>>

Abort(i) ==
    /\ job[i].kind = "abort"
    /\ DbClose(i, job[i].db, obj[job[i].db].local)
    /\ UNCHANGED <<obj, queue, job, outcome>>

\* The body of a validated operation.
RunQuery(i, d) ==
    /\ Dispatch(i, "query", d)
    /\ ValidatedOp(i, d, obj[d].handle)
    /\ Enter(i, "op", d)
    /\ UNCHANGED <<obj, outcome>>

\* The native function refuses the pointer, null or unknown, and the body
\* throws.
RunQueryRejected(i, d) ==
    /\ Dispatch(i, "query", d)
    /\ RejectedOp(i, obj[d].handle)
    /\ outcome' = IF obj[d].handle = Null THEN outcome
                  ELSE [outcome EXCEPT ![d] = "rejected"]
    /\ UNCHANGED <<obj, job>>

RunUse(i, d, kind) ==
    /\ Dispatch(i, kind, d)
    /\ UncheckedOp(i, d, obj[d].handle)
    /\ Enter(i, IF kind = "txn" THEN "txn" ELSE "op", d)
    /\ UNCHANGED <<obj, outcome>>

\* Null pointer: the native function returns -1 and the body throws.
RunUseOfNull(i, d, kind) ==
    /\ Dispatch(i, kind, d)
    /\ obj[d].handle = Null
    /\ UNCHANGED <<native, obj, job, outcome>>

\* After a successful db_begin the transaction's callback is running.
OpReturns(i) ==
    /\ job[i].kind \in {"op", "txn", "commit"}
    /\ UseHandle(i)
    /\ LET d == job[i].db IN
        /\ outcome' = [outcome EXCEPT ![d] = "ok"]
        /\ \/ obj' = [obj EXCEPT ![d].txn = @ \/ job[i].kind = "txn"]
           \/ obj' = obj
    /\ Leave(i)
    /\ UNCHANGED queue

\* The callback is done: db_commit, or db_rollback if it threw, on _handle
\* as it is now, with no check of _closed.  A null pointer is refused.
EndTransaction(i, d) ==
    /\ Home[d] = i
    /\ Between(i)
    /\ obj[d].txn
    /\ IF obj[d].handle = Null
       THEN UNCHANGED <<native, job>>
       ELSE /\ UncheckedOp(i, d, obj[d].handle)
            /\ \E kind \in {"commit", "op"} : Enter(i, kind, d)
    /\ obj' = [obj EXCEPT ![d].txn = FALSE]
    /\ UNCHANGED <<queue, outcome>>

\* db_commit failed: db_rollback follows in the same body.
CommitFails(i) ==
    /\ job[i].kind = "commit"
    /\ UseHandle(i)
    /\ Enter(i, "rollback", job[i].db)
    /\ outcome' = [outcome EXCEPT ![job[i].db] = "ok"]
    /\ UNCHANGED <<obj, queue>>

RollBack(i) ==
    /\ job[i].kind = "rollback"
    /\ UncheckedOp(i, job[i].db, obj[job[i].db].handle)
    /\ Enter(i, "op", job[i].db)
    /\ UNCHANGED <<obj, queue, outcome>>

RunClose(i, d) ==
    /\ Dispatch(i, "close", d)
    /\ DbClose(i, d, obj[d].local)
    /\ Enter(i, "close", d)
    /\ UNCHANGED <<obj, outcome>>

\* dbClose has returned; connect()'s clean-up leaves no object.
AfterClose(i) ==
    /\ obj' = [obj EXCEPT ![job[i].db] =
                IF job[i].kind = "abort" THEN Absent ELSE [@ EXCEPT !.local = Null]]
    /\ Leave(i)

CloseReturns(i) ==
    /\ KeepConnection(i) \/ DrainRuntime(i)
    /\ AfterClose(i)
    /\ UNCHANGED <<queue, outcome>>

\* Native steps the Dart side does not see.
CallProceeds(i) ==
    /\ \/ \E h \in Handles : Connect(i, h)
       \/ ConnectLocked(i)
       \/ ReadEndpoint(i)
       \/ RemoveConnection(i)
       \/ FreeHandle(i)
       \/ \E p \in Paths : TasksEnd(i, p)
    /\ UNCHANGED <<obj, queue, job, outcome>>

\* The isolate is dropped with its objects, its queue and its locals.  (For
\* an object that had a pointer, handle remembers the reference it loses.)
HotRestart(i) ==
    /\ At(i, "idle")
    /\ obj' = [d \in Databases |->
                LET o == obj[d]
                    p == IF o.handle # Null THEN o.handle ELSE o.local IN
                IF Home[d] # i \/ o.st = "lost" THEN o
                ELSE IF p = Null THEN Absent
                ELSE [Absent EXCEPT !.st = "lost", !.at = o.at, !.handle = p]]
    /\ queue' = [queue EXCEPT ![i] = <<>>]
    /\ Leave(i)
    /\ UNCHANGED <<native, outcome>>

\* What the isolate does by itself once Dart code has called.
EventLoop(i) ==
    \/ \E d \in Databases :
        \/ RunConnectShared(i, d) \/ RunConnectNew(i, d)
        \/ RunQuery(i, d) \/ RunQueryRejected(i, d)
        \/ \E kind \in {"use", "txn"} : RunUse(i, d, kind) \/ RunUseOfNull(i, d, kind)
        \/ RunClose(i, d)
    \/ ConnectReturns(i) \/ ConnectThrows(i)
    \/ Setup(i) \/ SetupSucceeds(i) \/ SetupSkipped(i) \/ SetupFails(i) \/ Abort(i)
    \/ OpReturns(i) \/ CommitFails(i) \/ RollBack(i)
    \/ CloseReturns(i) \/ CallProceeds(i)

Application(d) ==
    \/ \E e \in Endpoints : CallConnect(d, e)
    \/ \E kind \in {"query", "use", "txn"} : CallOperation(d, kind)
    \/ CallClose(d)
    \/ EndTransaction(Home[d], d)

Next ==
    \/ \E i \in Isolates : EventLoop(i) \/ HotRestart(i)
    \/ \E d \in Databases : Application(d)

Spec == Init /\ [][Next]_vars

\* Dart's event loop runs every queued event, and a native call goes on while
\* it can: one that needs another thread's runtime may wait for ever.
FairSpec == Spec /\ \A i \in Isolates : WF_vars(EventLoop(i))

-----------------------------------------------------------------------------
(* Database keeps the contract of ConnectionProtocol                       *)

\* The reference of object d, as the contract sees it: it has one from the
\* return of db_new until unregister_connection.
Uncounted(d) == \E i \in Isolates :
    call[i].db = d /\ call[i].fn = "close" /\ call[i].pc \in {"free", "drain"}

RefOf(d) ==
    LET p == IF obj[d].handle # Null THEN obj[d].handle ELSE obj[d].local
    IN  [st  |-> IF p = Null \/ Uncounted(d) THEN "unused"
                 ELSE IF obj[d].st = "lost" THEN "lost" ELSE "held",
         at  |-> IF p = Null \/ Uncounted(d) THEN Mem ELSE obj[d].at,
         ptr |-> IF Uncounted(d) THEN Null ELSE p]

Refs == [d \in Databases |-> RefOf(d)]

Contract == INSTANCE ConnectionProtocol WITH ref <- Refs

\* Whatever the order of calls, events, hot restarts and other isolates'
\* steps, the class uses each pointer as ConnectionProtocol allows: only the
\* one it got, never after giving it up, and it gives it up once.
KeepsContract == Contract!Spec

\* No body that runs after close() was called hands a pointer to a native
\* operation: what was scheduled before it finds null.
NothingRunsAfterClose ==
    [][\A i \in Isolates : call'[i].fn = "op" /\ call[i].fn # "op" =>
        obj[call'[i].db].st # "closed"]_vars

\* close() ends with the object's connection given back, even if the calls
\* before it failed, unless a hot restart takes the isolate away first, or
\* the isolate is stuck for good in an operation on a connection that another
\* isolate opened and no longer works with.
CloseGivesBack ==
    \A d \in Databases :
        obj[d].st = "closed" ~> (obj[d].local = Null \/ []NeedsOther(Home[d]))
=============================================================================
