------------------------- MODULE ConnectionRegistry -------------------------
(***************************************************************************)
(* The native (Rust) side of a connection: the global registry of RocksDB  *)
(* connections, the heap of boxed Database handles, the RocksDB directory  *)
(* locks, and the call each Dart isolate's thread is making.               *)
(*                                                                         *)
(* An FFI call runs on the thread of the isolate that makes it.  Every     *)
(* function of connection_registry.rs takes and drops the registry lock on *)
(* its own, so a call is cut into steps at exactly the points where the    *)
(* lock is free and another thread can run.  The module has the steps and  *)
(* no specification: ConnectionProtocol and DatabaseObject say who may     *)
(* call what, with which pointer.                                          *)
(***************************************************************************)
EXTENDS Naturals, FiniteSets

CONSTANTS
    Isolates,   \* threads that call the library (one per Dart isolate)
    Databases,  \* Dart Database objects
    Paths,      \* RocksDB directories, named by their registry key
    Mem,        \* the in-memory endpoint mem://
    Handles,    \* heap addresses a Box<Database> may get
    Null        \* the null pointer; also "no object"

ASSUME ConstantsAssumption ==
    /\ IsFiniteSet(Databases)
    /\ Mem \notin Paths
    /\ Null \notin Handles
    /\ Null \notin Databases
    /\ Null \notin Isolates

VARIABLES
    registry,   \* CONNECTION_REGISTRY: path -> {ptr, ref_count}
    live,       \* addresses that hold a Database now
    endpoint,   \* the endpoint last written at an address (stays after free)
    lock,       \* each directory's LOCK file, and whose tasks hold it
    call        \* the FFI call in progress on each isolate's thread

native == <<registry, live, endpoint, lock, call>>

Endpoints == Paths \cup {Mem}

NoEntry == [ptr |-> Null, ref_count |-> 0]
Idle    == [pc |-> "idle", fn |-> "none", db |-> Null, at |-> Mem, ptr |-> Null]

DatabaseHandle == [ptr : Handles, ref_count : Nat \ {0}]

\* A connection's tasks, which hold LOCK, live on the runtime of the thread
\* that opened it; closer is the thread that has dropped the connection.
Unlocked  == [opener |-> Null, closer |-> Null]
LockState == [opener : Isolates \cup {Null}, closer : Isolates \cup {Null}]

\* "endpoint", "deref" and "free" are about to dereference call[i].ptr.
Labels == {"idle", "connect", "retry", "register",
           "endpoint", "unregister", "free", "drain",
           "deref", "repair", "verify", "crashed"}

Call == [pc : Labels, fn : {"none", "new", "close", "op", "repair", "verify"},
         db : Databases \cup {Null}, at : Endpoints, ptr : Handles \cup {Null}]

NativeTypeOK ==
    /\ registry \in [Paths -> DatabaseHandle \cup {NoEntry}]
    /\ live \in SUBSET Handles
    /\ endpoint \in [Handles -> Endpoints]
    /\ lock \in [Paths -> LockState]
    /\ call \in [Isolates -> Call]

NativeInit ==
    /\ registry = [p \in Paths |-> NoEntry]
    /\ live = {}
    /\ endpoint = [h \in Handles |-> Mem]
    /\ lock = [p \in Paths |-> Unlocked]
    /\ call = [i \in Isolates |-> Idle]

fileLock == {p \in Paths : lock[p] # Unlocked}

HasActiveConnection(p) == registry[p].ref_count > 0

\* is_handle_valid: some entry of the registry has this pointer.
IsHandleValid(h) == \E p \in Paths : HasActiveConnection(p) /\ registry[p].ptr = h

\* Definitions with a name like Op_Fault are slips the code could have had;
\* no action uses them, they show which property would notice.

\* The process stops at the first crash.
At(i, l) == call[i].pc = l /\ \A j \in Isolates : call[j].pc # "crashed"

\* Call i is now at l.
Begin(i, l, f, d, e, h) ==
    call' = [call EXCEPT ![i] = [pc |-> l, fn |-> f, db |-> d, at |-> e, ptr |-> h]]

\* The LOCK of endpoint e, if it has one, is now in state s.
LockFor(e, s) == lock' = [p \in Paths |-> IF p = e THEN s ELSE lock[p]]

-----------------------------------------------------------------------------
(* db_new                                                                  *)

ReuseConnection_Uncounted(i, p) ==
    /\ At(i, "idle")
    /\ HasActiveConnection(p)
    /\ UNCHANGED native

\* get_or_reuse_connection finds an entry: db_new returns registry[p].ptr.
ReuseConnection(i, p) ==
    /\ At(i, "idle")
    /\ HasActiveConnection(p)
    /\ registry' = [registry EXCEPT ![p].ref_count = @ + 1]
    /\ UNCHANGED <<live, endpoint, lock, call>>

\* No entry, or not a RocksDB endpoint: connect without the registry lock.
MissConnection(i, d, e) ==
    /\ At(i, "idle")
    /\ e \in Paths => ~HasActiveConnection(e)
    /\ Begin(i, "connect", "new", d, e, Null)
    /\ UNCHANGED <<registry, live, endpoint, lock>>

Connect_IgnoresLock(i, h) ==
    /\ At(i, "connect") \/ At(i, "retry")
    /\ h \notin live
    /\ live' = live \cup {h}
    /\ endpoint' = [endpoint EXCEPT ![h] = call[i].at]
    /\ LockFor(call[i].at, [opener |-> i, closer |-> Null])
    /\ Begin(i, "register", "new", call[i].db, call[i].at, h)
    /\ UNCHANGED registry

\* connect() succeeds, at once or on the retry, and the Database is boxed.
Connect(i, h) ==
    /\ At(i, "connect") \/ At(i, "retry")
    /\ call[i].at \notin fileLock
    /\ h \notin live
    /\ live' = live \cup {h}
    /\ endpoint' = [endpoint EXCEPT ![h] = call[i].at]
    /\ LockFor(call[i].at, [opener |-> i, closer |-> Null])
    /\ Begin(i, "register", "new", call[i].db, call[i].at, h)
    /\ UNCHANGED registry

\* connect() reports a lock error: sleep 100 ms, then try once more.
ConnectLocked(i) ==
    /\ At(i, "connect")
    /\ call[i].at \in fileLock
    /\ call' = [call EXCEPT ![i].pc = "retry"]
    /\ UNCHANGED <<registry, live, endpoint, lock>>

\* Any other error, or any error on the retry: db_new returns null.
ConnectFailed(i) ==
    /\ At(i, "retry") \/ (At(i, "connect") /\ call[i].at \notin fileLock)
    /\ call' = [call EXCEPT ![i] = Idle]
    /\ UNCHANGED <<registry, live, endpoint, lock>>

RegisterConnection_Forgotten(i) ==
    /\ At(i, "register")
    /\ call' = [call EXCEPT ![i] = Idle]
    /\ UNCHANGED <<registry, live, endpoint, lock>>

\* register_connection; an entry it replaces is forgotten by the caller.
\* db_new then returns call[i].ptr.
RegisterConnection(i) ==
    /\ At(i, "register")
    /\ registry' = IF call[i].at \in Paths
                   THEN [registry EXCEPT ![call[i].at] =
                            [ptr |-> call[i].ptr, ref_count |-> 1]]
                   ELSE registry
    /\ call' = [call EXCEPT ![i] = Idle]
    /\ UNCHANGED <<live, endpoint, lock>>

-----------------------------------------------------------------------------
(* db_close                                                                *)

DbClose(i, d, h) ==
    /\ At(i, "idle")
    /\ h # Null
    /\ Begin(i, "endpoint", "close", d, Mem, h)
    /\ UNCHANGED <<registry, live, endpoint, lock>>

\* (*handle).endpoint.clone(), before any check of the handle.  On freed
\* memory this reads the bytes left there, or crashes (see Crash).
ReadEndpoint(i) ==
    /\ At(i, "endpoint")
    /\ Begin(i, "unregister", "close", call[i].db, endpoint[call[i].ptr], call[i].ptr)
    /\ UNCHANGED <<registry, live, endpoint, lock>>

KeepConnection_Always(i) ==
    /\ At(i, "unregister")
    /\ call[i].at \in Paths /\ HasActiveConnection(call[i].at)
    /\ registry' = [registry EXCEPT ![call[i].at].ref_count = @ - 1]
    /\ call' = [call EXCEPT ![i] = Idle]
    /\ UNCHANGED <<live, endpoint, lock>>

\* unregister_connection: an entry with other references stays ...
KeepConnection(i) ==
    /\ At(i, "unregister")
    /\ call[i].at \in Paths
    /\ registry[call[i].at].ref_count > 1
    /\ registry' = [registry EXCEPT ![call[i].at].ref_count = @ - 1]
    /\ call' = [call EXCEPT ![i] = Idle]
    /\ UNCHANGED <<live, endpoint, lock>>

RemoveConnection_Always(i) ==
    /\ At(i, "unregister")
    /\ registry' = [p \in Paths |-> IF p = call[i].at THEN NoEntry ELSE registry[p]]
    /\ call' = [call EXCEPT ![i].pc = "free"]
    /\ UNCHANGED <<live, endpoint, lock>>

\* ... the last reference removes it; with no entry, or an endpoint the
\* registry does not know, the handle is closed all the same.
RemoveConnection(i) ==
    /\ At(i, "unregister")
    /\ call[i].at \in Paths => registry[call[i].at].ref_count <= 1
    /\ registry' = [p \in Paths |-> IF p = call[i].at THEN NoEntry ELSE registry[p]]
    /\ call' = [call EXCEPT ![i].pc = "free"]
    /\ UNCHANGED <<live, endpoint, lock>>

\* Box::from_raw and drop (db_close and close_existing_connection).  The
\* tasks of the connection learn of it, on their own thread.
FreeHandle(i) ==
    /\ At(i, "free")
    /\ call[i].ptr \in live
    /\ live' = live \ {call[i].ptr}
    /\ LockFor(endpoint[call[i].ptr],
               [lock[endpoint[call[i].ptr]] EXCEPT !.closer = i])
    /\ call' = [call EXCEPT ![i].pc = "drain"]
    /\ UNCHANGED <<registry, endpoint>>

\* Thread i is inside block_on, where it runs the tasks of its own runtime
\* (new_current_thread) and of no other.
Polls(i) == \E l \in {"connect", "retry", "deref", "drain"} : At(i, l)

\* The tasks of a connection that i opened, and somebody has dropped, run to
\* their end: the directory is flushed and its LOCK released.
TasksEnd(i, p) ==
    /\ Polls(i)
    /\ lock[p].opener = i
    /\ lock[p].closer # Null
    /\ LockFor(p, Unlocked)
    /\ UNCHANGED <<registry, live, endpoint, call>>

DrainReturns(i) ==
    /\ call' = [call EXCEPT ![i] = IF call[i].fn = "repair"
                                   THEN [@ EXCEPT !.pc = "repair", !.ptr = Null]
                                   ELSE Idle]
    /\ UNCHANGED <<registry, live, endpoint, lock>>

DrainRuntime_NoWait(i) ==
    /\ At(i, "drain")
    /\ DrainReturns(i)

\* 500 ms in block_on: long enough for what i's own runtime has to end, and
\* no help to tasks that live on another thread's.
DrainRuntime(i) ==
    /\ At(i, "drain")
    /\ \A p \in Paths : lock[p].opener = i => lock[p].closer = Null
    /\ DrainReturns(i)

-----------------------------------------------------------------------------
(* Operations on a handle                                                  *)

ValidatedOp_NullCheck(i, d, h) ==
    /\ At(i, "idle")
    /\ h # Null
    /\ Begin(i, "deref", "op", d, Mem, h)
    /\ UNCHANGED <<registry, live, endpoint, lock>>

\* db_query, db_select, ...: is_handle_valid, then the registry lock is
\* dropped and the handle is used.
ValidatedOp(i, d, h) ==
    /\ At(i, "idle")
    /\ IsHandleValid(h)
    /\ Begin(i, "deref", "op", d, Mem, h)
    /\ UNCHANGED <<registry, live, endpoint, lock>>

\* "Database handle is no longer valid": nothing but the error is set.
RejectedOp(i, h) ==
    /\ At(i, "idle")
    /\ ~IsHandleValid(h)
    /\ UNCHANGED native

\* db_use_ns, db_use_db, db_begin, db_commit, db_rollback: only a null check.
UncheckedOp(i, d, h) ==
    /\ At(i, "idle")
    /\ h # Null
    /\ Begin(i, "deref", "op", d, Mem, h)
    /\ UNCHANGED <<registry, live, endpoint, lock>>

\* Call i needs tasks that only another thread can run.
NeedsOther(i) ==
    /\ call[i].pc = "deref"
    /\ endpoint[call[i].ptr] \in Paths
    /\ lock[endpoint[call[i].ptr]].opener \notin {i, Null}

\* block_on of the query, to its end: the connection's tasks answer it, when
\* their thread runs them.
UseHandle(i) ==
    /\ At(i, "deref")
    /\ NeedsOther(i) => Polls(lock[endpoint[call[i].ptr]].opener)
    /\ call' = [call EXCEPT ![i] = Idle]
    /\ UNCHANGED <<registry, live, endpoint, lock>>

-----------------------------------------------------------------------------
(* db_repair_rocksdb                                                       *)

DbRepair_LeavesEntry(i, p, exact) ==
    /\ At(i, "idle")
    /\ exact /\ HasActiveConnection(p)
    /\ Begin(i, "free", "repair", Null, p, registry[p].ptr)
    /\ UNCHANGED <<registry, live, endpoint, lock>>

\* close_existing_connection takes the entry out, whatever its ref_count.
\* It is keyed by the caller's string: exact says whether that string is
\* the key under which db_new registered the directory.
DbRepair(i, p, exact) ==
    /\ At(i, "idle")
    /\ IF exact /\ HasActiveConnection(p)
       THEN /\ registry' = [registry EXCEPT ![p] = NoEntry]
            /\ Begin(i, "free", "repair", Null, p, registry[p].ptr)
       ELSE /\ Begin(i, "repair", "repair", Null, p, Null)
            /\ UNCHANGED registry
    /\ UNCHANGED <<live, endpoint, lock>>

\* DB::repair: succeeds or fails, and the call returns.
RepairDirectory(i) ==
    /\ At(i, "repair")
    /\ call' = [call EXCEPT ![i] = Idle]
    /\ UNCHANGED <<registry, live, endpoint, lock>>

-----------------------------------------------------------------------------
(* db_verify_rocksdb                                                       *)

\* What the comment above the function says.
DbVerify_ClosesConnection(i, p, exact) ==
    /\ At(i, "idle")
    /\ exact /\ HasActiveConnection(p)
    /\ registry' = [registry EXCEPT ![p] = NoEntry]
    /\ Begin(i, "free", "repair", Null, p, registry[p].ptr)
    /\ UNCHANGED <<live, endpoint, lock>>

\* A directory with missing files is judged at once, and one in use under
\* this key is called healthy; neither is opened, and nothing is closed.
DbVerify(i, p, exact) ==
    /\ At(i, "idle")
    /\ \/ UNCHANGED call
       \/ ~(exact /\ HasActiveConnection(p)) /\ Begin(i, "verify", "verify", Null, p, Null)
    /\ UNCHANGED <<registry, live, endpoint, lock>>

\* DB::open_for_read_only, which takes no LOCK, and the drop of what it gave.
VerifyDirectory(i) ==
    /\ At(i, "verify")
    /\ call' = [call EXCEPT ![i] = Idle]
    /\ UNCHANGED <<registry, live, endpoint, lock>>

-----------------------------------------------------------------------------
\* A read of freed memory, or a second free of it, may end the process.
Crash(i) ==
    /\ At(i, "endpoint") \/ At(i, "deref") \/ At(i, "free")
    /\ call[i].ptr \notin live
    /\ call' = [call EXCEPT ![i].pc = "crashed"]
    /\ UNCHANGED <<registry, live, endpoint, lock>>

=============================================================================
