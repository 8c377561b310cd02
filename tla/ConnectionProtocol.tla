------------------------- MODULE ConnectionProtocol -------------------------
(***************************************************************************)
(* The native side driven by clients that keep the contract db_new states  *)
(* ("Returned pointer must be freed via db_close()"): a Database object    *)
(* gets a pointer from one db_new, uses only that pointer, gives it up in  *)
(* one db_close, and is used by its own isolate only.  DatabaseObject      *)
(* shows that the Dart class keeps this contract.                          *)
(*                                                                         *)
(* Spec adds Flutter hot restart, which loses an isolate's Dart objects    *)
(* and leaves the native state as it is.  RepairSpec adds                  *)
(* db_repair_rocksdb, which closes a connection under its holders.         *)
(***************************************************************************)
EXTENDS ConnectionRegistry

CONSTANT Home   \* the isolate each Database object lives in

ASSUME HomeAssumption == Home \in [Databases -> Isolates]

VARIABLES
    ref,        \* the reference each Database object has to a connection
    outcome     \* how the object's last operation ended

vars == <<native, ref, outcome>>

Unused == [st |-> "unused", at |-> Mem, ptr |-> Null]
Held(e, h) == [st |-> "held", at |-> e, ptr |-> h]

\* "lost": the object went with its isolate, without db_close.
Ref == [st : {"unused", "held", "lost"}, at : Endpoints, ptr : Handles \cup {Null}]

TypeOK ==
    /\ NativeTypeOK
    /\ ref \in [Databases -> Ref]
    /\ outcome \in [Databases -> {"none", "ok", "rejected"}]

Init ==
    /\ NativeInit
    /\ ref = [d \in Databases |-> Unused]
    /\ outcome = [d \in Databases |-> "none"]

IsHeld(d) == ref[d].st = "held"

\* Every reference that db_new counted and no db_close has uncounted.
Holders(p) == {d \in Databases : ref[d].st # "unused" /\ ref[d].at = p}

-----------------------------------------------------------------------------
\* db_new finds the path in the registry and returns at once.
OpenShared(i, d, p) ==
    /\ Home[d] = i
    /\ ref[d] = Unused
    /\ ReuseConnection(i, p)
    /\ ref' = [ref EXCEPT ![d] = Held(p, registry[p].ptr)]
    /\ outcome' = [outcome EXCEPT ![d] = "none"]

\* db_new has to connect.
OpenNew(i, d, e) ==
    /\ Home[d] = i
    /\ ref[d] = Unused
    /\ MissConnection(i, d, e)
    /\ outcome' = [outcome EXCEPT ![d] = "none"]
    /\ UNCHANGED ref

\* db_new registers its connection and returns the pointer.
OpenReturns(i) ==
    /\ RegisterConnection(i)
    /\ ref' = [ref EXCEPT ![call[i].db] = Held(call[i].at, call[i].ptr)]
    /\ UNCHANGED outcome

CloseBegins(i, d) ==
    /\ Home[d] = i
    /\ IsHeld(d)
    /\ DbClose(i, d, ref[d].ptr)
    /\ UNCHANGED <<ref, outcome>>

\* The object's reference ends where unregister_connection uncounts it.
CloseUnregisters(i) ==
    /\ KeepConnection(i) \/ RemoveConnection(i)
    /\ ref' = [ref EXCEPT ![call[i].db] = Unused]
    /\ UNCHANGED outcome

\* db_query and the other operations that validate the handle.
QueryAccepted(i, d) ==
    /\ Home[d] = i
    /\ IsHeld(d)
    /\ ValidatedOp(i, d, ref[d].ptr)
    /\ UNCHANGED <<ref, outcome>>

QueryRejected(i, d) ==
    /\ Home[d] = i
    /\ IsHeld(d)
    /\ RejectedOp(i, ref[d].ptr)
    /\ outcome' = [outcome EXCEPT ![d] = "rejected"]
    /\ UNCHANGED ref

\* db_use_ns, db_use_db, db_begin, db_commit, db_rollback.
UseUnchecked(i, d) ==
    /\ Home[d] = i
    /\ IsHeld(d)
    /\ UncheckedOp(i, d, ref[d].ptr)
    /\ UNCHANGED <<ref, outcome>>

OpReturns(i) ==
    /\ UseHandle(i)
    /\ outcome' = [outcome EXCEPT ![call[i].db] = "ok"]
    /\ UNCHANGED ref

\* The steps of a call that no reference depends on.
CallProceeds(i) ==
    /\ \/ \E h \in Handles : Connect(i, h)
       \/ ConnectLocked(i)
       \/ ConnectFailed(i)
       \/ ReadEndpoint(i)
       \/ FreeHandle(i)
       \/ \E p \in Paths : TasksEnd(i, p)
       \/ DrainRuntime(i)
       \/ VerifyDirectory(i)
    /\ UNCHANGED <<ref, outcome>>

\* Database.verifyRocksDB, with or without a connection to the directory.
Verify(i) ==
    /\ \E p \in Paths, exact \in BOOLEAN : DbVerify(i, p, exact)
    /\ UNCHANGED <<ref, outcome>>

\* Hot restart waits for the native call to return, then drops the isolate.
HotRestart(i) ==
    /\ At(i, "idle")
    /\ \E d \in Databases : Home[d] = i /\ IsHeld(d)
    /\ ref' = [d \in Databases |-> IF Home[d] = i /\ IsHeld(d)
                                   THEN [ref[d] EXCEPT !.st = "lost"]
                                   ELSE ref[d]]
    /\ UNCHANGED <<native, outcome>>

\* The isolate's thread finishes what it has begun.
Proceed(i) ==
    \/ OpenReturns(i)
    \/ CloseUnregisters(i)
    \/ OpReturns(i)
    \/ CallProceeds(i)

Client(i) ==
    \/ \E d \in Databases :
        \/ \E p \in Paths : OpenShared(i, d, p)
        \/ \E e \in Endpoints : OpenNew(i, d, e)
        \/ CloseBegins(i, d)
        \/ QueryAccepted(i, d)
        \/ QueryRejected(i, d)
        \/ UseUnchecked(i, d)
    \/ Verify(i)
    \/ HotRestart(i)

Next == \E i \in Isolates : Proceed(i) \/ Client(i)

Spec == Init /\ [][Next]_vars

\* A thread does not stop inside a call that can go on: the sleeps are
\* bounded, and block_on polls until the future is ready.  A call that needs
\* another thread's runtime goes on only while that thread is in block_on
\* too.  Nothing is promised of the clients.
FairSpec == Spec /\ \A i \in Isolates : WF_vars(Proceed(i))

-----------------------------------------------------------------------------
Repair(i) ==
    /\ \/ \E p \in Paths, exact \in BOOLEAN : DbRepair(i, p, exact)
       \/ RepairDirectory(i)
       \/ Crash(i)
    /\ UNCHANGED <<ref, outcome>>

RepairNext == Next \/ \E i \in Isolates : Repair(i)

RepairSpec == Init /\ [][RepairNext]_vars

-----------------------------------------------------------------------------
(* What the two lower layers promise a Database object                     *)

\* Every object with a reference to a RocksDB directory refers to the one
\* connection registered for it, and that connection is open: reuse on hot
\* restart (database.rs, db_new) never hands out, and db_close never leaves
\* behind, a pointer to another or a freed connection.
HoldersShareConnection ==
    \A d \in Databases : ref[d].st # "unused" /\ ref[d].at \in Paths =>
        /\ HasActiveConnection(ref[d].at)
        /\ registry[ref[d].at].ptr = ref[d].ptr
        /\ ref[d].ptr \in live
        /\ endpoint[ref[d].ptr] = ref[d].at

\* ref_count is the number of references db_new has given out for the path
\* and db_close has not taken back, whatever the threads' interleaving.
RefCountExact ==
    \A p \in Paths : registry[p].ref_count = Cardinality(Holders(p))

\* No call is about to read, use or free a handle that is not allocated.
DereferencesOnlyLive ==
    \A i \in Isolates :
        call[i].pc \in {"endpoint", "deref", "free"} => call[i].ptr \in live

InTransit(i, p) == call[i].at = p /\ call[i].pc \in {"register", "free", "drain"}

\* A connection dropped on another thread than the one whose runtime has its
\* tasks: they end when the opener's thread is next in block_on, if ever.
LeftToOpener(p) == lock[p].closer \notin {Null, lock[p].opener}

\* Nothing leaks: a boxed Database is registered, is someone's in-memory
\* database, or is being handed over by a call in progress; a held LOCK file
\* belongs to a registered connection, to such a call, or to one that a
\* thread closed for another and left to its tasks.  db_new drops what
\* register_connection returns, so a replaced handle would be lost here.
NothingLeaks ==
    /\ \A h \in live :
        \/ IsHandleValid(h)
        \/ \E d \in Databases : ref[d].st # "unused" /\ ref[d].at = Mem /\ ref[d].ptr = h
        \/ \E i \in Isolates : call[i].ptr = h /\ call[i].pc \in {"register", "free"}
    /\ \A p \in fileLock :
        \/ HasActiveConnection(p)
        \/ \E i \in Isolates : InTransit(i, p)
        \/ LeftToOpener(p)

\* A directory is never open twice: two handles on one RocksDB directory
\* would mean two writers of its files.
OneConnectionPerPath ==
    \A g, h \in live : endpoint[g] = endpoint[h] /\ endpoint[g] \in Paths => g = h

\* register_connection's "should not normally happen": although db_new looks
\* the path up and registers it under two separate holds of the lock, it
\* never finds an entry to replace.
RegisterNeverReplaces ==
    \A i \in Isolates :
        call[i].pc = "register" /\ call[i].at \in Paths => ~HasActiveConnection(call[i].at)

\* An operation of an object that holds a RocksDB connection is never turned
\* away as "no longer valid".  (One of an in-memory database always is: db_new
\* registers none.)
HolderNeverRejected ==
    \A d \in Databases : IsHeld(d) /\ ref[d].at \in Paths => outcome[d] # "rejected"

\* db_new meets the LOCK of its own process only when another isolate has a
\* part in it: it is opening, sharing or closing the directory at that moment,
\* or the last connection was opened in one isolate and closed in another.
\* One isolate alone never waits for itself, however it opens, closes and
\* restarts.
LockedOutOnlyByAnother ==
    [][\A i \in Isolates : ConnectLocked(i) =>
        \E j \in Isolates \ {i} :
            \/ InTransit(j, call[i].at)
            \/ \E d \in Holders(call[i].at) : Home[d] = j
            \/ LeftToOpener(call[i].at)
               /\ j \in {lock[call[i].at].opener, lock[call[i].at].closer}]_vars

\* When the last reference to a directory is gone, its LOCK is released (or
\* somebody opens it again, or it was closed away from its opener): the next
\* process start is not locked out.
LastCloseReleasesLock ==
    \A p \in Paths :
        Holders(p) = {} ~> (p \notin fileLock \/ Holders(p) # {} \/ LeftToOpener(p))

\* Reuse on one connection: what the objects of a directory do to each other
\* is what SharedConnection allows, whatever the interleaving of their calls.
ConnState(p) ==
    IF HasActiveConnection(p) THEN "open"
    ELSE IF \E i \in Isolates : call[i].pc = "register" /\ call[i].at = p THEN "opening"
    ELSE IF p \in fileLock THEN "closing"
    ELSE "closed"

Conn  == [p \in Paths |-> ConnState(p)]
Users == [p \in Paths |-> Holders(p)]

Shared == INSTANCE SharedConnection WITH conn <- Conn, users <- Users

SharesConnections == Shared!Spec

-----------------------------------------------------------------------------
(* The same with db_repair_rocksdb                                         *)

\* is_handle_valid answers for what it is asked before a dereference: a
\* pointer found in the registry is allocated, and is open on the path it is
\* registered for.
RegisteredIsLive ==
    \A p \in Paths : HasActiveConnection(p) =>
        /\ registry[p].ptr \in live
        /\ endpoint[registry[p].ptr] = p
        /\ p \in fileLock

\* With one isolate no call runs between the check of a handle and its use:
\* an accepted operation dereferences an allocated handle, also after a
\* repair has closed connections under their holders.
AcceptedOpsUseLiveHandle ==
    [][\A i \in Isolates, d \in Databases : QueryAccepted(i, d) => ref[d].ptr \in live']_vars

-----------------------------------------------------------------------------
(* What the documentation says, and the code does not do                   *)

\* runtime.rs: a runtime for each thread means "No deadlocks, safe for
\* multi-threaded FFI".  An operation on a handle that is not freed ends.
OperationsEnd ==
    \A i \in Isolates : call[i].pc = "deref" ~> call[i].pc # "deref"
=============================================================================
