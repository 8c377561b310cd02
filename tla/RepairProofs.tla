----------------------------- MODULE RepairProofs -----------------------------
(***************************************************************************)
(* Proofs about RepairSpec of ConnectionProtocol: what stays true when     *)
(* db_repair_rocksdb closes connections under their holders, for any       *)
(* number of objects, directories and addresses, and one isolate.  (With   *)
(* two isolates it does not: both can be closing one dangling pointer.)    *)
(***************************************************************************)
EXTENDS ConnectionProtocol, TLAPS

\* At most one thread calls the library.
Alone == \A i, j \in Isolates : i = j

-----------------------------------------------------------------------------
(* The inductive invariant                                                 *)

\* The connection of the directory is open, and nobody has dropped it.
IsOpen(p) == lock[p].opener # Null /\ lock[p].closer = Null

\* What is registered is open: its LOCK is not about to be released.
RegisteredIsOpen == \A p \in Paths : HasActiveConnection(p) => IsOpen(p)

\* A call that is about to register a pointer has a connection to register.
Registers(i) ==
    call[i].pc = "register" =>
        /\ call[i].ptr \in live
        /\ endpoint[call[i].ptr] = call[i].at
        /\ call[i].at \in Paths => IsOpen(call[i].at)

\* A call that is closing a pointer closes it for the path that the memory
\* says, be it freed, and when it has come to free it that path is out of the
\* registry: so is every entry with this pointer.
Closes(i) ==
    /\ call[i].pc \in {"endpoint", "unregister", "free"} => call[i].ptr \in Handles
    /\ call[i].pc \in {"unregister", "free"} => call[i].at = endpoint[call[i].ptr]
    /\ call[i].pc \in {"free", "drain"} /\ call[i].at \in Paths =>
        ~HasActiveConnection(call[i].at)

RepairInv ==
    /\ TypeOK
    /\ RegisteredIsLive
    /\ RegisteredIsOpen
    /\ \A i \in Isolates : Registers(i) /\ Closes(i)

LEMMA InitEstablishesRepairInv == Init => RepairInv
<1> SUFFICES ASSUME Init PROVE RepairInv
  OBVIOUS
<1> USE ConstantsAssumption DEF Init, NativeInit
<1>1. TypeOK
  BY DEF TypeOK, NativeTypeOK, Endpoints, Idle, Call, Labels, NoEntry, Ref, Unused,
         Unlocked, LockState
<1>2. RegisteredIsLive /\ RegisteredIsOpen
  BY DEF RegisteredIsLive, RegisteredIsOpen, HasActiveConnection, NoEntry
<1>3. \A i \in Isolates : Registers(i) /\ Closes(i)
  BY DEF Registers, Closes, Idle
<1> QED BY <1>1, <1>2, <1>3 DEF RepairInv

-----------------------------------------------------------------------------
(* Steps that only move a call                                             *)

\* The registry, the heap and the locks stay, and the call goes to a place
\* where it neither registers nor closes anything.
LEMMA OnlyCallMoves ==
    ASSUME Alone, RepairInv, NEW i \in Isolates,
           UNCHANGED <<registry, live, endpoint, lock>>, TypeOK',
           \/ call'[i] = call[i]
           \/ /\ call'[i].pc \notin {"register", "unregister", "free", "drain"}
              /\ call'[i].pc = "endpoint" => call'[i].ptr \in Handles
    PROVE  RepairInv'
<1>1. RegisteredIsLive' /\ RegisteredIsOpen'
  BY DEF RepairInv, RegisteredIsLive, RegisteredIsOpen, IsOpen, fileLock, HasActiveConnection
<1>2. Registers(i)' /\ Closes(i)'
  BY DEF RepairInv, Registers, Closes, IsOpen, HasActiveConnection
<1> QED BY <1>1, <1>2 DEF RepairInv, Alone

\* The reference of a holder, and the record of a call made with it.
LEMMA HolderCalls ==
    ASSUME TypeOK, NEW i \in Isolates, NEW d \in Databases, NEW l \in Labels,
           NEW f \in {"close", "op"}, ref[d].ptr # Null,
           Begin(i, l, f, d, Mem, ref[d].ptr)
    PROVE  /\ ref[d].ptr \in Handles
           /\ call' \in [Isolates -> Call]
           /\ call'[i].pc = l /\ call'[i].ptr = ref[d].ptr
<1>1. ref[d].ptr \in Handles
  BY DEF TypeOK, Ref
<1>2. [pc |-> l, fn |-> f, db |-> d, at |-> Mem, ptr |-> ref[d].ptr] \in Call
  BY <1>1 DEF Call, Endpoints
<1> QED BY <1>1, <1>2 DEF Begin, TypeOK, NativeTypeOK

\* A call that returns.
LEMMA CallReturns ==
    ASSUME TypeOK, NEW i \in Isolates, call' = [call EXCEPT ![i] = Idle]
    PROVE  call' \in [Isolates -> Call] /\ call'[i].pc = "idle"
<1>1. Idle \in Call
  BY DEF Idle, Call, Labels, Endpoints
<1> QED BY <1>1 DEF TypeOK, NativeTypeOK, Idle

LEMMA ClientPreserves ==
    ASSUME Alone, RepairInv, NEW i \in Isolates, Client(i)
    PROVE  RepairInv'
<1> USE ConstantsAssumption
<1>0. TypeOK /\ ConstantsAssumption
  BY DEF RepairInv
<1>1. ASSUME NEW d \in Databases, NEW p \in Paths, OpenShared(i, d, p) PROVE RepairInv'
  <2>1. /\ HasActiveConnection(p) /\ registry[p] \in DatabaseHandle
        /\ registry' = [registry EXCEPT ![p].ref_count = registry[p].ref_count + 1]
        /\ UNCHANGED <<live, endpoint, lock, call>>
        /\ ref' = [ref EXCEPT ![d] = Held(p, registry[p].ptr)]
        /\ outcome' = [outcome EXCEPT ![d] = "none"]
    BY <1>0, <1>1 DEF OpenShared, ReuseConnection, TypeOK, NativeTypeOK, HasActiveConnection, NoEntry
  <2>2. TypeOK'
    <3>1. [registry[p] EXCEPT !.ref_count = registry[p].ref_count + 1] \in DatabaseHandle
      BY <2>1 DEF DatabaseHandle
    <3>2. Held(p, registry[p].ptr) \in Ref
      BY <2>1 DEF Held, Ref, DatabaseHandle, Endpoints
    <3> QED BY <1>0, <2>1, <3>1, <3>2 DEF TypeOK, NativeTypeOK
  <2>3. \A q \in Paths : /\ registry'[q].ptr = registry[q].ptr
                         /\ HasActiveConnection(q)' <=> HasActiveConnection(q)
    BY <1>0, <2>1 DEF TypeOK, NativeTypeOK, DatabaseHandle, HasActiveConnection
  <2> QED
    BY <2>1, <2>2, <2>3 DEF RepairInv, RegisteredIsLive, RegisteredIsOpen, IsOpen, fileLock,
                            Registers, Closes
<1>2. ASSUME NEW d \in Databases, NEW e \in Endpoints, OpenNew(i, d, e) PROVE RepairInv'
  <2>1. /\ call' = [call EXCEPT ![i] =
                        [pc |-> "connect", fn |-> "new", db |-> d, at |-> e, ptr |-> Null]]
        /\ UNCHANGED <<registry, live, endpoint, lock, ref>>
        /\ outcome' = [outcome EXCEPT ![d] = "none"]
    BY <1>2 DEF OpenNew, MissConnection, Begin
  <2>2. TypeOK'
    BY <1>0, <2>1 DEF TypeOK, NativeTypeOK, Call, Labels
  <2> QED BY <1>0, <2>1, <2>2, OnlyCallMoves DEF TypeOK, NativeTypeOK
<1>3. ASSUME NEW d \in Databases, CloseBegins(i, d) PROVE RepairInv'
  <2>1. ref[d].ptr # Null /\ Begin(i, "endpoint", "close", d, Mem, ref[d].ptr)
        /\ UNCHANGED <<registry, live, endpoint, lock, ref, outcome>>
    BY <1>3 DEF CloseBegins, DbClose
  <2>2. ref[d].ptr \in Handles /\ call' \in [Isolates -> Call]
        /\ call'[i].pc = "endpoint" /\ call'[i].ptr = ref[d].ptr
    BY <1>0, <2>1, HolderCalls DEF Labels
  <2>3. TypeOK'
    BY <1>0, <2>1, <2>2 DEF TypeOK, NativeTypeOK
  <2> QED BY <2>1, <2>2, <2>3, OnlyCallMoves
<1>4. ASSUME NEW d \in Databases, QueryAccepted(i, d) \/ UseUnchecked(i, d) PROVE RepairInv'
  <2>1. ref[d].ptr # Null
    BY <1>0, <1>4 DEF QueryAccepted, ValidatedOp, UseUnchecked, UncheckedOp, IsHandleValid,
                      TypeOK, NativeTypeOK, HasActiveConnection, DatabaseHandle, NoEntry
  <2>2. /\ Begin(i, "deref", "op", d, Mem, ref[d].ptr)
        /\ UNCHANGED <<registry, live, endpoint, lock, ref, outcome>>
    BY <1>4 DEF QueryAccepted, ValidatedOp, UseUnchecked, UncheckedOp
  <2>3. call' \in [Isolates -> Call] /\ call'[i].pc = "deref"
    BY <1>0, <2>1, <2>2, HolderCalls DEF Labels
  <2>4. TypeOK'
    BY <1>0, <2>2, <2>3 DEF TypeOK, NativeTypeOK
  <2> QED BY <2>2, <2>3, <2>4, OnlyCallMoves
<1>5. ASSUME NEW d \in Databases, QueryRejected(i, d) PROVE RepairInv'
  <2>1. /\ UNCHANGED <<registry, live, endpoint, lock, call, ref>>
        /\ outcome' = [outcome EXCEPT ![d] = "rejected"]
    BY <1>5 DEF QueryRejected, RejectedOp, native
  <2>2. TypeOK'
    BY <1>0, <2>1 DEF TypeOK, NativeTypeOK
  <2> QED BY <2>1, <2>2, OnlyCallMoves
<1>6. CASE Verify(i)
  <2>1. UNCHANGED <<registry, live, endpoint, lock, ref, outcome>>
    BY <1>6 DEF Verify, DbVerify
  <2>2. CASE UNCHANGED call
    <3>1. TypeOK'
      BY <1>0, <2>1, <2>2 DEF TypeOK, NativeTypeOK
    <3> QED BY <2>1, <2>2, <3>1, OnlyCallMoves
  <2>3. ASSUME NEW p \in Paths, Begin(i, "verify", "verify", Null, p, Null) PROVE RepairInv'
    <3>1. [pc |-> "verify", fn |-> "verify", db |-> Null, at |-> p, ptr |-> Null] \in Call
      BY DEF Call, Labels, Endpoints
    <3>2. TypeOK' /\ call'[i].pc = "verify"
      BY <1>0, <2>1, <2>3, <3>1 DEF TypeOK, NativeTypeOK, Begin
    <3> QED BY <2>1, <3>2, OnlyCallMoves
  <2> QED BY <1>6, <2>2, <2>3 DEF Verify, DbVerify
<1>7. CASE HotRestart(i)
  <2>1. /\ UNCHANGED <<registry, live, endpoint, lock, call, outcome>>
        /\ ref' = [d \in Databases |-> IF Home[d] = i /\ IsHeld(d)
                                       THEN [ref[d] EXCEPT !.st = "lost"]
                                       ELSE ref[d]]
    BY <1>7 DEF HotRestart, native
  <2>2. \A d \in Databases : [ref[d] EXCEPT !.st = "lost"] \in Ref
    BY <1>0 DEF TypeOK, Ref
  <2>3. TypeOK'
    BY <1>0, <2>1, <2>2 DEF TypeOK, NativeTypeOK
  <2> QED BY <2>1, <2>3, OnlyCallMoves
<1> QED BY <1>1, <1>2, <1>3, <1>4, <1>5, <1>6, <1>7 DEF Client

-----------------------------------------------------------------------------
(* Steps of db_new and db_close                                            *)

LEMMA ConnectPreservesRepair ==
    ASSUME Alone, RepairInv, NEW i \in Isolates, NEW h \in Handles, Connect(i, h),
           UNCHANGED <<ref, outcome>>
    PROVE  RepairInv'
<1> USE ConstantsAssumption
<1>1. /\ h \notin live /\ live' = live \cup {h}
      /\ endpoint' = [endpoint EXCEPT ![h] = call[i].at]
      /\ lock' = [p \in Paths |-> IF p = call[i].at THEN [opener |-> i, closer |-> Null]
                                  ELSE lock[p]]
      /\ call' = [call EXCEPT ![i] = [pc |-> "register", fn |-> "new", db |-> call[i].db,
                                      at |-> call[i].at, ptr |-> h]]
      /\ UNCHANGED <<registry, ref, outcome>>
  BY DEF Connect, Begin, LockFor
<1>2. TypeOK'
  <2>1. call[i] \in Call
    BY DEF RepairInv, TypeOK, NativeTypeOK
  <2>2. [pc |-> "register", fn |-> "new", db |-> call[i].db, at |-> call[i].at, ptr |-> h] \in Call
    BY <2>1 DEF Call, Labels
  <2>3. lock' \in [Paths -> LockState]
    BY <1>1 DEF RepairInv, TypeOK, NativeTypeOK, LockState
  <2> QED BY <1>1, <2>1, <2>2, <2>3 DEF RepairInv, TypeOK, NativeTypeOK, Call
<1>3. call'[i].pc = "register" /\ call'[i].ptr = h /\ call'[i].at = call[i].at
  BY <1>1 DEF RepairInv, TypeOK, NativeTypeOK
<1>4. endpoint'[h] = call[i].at /\ \A g \in live : endpoint'[g] = endpoint[g]
  BY <1>1 DEF RepairInv, TypeOK, NativeTypeOK
<1>5. RegisteredIsLive' /\ RegisteredIsOpen'
  <2>1. \A p \in Paths : p \in fileLock => p \in fileLock'
    BY <1>1 DEF fileLock, Unlocked, RepairInv, TypeOK, NativeTypeOK, LockState
  <2>2. \A p \in Paths : IsOpen(p) => IsOpen(p)'
    BY <1>1 DEF IsOpen
  <2> QED
    BY <1>1, <1>4, <2>1, <2>2
    DEF RepairInv, RegisteredIsLive, RegisteredIsOpen, HasActiveConnection
<1>6. Registers(i)' /\ Closes(i)'
  BY <1>1, <1>3, <1>4 DEF Registers, Closes, IsOpen
<1> QED BY <1>2, <1>5, <1>6 DEF RepairInv, Alone

LEMMA RegisterPreservesRepair ==
    ASSUME Alone, RepairInv, NEW i \in Isolates, OpenReturns(i)
    PROVE  RepairInv'
<1> USE ConstantsAssumption
<1>1. /\ call[i].pc = "register"
      /\ registry' = IF call[i].at \in Paths
                     THEN [registry EXCEPT ![call[i].at] = [ptr |-> call[i].ptr, ref_count |-> 1]]
                     ELSE registry
      /\ call' = [call EXCEPT ![i] = Idle]
      /\ ref' = [ref EXCEPT ![call[i].db] = Held(call[i].at, call[i].ptr)]
      /\ UNCHANGED <<live, endpoint, lock, outcome>>
  BY DEF OpenReturns, RegisterConnection, At
<1>2. /\ call[i].ptr \in live /\ call[i].ptr \in Handles
      /\ endpoint[call[i].ptr] = call[i].at /\ call[i].at \in Endpoints
      /\ call[i].at \in Paths => IsOpen(call[i].at)
  BY <1>1 DEF RepairInv, Registers, TypeOK, NativeTypeOK, Call
<1>3. call' \in [Isolates -> Call] /\ call'[i].pc = "idle"
  BY <1>1, CallReturns DEF RepairInv
<1>4. TypeOK'
  <2>1. [ptr |-> call[i].ptr, ref_count |-> 1] \in DatabaseHandle
    BY <1>2 DEF DatabaseHandle
  <2>2. Held(call[i].at, call[i].ptr) \in Ref
    BY <1>2 DEF Held, Ref
  <2> QED BY <1>1, <1>3, <2>1, <2>2 DEF RepairInv, TypeOK, NativeTypeOK
<1>5. RegisteredIsLive' /\ RegisteredIsOpen'
  <2>1. \A p \in Paths : IF p = call[i].at THEN registry'[p].ptr = call[i].ptr
                         ELSE registry'[p] = registry[p]
    BY <1>1 DEF RepairInv, TypeOK, NativeTypeOK
  <2>2. \A p \in Paths : IsOpen(p) => IsOpen(p)' /\ p \in fileLock'
    BY <1>1 DEF IsOpen, fileLock, Unlocked
  <2> QED BY <1>1, <1>2, <2>1, <2>2
          DEF RepairInv, RegisteredIsLive, RegisteredIsOpen, HasActiveConnection
<1>6. Registers(i)' /\ Closes(i)'
  BY <1>3 DEF Registers, Closes
<1> QED BY <1>4, <1>5, <1>6 DEF RepairInv, Alone

\* On freed memory too the endpoint read is the one last written there.
LEMMA ReadPreservesRepair ==
    ASSUME Alone, RepairInv, NEW i \in Isolates, ReadEndpoint(i), UNCHANGED <<ref, outcome>>
    PROVE  RepairInv'
<1>1. /\ call[i].ptr \in Handles
      /\ call' = [call EXCEPT ![i] = [pc |-> "unregister", fn |-> "close", db |-> call[i].db,
                                      at |-> endpoint[call[i].ptr], ptr |-> call[i].ptr]]
      /\ UNCHANGED <<registry, live, endpoint, lock, ref, outcome>>
  BY DEF RepairInv, Closes, ReadEndpoint, Begin, At
<1>2. TypeOK'
  <2>1. call[i] \in Call /\ endpoint[call[i].ptr] \in Endpoints
    BY <1>1 DEF RepairInv, TypeOK, NativeTypeOK
  <2>2. [pc |-> "unregister", fn |-> "close", db |-> call[i].db,
         at |-> endpoint[call[i].ptr], ptr |-> call[i].ptr] \in Call
    BY <2>1 DEF Call, Labels
  <2> QED BY <1>1, <2>2 DEF RepairInv, TypeOK, NativeTypeOK
<1>3. RegisteredIsLive' /\ RegisteredIsOpen'
  BY <1>1 DEF RepairInv, RegisteredIsLive, RegisteredIsOpen, IsOpen, fileLock,
              HasActiveConnection
<1>4. call'[i].pc = "unregister" /\ call'[i].ptr = call[i].ptr
      /\ call'[i].at = endpoint[call[i].ptr]
  BY <1>1 DEF RepairInv, TypeOK, NativeTypeOK
<1>5. Registers(i)' /\ Closes(i)'
  BY <1>1, <1>4 DEF Registers, Closes
<1> QED BY <1>2, <1>3, <1>5 DEF RepairInv, Alone

LEMMA UnregisterPreservesRepair ==
    ASSUME Alone, RepairInv, NEW i \in Isolates, CloseUnregisters(i)
    PROVE  RepairInv'
<1> USE ConstantsAssumption
<1>1. /\ ref' = [ref EXCEPT ![call[i].db] = Unused]
      /\ UNCHANGED <<live, endpoint, lock, outcome>>
      /\ call[i] \in Call /\ call[i].ptr \in Handles /\ call[i].at = endpoint[call[i].ptr]
  BY DEF CloseUnregisters, KeepConnection, RemoveConnection, At, RepairInv, Closes, TypeOK,
         NativeTypeOK
<1>2. ref' \in [Databases -> Ref]
  <2>1. Unused \in Ref
    BY DEF Unused, Ref, Endpoints
  <2> QED BY <1>1, <2>1 DEF RepairInv, TypeOK
<1>3. CASE KeepConnection(i)
  <2> DEFINE p == call[i].at
  <2>1. /\ p \in Paths /\ registry[p].ref_count > 1
        /\ registry' = [registry EXCEPT ![p].ref_count = registry[p].ref_count - 1]
        /\ call' = [call EXCEPT ![i] = Idle]
    BY <1>3 DEF KeepConnection
  <2>2. registry[p] \in DatabaseHandle
    BY <2>1 DEF RepairInv, TypeOK, NativeTypeOK, NoEntry
  <2>3. [registry[p] EXCEPT !.ref_count = registry[p].ref_count - 1] \in DatabaseHandle
    BY <2>1, <2>2 DEF DatabaseHandle
  <2>4. call' \in [Isolates -> Call] /\ call'[i].pc = "idle"
    BY <2>1, CallReturns DEF RepairInv
  <2>5. TypeOK'
    BY <1>1, <1>2, <2>1, <2>3, <2>4 DEF RepairInv, TypeOK, NativeTypeOK
  <2>6. \A q \in Paths : /\ registry'[q].ptr = registry[q].ptr
                         /\ HasActiveConnection(q)' => HasActiveConnection(q)
    BY <2>1, <2>2 DEF RepairInv, TypeOK, NativeTypeOK, DatabaseHandle, HasActiveConnection
  <2>7. RegisteredIsLive' /\ RegisteredIsOpen'
    BY <1>1, <2>6 DEF RepairInv, RegisteredIsLive, RegisteredIsOpen, IsOpen, fileLock
  <2>8. Registers(i)' /\ Closes(i)'
    BY <2>4 DEF Registers, Closes
  <2> QED BY <2>5, <2>7, <2>8 DEF RepairInv, Alone
<1>4. CASE RemoveConnection(i)
  <2>1. /\ registry' = [p \in Paths |-> IF p = call[i].at THEN NoEntry ELSE registry[p]]
        /\ call' = [call EXCEPT ![i].pc = "free"]
    BY <1>4 DEF RemoveConnection
  <2>2. [call[i] EXCEPT !.pc = "free"] \in Call
    BY <1>1 DEF Call, Labels
  <2>3. TypeOK'
    BY <1>1, <1>2, <2>1, <2>2 DEF RepairInv, TypeOK, NativeTypeOK
  <2>4. \A q \in Paths : HasActiveConnection(q)' =>
                            q # call[i].at /\ registry'[q] = registry[q] /\ HasActiveConnection(q)
    BY <2>1 DEF HasActiveConnection, NoEntry
  <2>5. RegisteredIsLive' /\ RegisteredIsOpen'
    BY <1>1, <2>4 DEF RepairInv, RegisteredIsLive, RegisteredIsOpen, IsOpen, fileLock
  <2>6. call'[i].pc = "free" /\ call'[i].at = call[i].at /\ call'[i].ptr = call[i].ptr
    BY <1>1, <2>1 DEF RepairInv, TypeOK, NativeTypeOK, Call
  <2>7. Registers(i)' /\ Closes(i)'
    BY <1>1, <2>4, <2>6 DEF Registers, Closes
  <2> QED BY <2>3, <2>5, <2>7 DEF RepairInv, Alone
<1> QED BY <1>3, <1>4 DEF CloseUnregisters

\* What is freed was registered, if at all, for the path that is out.
LEMMA FreePreservesRepair ==
    ASSUME Alone, RepairInv, NEW i \in Isolates, FreeHandle(i), UNCHANGED <<ref, outcome>>
    PROVE  RepairInv'
<1> USE ConstantsAssumption
<1>1. /\ call[i] \in Call /\ call[i].at = endpoint[call[i].ptr]
      /\ call[i].at \in Paths => ~HasActiveConnection(call[i].at)
      /\ live' = live \ {call[i].ptr}
      /\ call' = [call EXCEPT ![i].pc = "drain"]
      /\ lock' = [p \in Paths |-> IF p = call[i].at THEN [lock[call[i].at] EXCEPT !.closer = i]
                                  ELSE lock[p]]
      /\ UNCHANGED <<registry, endpoint, ref, outcome>>
  BY DEF FreeHandle, LockFor, At, RepairInv, Closes, TypeOK, NativeTypeOK
<1>2. [call[i] EXCEPT !.pc = "drain"] \in Call
  BY <1>1 DEF Call, Labels
<1>3. TypeOK'
  <2>1. lock' \in [Paths -> LockState]
    BY <1>1 DEF RepairInv, TypeOK, NativeTypeOK, LockState
  <2> QED BY <1>1, <1>2, <2>1 DEF RepairInv, TypeOK, NativeTypeOK
<1>4. \A p \in Paths : HasActiveConnection(p) =>
        registry[p].ptr # call[i].ptr /\ lock'[p] = lock[p]
  BY <1>1 DEF RepairInv, RegisteredIsLive
<1>5. RegisteredIsLive' /\ RegisteredIsOpen'
  BY <1>1, <1>4 DEF RepairInv, RegisteredIsLive, RegisteredIsOpen, IsOpen, fileLock,
                    HasActiveConnection
<1>6. call'[i].pc = "drain" /\ call'[i].at = call[i].at
  BY <1>1 DEF RepairInv, TypeOK, NativeTypeOK, Call
<1>7. Registers(i)' /\ Closes(i)'
  BY <1>1, <1>6 DEF Registers, Closes, HasActiveConnection
<1> QED BY <1>3, <1>5, <1>7 DEF RepairInv, Alone

LEMMA DrainPreservesRepair ==
    ASSUME Alone, RepairInv, NEW i \in Isolates, DrainRuntime(i), UNCHANGED <<ref, outcome>>
    PROVE  RepairInv'
<1>1. /\ call[i] \in Call
      /\ UNCHANGED <<registry, live, endpoint, lock, ref, outcome>>
  BY DEF DrainRuntime, DrainReturns, At, RepairInv, Closes, TypeOK, NativeTypeOK
<1>2. /\ call' \in [Isolates -> Call]
      /\ call'[i].pc \in {"idle", "repair"}
  <2>1. [call[i] EXCEPT !.pc = "repair", !.ptr = Null] \in Call /\ Idle \in Call
    BY <1>1 DEF Call, Labels, Idle, Endpoints
  <2>2. call' = [call EXCEPT ![i] = IF call[i].fn = "repair"
                                    THEN [call[i] EXCEPT !.pc = "repair", !.ptr = Null]
                                    ELSE Idle]
    BY DEF DrainRuntime, DrainReturns
  <2>3. [call[i] EXCEPT !.pc = "repair", !.ptr = Null].pc = "repair" /\ Idle.pc = "idle"
    BY <1>1 DEF Call, Idle
  <2> QED BY <2>1, <2>2, <2>3 DEF RepairInv, TypeOK, NativeTypeOK
<1>3. TypeOK'
  BY <1>1, <1>2 DEF RepairInv, TypeOK, NativeTypeOK
<1> QED BY <1>1, <1>2, <1>3, OnlyCallMoves

\* A LOCK is released only when nothing is registered for the directory: what
\* is registered has not been dropped.
LEMMA TasksEndPreservesRepair ==
    ASSUME Alone, RepairInv, NEW i \in Isolates, NEW q \in Paths, TasksEnd(i, q),
           UNCHANGED <<ref, outcome>>
    PROVE  RepairInv'
<1> USE ConstantsAssumption
<1>1. /\ lock[q].closer # Null /\ call[i].pc # "register"
      /\ lock' = [p \in Paths |-> IF p = q THEN Unlocked ELSE lock[p]]
      /\ UNCHANGED <<registry, live, endpoint, call, ref, outcome>>
  BY DEF TasksEnd, LockFor, Polls, At
<1>2. TypeOK'
  BY <1>1 DEF RepairInv, TypeOK, NativeTypeOK, LockState, Unlocked
<1>3. \A p \in Paths : HasActiveConnection(p) => p # q /\ lock'[p] = lock[p]
  BY <1>1 DEF RepairInv, RegisteredIsOpen, IsOpen
<1>4. RegisteredIsLive' /\ RegisteredIsOpen'
  BY <1>1, <1>3 DEF RepairInv, RegisteredIsLive, RegisteredIsOpen, IsOpen, fileLock,
                    HasActiveConnection
<1>5. Registers(i)' /\ Closes(i)'
  BY <1>1 DEF RepairInv, Registers, Closes, HasActiveConnection
<1> QED BY <1>2, <1>4, <1>5 DEF RepairInv, Alone

LEMMA ProceedPreserves ==
    ASSUME Alone, RepairInv, NEW i \in Isolates, Proceed(i)
    PROVE  RepairInv'
<1>0. TypeOK
  BY DEF RepairInv
<1>1. ASSUME UNCHANGED <<registry, live, endpoint, lock, ref>>, NEW d,
             outcome' = outcome \/ outcome' = [outcome EXCEPT ![d] = "ok"],
             call' = [call EXCEPT ![i] = Idle]
      PROVE  RepairInv'
  <2>1. call' \in [Isolates -> Call] /\ call'[i].pc = "idle"
    BY <1>0, <1>1, CallReturns
  <2>2. TypeOK'
    BY <1>0, <1>1, <2>1 DEF TypeOK, NativeTypeOK
  <2> QED BY <1>1, <2>1, <2>2, OnlyCallMoves
<1>2. CASE OpReturns(i)
  BY <1>1, <1>2 DEF OpReturns, UseHandle
<1>3. CASE ConnectLocked(i) /\ UNCHANGED <<ref, outcome>>
  <2>1. call[i] \in Call
    BY <1>0 DEF TypeOK, NativeTypeOK
  <2>2. [call[i] EXCEPT !.pc = "retry"] \in Call
    BY <2>1 DEF Call, Labels
  <2>3. TypeOK' /\ call'[i].pc = "retry"
    BY <1>0, <1>3, <2>1, <2>2 DEF ConnectLocked, TypeOK, NativeTypeOK, Call
  <2> QED BY <1>3, <2>3, OnlyCallMoves DEF ConnectLocked
<1>4. CASE (ConnectFailed(i) \/ VerifyDirectory(i)) /\ UNCHANGED <<ref, outcome>>
  BY <1>1, <1>4 DEF ConnectFailed, VerifyDirectory
<1> QED
  BY <1>2, <1>3, <1>4, RegisterPreservesRepair, UnregisterPreservesRepair, ConnectPreservesRepair,
     ReadPreservesRepair, FreePreservesRepair, DrainPreservesRepair, TasksEndPreservesRepair
  DEF Proceed, CallProceeds

-----------------------------------------------------------------------------
(* db_repair_rocksdb                                                       *)

LEMMA RepairPreserves ==
    ASSUME Alone, RepairInv, NEW i \in Isolates, Repair(i)
    PROVE  RepairInv'
<1> USE ConstantsAssumption
<1>0. TypeOK /\ UNCHANGED <<ref, outcome>>
  BY DEF RepairInv, Repair
<1>1. ASSUME NEW p \in Paths, HasActiveConnection(p),
             registry' = [registry EXCEPT ![p] = NoEntry],
             Begin(i, "free", "repair", Null, p, registry[p].ptr),
             UNCHANGED <<live, endpoint, lock>>
      PROVE  RepairInv'
  <2> DEFINE h == registry[p].ptr
  <2>1. h \in Handles /\ endpoint[h] = p
    BY <1>0, <1>1 DEF TypeOK, NativeTypeOK, HasActiveConnection, DatabaseHandle, NoEntry,
                      RepairInv, RegisteredIsLive
  <2>2. [pc |-> "free", fn |-> "repair", db |-> Null, at |-> p, ptr |-> h] \in Call
    BY <2>1 DEF Call, Labels, Endpoints
  <2>3. /\ call'[i].pc = "free" /\ call'[i].at = p /\ call'[i].ptr = h
        /\ call' \in [Isolates -> Call]
    BY <1>0, <1>1, <2>2 DEF Begin, TypeOK, NativeTypeOK
  <2>4. TypeOK'
    BY <1>0, <1>1, <2>3 DEF TypeOK, NativeTypeOK
  <2>5. \A q \in Paths : HasActiveConnection(q)' => q # p /\ registry'[q] = registry[q]
    BY <1>0, <1>1 DEF HasActiveConnection, NoEntry, TypeOK, NativeTypeOK
  <2>6. RegisteredIsLive' /\ RegisteredIsOpen'
    BY <1>1, <2>5 DEF RepairInv, RegisteredIsLive, RegisteredIsOpen, IsOpen, fileLock,
                      HasActiveConnection
  <2>7. Registers(i)' /\ Closes(i)'
    BY <1>1, <2>1, <2>3, <2>5 DEF Registers, Closes
  <2> QED BY <2>4, <2>6, <2>7 DEF RepairInv, Alone
<1>2. ASSUME NEW p \in Paths, Begin(i, "repair", "repair", Null, p, Null),
             UNCHANGED <<registry, live, endpoint, lock>>
      PROVE  RepairInv'
  <2>1. [pc |-> "repair", fn |-> "repair", db |-> Null, at |-> p, ptr |-> Null] \in Call
    BY DEF Call, Labels, Endpoints
  <2>2. TypeOK' /\ call'[i].pc = "repair"
    BY <1>0, <1>2, <2>1 DEF TypeOK, NativeTypeOK, Begin
  <2> QED BY <1>2, <2>2, OnlyCallMoves
<1>3. ASSUME NEW p \in Paths, NEW exact \in BOOLEAN, DbRepair(i, p, exact) PROVE RepairInv'
  BY <1>1, <1>2, <1>3 DEF DbRepair
<1>4. CASE RepairDirectory(i)
  <2>1. /\ call' = [call EXCEPT ![i] = Idle]
        /\ UNCHANGED <<registry, live, endpoint, lock>>
    BY <1>4 DEF RepairDirectory
  <2>2. call' \in [Isolates -> Call] /\ call'[i].pc = "idle"
    BY <1>0, <2>1, CallReturns
  <2>3. TypeOK'
    BY <1>0, <2>1, <2>2 DEF TypeOK, NativeTypeOK
  <2> QED BY <2>1, <2>2, <2>3, OnlyCallMoves
<1>5. CASE Crash(i)
  <2>1. call[i] \in Call
    BY <1>0 DEF TypeOK, NativeTypeOK
  <2>2. [call[i] EXCEPT !.pc = "crashed"] \in Call
    BY <2>1 DEF Call, Labels
  <2>3. TypeOK' /\ call'[i].pc = "crashed"
    BY <1>0, <1>5, <2>1, <2>2 DEF Crash, TypeOK, NativeTypeOK, Call
  <2> QED BY <1>5, <2>3, OnlyCallMoves DEF Crash
<1> QED BY <1>3, <1>4, <1>5 DEF Repair

LEMMA RepairNextPreserves == Alone /\ RepairInv /\ [RepairNext]_vars => RepairInv'
<1> SUFFICES ASSUME Alone, RepairInv, [RepairNext]_vars PROVE RepairInv'
  OBVIOUS
<1>1. CASE UNCHANGED vars
  <2>1. TypeOK' /\ UNCHANGED <<registry, live, endpoint, lock, call>>
    BY <1>1 DEF RepairInv, TypeOK, NativeTypeOK, vars, native
  <2> QED
    BY <2>1 DEF RepairInv, RegisteredIsLive, RegisteredIsOpen, IsOpen, fileLock,
                HasActiveConnection, Registers, Closes
<1> QED
  BY <1>1, ClientPreserves, ProceedPreserves, RepairPreserves DEF RepairNext, Next

-----------------------------------------------------------------------------
(* Results                                                                 *)

\* is_handle_valid can be trusted whatever has been repaired: the pointers in
\* the registry are allocated and open on the path they are registered for.
THEOREM RegistrySurvivesRepair == Alone => (RepairSpec => []RegisteredIsLive)
<1> SUFFICES ASSUME Alone PROVE RepairSpec => []RegisteredIsLive
  OBVIOUS
<1>1. Init => RepairInv
  BY InitEstablishesRepairInv
<1>2. RepairInv /\ [RepairNext]_vars => RepairInv'
  BY RepairNextPreserves
<1>3. RepairInv => RegisteredIsLive
  BY DEF RepairInv
<1> QED BY <1>1, <1>2, <1>3, PTL DEF RepairSpec

\* So a holder whose connection was repaired away is rejected, or is accepted
\* because its pointer is another connection's by now; it is never let through
\* to freed memory.
THEOREM AcceptedAfterRepair == Alone => (RepairSpec => AcceptedOpsUseLiveHandle)
<1> SUFFICES ASSUME Alone PROVE RepairSpec => AcceptedOpsUseLiveHandle
  OBVIOUS
<1>1. Init => RepairInv
  BY InitEstablishesRepairInv
<1>2. RepairInv /\ [RepairNext]_vars => RepairInv'
  BY RepairNextPreserves
<1>3. RepairInv /\ [RepairNext]_vars =>
        [\A i \in Isolates, d \in Databases : QueryAccepted(i, d) => ref[d].ptr \in live']_vars
  <2> SUFFICES ASSUME RepairInv, NEW i \in Isolates, NEW d \in Databases, QueryAccepted(i, d)
               PROVE  ref[d].ptr \in live'
    OBVIOUS
  <2> QED BY DEF QueryAccepted, ValidatedOp, IsHandleValid, RepairInv, RegisteredIsLive
<1> QED BY <1>1, <1>2, <1>3, PTL DEF RepairSpec, AcceptedOpsUseLiveHandle

=============================================================================
