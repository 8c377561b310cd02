--------------------------- MODULE ConnectionProofs ---------------------------
(***************************************************************************)
(* Proofs about ConnectionProtocol, for any number of isolates, objects,   *)
(* directories and addresses: its inductive invariant, the safety          *)
(* properties that follow, and that it implements SharedConnection.        *)
(***************************************************************************)
EXTENDS ConnectionProtocol, FiniteSetTheorems, TLAPS

-----------------------------------------------------------------------------
(* The inductive invariant                                                 *)

Used(d) == ref[d].st # "unused"

Opening == {"connect", "retry", "register"}
Transit == {"register", "free"}

\* What the pc of a call says about the object the call is made for.
CallOwner(i) ==
    /\ call[i].pc \notin {"repair", "crashed"} /\ call[i].fn # "repair"
    /\ call[i].pc \in Opening =>
        /\ call[i].db \in Databases /\ Home[call[i].db] = i
        /\ ref[call[i].db] = Unused
        /\ outcome[call[i].db] # "rejected"
    /\ call[i].pc \in {"endpoint", "unregister", "deref"} =>
        /\ call[i].db \in Databases /\ Home[call[i].db] = i
        /\ IsHeld(call[i].db)
        /\ call[i].ptr = ref[call[i].db].ptr
    /\ call[i].pc = "unregister" => call[i].at = ref[call[i].db].at

\* A pointer on its way into or out of the registry is the call's alone.
CallPointer(i) ==
    call[i].pc \in {"register", "free"} =>
        /\ call[i].ptr \in live
        /\ endpoint[call[i].ptr] = call[i].at
        /\ \A d \in Databases : Used(d) => ref[d].ptr # call[i].ptr
        /\ \A j \in Isolates \ {i} :
            call[j].pc \in {"register", "free"} => call[j].ptr # call[i].ptr

\* The connection of the directory is open, and nobody has dropped it.
IsOpen(p) == lock[p].opener # Null /\ lock[p].closer = Null

Passing(i, p) == call[i].at = p /\ call[i].pc \in Transit

\* So is the directory, with its LOCK.
CallPath(i) ==
    call[i].at \in Paths =>
        /\ call[i].pc \in Transit =>
            /\ IsOpen(call[i].at)
            /\ ~HasActiveConnection(call[i].at)
            /\ \A j \in Isolates \ {i} : ~Passing(j, call[i].at)
        /\ call[i].pc \in {"connect", "retry"} =>
            \A d \in Holders(call[i].at) : Home[d] # i

CallSound == \A i \in Isolates : CallOwner(i) /\ CallPointer(i) /\ CallPath(i)

RefSound ==
    \A d \in Databases :
        IF Used(d) THEN ref[d].ptr \in live /\ endpoint[ref[d].ptr] = ref[d].at
        ELSE ref[d] = Unused

\* In-memory databases are not shared.
MemExclusive ==
    \A c, d \in Databases :
        Used(c) /\ Used(d) /\ ref[c].at = Mem /\ ref[d].at = Mem /\ c # d
            => ref[c].ptr # ref[d].ptr

HeapLocked == \A h \in live : endpoint[h] \in Paths => IsOpen(endpoint[h])

\* The two halves of NothingLeaks; of the second, what a step has to keep: a
\* thread that drops its own connection drains until the LOCK is released.
HandleOwned(h) ==
    \/ IsHandleValid(h)
    \/ \E d \in Databases : ref[d].st # "unused" /\ ref[d].at = Mem /\ ref[d].ptr = h
    \/ \E i \in Isolates : call[i].ptr = h /\ call[i].pc \in {"register", "free"}

LockOwned(p) ==
    \/ lock[p] = Unlocked
    \/ IsOpen(p) /\ (HasActiveConnection(p) \/ \E i \in Isolates : Passing(i, p))
    \/ /\ lock[p].opener # Null /\ lock[p].closer # Null
       /\ lock[p].closer = lock[p].opener => call[lock[p].closer].pc = "drain"
       /\ lock[p].closer = lock[p].opener => call[lock[p].closer].at = p

AllOwned == (\A h \in live : HandleOwned(h)) /\ (\A p \in Paths : LockOwned(p))

IInv ==
    /\ TypeOK
    /\ CallSound
    /\ RefSound
    /\ MemExclusive
    /\ HeapLocked
    /\ OneConnectionPerPath
    /\ RegisteredIsLive
    /\ HoldersShareConnection
    /\ RefCountExact
    /\ HolderNeverRejected
    /\ AllOwned

-----------------------------------------------------------------------------
(* Counting                                                                *)

\* The references to a directory are finitely many, and there is none
\* exactly when the registry has no entry for it.
LEMMA HoldersFinite ==
    ASSUME NEW p \in Paths
    PROVE  /\ IsFiniteSet(Holders(p))
           /\ Cardinality(Holders(p)) \in Nat
           /\ Cardinality(Holders(p)) = 0 <=> Holders(p) = {}
<1>1. Holders(p) \subseteq Databases
  BY DEF Holders
<1>2. IsFiniteSet(Holders(p))
  BY <1>1, FS_Subset, ConstantsAssumption
<1> QED
  BY <1>2, FS_CardinalityType, FS_EmptySet

\* A reference more.
LEMMA HoldersGrow ==
    ASSUME NEW p \in Paths, NEW d \in Databases, d \notin Holders(p),
           Holders(p)' = Holders(p) \cup {d}
    PROVE  Cardinality(Holders(p)') = Cardinality(Holders(p)) + 1
BY HoldersFinite, FS_AddElement

\* A reference less.
LEMMA HoldersShrink ==
    ASSUME NEW p \in Paths, NEW d \in Holders(p),
           Holders(p)' = Holders(p) \ {d}
    PROVE  Cardinality(Holders(p)') = Cardinality(Holders(p)) - 1
BY HoldersFinite, FS_RemoveElement

\* A call that only moves on keeps its type.
LEMMA CallMoves ==
    ASSUME NEW c \in Call, NEW l \in Labels
    PROVE  [c EXCEPT !.pc = l] \in Call
BY DEF Call

-----------------------------------------------------------------------------
(* Initially                                                               *)

LEMMA InitEstablishesIInv == Init => IInv
<1> SUFFICES ASSUME Init PROVE IInv
  OBVIOUS
<1> USE ConstantsAssumption DEF Init, NativeInit
<1>1. TypeOK
  BY DEF TypeOK, NativeTypeOK, Endpoints, Idle, Call, Labels, NoEntry, Ref, Unused,
         Unlocked, LockState
<1>2. CallSound
  BY DEF CallSound, CallOwner, CallPointer, CallPath, Opening, Transit, Idle
<1>3. /\ RefSound /\ MemExclusive /\ HeapLocked /\ OneConnectionPerPath
      /\ HoldersShareConnection /\ HolderNeverRejected /\ AllOwned
  BY DEF RefSound, MemExclusive, HeapLocked, OneConnectionPerPath, Unused, Used,
         HoldersShareConnection, HolderNeverRejected, IsHeld, AllOwned, LockOwned
<1>4. RegisteredIsLive
  BY DEF RegisteredIsLive, HasActiveConnection, NoEntry
<1>5. RefCountExact
  <2> SUFFICES ASSUME NEW p \in Paths
               PROVE  registry[p].ref_count = Cardinality(Holders(p))
    BY DEF RefCountExact
  <2>1. Holders(p) = {}
    BY DEF Holders, Unused
  <2> QED
    BY <2>1, HoldersFinite DEF NoEntry
<1> QED
  BY <1>1, <1>2, <1>3, <1>4, <1>5 DEF IInv

\* Where nothing changes, nothing is broken.
LEMMA StutterPreserves == IInv /\ UNCHANGED vars => IInv'
<1> SUFFICES ASSUME IInv, UNCHANGED vars PROVE IInv'
  OBVIOUS
<1>1. UNCHANGED <<registry, live, endpoint, lock, call, ref, outcome>>
  BY DEF vars, native
<1>2. TypeOK'
  BY <1>1 DEF IInv, TypeOK, NativeTypeOK
<1>3. CallSound'
  BY <1>1 DEF IInv, CallSound, CallOwner, CallPointer, CallPath, HasActiveConnection,
              Passing, IsOpen, Holders, IsHeld, Used
<1>4. RefSound' /\ MemExclusive' /\ HeapLocked' /\ OneConnectionPerPath' /\ RegisteredIsLive'
  BY <1>1 DEF IInv, RefSound, MemExclusive, HeapLocked, OneConnectionPerPath, IsOpen,
              RegisteredIsLive, HasActiveConnection, Used, fileLock
<1>5. HoldersShareConnection' /\ RefCountExact' /\ HolderNeverRejected'
  BY <1>1 DEF IInv, HoldersShareConnection, HasActiveConnection, RefCountExact, Holders,
              HolderNeverRejected, IsHeld
<1>6. AllOwned'
  BY <1>1 DEF IInv, AllOwned, HandleOwned, LockOwned, IsOpen, IsHandleValid,
              HasActiveConnection, Passing
<1> QED
  BY <1>2, <1>3, <1>4, <1>5, <1>6 DEF IInv

-----------------------------------------------------------------------------
(* The LOCK of a directory, where a step leaves it as it is                *)

LEMMA LockKept ==
    ASSUME NEW p \in Paths, LockOwned(p), lock'[p] = lock[p],
           call \in [Isolates -> Call], lock \in [Paths -> LockState],
           NEW i \in Isolates,
           \A j \in Isolates \ {i} : call'[j] = call[j],
           HasActiveConnection(p) => HasActiveConnection(p)' \/ Passing(i, p)',
           Passing(i, p) => HasActiveConnection(p)' \/ Passing(i, p)',
           call[i].pc = "drain" => ~(lock[p].opener = i /\ lock[p].closer = i)
    PROVE  LockOwned(p)'
<1>1. CASE lock[p] = Unlocked
  BY <1>1 DEF LockOwned
<1>2. CASE IsOpen(p) /\ (HasActiveConnection(p) \/ \E j \in Isolates : Passing(j, p))
  <2>1. IsOpen(p)'
    BY <1>2 DEF IsOpen
  <2>2. CASE HasActiveConnection(p)
    BY <2>1, <2>2 DEF LockOwned
  <2>3. ASSUME NEW j \in Isolates, Passing(j, p) PROVE LockOwned(p)'
    <3>1. j # i => Passing(j, p)'
      BY <2>3 DEF Passing
    <3> QED
      BY <2>1, <2>3, <3>1 DEF LockOwned
  <2> QED
    BY <1>2, <2>2, <2>3
<1>3. CASE /\ lock[p].opener # Null /\ lock[p].closer # Null
           /\ lock[p].closer = lock[p].opener => call[lock[p].closer].pc = "drain"
           /\ lock[p].closer = lock[p].opener => call[lock[p].closer].at = p
  <2>1. lock[p].closer \in Isolates
    BY <1>3 DEF LockState
  <2>2. lock[p].closer = lock[p].opener => lock[p].closer # i
    BY <1>3
  <2> QED
    BY <1>3, <2>1, <2>2 DEF LockOwned
<1> QED
  BY <1>1, <1>2, <1>3 DEF LockOwned

-----------------------------------------------------------------------------
(* Steps at which a call is neither on its way into the registry nor out   *)
(* of it: they change nothing but the call and the outcome                 *)

LEMMA OutsideTransit ==
    ASSUME IInv, NEW i \in Isolates,
           UNCHANGED <<registry, live, endpoint, lock, ref>>,
           call[i].pc \notin Transit, call'[i].pc \notin Transit,
           \A j \in Isolates \ {i} : call'[j] = call[j],
           \A c \in Databases :
               \/ outcome'[c] = outcome[c]
               \/ /\ Home[c] = i
                  /\ outcome'[c] = "rejected" => ref[c].at \notin Paths,
           call[i].pc = "drain" =>
               \A p \in Paths : ~(lock[p].opener = i /\ lock[p].closer = i),
           TypeOK', CallOwner(i)', CallPath(i)'
    PROVE  IInv'
<1> USE ConstantsAssumption, HomeAssumption DEF IInv
<1>1. \A p \in Paths : /\ HasActiveConnection(p)' <=> HasActiveConnection(p)
                       /\ Holders(p)' = Holders(p)
  BY DEF HasActiveConnection, Holders
<1>2. CallSound'
  <2> SUFFICES ASSUME NEW j \in Isolates \ {i}
               PROVE  CallOwner(j)' /\ CallPointer(j)' /\ CallPath(j)'
    BY DEF CallSound, CallPointer, Transit
  <2>1. CallOwner(j)'
    BY DEF CallSound, CallOwner, IsHeld, Opening
  <2>2. CallPointer(j)'
    BY DEF CallSound, CallPointer, Used, Transit
  <2>3. CallPath(j)'
    BY <1>1 DEF CallSound, CallPath, Passing, IsOpen, Transit
  <2> QED
    BY <2>1, <2>2, <2>3
<1>3. RefSound' /\ MemExclusive' /\ HoldersShareConnection'
  BY <1>1 DEF RefSound, MemExclusive, HoldersShareConnection, Used
<1>4. HeapLocked' /\ OneConnectionPerPath' /\ RegisteredIsLive' /\ RefCountExact'
  BY <1>1 DEF HeapLocked, IsOpen, OneConnectionPerPath, RegisteredIsLive, RefCountExact, fileLock
<1>5. HolderNeverRejected'
  BY DEF HolderNeverRejected, IsHeld
<1>6. AllOwned'
  <2>1. \A h \in live' : HandleOwned(h)'
    <3>1. \A h \in Handles : IsHandleValid(h)' <=> IsHandleValid(h)
      BY <1>1 DEF IsHandleValid
    <3> QED
      BY <3>1 DEF AllOwned, HandleOwned, Transit, TypeOK, NativeTypeOK
  <2>2. \A p \in Paths : LockOwned(p)'
    BY <1>1, LockKept DEF AllOwned, Passing, TypeOK, NativeTypeOK
  <2> QED
    BY <2>1, <2>2 DEF AllOwned
<1> QED
  BY <1>2, <1>3, <1>4, <1>5, <1>6

\* db_verify_rocksdb is such a call, made for no object.
LEMMA VerifyPreserves ==
    ASSUME IInv, NEW i \in Isolates, Verify(i)
    PROVE  IInv'
<1> USE ConstantsAssumption, HomeAssumption DEF IInv
<1>1. /\ call[i].pc = "idle"
      /\ UNCHANGED <<registry, live, endpoint, lock, ref, outcome>>
  BY DEF Verify, DbVerify, At
<1>2. CASE UNCHANGED call
  BY <1>1, <1>2, StutterPreserves DEF vars, native
<1>3. ASSUME NEW p \in Paths, Begin(i, "verify", "verify", Null, p, Null) PROVE IInv'
  <2>1. call' = [call EXCEPT ![i] = [pc |-> "verify", fn |-> "verify", db |-> Null,
                                     at |-> p, ptr |-> Null]]
    BY <1>3 DEF Begin
  <2>2. TypeOK'
    BY <1>1, <2>1 DEF TypeOK, NativeTypeOK, Call, Labels, Endpoints
  <2>3. CallOwner(i)' /\ CallPath(i)'
    BY <2>1 DEF TypeOK, NativeTypeOK, CallOwner, CallPath, Opening, Transit
  <2> QED
    BY <1>1, <2>1, <2>2, <2>3, OutsideTransit DEF TypeOK, NativeTypeOK, Transit
<1> QED
  BY <1>2, <1>3 DEF Verify, DbVerify

LEMMA VerifyDirectoryPreserves ==
    ASSUME IInv, NEW i \in Isolates, VerifyDirectory(i), UNCHANGED <<ref, outcome>>
    PROVE  IInv'
<1> USE ConstantsAssumption, HomeAssumption DEF IInv
<1>1. /\ call[i].pc = "verify"
      /\ call' = [call EXCEPT ![i] = Idle]
      /\ UNCHANGED <<registry, live, endpoint, lock, ref, outcome>>
  BY DEF VerifyDirectory, At
<1>2. TypeOK'
  BY <1>1 DEF TypeOK, NativeTypeOK, Call, Labels, Idle, Endpoints
<1>3. CallOwner(i)' /\ CallPath(i)'
  BY <1>1 DEF TypeOK, NativeTypeOK, CallOwner, CallPath, Opening, Transit, Idle
<1> QED
  BY <1>1, <1>2, <1>3, OutsideTransit DEF TypeOK, NativeTypeOK, Transit, Idle

-----------------------------------------------------------------------------
(* The steps of db_new                                                     *)

LEMMA OpenSharedPreserves ==
    ASSUME IInv, NEW i \in Isolates, NEW d \in Databases, NEW p \in Paths,
           OpenShared(i, d, p)
    PROVE  IInv'
<1> USE ConstantsAssumption, HomeAssumption DEF IInv
<1>1. /\ registry[p] \in DatabaseHandle
      /\ HasActiveConnection(p)
      /\ ref[d] = Unused /\ Home[d] = i /\ call[i].pc = "idle"
      /\ UNCHANGED <<live, endpoint, lock, call>>
      /\ registry' = [registry EXCEPT ![p].ref_count = registry[p].ref_count + 1]
      /\ ref' = [ref EXCEPT ![d] = Held(p, registry[p].ptr)]
      /\ outcome' = [outcome EXCEPT ![d] = "none"]
  BY DEF OpenShared, ReuseConnection, At, TypeOK, NativeTypeOK, HasActiveConnection, NoEntry
<1>2. TypeOK'
  BY <1>1 DEF TypeOK, NativeTypeOK, DatabaseHandle, Ref, Held, Endpoints
<1>3. /\ \A q \in Paths : registry'[q].ptr = registry[q].ptr
      /\ \A q \in Paths : HasActiveConnection(q)' <=> HasActiveConnection(q)
  BY <1>1 DEF TypeOK, NativeTypeOK, DatabaseHandle, HasActiveConnection
<1>4. /\ ref'[d] = Held(p, registry[p].ptr)
      /\ \A c \in Databases : c # d => ref'[c] = ref[c]
  BY <1>1 DEF TypeOK
<1>5. CallSound'
  <2> SUFFICES ASSUME NEW j \in Isolates
               PROVE  CallOwner(j)' /\ CallPointer(j)' /\ CallPath(j)'
    BY DEF CallSound
  <2>1. CallOwner(j)'
    BY <1>1, <1>4 DEF CallSound, CallOwner, Opening, Transit, IsHeld, TypeOK
  <2>2. CallPointer(j)'
    BY <1>1, <1>4 DEF CallSound, CallPointer, CallPath, RegisteredIsLive, Held, Used, Unused, Transit
  <2>3. CallPath(j)'
    BY <1>1, <1>3, <1>4
    DEF CallSound, CallPath, RegisteredIsLive, Passing, IsOpen, Holders, Held, Transit
  <2> QED
    BY <2>1, <2>2, <2>3
<1>6. RefSound' /\ MemExclusive'
  BY <1>1, <1>4 DEF RefSound, MemExclusive, RegisteredIsLive, Held, Used
<1>7. HeapLocked' /\ OneConnectionPerPath' /\ RegisteredIsLive'
  BY <1>1, <1>3 DEF HeapLocked, IsOpen, OneConnectionPerPath, RegisteredIsLive, fileLock
<1>8. HoldersShareConnection'
  BY <1>1, <1>3, <1>4 DEF HoldersShareConnection, RegisteredIsLive, Held
<1>9. RefCountExact'
  <2>1. Holders(p)' = Holders(p) \cup {d} /\ d \notin Holders(p)
    BY <1>1, <1>4 DEF Holders, Held, Unused
  <2>2. \A q \in Paths \ {p} : Holders(q)' = Holders(q)
    BY <1>1, <1>4 DEF Holders, Held, Unused
  <2>3. registry'[p].ref_count = registry[p].ref_count + 1
    BY <1>1 DEF TypeOK, NativeTypeOK, DatabaseHandle
  <2>4. \A q \in Paths \ {p} : registry'[q] = registry[q]
    BY <1>1 DEF TypeOK, NativeTypeOK
  <2> QED
    BY <2>1, <2>2, <2>3, <2>4, HoldersGrow DEF RefCountExact
<1>10. HolderNeverRejected'
  BY <1>1, <1>4 DEF HolderNeverRejected, IsHeld, TypeOK
<1>11. AllOwned'
  <2>1. \A h \in Handles : IsHandleValid(h)' <=> IsHandleValid(h)
    BY <1>3 DEF IsHandleValid
  <2>2. \A h \in live' : HandleOwned(h)'
    BY <1>1, <1>4, <2>1 DEF AllOwned, HandleOwned, Unused, TypeOK, NativeTypeOK
  <2>3. \A q \in Paths : LockOwned(q)'
    <3>1. \A q \in Paths : Passing(i, q)' <=> Passing(i, q)
      BY <1>1 DEF Passing
    <3> QED
      BY <1>1, <1>3, <3>1, LockKept DEF AllOwned, TypeOK, NativeTypeOK
  <2> QED
    BY <2>2, <2>3 DEF AllOwned
<1> QED
  BY <1>2, <1>5, <1>6, <1>7, <1>8, <1>9, <1>10, <1>11

LEMMA OpenNewPreserves ==
    ASSUME IInv, NEW i \in Isolates, NEW d \in Databases, NEW e \in Endpoints,
           OpenNew(i, d, e)
    PROVE  IInv'
<1> USE ConstantsAssumption, HomeAssumption DEF IInv
<1>1. /\ Home[d] = i /\ ref[d] = Unused /\ call[i].pc = "idle"
      /\ e \in Paths => ~HasActiveConnection(e)
      /\ call' = [call EXCEPT ![i] =
                    [pc |-> "connect", fn |-> "new", db |-> d, at |-> e, ptr |-> Null]]
      /\ outcome' = [outcome EXCEPT ![d] = "none"]
      /\ UNCHANGED <<registry, live, endpoint, lock, ref>>
  BY DEF OpenNew, MissConnection, Begin, At
<1>2. TypeOK'
  BY <1>1 DEF TypeOK, NativeTypeOK, Call, Labels
<1>3. CallOwner(i)'
  BY <1>1 DEF CallOwner, TypeOK, NativeTypeOK, Opening
<1>4. CallPath(i)'
  <2>1. e \in Paths => Holders(e) = {}
    BY <1>1, HoldersFinite DEF RefCountExact, HasActiveConnection
  <2> QED
    BY <1>1, <2>1 DEF CallPath, TypeOK, NativeTypeOK, Transit, Holders
<1> QED
  BY <1>1, <1>2, <1>3, <1>4, OutsideTransit DEF TypeOK, NativeTypeOK, Transit

LEMMA ConnectPreserves ==
    ASSUME IInv, NEW i \in Isolates, NEW h \in Handles, Connect(i, h),
           UNCHANGED <<ref, outcome>>
    PROVE  IInv'
<1> USE ConstantsAssumption, HomeAssumption DEF IInv
<1> DEFINE e == call[i].at
<1>1. /\ call' = [call EXCEPT ![i] =
                    [pc |-> "register", fn |-> "new", db |-> call[i].db, at |-> e, ptr |-> h]]
      /\ live' = live \cup {h}
      /\ endpoint' = [endpoint EXCEPT ![h] = e]
      /\ lock' = [p \in Paths |-> IF p = e THEN [opener |-> i, closer |-> Null] ELSE lock[p]]
      /\ UNCHANGED registry
  BY DEF Connect, Begin, LockFor
<1>2. /\ call[i].pc \in {"connect", "retry"}
      /\ e \in Endpoints /\ h \notin live /\ live \subseteq Handles
      /\ e \in Paths => lock[e] = Unlocked /\ ~IsOpen(e)
  BY DEF Connect, At, TypeOK, NativeTypeOK, Call, fileLock, IsOpen, Unlocked
<1>3. /\ call'[i].pc = "register" /\ call'[i].ptr = h /\ call'[i].at = e
      /\ call'[i].db = call[i].db /\ call'[i].fn = "new"
      /\ \A j \in Isolates \ {i} : call'[j] = call[j]
      /\ endpoint'[h] = e
      /\ \A g \in live : g # h /\ endpoint'[g] = endpoint[g]
      /\ \A g \in live' : g = h \/ g \in live
      /\ \A g \in live : g \in live'
      /\ h \in live'
      /\ e \in Paths => IsOpen(e)'
      /\ \A p \in Paths \ {e} : lock'[p] = lock[p] /\ IsOpen(p)' = IsOpen(p)
      /\ \A p \in fileLock : p \in fileLock'
  <2>1. /\ call'[i].pc = "register" /\ call'[i].ptr = h /\ call'[i].at = e
        /\ call'[i].db = call[i].db /\ call'[i].fn = "new"
        /\ \A j \in Isolates \ {i} : call'[j] = call[j]
    BY <1>1 DEF TypeOK, NativeTypeOK, Call
  <2>2. /\ endpoint'[h] = e
        /\ \A g \in live : g # h /\ endpoint'[g] = endpoint[g]
    BY <1>1, <1>2 DEF TypeOK, NativeTypeOK
  <2>3. live' = live \cup {h}
    BY <1>1
  <2>4. /\ e \in Paths => IsOpen(e)'
        /\ \A p \in Paths \ {e} : lock'[p] = lock[p] /\ IsOpen(p)' = IsOpen(p)
    BY <1>1 DEF IsOpen
  <2>5. \A p \in fileLock : p \in fileLock'
    BY <1>1, <1>2 DEF fileLock, Unlocked
  <2> QED
    BY <2>1, <2>2, <2>3, <2>4, <2>5
<1>4. TypeOK'
  <2>1. call' \in [Isolates -> Call]
    BY <1>1 DEF TypeOK, NativeTypeOK, Call, Labels
  <2>2. endpoint' \in [Handles -> Endpoints]
    BY <1>1, <1>2 DEF TypeOK, NativeTypeOK
  <2>3. live' \in SUBSET Handles /\ lock' \in [Paths -> LockState]
    BY <1>1, <1>2 DEF TypeOK, NativeTypeOK, LockState
  <2> QED
    BY <1>1, <2>1, <2>2, <2>3 DEF TypeOK, NativeTypeOK
<1>5. \A p \in Paths : HasActiveConnection(p)' <=> HasActiveConnection(p)
  BY <1>1 DEF HasActiveConnection
<1>6. \A p \in Paths : Holders(p)' = Holders(p)
  BY DEF Holders
<1>7. /\ \A p \in Paths : HasActiveConnection(p) => IsOpen(p)
      /\ \A d \in Databases : Used(d) => ref[d].ptr \in live
      /\ \A g \in live : endpoint[g] \in Paths => IsOpen(endpoint[g])
  BY DEF RegisteredIsLive, RefSound, HeapLocked
<1>8. CallSound'
  <2>1. CallOwner(i)' /\ CallPointer(i)' /\ CallPath(i)'
    <3>1. CallOwner(i)'
      <4>1. CallOwner(i) /\ call[i].pc \in Opening
        BY <1>2 DEF CallSound, Opening
      <4> QED
        BY <4>1, <1>3 DEF CallOwner, Opening, IsHeld
    <3>2. CallPointer(i)'
      BY <1>3, <1>7 DEF CallSound, CallPointer, Used
    <3>3. CallPath(i)'
      BY <1>2, <1>3, <1>5, <1>7 DEF CallSound, CallPath, Passing, Transit
    <3> QED
      BY <3>1, <3>2, <3>3
  <2>2. ASSUME NEW j \in Isolates \ {i}
        PROVE  CallOwner(j)' /\ CallPointer(j)' /\ CallPath(j)'
    <3>1. CallOwner(j)'
      BY <1>3 DEF CallSound, CallOwner, IsHeld, Opening
    <3>2. CallPointer(j)'
      BY <1>3 DEF CallSound, CallPointer, Used
    <3>3. CallPath(j)'
      BY <1>2, <1>3, <1>5, <1>6 DEF CallSound, CallPath, Passing, Transit
    <3> QED
      BY <3>1, <3>2, <3>3
  <2> QED
    BY <2>1, <2>2 DEF CallSound
<1>9. RefSound' /\ MemExclusive'
  BY <1>3, <1>7 DEF RefSound, MemExclusive, Used
<1>10. HoldersShareConnection'
  BY <1>1, <1>3, <1>5 DEF HoldersShareConnection
<1>11. HeapLocked' /\ OneConnectionPerPath'
  BY <1>2, <1>3 DEF HeapLocked, OneConnectionPerPath
<1>12. RegisteredIsLive'
  BY <1>1, <1>3, <1>5 DEF RegisteredIsLive
<1>13. RefCountExact' /\ HolderNeverRejected'
  BY <1>1, <1>6 DEF RefCountExact, HolderNeverRejected, IsHeld
<1>14. AllOwned'
  <2>1. \A g \in Handles : IsHandleValid(g)' <=> IsHandleValid(g)
    BY <1>1, <1>5 DEF IsHandleValid
  <2>2. \A j \in Isolates, g \in Handles :
            call[j].ptr = g /\ call[j].pc \in {"register", "free"}
                => call'[j].ptr = g /\ call'[j].pc \in {"register", "free"}
    BY <1>2, <1>3
  <2>3. \A g \in live' : HandleOwned(g)'
    BY <1>2, <1>3, <2>1, <2>2 DEF AllOwned, HandleOwned
  <2>4. ASSUME NEW p \in Paths PROVE LockOwned(p)'
    <3>1. CASE p = e
      BY <1>3, <3>1 DEF LockOwned, Passing, Transit
    <3>2. CASE p # e
      BY <1>2, <1>3, <1>5, <3>2, LockKept DEF AllOwned, Passing, Transit, TypeOK, NativeTypeOK
    <3> QED
      BY <3>1, <3>2
  <2> QED
    BY <2>3, <2>4 DEF AllOwned
<1> QED
  BY <1>4, <1>8, <1>9, <1>10, <1>11, <1>12, <1>13, <1>14

LEMMA ConnectLockedPreserves ==
    ASSUME IInv, NEW i \in Isolates, ConnectLocked(i), UNCHANGED <<ref, outcome>>
    PROVE  IInv'
<1> USE ConstantsAssumption, HomeAssumption DEF IInv
<1>1. /\ call[i].pc = "connect"
      /\ call' = [call EXCEPT ![i].pc = "retry"]
      /\ UNCHANGED <<registry, live, endpoint, lock, ref, outcome>>
  BY DEF ConnectLocked, At
<1>2. CallOwner(i) /\ CallPath(i)
  BY DEF CallSound
<1>3. /\ call'[i].pc = "retry" /\ call'[i].fn = call[i].fn
      /\ call'[i].db = call[i].db /\ call'[i].at = call[i].at
      /\ \A j \in Isolates \ {i} : call'[j] = call[j]
  BY <1>1 DEF TypeOK, NativeTypeOK, Call
<1>4. TypeOK'
  <2>1. call[i] \in Call
    BY DEF TypeOK, NativeTypeOK
  <2>2. [call[i] EXCEPT !.pc = "retry"] \in Call
    BY <2>1 DEF Call, Labels
  <2>3. call' \in [Isolates -> Call]
    BY <1>1, <2>2 DEF TypeOK, NativeTypeOK
  <2> QED
    BY <1>1, <2>3 DEF TypeOK, NativeTypeOK
<1>5. CallOwner(i)'
  BY <1>1, <1>2, <1>3 DEF CallOwner, Opening, IsHeld
<1>6. CallPath(i)'
  BY <1>1, <1>2, <1>3 DEF CallPath, Transit, Holders
<1>7. call[i].db \in Databases /\ Home[call[i].db] = i
  BY <1>1, <1>2 DEF CallOwner, Opening
<1> QED
  BY <1>1, <1>3, <1>4, <1>5, <1>6, <1>7, OutsideTransit DEF Transit

LEMMA ConnectFailedPreserves ==
    ASSUME IInv, NEW i \in Isolates, ConnectFailed(i), UNCHANGED <<ref, outcome>>
    PROVE  IInv'
<1> USE ConstantsAssumption, HomeAssumption DEF IInv
<1>1. /\ call[i].pc \in {"connect", "retry"}
      /\ call' = [call EXCEPT ![i] = Idle]
      /\ UNCHANGED <<registry, live, endpoint, lock, ref, outcome>>
  BY DEF ConnectFailed, At
<1>2. call[i].db \in Databases /\ Home[call[i].db] = i
  BY <1>1 DEF CallSound, CallOwner, Opening
<1>3. call'[i] = Idle /\ \A j \in Isolates \ {i} : call'[j] = call[j]
  BY <1>1 DEF TypeOK, NativeTypeOK
<1>4. TypeOK'
  BY <1>1 DEF TypeOK, NativeTypeOK, Call, Labels, Idle, Endpoints
<1>5. CallOwner(i)' /\ CallPath(i)'
  BY <1>3 DEF CallOwner, CallPath, Opening, Transit, Idle
<1> QED
  BY <1>1, <1>2, <1>3, <1>4, <1>5, OutsideTransit DEF Transit, Idle

LEMMA OpenReturnsPreserves ==
    ASSUME IInv, NEW i \in Isolates, OpenReturns(i)
    PROVE  IInv'
<1> USE ConstantsAssumption, HomeAssumption DEF IInv
<1>0. PICK d \in Databases, e \in Endpoints, h \in Handles :
          d = call[i].db /\ e = call[i].at /\ h = call[i].ptr
  <2>1. CallOwner(i) /\ CallPointer(i) /\ call[i].pc = "register"
    BY DEF OpenReturns, RegisterConnection, At, CallSound
  <2>2. call[i].ptr \in live
    BY <2>1 DEF CallPointer
  <2> QED
    BY <2>1, <2>2 DEF CallOwner, Opening, TypeOK, NativeTypeOK, Call
<1>1. /\ registry' = IF e \in Paths
                     THEN [registry EXCEPT ![e] = [ptr |-> h, ref_count |-> 1]]
                     ELSE registry
      /\ call' = [call EXCEPT ![i] = Idle]
      /\ ref' = [ref EXCEPT ![d] = Held(e, h)]
      /\ UNCHANGED <<live, endpoint, lock, outcome>>
  BY <1>0 DEF OpenReturns, RegisterConnection
<1>2. /\ call[i].pc = "register"
      /\ CallOwner(i) /\ CallPointer(i) /\ CallPath(i)
  BY DEF OpenReturns, RegisterConnection, At, CallSound
<1>3. /\ d \in Databases /\ Home[d] = i /\ ref[d] = Unused /\ outcome[d] # "rejected"
      /\ h \in live /\ endpoint[h] = e
      /\ \A c \in Databases : Used(c) => ref[c].ptr # h
      /\ \A j \in Isolates \ {i} : call[j].pc \in {"register", "free"} => call[j].ptr # h
      /\ e \in Paths => /\ IsOpen(e) /\ ~HasActiveConnection(e)
                        /\ \A j \in Isolates \ {i} : ~Passing(j, e)
  BY <1>0, <1>2 DEF CallOwner, CallPointer, CallPath, Opening, Transit
<1>4. live \subseteq Handles
  BY DEF TypeOK, NativeTypeOK
<1>5. /\ call'[i] = Idle
      /\ \A j \in Isolates \ {i} : call'[j] = call[j]
      /\ ref'[d] = Held(e, h)
      /\ \A c \in Databases \ {d} : ref'[c] = ref[c]
  BY <1>1, <1>3 DEF TypeOK, NativeTypeOK
<1>6. /\ e \in Paths => registry'[e] = [ptr |-> h, ref_count |-> 1]
      /\ \A p \in Paths : p # e => registry'[p] = registry[p]
  BY <1>1 DEF TypeOK, NativeTypeOK
<1>7. /\ e \in Paths => HasActiveConnection(e)'
      /\ \A p \in Paths : p # e => (HasActiveConnection(p)' <=> HasActiveConnection(p))
  BY <1>6 DEF HasActiveConnection
<1>8. \A p \in Paths : Holders(p)' = IF p = e THEN Holders(p) \cup {d} ELSE Holders(p)
  BY <1>3, <1>5 DEF Holders, Held, Unused
<1>9. TypeOK'
  <2>1. registry' \in [Paths -> DatabaseHandle \cup {NoEntry}]
    BY <1>1, <1>4 DEF TypeOK, NativeTypeOK, DatabaseHandle
  <2>2. call' \in [Isolates -> Call]
    BY <1>1 DEF TypeOK, NativeTypeOK, Call, Labels, Idle, Endpoints
  <2>3. ref' \in [Databases -> Ref]
    BY <1>1, <1>4 DEF TypeOK, Ref, Held
  <2> QED
    BY <1>1, <2>1, <2>2, <2>3 DEF TypeOK, NativeTypeOK
<1>10. CallSound'
  <2>1. CallOwner(i)' /\ CallPointer(i)' /\ CallPath(i)'
    BY <1>5 DEF CallOwner, CallPointer, CallPath, Opening, Transit, Idle
  <2>2. ASSUME NEW j \in Isolates \ {i}
        PROVE  CallOwner(j)' /\ CallPointer(j)' /\ CallPath(j)'
    <3>1. CallOwner(j)'
      BY <1>1, <1>3, <1>5 DEF CallSound, CallOwner, IsHeld, Opening
    <3>2. CallPointer(j)'
      BY <1>1, <1>3, <1>5 DEF CallSound, CallPointer, Used, Held, Idle
    <3>3. CallPath(j)'
      BY <1>1, <1>3, <1>5, <1>7, <1>8
      DEF CallSound, CallPath, Passing, IsOpen, Transit, Idle
    <3> QED
      BY <3>1, <3>2, <3>3
  <2> QED
    BY <2>1, <2>2 DEF CallSound
<1>11. RefSound' /\ MemExclusive'
  BY <1>1, <1>3, <1>5 DEF RefSound, MemExclusive, Used, Held
<1>12. HeapLocked' /\ OneConnectionPerPath'
  BY <1>1 DEF HeapLocked, IsOpen, OneConnectionPerPath
<1>13. RegisteredIsLive'
  BY <1>1, <1>3, <1>6, <1>7 DEF RegisteredIsLive, fileLock, IsOpen, Unlocked
<1>14. HoldersShareConnection'
  <2> SUFFICES ASSUME NEW c \in Databases,
                      (ref[c].st # "unused" /\ ref[c].at \in Paths)'
               PROVE  (/\ HasActiveConnection(ref[c].at)
                       /\ registry[ref[c].at].ptr = ref[c].ptr
                       /\ ref[c].ptr \in live
                       /\ endpoint[ref[c].ptr] = ref[c].at)'
    BY DEF HoldersShareConnection
  <2>1. CASE c = d
    BY <1>1, <1>3, <1>5, <1>6, <2>1 DEF Held, HasActiveConnection
  <2>2. CASE c # d
    <3>1. ref'[c].at # e
      BY <1>3, <1>5, <2>2 DEF HoldersShareConnection
    <3> QED
      BY <1>1, <1>5, <1>6, <2>2, <3>1 DEF HoldersShareConnection, HasActiveConnection
  <2> QED
    BY <2>1, <2>2
<1>15. RefCountExact'
  <2> SUFFICES ASSUME NEW p \in Paths
               PROVE  registry'[p].ref_count = Cardinality(Holders(p)')
    BY DEF RefCountExact
  <2>1. CASE p = e
    <3>1. Cardinality(Holders(e)) = 0
      BY <1>3, <2>1, HoldersFinite DEF RefCountExact, HasActiveConnection
    <3>2. Cardinality(Holders(p)') = Cardinality(Holders(p)) + 1
      BY <1>3, <1>8, <2>1, HoldersGrow DEF Holders, Unused
    <3> QED
      BY <1>6, <2>1, <3>1, <3>2
  <2>2. CASE p # e
    BY <1>6, <1>8, <2>2 DEF RefCountExact
  <2> QED
    BY <2>1, <2>2
<1>16. HolderNeverRejected'
  BY <1>1, <1>3, <1>5 DEF HolderNeverRejected, IsHeld
<1>17. AllOwned'
  <2>1. \A g \in Handles : IsHandleValid(g) => IsHandleValid(g)'
    BY <1>3, <1>6, <1>7 DEF IsHandleValid
  <2>2. IsHandleValid(h)' \/ e = Mem
    BY <1>4, <1>6, <1>7 DEF IsHandleValid, Endpoints
  <2>3. ASSUME NEW g \in live' PROVE HandleOwned(g)'
    <3>1. CASE g = h
      BY <1>3, <1>5, <2>2, <3>1 DEF Held, HandleOwned
    <3>2. CASE g # h
      BY <1>0, <1>1, <1>3, <1>4, <1>5, <2>1, <3>2 DEF AllOwned, HandleOwned, Unused
    <3> QED
      BY <3>1, <3>2
  <2>4. ASSUME NEW p \in Paths PROVE LockOwned(p)'
    <3>1. Passing(i, p) => HasActiveConnection(p)'
      BY <1>0, <1>7 DEF Passing
    <3>2. HasActiveConnection(p) => HasActiveConnection(p)'
      BY <1>7
    <3> QED
      BY <1>1, <1>2, <1>5, <3>1, <3>2, LockKept DEF AllOwned, TypeOK, NativeTypeOK
  <2> QED
    BY <2>3, <2>4 DEF AllOwned
<1> QED
  BY <1>9, <1>10, <1>11, <1>12, <1>13, <1>14, <1>15, <1>16, <1>17

-----------------------------------------------------------------------------
(* Operations, and the steps of db_close before it unregisters             *)

\* A call that begins on the pointer its object holds.
LEMMA BeginPreserves ==
    ASSUME IInv, NEW i \in Isolates, NEW d \in Databases, Home[d] = i, IsHeld(d),
           NEW l \in {"endpoint", "deref"}, NEW f \in {"close", "op"},
           call[i].pc = "idle", Begin(i, l, f, d, Mem, ref[d].ptr),
           UNCHANGED <<registry, live, endpoint, lock, ref, outcome>>
    PROVE  IInv'
<1> USE ConstantsAssumption, HomeAssumption DEF IInv
<1>1. call' = [call EXCEPT ![i] =
                [pc |-> l, fn |-> f, db |-> d, at |-> Mem, ptr |-> ref[d].ptr]]
  BY DEF Begin
<1>2. /\ call'[i] = [pc |-> l, fn |-> f, db |-> d, at |-> Mem, ptr |-> ref[d].ptr]
      /\ \A j \in Isolates \ {i} : call'[j] = call[j]
  BY <1>1 DEF TypeOK, NativeTypeOK
<1>3. TypeOK'
  <2>1. ref[d].ptr \in Handles \cup {Null}
    BY DEF TypeOK, Ref
  <2> QED
    BY <1>1, <2>1 DEF TypeOK, NativeTypeOK, Call, Labels, Endpoints
<1>4. CallOwner(i)' /\ CallPath(i)'
  BY <1>2 DEF CallOwner, CallPath, Opening, Transit, IsHeld
<1> QED
  BY <1>2, <1>3, <1>4, OutsideTransit DEF Transit

LEMMA CloseBeginsPreserves ==
    ASSUME IInv, NEW i \in Isolates, NEW d \in Databases, CloseBegins(i, d)
    PROVE  IInv'
BY BeginPreserves DEF CloseBegins, DbClose, At

LEMMA QueryAcceptedPreserves ==
    ASSUME IInv, NEW i \in Isolates, NEW d \in Databases, QueryAccepted(i, d)
    PROVE  IInv'
BY BeginPreserves DEF QueryAccepted, ValidatedOp, At

LEMMA UseUncheckedPreserves ==
    ASSUME IInv, NEW i \in Isolates, NEW d \in Databases, UseUnchecked(i, d)
    PROVE  IInv'
BY BeginPreserves DEF UseUnchecked, UncheckedOp, At

\* An object that holds a RocksDB connection has its pointer in the registry.
LEMMA HolderIsValid ==
    ASSUME HoldersShareConnection, NEW d \in Databases, IsHeld(d), ref[d].at \in Paths
    PROVE  IsHandleValid(ref[d].ptr)
BY DEF HoldersShareConnection, IsHandleValid, IsHeld

LEMMA QueryRejectedPreserves ==
    ASSUME IInv, NEW i \in Isolates, NEW d \in Databases, QueryRejected(i, d)
    PROVE  IInv'
<1> USE ConstantsAssumption, HomeAssumption DEF IInv
<1>1. /\ Home[d] = i /\ IsHeld(d) /\ call[i].pc = "idle"
      /\ ~IsHandleValid(ref[d].ptr)
      /\ outcome' = [outcome EXCEPT ![d] = "rejected"]
      /\ UNCHANGED <<registry, live, endpoint, lock, call, ref>>
  BY DEF QueryRejected, RejectedOp, At, native
<1>2. ref[d].at \notin Paths
  BY <1>1, HolderIsValid
<1>3. TypeOK'
  BY <1>1 DEF TypeOK, NativeTypeOK
<1>4. CallOwner(i)' /\ CallPath(i)'
  BY <1>1 DEF CallSound, CallOwner, CallPath, Opening, Transit
<1> QED
  BY <1>1, <1>2, <1>3, <1>4, OutsideTransit DEF TypeOK, Transit

LEMMA OpReturnsPreserves ==
    ASSUME IInv, NEW i \in Isolates, OpReturns(i)
    PROVE  IInv'
<1> USE ConstantsAssumption, HomeAssumption DEF IInv
<1>0. PICK d \in Databases : d = call[i].db /\ Home[d] = i
  BY DEF OpReturns, UseHandle, At, CallSound, CallOwner
<1>1. /\ call[i].pc = "deref"
      /\ call' = [call EXCEPT ![i] = Idle]
      /\ outcome' = [outcome EXCEPT ![d] = "ok"]
      /\ UNCHANGED <<registry, live, endpoint, lock, ref>>
  BY <1>0 DEF OpReturns, UseHandle, At
<1>2. call'[i] = Idle /\ \A j \in Isolates \ {i} : call'[j] = call[j]
  BY <1>1 DEF TypeOK, NativeTypeOK
<1>3. TypeOK'
  <2>1. call' \in [Isolates -> Call]
    BY <1>1 DEF TypeOK, NativeTypeOK, Call, Labels, Idle, Endpoints
  <2> QED
    BY <1>1, <2>1 DEF TypeOK, NativeTypeOK
<1>4. CallOwner(i)' /\ CallPath(i)'
  BY <1>2 DEF CallOwner, CallPath, Opening, Transit, Idle
<1> QED
  BY <1>0, <1>1, <1>2, <1>3, <1>4, OutsideTransit DEF TypeOK, Transit, Idle

LEMMA ReadEndpointPreserves ==
    ASSUME IInv, NEW i \in Isolates, ReadEndpoint(i), UNCHANGED <<ref, outcome>>
    PROVE  IInv'
<1> USE ConstantsAssumption, HomeAssumption DEF IInv
<1>0. PICK d \in Databases : d = call[i].db /\ Home[d] = i /\ IsHeld(d) /\ call[i].ptr = ref[d].ptr
  BY DEF ReadEndpoint, At, CallSound, CallOwner
<1>1. ref[d].ptr \in Handles /\ endpoint[ref[d].ptr] = ref[d].at /\ ref[d].at \in Endpoints
  BY <1>0 DEF RefSound, Used, IsHeld, TypeOK, NativeTypeOK, Ref
<1>2. /\ call[i].pc = "endpoint"
      /\ call' = [call EXCEPT ![i] =
            [pc |-> "unregister", fn |-> "close", db |-> d, at |-> ref[d].at, ptr |-> ref[d].ptr]]
      /\ UNCHANGED <<registry, live, endpoint, lock, ref, outcome>>
  BY <1>0, <1>1 DEF ReadEndpoint, At, Begin
<1>3. /\ call'[i] = [pc |-> "unregister", fn |-> "close", db |-> d,
                     at |-> ref[d].at, ptr |-> ref[d].ptr]
      /\ \A j \in Isolates \ {i} : call'[j] = call[j]
  BY <1>2 DEF TypeOK, NativeTypeOK
<1>4. TypeOK'
  BY <1>1, <1>2 DEF TypeOK, NativeTypeOK, Call, Labels
<1>5. CallOwner(i)' /\ CallPath(i)'
  BY <1>0, <1>2, <1>3 DEF CallOwner, CallPath, Opening, Transit, IsHeld
<1> QED
  BY <1>0, <1>2, <1>3, <1>4, <1>5, OutsideTransit DEF Transit

-----------------------------------------------------------------------------
(* The end of db_close                                                     *)

\* At unregister_connection the call knows its object's reference exactly.
LEMMA UnregisterKnows ==
    ASSUME IInv, NEW i \in Isolates, call[i].pc = "unregister"
    PROVE  \E d \in Databases, e \in Endpoints, h \in Handles :
            /\ d = call[i].db /\ e = call[i].at /\ h = call[i].ptr
            /\ Home[d] = i /\ Used(d) /\ ref[d].at = e /\ ref[d].ptr = h
            /\ h \in live /\ endpoint[h] = e
            /\ e \in Paths => /\ HasActiveConnection(e)
                              /\ registry[e].ptr = h
                              /\ registry[e].ref_count = Cardinality(Holders(e))
                              /\ d \in Holders(e)
<1> USE ConstantsAssumption DEF IInv
<1>1. CallOwner(i)
  BY DEF CallSound
<1>2. PICK d \in Databases : /\ d = call[i].db /\ Home[d] = i /\ IsHeld(d)
                             /\ call[i].ptr = ref[d].ptr /\ call[i].at = ref[d].at
  BY <1>1 DEF CallOwner
<1>3. /\ ref[d].ptr \in live /\ endpoint[ref[d].ptr] = ref[d].at
      /\ ref[d].ptr \in Handles /\ ref[d].at \in Endpoints /\ Used(d)
  BY <1>2 DEF RefSound, Used, IsHeld, TypeOK, NativeTypeOK, Ref
<1>4. ref[d].at \in Paths => /\ HasActiveConnection(ref[d].at)
                             /\ registry[ref[d].at].ptr = ref[d].ptr
                             /\ d \in Holders(ref[d].at)
  BY <1>3 DEF HoldersShareConnection, Used, Holders
<1>5. \A p \in Paths : registry[p].ref_count = Cardinality(Holders(p))
  BY DEF RefCountExact
<1> QED
  BY <1>2, <1>3, <1>4, <1>5

LEMMA KeepPreserves ==
    ASSUME IInv, NEW i \in Isolates, KeepConnection(i),
           ref' = [ref EXCEPT ![call[i].db] = Unused], UNCHANGED outcome
    PROVE  IInv'
<1> USE ConstantsAssumption, HomeAssumption DEF IInv
<1>0. PICK d \in Databases, e \in Paths, h \in Handles :
        /\ d = call[i].db /\ e = call[i].at /\ h = call[i].ptr
        /\ Home[d] = i /\ Used(d) /\ ref[d].at = e /\ ref[d].ptr = h
        /\ h \in live /\ endpoint[h] = e
        /\ HasActiveConnection(e) /\ registry[e].ptr = h /\ d \in Holders(e)
  BY UnregisterKnows DEF KeepConnection, At
<1>1. /\ call[i].pc = "unregister"
      /\ registry[e].ref_count > 1 /\ registry[e] \in DatabaseHandle
      /\ registry' = [registry EXCEPT ![e].ref_count = registry[e].ref_count - 1]
      /\ call' = [call EXCEPT ![i] = Idle]
      /\ ref' = [ref EXCEPT ![d] = Unused]
      /\ UNCHANGED <<live, endpoint, lock, outcome>>
  BY <1>0 DEF KeepConnection, At, TypeOK, NativeTypeOK, NoEntry
<1>2. /\ call'[i] = Idle
      /\ \A j \in Isolates \ {i} : call'[j] = call[j]
      /\ ref'[d] = Unused
      /\ \A c \in Databases \ {d} : ref'[c] = ref[c]
  BY <1>1 DEF TypeOK, NativeTypeOK
<1>3. /\ registry'[e].ref_count = registry[e].ref_count - 1
      /\ \A p \in Paths : registry'[p].ptr = registry[p].ptr
      /\ \A p \in Paths \ {e} : registry'[p] = registry[p]
      /\ \A p \in Paths : HasActiveConnection(p)' <=> HasActiveConnection(p)
  BY <1>0, <1>1 DEF TypeOK, NativeTypeOK, DatabaseHandle, HasActiveConnection
<1>4. \A p \in Paths : Holders(p)' = IF p = e THEN Holders(p) \ {d} ELSE Holders(p)
  BY <1>0, <1>2 DEF Holders, Unused
<1>5. TypeOK'
  <2>1. registry' \in [Paths -> DatabaseHandle \cup {NoEntry}]
    BY <1>1 DEF TypeOK, NativeTypeOK, DatabaseHandle
  <2>2. call' \in [Isolates -> Call]
    BY <1>1 DEF TypeOK, NativeTypeOK, Call, Labels, Idle, Endpoints
  <2>3. ref' \in [Databases -> Ref]
    <3>1. Unused \in Ref
      BY DEF Ref, Unused, Endpoints
    <3> QED
      BY <1>1, <3>1 DEF TypeOK
  <2> QED
    BY <1>1, <2>1, <2>2, <2>3 DEF TypeOK, NativeTypeOK
<1>6. CallSound'
  <2>1. CallOwner(i)' /\ CallPointer(i)' /\ CallPath(i)'
    BY <1>2 DEF CallOwner, CallPointer, CallPath, Opening, Transit, Idle
  <2>2. ASSUME NEW j \in Isolates \ {i}
        PROVE  CallOwner(j)' /\ CallPointer(j)' /\ CallPath(j)'
    <3>1. CallOwner(j)'
      BY <1>0, <1>1, <1>2 DEF CallSound, CallOwner, IsHeld, Opening
    <3>2. CallPointer(j)'
      BY <1>1, <1>2 DEF CallSound, CallPointer, Used, Unused, Idle
    <3>3. CallPath(j)'
      BY <1>1, <1>2, <1>3, <1>4 DEF CallSound, CallPath, Passing, IsOpen, Transit, Idle
    <3> QED
      BY <3>1, <3>2, <3>3
  <2> QED
    BY <2>1, <2>2 DEF CallSound
<1>7. RefSound' /\ MemExclusive'
  BY <1>1, <1>2 DEF RefSound, MemExclusive, Used, Unused
<1>8. HeapLocked' /\ OneConnectionPerPath' /\ RegisteredIsLive'
  BY <1>1, <1>3 DEF HeapLocked, IsOpen, OneConnectionPerPath, RegisteredIsLive, fileLock
<1>9. HoldersShareConnection' /\ HolderNeverRejected'
  BY <1>1, <1>2, <1>3 DEF HoldersShareConnection, HolderNeverRejected, IsHeld, Unused
<1>10. RefCountExact'
  BY <1>0, <1>3, <1>4, HoldersShrink DEF RefCountExact
<1>11. AllOwned'
  <2>1. \A g \in Handles : IsHandleValid(g) => IsHandleValid(g)'
    BY <1>3 DEF IsHandleValid
  <2>2. live \subseteq Handles
    BY DEF TypeOK, NativeTypeOK
  <2>3. \A g \in live' : HandleOwned(g)'
    BY <1>0, <1>1, <1>2, <2>1, <2>2 DEF AllOwned, HandleOwned
  <2>4. \A p \in Paths : ~Passing(i, p)
    BY <1>1 DEF Passing, Transit
  <2>5. \A p \in Paths : LockOwned(p)'
    BY <1>1, <1>2, <1>3, <2>4, LockKept DEF AllOwned, TypeOK, NativeTypeOK
  <2> QED
    BY <2>3, <2>5 DEF AllOwned
<1> QED
  BY <1>5, <1>6, <1>7, <1>8, <1>9, <1>10, <1>11

LEMMA RemovePreserves ==
    ASSUME IInv, NEW i \in Isolates, RemoveConnection(i),
           ref' = [ref EXCEPT ![call[i].db] = Unused], UNCHANGED outcome
    PROVE  IInv'
<1> USE ConstantsAssumption, HomeAssumption DEF IInv
<1>0. PICK d \in Databases, e \in Endpoints, h \in Handles :
        /\ d = call[i].db /\ e = call[i].at /\ h = call[i].ptr
        /\ Home[d] = i /\ Used(d) /\ ref[d].at = e /\ ref[d].ptr = h
        /\ h \in live /\ endpoint[h] = e
        /\ e \in Paths => /\ HasActiveConnection(e) /\ registry[e].ptr = h
                          /\ registry[e].ref_count = Cardinality(Holders(e))
                          /\ d \in Holders(e)
  BY UnregisterKnows DEF RemoveConnection, At
<1>1. /\ call[i].pc = "unregister"
      /\ e \in Paths => registry[e].ref_count <= 1
      /\ registry' = [p \in Paths |-> IF p = e THEN NoEntry ELSE registry[p]]
      /\ call' = [call EXCEPT ![i].pc = "free"]
      /\ ref' = [ref EXCEPT ![d] = Unused]
      /\ UNCHANGED <<live, endpoint, lock, outcome>>
  BY <1>0 DEF RemoveConnection, At
<1>2. /\ call'[i].pc = "free" /\ call'[i].fn = call[i].fn
      /\ call'[i].at = e /\ call'[i].ptr = h
      /\ \A j \in Isolates \ {i} : call'[j] = call[j]
      /\ ref'[d] = Unused
      /\ \A c \in Databases \ {d} : ref'[c] = ref[c]
  BY <1>0, <1>1 DEF TypeOK, NativeTypeOK, Call
<1>3. /\ e \in Paths => registry'[e] = NoEntry /\ ~HasActiveConnection(e)'
      /\ \A p \in Paths : p # e => registry'[p] = registry[p]
      /\ \A p \in Paths : p # e => (HasActiveConnection(p)' <=> HasActiveConnection(p))
  BY <1>1 DEF HasActiveConnection, NoEntry
<1>4. e \in Paths => Holders(e) = {d}
  <2> SUFFICES ASSUME e \in Paths PROVE Holders(e) = {d}
    OBVIOUS
  <2>1. Cardinality(Holders(e)) = 1
    BY <1>0, <1>1, HoldersFinite DEF HasActiveConnection
  <2> QED
    BY <1>0, <2>1, HoldersFinite, FS_Singleton
<1>5. \A p \in Paths : Holders(p)' = IF p = e THEN {} ELSE Holders(p)
  BY <1>0, <1>2, <1>4 DEF Holders, Unused
<1>6. \A c \in Databases \ {d} : Used(c) => ref[c].ptr # h
  BY <1>0, <1>4 DEF RefSound, MemExclusive, Used, Holders, Endpoints
<1>7. TypeOK'
  <2>1. registry' \in [Paths -> DatabaseHandle \cup {NoEntry}]
    BY <1>1 DEF TypeOK, NativeTypeOK
  <2>2. call' \in [Isolates -> Call]
    <3>1. call[i] \in Call
      BY DEF TypeOK, NativeTypeOK
    <3>2. [call[i] EXCEPT !.pc = "free"] \in Call
      BY <3>1 DEF Call, Labels
    <3> QED BY <1>1, <3>2 DEF TypeOK, NativeTypeOK
  <2>3. ref' \in [Databases -> Ref]
    <3>1. Unused \in Ref
      BY DEF Ref, Unused, Endpoints
    <3> QED
      BY <1>1, <3>1 DEF TypeOK
  <2> QED
    BY <1>1, <2>1, <2>2, <2>3 DEF TypeOK, NativeTypeOK
<1>8. \A j \in Isolates \ {i} :
        /\ call[j].pc \in {"register", "free"} => call[j].ptr # h
        /\ e \in Paths => ~Passing(j, e)
  <2>1. ASSUME NEW j \in Isolates PROVE CallPointer(j) /\ CallPath(j)
    BY DEF CallSound
  <2> QED
    BY <1>0, <2>1 DEF CallPointer, CallPath, Passing, Transit
<1>9. CallSound'
  <2>1. CallOwner(i)' /\ CallPointer(i)' /\ CallPath(i)'
    <3>1. CallOwner(i)'
      BY <1>2 DEF CallSound, CallOwner, Opening
    <3>2. CallPointer(i)'
      BY <1>0, <1>1, <1>2, <1>6, <1>8 DEF CallPointer, Used, Unused
    <3>3. CallPath(i)'
      BY <1>0, <1>1, <1>2, <1>3, <1>8
      DEF CallPath, Transit, Passing, IsOpen, HeapLocked
    <3> QED
      BY <3>1, <3>2, <3>3
  <2>2. ASSUME NEW j \in Isolates \ {i}
        PROVE  CallOwner(j)' /\ CallPointer(j)' /\ CallPath(j)'
    <3>1. CallOwner(j)'
      BY <1>0, <1>1, <1>2 DEF CallSound, CallOwner, IsHeld, Opening
    <3>2. CallPointer(j)'
      BY <1>1, <1>2, <1>8 DEF CallSound, CallPointer, Used, Unused
    <3>3. CallPath(j)'
      BY <1>1, <1>2, <1>3, <1>5, <1>8 DEF CallSound, CallPath, Passing, IsOpen, Transit
    <3> QED
      BY <3>1, <3>2, <3>3
  <2> QED
    BY <2>1, <2>2 DEF CallSound
<1>10. RefSound' /\ MemExclusive'
  BY <1>1, <1>2 DEF RefSound, MemExclusive, Used, Unused
<1>11. HeapLocked' /\ OneConnectionPerPath'
  BY <1>1 DEF HeapLocked, IsOpen, OneConnectionPerPath
<1>12. RegisteredIsLive'
  BY <1>1, <1>3 DEF RegisteredIsLive, fileLock
<1>13. HoldersShareConnection'
  <2> SUFFICES ASSUME NEW c \in Databases,
                      (ref[c].st # "unused" /\ ref[c].at \in Paths)'
               PROVE  (/\ HasActiveConnection(ref[c].at)
                       /\ registry[ref[c].at].ptr = ref[c].ptr
                       /\ ref[c].ptr \in live
                       /\ endpoint[ref[c].ptr] = ref[c].at)'
    BY DEF HoldersShareConnection
  <2>1. c # d /\ ref[c].at # e
    BY <1>2, <1>4 DEF Unused, Holders
  <2>2. /\ HasActiveConnection(ref[c].at) /\ registry[ref[c].at].ptr = ref[c].ptr
        /\ ref[c].ptr \in live /\ endpoint[ref[c].ptr] = ref[c].at
    BY <1>2, <2>1 DEF HoldersShareConnection
  <2>3. ref'[c] = ref[c] /\ ref[c].at \in Paths
    BY <1>2, <2>1
  <2>4. registry'[ref[c].at] = registry[ref[c].at] /\ HasActiveConnection(ref[c].at)'
    BY <1>3, <2>1, <2>2, <2>3
  <2> QED
    BY <1>1, <2>2, <2>3, <2>4
<1>14. RefCountExact'
  <2> SUFFICES ASSUME NEW p \in Paths
               PROVE  registry'[p].ref_count = Cardinality(Holders(p)')
    BY DEF RefCountExact
  <2>1. CASE p = e
    BY <1>3, <1>5, <2>1, FS_EmptySet DEF NoEntry
  <2>2. CASE p # e
    BY <1>3, <1>5, <2>2 DEF RefCountExact
  <2> QED
    BY <2>1, <2>2
<1>15. HolderNeverRejected'
  BY <1>1, <1>2 DEF HolderNeverRejected, IsHeld, Unused
<1>16. AllOwned'
  <2>1. \A g \in Handles : IsHandleValid(g) => IsHandleValid(g)' \/ g = h
    BY <1>0, <1>3 DEF IsHandleValid
  <2>2. live \subseteq Handles
    BY DEF TypeOK, NativeTypeOK
  <2>3. \A g \in live' : HandleOwned(g)'
    BY <1>0, <1>1, <1>2, <2>1, <2>2 DEF AllOwned, HandleOwned
  <2>4. \A p \in Paths : ~Passing(i, p)
    BY <1>1 DEF Passing, Transit
  <2>5. Passing(i, e)'
    BY <1>2 DEF Passing, Transit
  <2>6. \A p \in Paths : LockOwned(p)'
    BY <1>1, <1>2, <1>3, <2>4, <2>5, LockKept DEF AllOwned, TypeOK, NativeTypeOK
  <2> QED
    BY <2>3, <2>6 DEF AllOwned
<1> QED
  BY <1>7, <1>9, <1>10, <1>11, <1>12, <1>13, <1>14, <1>15, <1>16

LEMMA FreePreserves ==
    ASSUME IInv, NEW i \in Isolates, FreeHandle(i), UNCHANGED <<ref, outcome>>
    PROVE  IInv'
<1> USE ConstantsAssumption, HomeAssumption DEF IInv
<1>0. PICK e \in Endpoints, h \in Handles :
        /\ e = call[i].at /\ h = call[i].ptr /\ h \in live /\ endpoint[h] = e
        /\ \A d \in Databases : Used(d) => ref[d].ptr # h
        /\ \A j \in Isolates \ {i} : call[j].pc \in {"register", "free"} => call[j].ptr # h
        /\ e \in Paths => /\ IsOpen(e) /\ ~HasActiveConnection(e)
                          /\ \A j \in Isolates \ {i} : ~Passing(j, e)
  <2>1. call[i].pc = "free" /\ CallPointer(i) /\ CallPath(i)
    BY DEF FreeHandle, At, CallSound
  <2>2. call[i].ptr \in Handles /\ call[i].at \in Endpoints
    BY <2>1 DEF CallPointer, TypeOK, NativeTypeOK, Call
  <2> QED
    BY <2>1, <2>2 DEF CallPointer, CallPath, Transit
<1>1. /\ call[i].pc = "free"
      /\ live' = live \ {h}
      /\ call' = [call EXCEPT ![i].pc = "drain"]
      /\ lock' = [p \in Paths |-> IF p = e THEN [lock[e] EXCEPT !.closer = i] ELSE lock[p]]
      /\ UNCHANGED <<registry, endpoint, ref, outcome>>
  BY <1>0 DEF FreeHandle, At, LockFor
<1>2. /\ call'[i].pc = "drain" /\ call'[i].fn = call[i].fn /\ call'[i].at = e
      /\ \A j \in Isolates \ {i} : call'[j] = call[j]
  BY <1>0, <1>1 DEF TypeOK, NativeTypeOK, Call
<1>3. \A p \in Paths : /\ HasActiveConnection(p)' <=> HasActiveConnection(p)
                       /\ Holders(p)' = Holders(p)
  BY <1>1 DEF HasActiveConnection, Holders
<1>4. \A p \in Paths : HasActiveConnection(p) => registry[p].ptr # h
  BY <1>0 DEF RegisteredIsLive
<1>5. TypeOK'
  <2>1. call' \in [Isolates -> Call]
    BY <1>1, CallMoves DEF TypeOK, NativeTypeOK, Labels
  <2>2. lock' \in [Paths -> LockState]
    BY <1>1 DEF TypeOK, NativeTypeOK, LockState
  <2> QED
    BY <1>1, <2>1, <2>2 DEF TypeOK, NativeTypeOK
<1>13. /\ e \in Paths => /\ lock'[e].opener # Null /\ lock'[e].closer = i
                         /\ lock'[e].opener = lock[e].opener
       /\ \A p \in Paths \ {e} : lock'[p] = lock[p]
       /\ \A p \in Paths \ {e} : IsOpen(p)' <=> IsOpen(p)
  <2>1. e \in Paths => lock[e] \in LockState /\ lock[e].opener # Null
    BY <1>0 DEF IsOpen, TypeOK, NativeTypeOK
  <2> QED
    BY <1>1, <2>1 DEF IsOpen, LockState
<1>6. CallSound'
  <2>1. CallOwner(i)' /\ CallPointer(i)' /\ CallPath(i)'
    <3>1. CallOwner(i)'
      BY <1>2 DEF CallSound, CallOwner, Opening
    <3>2. CallPointer(i)'
      BY <1>2 DEF CallPointer
    <3>3. CallPath(i)'
      BY <1>0, <1>1, <1>2, <1>3
      DEF CallPath, Transit
    <3> QED
      BY <3>1, <3>2, <3>3
  <2>2. ASSUME NEW j \in Isolates \ {i}
        PROVE  CallOwner(j)' /\ CallPointer(j)' /\ CallPath(j)'
    <3>1. CallOwner(j)'
      BY <1>1, <1>2 DEF CallSound, CallOwner, IsHeld, Opening
    <3>2. CallPointer(j)'
      BY <1>0, <1>1, <1>2 DEF CallSound, CallPointer, Used
    <3>3. CallPath(j)'
      BY <1>0, <1>1, <1>2, <1>3, <1>13 DEF CallSound, CallPath, Passing, Transit
    <3> QED
      BY <3>1, <3>2, <3>3
  <2> QED
    BY <2>1, <2>2 DEF CallSound
<1>7. RefSound' /\ MemExclusive' /\ HolderNeverRejected'
  BY <1>0, <1>1 DEF RefSound, MemExclusive, Used, HolderNeverRejected, IsHeld
<1>8. HeapLocked' /\ OneConnectionPerPath'
  BY <1>0, <1>1, <1>13 DEF HeapLocked, OneConnectionPerPath
<1>9. RegisteredIsLive'
  <2>1. \A p \in Paths : HasActiveConnection(p) => p # e /\ p \in fileLock'
    BY <1>0, <1>13 DEF RegisteredIsLive, fileLock
  <2> QED
    BY <1>1, <1>3, <1>4, <2>1 DEF RegisteredIsLive
<1>10. HoldersShareConnection'
  BY <1>0, <1>1, <1>3 DEF HoldersShareConnection, Used
<1>11. RefCountExact'
  BY <1>1, <1>3 DEF RefCountExact
<1>12. AllOwned'
  <2>1. \A g \in Handles : IsHandleValid(g)' <=> IsHandleValid(g)
    BY <1>1, <1>3 DEF IsHandleValid
  <2>2. live \subseteq Handles
    BY DEF TypeOK, NativeTypeOK
  <2>3. \A g \in live' : HandleOwned(g)'
    BY <1>0, <1>1, <1>2, <2>1, <2>2 DEF AllOwned, HandleOwned
  <2>4. ASSUME NEW p \in Paths PROVE LockOwned(p)'
    <3>1. CASE p = e
      BY <1>2, <1>13, <3>1 DEF LockOwned
    <3>2. CASE p # e
      <4>1. ~Passing(i, p) /\ lock'[p] = lock[p]
        BY <1>0, <1>13, <3>2 DEF Passing
      <4> QED
        BY <1>1, <1>2, <1>3, <4>1, LockKept DEF AllOwned, TypeOK, NativeTypeOK
    <3> QED
      BY <3>1, <3>2
  <2> QED
    BY <2>3, <2>4 DEF AllOwned
<1> QED
  BY <1>5, <1>6, <1>7, <1>8, <1>9, <1>10, <1>11, <1>12

LEMMA DrainPreserves ==
    ASSUME IInv, NEW i \in Isolates, DrainRuntime(i), UNCHANGED <<ref, outcome>>
    PROVE  IInv'
<1> USE ConstantsAssumption, HomeAssumption DEF IInv
<1>1. /\ call[i].pc = "drain"
      /\ \A p \in Paths : lock[p].opener = i => lock[p].closer = Null
      /\ call' = [call EXCEPT ![i] = Idle]
      /\ UNCHANGED <<registry, live, endpoint, lock, ref, outcome>>
  BY DEF DrainRuntime, DrainReturns, At, CallSound, CallOwner
<1>2. call'[i] = Idle /\ \A j \in Isolates \ {i} : call'[j] = call[j]
  BY <1>1 DEF TypeOK, NativeTypeOK
<1>3. \A p \in Paths : ~(lock[p].opener = i /\ lock[p].closer = i)
  BY <1>1
<1>4. TypeOK'
  BY <1>1 DEF TypeOK, NativeTypeOK, Call, Labels, Idle, Endpoints
<1>5. CallOwner(i)' /\ CallPath(i)'
  BY <1>2 DEF CallOwner, CallPath, Opening, Transit, Idle
<1> QED
  BY <1>1, <1>2, <1>3, <1>4, <1>5, OutsideTransit DEF TypeOK, Transit, Idle

\* Dropped tasks have no handle any more: nothing but the LOCK hears of their
\* end.
LEMMA DroppedIsClosed ==
    ASSUME IInv, NEW p \in Paths, lock[p].closer # Null
    PROVE  /\ ~HasActiveConnection(p)
           /\ \A h \in live : endpoint[h] # p
           /\ \A i \in Isolates : ~Passing(i, p)
<1>1. \A h \in live : endpoint[h] # p
  BY DEF IInv, HeapLocked, IsOpen
<1>2. ASSUME NEW i \in Isolates PROVE ~Passing(i, p)
  BY <1>1 DEF IInv, CallSound, CallPointer, Passing, Transit
<1> QED
  BY <1>1, <1>2 DEF IInv, RegisteredIsLive

LEMMA TasksEndPreserves ==
    ASSUME IInv, NEW i \in Isolates, NEW q \in Paths, TasksEnd(i, q),
           UNCHANGED <<ref, outcome>>
    PROVE  IInv'
<1> USE ConstantsAssumption, HomeAssumption DEF IInv
<1>1. /\ lock[q].closer # Null
      /\ lock' = [p \in Paths |-> IF p = q THEN Unlocked ELSE lock[p]]
      /\ UNCHANGED <<registry, live, endpoint, call, ref, outcome>>
  BY DEF TasksEnd, LockFor
<1>2. /\ ~HasActiveConnection(q)
      /\ \A h \in live : endpoint[h] # q
      /\ \A j \in Isolates : ~Passing(j, q)
  BY <1>1, DroppedIsClosed
<1>3. /\ \A p \in Paths : HasActiveConnection(p)' <=> HasActiveConnection(p)
      /\ \A p \in Paths : Holders(p)' = Holders(p)
      /\ \A j \in Isolates, p \in Paths : Passing(j, p)' <=> Passing(j, p)
      /\ \A p \in Paths \ {q} : lock'[p] = lock[p]
      /\ lock'[q] = Unlocked
  BY <1>1 DEF HasActiveConnection, Holders, Passing
<1>4. TypeOK'
  BY <1>1 DEF TypeOK, NativeTypeOK, LockState, Unlocked
<1>5. CallSound'
  <2> SUFFICES ASSUME NEW j \in Isolates
               PROVE  CallOwner(j)' /\ CallPointer(j)' /\ CallPath(j)'
    BY DEF CallSound
  <2>1. CallOwner(j)' /\ CallPointer(j)'
    BY <1>1 DEF CallSound, CallOwner, CallPointer, IsHeld, Used
  <2>2. CallPath(j)'
    <3>1. CallPath(j)
      BY DEF CallSound
    <3>2. call[j].pc \in Transit => call[j].at # q
      BY <1>2 DEF Passing
    <3> QED
      BY <1>1, <1>3, <3>1, <3>2 DEF CallPath, IsOpen
  <2> QED
    BY <2>1, <2>2
<1>6. RefSound' /\ MemExclusive' /\ HoldersShareConnection' /\ HolderNeverRejected'
  BY <1>1, <1>3 DEF RefSound, MemExclusive, Used, HoldersShareConnection,
                    HolderNeverRejected, IsHeld
<1>7. HeapLocked' /\ OneConnectionPerPath' /\ RefCountExact'
  BY <1>1, <1>2, <1>3 DEF HeapLocked, IsOpen, OneConnectionPerPath, RefCountExact
<1>8. RegisteredIsLive'
  <2>1. \A p \in Paths : HasActiveConnection(p) => p \in fileLock'
    BY <1>2, <1>3 DEF RegisteredIsLive, fileLock
  <2> QED
    BY <1>1, <1>3, <2>1 DEF RegisteredIsLive
<1>9. AllOwned'
  <2>1. \A h \in live' : HandleOwned(h)'
    BY <1>1 DEF AllOwned, HandleOwned, IsHandleValid, HasActiveConnection
  <2>2. \A p \in Paths \ {q} : LockOwned(p)'
    BY <1>1, <1>3 DEF AllOwned, LockOwned, IsOpen
  <2> QED
    BY <1>3, <2>1, <2>2 DEF AllOwned, LockOwned
<1> QED
  BY <1>4, <1>5, <1>6, <1>7, <1>8, <1>9

-----------------------------------------------------------------------------
(* Hot restart                                                             *)

LEMMA HotRestartPreserves ==
    ASSUME IInv, NEW i \in Isolates, HotRestart(i)
    PROVE  IInv'
<1> USE ConstantsAssumption, HomeAssumption DEF IInv
<1>1. /\ call[i].pc = "idle"
      /\ ref' = [d \in Databases |-> IF Home[d] = i /\ IsHeld(d)
                                     THEN [ref[d] EXCEPT !.st = "lost"]
                                     ELSE ref[d]]
      /\ UNCHANGED <<registry, live, endpoint, lock, call, outcome>>
  BY DEF HotRestart, At, native
<1>2. \A d \in Databases :
        /\ ref'[d].at = ref[d].at /\ ref'[d].ptr = ref[d].ptr
        /\ ref'[d].st # "unused" <=> ref[d].st # "unused"
        /\ ref'[d].st = "held" => ref[d].st = "held"
        /\ Home[d] # i => ref'[d] = ref[d]
        /\ ref[d] = Unused => ref'[d] = Unused
  BY <1>1 DEF TypeOK, Ref, IsHeld, Unused
<1>3. \A p \in Paths : /\ HasActiveConnection(p)' <=> HasActiveConnection(p)
                       /\ Holders(p)' = Holders(p)
  BY <1>1, <1>2 DEF HasActiveConnection, Holders
<1>4. TypeOK'
  <2>1. \A d \in Databases : ref'[d] \in Ref
    BY <1>1 DEF TypeOK, Ref, IsHeld
  <2> QED
    BY <1>1, <2>1 DEF TypeOK, NativeTypeOK
<1>5. CallSound'
  <2> SUFFICES ASSUME NEW j \in Isolates
               PROVE  CallOwner(j)' /\ CallPointer(j)' /\ CallPath(j)'
    BY DEF CallSound
  <2>1. CallOwner(j)'
    BY <1>1, <1>2 DEF CallSound, CallOwner, IsHeld, Opening
  <2>2. CallPointer(j)'
    BY <1>1, <1>2 DEF CallSound, CallPointer, Used
  <2>3. CallPath(j)'
    BY <1>1, <1>3 DEF CallSound, CallPath, Passing, IsOpen, Transit
  <2> QED
    BY <2>1, <2>2, <2>3
<1>6. RefSound' /\ MemExclusive' /\ HoldersShareConnection' /\ HolderNeverRejected'
  BY <1>1, <1>2, <1>3
  DEF RefSound, MemExclusive, Used, HoldersShareConnection, HolderNeverRejected, IsHeld
<1>7. HeapLocked' /\ OneConnectionPerPath' /\ RegisteredIsLive' /\ RefCountExact'
  BY <1>1, <1>3 DEF HeapLocked, IsOpen, OneConnectionPerPath, RegisteredIsLive, RefCountExact,
                    fileLock
<1>8. AllOwned'
  <2>1. \A g \in Handles : IsHandleValid(g)' <=> IsHandleValid(g)
    BY <1>1, <1>3 DEF IsHandleValid
  <2>2. \A h \in live' : HandleOwned(h)'
    BY <1>1, <1>2, <2>1 DEF AllOwned, HandleOwned, TypeOK, NativeTypeOK
  <2>3. \A p \in Paths : LockOwned(p)'
    BY <1>1, <1>3 DEF AllOwned, LockOwned, IsOpen, Passing
  <2> QED
    BY <2>2, <2>3 DEF AllOwned
<1> QED
  BY <1>4, <1>5, <1>6, <1>7, <1>8

-----------------------------------------------------------------------------
(* The invariant, and what follows from it                                 *)

LEMMA NextPreservesIInv == IInv /\ [Next]_vars => IInv'
<1> SUFFICES ASSUME IInv, [Next]_vars PROVE IInv'
  OBVIOUS
<1>1. ASSUME NEW i \in Isolates, Proceed(i) PROVE IInv'
  <2>1. CASE OpenReturns(i)
    BY <2>1, OpenReturnsPreserves
  <2>2. CASE CloseUnregisters(i)
    BY <2>2, KeepPreserves, RemovePreserves DEF CloseUnregisters
  <2>3. CASE OpReturns(i)
    BY <2>3, OpReturnsPreserves
  <2>4. CASE CallProceeds(i)
    BY <2>4, ConnectPreserves, ConnectLockedPreserves, ConnectFailedPreserves,
       ReadEndpointPreserves, FreePreserves, DrainPreserves,
       TasksEndPreserves, VerifyDirectoryPreserves DEF CallProceeds
  <2> QED
    BY <1>1, <2>1, <2>2, <2>3, <2>4 DEF Proceed
<1>2. ASSUME NEW i \in Isolates, Client(i) PROVE IInv'
  <2>1. CASE HotRestart(i)
    BY <2>1, HotRestartPreserves
  <2>2. ASSUME NEW d \in Databases,
               \/ \E p \in Paths : OpenShared(i, d, p)
               \/ \E e \in Endpoints : OpenNew(i, d, e)
               \/ CloseBegins(i, d)
               \/ QueryAccepted(i, d)
               \/ QueryRejected(i, d)
               \/ UseUnchecked(i, d)
        PROVE  IInv'
    BY <2>2, OpenSharedPreserves, OpenNewPreserves, CloseBeginsPreserves,
       QueryAcceptedPreserves, QueryRejectedPreserves, UseUncheckedPreserves
  <2>3. CASE Verify(i)
    BY <2>3, VerifyPreserves
  <2> QED
    BY <1>2, <2>1, <2>2, <2>3 DEF Client
<1>3. CASE UNCHANGED vars
  BY <1>3, StutterPreserves
<1> QED
  BY <1>1, <1>2, <1>3 DEF Next

\* Every reachable state satisfies the inductive invariant.
THEOREM Invariance == Spec => []IInv
<1>1. Init => IInv
  BY InitEstablishesIInv
<1>2. IInv /\ [Next]_vars => IInv'
  BY NextPreservesIInv
<1> QED
  BY <1>1, <1>2, PTL DEF Spec

\* Every variable keeps its type: in particular an entry of the registry has
\* a positive ref_count, however calls interleave.
THEOREM TypeCorrect == Spec => []TypeOK
<1>1. IInv => TypeOK
  BY DEF IInv
<1> QED
  BY <1>1, Invariance, PTL

\* All objects of a directory hold the one registered, open connection:
\* db_new keeps the promise of connection reuse under every interleaving of
\* the isolates' calls.
THEOREM HoldersShare == Spec => []HoldersShareConnection
<1>1. IInv => HoldersShareConnection
  BY DEF IInv
<1> QED
  BY <1>1, Invariance, PTL

\* ref_count is the number of those objects, so that db_close frees the
\* connection with the last of them.
THEOREM CountsAreExact == Spec => []RefCountExact
<1>1. IInv => RefCountExact
  BY DEF IInv
<1> QED
  BY <1>1, Invariance, PTL

\* No native call reads, uses or frees an address that is not allocated, as
\* long as clients keep the contract and nobody repairs.
THEOREM NoDanglingDereference == Spec => []DereferencesOnlyLive
<1>1. IInv => DereferencesOnlyLive
  <2> SUFFICES ASSUME IInv, NEW i \in Isolates, call[i].pc \in {"endpoint", "deref", "free"}
               PROVE  call[i].ptr \in live
    BY DEF DereferencesOnlyLive
  <2>1. CallOwner(i) /\ CallPointer(i) /\ RefSound
    BY DEF IInv, CallSound
  <2> QED
    BY <2>1 DEF CallOwner, CallPointer, RefSound, Used, IsHeld
<1> QED
  BY <1>1, Invariance, PTL

\* A directory is open at most once.
THEOREM DirectoriesOpenOnce == Spec => []OneConnectionPerPath
<1>1. IInv => OneConnectionPerPath
  BY DEF IInv
<1> QED
  BY <1>1, Invariance, PTL

\* What is_handle_valid answers for: a pointer found in the registry is
\* allocated, and its connection is open on the path it is registered for.
THEOREM RegistryIsLive == Spec => []RegisteredIsLive
<1>1. IInv => RegisteredIsLive
  BY DEF IInv
<1> QED
  BY <1>1, Invariance, PTL

\* register_connection never finds an entry to replace.
THEOREM RegistersOnce == Spec => []RegisterNeverReplaces
<1>1. IInv => RegisterNeverReplaces
  BY DEF IInv, CallSound, CallPath, Transit, RegisterNeverReplaces
<1> QED
  BY <1>1, Invariance, PTL

\* What holds a LOCK that the registry knows nothing of.
LEMMA UnregisteredLock ==
    ASSUME IInv, NEW p \in fileLock, ~HasActiveConnection(p)
    PROVE  \/ \E i \in Isolates : InTransit(i, p)
           \/ /\ LeftToOpener(p)
              /\ lock[p].opener \in Isolates /\ lock[p].closer \in Isolates
<1>1. p \in Paths /\ lock[p] # Unlocked /\ lock[p] \in LockState /\ LockOwned(p)
  BY DEF IInv, AllOwned, fileLock, TypeOK, NativeTypeOK
<1>2. CASE \E i \in Isolates : Passing(i, p)
  BY <1>2 DEF Passing, Transit, InTransit
<1>3. CASE /\ lock[p].opener # Null /\ lock[p].closer # Null
           /\ lock[p].closer = lock[p].opener => call[lock[p].closer].pc = "drain"
           /\ lock[p].closer = lock[p].opener => call[lock[p].closer].at = p
  <2>1. lock[p].opener \in Isolates /\ lock[p].closer \in Isolates
    BY <1>1, <1>3 DEF LockState
  <2>2. CASE lock[p].closer = lock[p].opener
    BY <1>3, <2>1, <2>2 DEF InTransit
  <2>3. CASE lock[p].closer # lock[p].opener
    BY <1>3, <2>1, <2>3 DEF LeftToOpener
  <2> QED
    BY <2>2, <2>3
<1> QED
  BY <1>1, <1>2, <1>3 DEF LockOwned

\* No boxed Database is leaked, and no directory lock but one that a thread
\* closed for the opener's and left to it.
THEOREM ConnectionsAreGivenBack == Spec => []NothingLeaks
<1>1. IInv => NothingLeaks
  BY UnregisteredLock DEF IInv, AllOwned, HandleOwned, NothingLeaks
<1> QED
  BY <1>1, Invariance, PTL

\* No holder of a RocksDB connection is told that its handle is invalid.
THEOREM HoldersAreAccepted == Spec => []HolderNeverRejected
<1>1. IInv => HolderNeverRejected
  BY DEF IInv
<1> QED
  BY <1>1, Invariance, PTL

\* Whoever finds a directory locked by its own process has another isolate
\* to thank for it.
THEOREM LockedOutByAnother == Spec => LockedOutOnlyByAnother
<1>1. IInv /\ [Next]_vars =>
        [\A i \in Isolates : ConnectLocked(i) =>
            \E j \in Isolates \ {i} :
                \/ InTransit(j, call[i].at)
                \/ \E d \in Holders(call[i].at) : Home[d] = j
                \/ LeftToOpener(call[i].at)
                   /\ j \in {lock[call[i].at].opener, lock[call[i].at].closer}]_vars
  <2> SUFFICES ASSUME IInv, NEW i \in Isolates, ConnectLocked(i)
               PROVE  \E j \in Isolates \ {i} :
                        \/ InTransit(j, call[i].at)
                        \/ \E d \in Holders(call[i].at) : Home[d] = j
                        \/ LeftToOpener(call[i].at)
                           /\ j \in {lock[call[i].at].opener, lock[call[i].at].closer}
    OBVIOUS
  <2> DEFINE p == call[i].at
  <2>1. call[i].pc = "connect" /\ p \in fileLock /\ p \in Paths
    BY DEF ConnectLocked, At, fileLock
  <2>2. CASE \E j \in Isolates : InTransit(j, p)
    BY <2>1, <2>2 DEF InTransit
  <2>3. CASE HasActiveConnection(p)
    <3>1. Holders(p) # {}
      <4>1. registry[p].ref_count = Cardinality(Holders(p)) /\ registry[p].ref_count > 0
        BY <2>1, <2>3 DEF IInv, RefCountExact, HasActiveConnection
      <4> QED
        BY <2>1, <4>1, HoldersFinite
    <3>2. PICK d \in Holders(p) : Home[d] # i
      BY <2>1, <3>1 DEF IInv, CallSound, CallPath
    <3>3. Home[d] \in Isolates
      BY HomeAssumption DEF Holders
    <3> QED
      BY <3>2, <3>3
  <2>4. CASE /\ LeftToOpener(p)
             /\ lock[p].opener \in Isolates /\ lock[p].closer \in Isolates
    <3>1. lock[p].opener # i \/ lock[p].closer # i
      BY <2>4 DEF LeftToOpener
    <3> QED
      BY <2>4, <3>1
  <2> QED
    BY <2>1, <2>2, <2>3, <2>4, UnregisteredLock
<1> QED
  BY <1>1, Invariance, PTL DEF Spec, LockedOutOnlyByAnother

-----------------------------------------------------------------------------
(* ConnectionProtocol implements SharedConnection                          *)

Registering(p) == \E i \in Isolates : call[i].pc = "register" /\ call[i].at = p

LEMMA ConnStateIs ==
    ASSUME NEW p \in Paths
    PROVE  /\ HasActiveConnection(p) => ConnState(p) = "open"
           /\ ~HasActiveConnection(p) /\ Registering(p) => ConnState(p) = "opening"
           /\ ~HasActiveConnection(p) /\ ~Registering(p) /\ p \in fileLock
                => ConnState(p) = "closing"
           /\ ~HasActiveConnection(p) /\ ~Registering(p) /\ p \notin fileLock
                => ConnState(p) = "closed"
BY DEF ConnState, Registering

\* The state of a connection is seen through these three predicates alone.
LEMMA ConnStateSame ==
    ASSUME NEW p \in Paths,
           HasActiveConnection(p)' <=> HasActiveConnection(p),
           Registering(p)' <=> Registering(p),
           (p \in fileLock)' <=> p \in fileLock
    PROVE  ConnState(p)' = ConnState(p)
BY DEF ConnState, Registering

\* A step that no directory notices.
LEMMA Unnoticed ==
    ASSUME \A p \in Paths : ConnState(p)' = ConnState(p) /\ Holders(p)' = Holders(p)
    PROVE  UNCHANGED <<Conn, Users>>
BY DEF Conn, Users

\* A step that one directory notices.
LEMMA NoticedAt ==
    ASSUME NEW p \in Paths, NEW c, NEW u,
           \A q \in Paths : q # p => ConnState(q)' = ConnState(q) /\ Holders(q)' = Holders(q),
           ConnState(p)' = c, Holders(p)' = u
    PROVE  /\ Conn' = [Conn EXCEPT ![p] = c]
           /\ Users' = [Users EXCEPT ![p] = u]
BY DEF Conn, Users

\* Calls on their way in and out of other directories go on as they were.
LEMMA OtherDirectories ==
    ASSUME call \in [Isolates -> Call], NEW i \in Isolates, NEW p \in Paths,
           \A j \in Isolates \ {i} : call'[j] = call[j],
           call[i].pc = "register" => call[i].at # p,
           call'[i].pc = "register" => call'[i].at # p
    PROVE  Registering(p)' <=> Registering(p)
BY DEF Registering

LEMMA InitRefines == Init => Shared!Init
<1> SUFFICES ASSUME Init PROVE Shared!Init
  OBVIOUS
<1>1. ASSUME NEW p \in Paths PROVE ConnState(p) = "closed" /\ Holders(p) = {}
  BY DEF Init, NativeInit, ConnState, Holders, HasActiveConnection, NoEntry, Idle, Unused,
         fileLock
<1> QED
  BY <1>1 DEF Shared!Init, Conn, Users

\* Only the call of one isolate changes, and it is in transit neither before
\* nor after.
LEMMA OutsideTransitUnnoticed ==
    ASSUME call \in [Isolates -> Call], NEW i \in Isolates,
           UNCHANGED <<registry, lock, ref>>,
           \A j \in Isolates \ {i} : call'[j] = call[j],
           call[i].pc # "register", call'[i].pc # "register"
    PROVE  UNCHANGED <<Conn, Users>>
<1>1. ASSUME NEW p \in Paths PROVE ConnState(p)' = ConnState(p) /\ Holders(p)' = Holders(p)
  <2>1. HasActiveConnection(p)' <=> HasActiveConnection(p)
    BY DEF HasActiveConnection
  <2> QED
    BY <2>1, OtherDirectories, ConnStateSame DEF Holders, fileLock
<1> QED
  BY <1>1, Unnoticed

LEMMA OpenSharedAttaches ==
    ASSUME IInv, NEW i \in Isolates, NEW d \in Databases, NEW p \in Paths,
           OpenShared(i, d, p)
    PROVE  Shared!Attach(d, p)
<1> USE ConstantsAssumption DEF IInv
<1>1. /\ registry[p] \in DatabaseHandle /\ HasActiveConnection(p) /\ ref[d] = Unused
      /\ registry' = [registry EXCEPT ![p].ref_count = registry[p].ref_count + 1]
      /\ ref' = [ref EXCEPT ![d] = Held(p, registry[p].ptr)]
      /\ UNCHANGED <<lock, call>>
  BY DEF OpenShared, ReuseConnection, TypeOK, NativeTypeOK, HasActiveConnection, NoEntry
<1>2. \A q \in Paths : HasActiveConnection(q)' <=> HasActiveConnection(q)
  BY <1>1 DEF TypeOK, NativeTypeOK, DatabaseHandle, HasActiveConnection
<1>3. \A q \in Paths : ConnState(q)' = ConnState(q)
  BY <1>1, <1>2 DEF ConnState, fileLock
<1>4. \A q \in Paths : Holders(q)' = IF q = p THEN Holders(q) \cup {d} ELSE Holders(q)
  BY <1>1 DEF TypeOK, Holders, Held, Unused
<1>5. ConnState(p) = "open"
  BY <1>1, ConnStateIs
<1>6. /\ Conn' = [Conn EXCEPT ![p] = "open"]
      /\ Users' = [Users EXCEPT ![p] = Holders(p) \cup {d}]
  BY <1>3, <1>4, <1>5, NoticedAt
<1>7. \A q \in Paths : d \notin Users[q]
  BY <1>1 DEF Users, Holders, Unused
<1> QED
  BY <1>5, <1>6, <1>7 DEF Shared!Attach, Conn, Users

LEMMA ConnectOpens ==
    ASSUME IInv, NEW i \in Isolates, NEW h \in Handles, Connect(i, h),
           UNCHANGED <<ref, outcome>>
    PROVE  Shared!Next \/ UNCHANGED <<Conn, Users>>
<1> USE ConstantsAssumption DEF IInv
<1>0. PICK e \in Endpoints : e = call[i].at
  BY DEF TypeOK, NativeTypeOK, Call
<1>1. /\ call[i].pc \in {"connect", "retry"} /\ e \notin fileLock
      /\ call' = [call EXCEPT ![i] =
            [pc |-> "register", fn |-> "new", db |-> call[i].db, at |-> e, ptr |-> h]]
      /\ lock' = [p \in Paths |-> IF p = e THEN [opener |-> i, closer |-> Null] ELSE lock[p]]
      /\ UNCHANGED registry
  BY <1>0 DEF Connect, At, Begin, LockFor
<1>2. /\ call'[i].pc = "register" /\ call'[i].at = e
      /\ \A j \in Isolates \ {i} : call'[j] = call[j]
  BY <1>1 DEF TypeOK, NativeTypeOK
<1>3. ASSUME NEW p \in Paths
      PROVE  /\ HasActiveConnection(p)' <=> HasActiveConnection(p)
             /\ Holders(p)' = Holders(p)
             /\ p # e => ConnState(p)' = ConnState(p)
  <2>1. /\ HasActiveConnection(p)' <=> HasActiveConnection(p)
        /\ Holders(p)' = Holders(p)
    BY <1>1 DEF HasActiveConnection, Holders
  <2> QED
    BY <1>1, <1>2, <2>1, OtherDirectories, ConnStateSame DEF fileLock, TypeOK, NativeTypeOK
<1>4. CASE e \in Paths
  <2>1. ~HasActiveConnection(e) /\ ~Registering(e)
    <3>1. \A j \in Isolates : CallPath(j)
      BY DEF CallSound
    <3>2. ~IsOpen(e)
      BY <1>1, <1>4 DEF fileLock, IsOpen, Unlocked
    <3> QED
      BY <1>1, <1>4, <3>1, <3>2
      DEF RegisteredIsLive, CallPath, Registering, Transit
  <2>2. ~HasActiveConnection(e)' /\ Registering(e)'
    BY <1>2, <1>3, <1>4, <2>1 DEF Registering
  <2>3. ConnState(e) = "closed"
    BY <1>1, <1>4, <2>1, ConnStateIs
  <2>4. ConnState(e)' = "opening"
    BY <1>4, <2>2 DEF ConnState, Registering
  <2>5. /\ Conn' = [Conn EXCEPT ![e] = "opening"]
        /\ Users' = [Users EXCEPT ![e] = Holders(e)]
    BY <1>3, <1>4, <2>4, NoticedAt
  <2>6. Shared!Open(e)
    BY <1>4, <2>3, <2>5 DEF Shared!Open, Conn, Users
  <2> QED
    BY <1>4, <2>6 DEF Shared!Next
<1>5. CASE e \notin Paths
  BY <1>3, <1>5, Unnoticed
<1> QED
  BY <1>4, <1>5

LEMMA OpenReturnsAttaches ==
    ASSUME IInv, NEW i \in Isolates, OpenReturns(i)
    PROVE  Shared!Next \/ UNCHANGED <<Conn, Users>>
<1> USE ConstantsAssumption, HomeAssumption DEF IInv
<1>0. PICK d \in Databases, e \in Endpoints :
        /\ d = call[i].db /\ e = call[i].at /\ ref[d] = Unused
        /\ e \in Paths => /\ ~HasActiveConnection(e)
                          /\ \A j \in Isolates \ {i} : ~Passing(j, e)
  <2>1. call[i].pc = "register" /\ CallOwner(i) /\ CallPath(i)
    BY DEF OpenReturns, RegisterConnection, At, CallSound
  <2>2. call[i].at \in Endpoints
    BY DEF TypeOK, NativeTypeOK, Call
  <2> QED
    BY <2>1, <2>2 DEF CallOwner, CallPath, Opening, Transit
<1>1. /\ call[i].pc = "register"
      /\ registry' = IF e \in Paths
                     THEN [registry EXCEPT ![e] = [ptr |-> call[i].ptr, ref_count |-> 1]]
                     ELSE registry
      /\ call' = [call EXCEPT ![i] = Idle]
      /\ ref' = [ref EXCEPT ![d] = Held(e, call[i].ptr)]
      /\ UNCHANGED lock
  BY <1>0 DEF OpenReturns, RegisterConnection, At
<1>2. /\ call'[i] = Idle /\ ref'[d] = Held(e, call[i].ptr)
      /\ \A j \in Isolates \ {i} : call'[j] = call[j]
      /\ \A c \in Databases \ {d} : ref'[c] = ref[c]
  BY <1>1 DEF TypeOK, NativeTypeOK
<1>3. ASSUME NEW p \in Paths
      PROVE  /\ HasActiveConnection(p)' <=> p = e \/ HasActiveConnection(p)
             /\ Holders(p)' = IF p = e THEN Holders(p) \cup {d} ELSE Holders(p)
             /\ p # e => ConnState(p)' = ConnState(p)
  <2>1. HasActiveConnection(p)' <=> p = e \/ HasActiveConnection(p)
    BY <1>1 DEF TypeOK, NativeTypeOK, HasActiveConnection
  <2>2. Holders(p)' = IF p = e THEN Holders(p) \cup {d} ELSE Holders(p)
    BY <1>0, <1>2 DEF Holders, Held, Unused
  <2>3. p # e => ConnState(p)' = ConnState(p)
    BY <1>0, <1>1, <1>2, <2>1, OtherDirectories, ConnStateSame
    DEF fileLock, TypeOK, NativeTypeOK, Idle
  <2> QED
    BY <2>1, <2>2, <2>3
<1>4. CASE e \in Paths
  <2>1. ConnState(e) = "opening"
    BY <1>0, <1>1, <1>4, ConnStateIs DEF Registering
  <2>2. ConnState(e)' = "open"
    BY <1>3, <1>4 DEF ConnState
  <2>3. /\ Conn' = [Conn EXCEPT ![e] = "open"]
        /\ Users' = [Users EXCEPT ![e] = Holders(e) \cup {d}]
    BY <1>3, <1>4, <2>2, NoticedAt
  <2>4. \A q \in Paths : d \notin Users[q]
    BY <1>0 DEF Users, Holders, Unused
  <2>5. Shared!Attach(d, e)
    BY <1>4, <2>1, <2>3, <2>4 DEF Shared!Attach, Conn, Users
  <2> QED
    BY <1>4, <2>5 DEF Shared!Next
<1>5. CASE e \notin Paths
  BY <1>3, <1>5, Unnoticed
<1> QED
  BY <1>4, <1>5

LEMMA KeepDetaches ==
    ASSUME IInv, NEW i \in Isolates, KeepConnection(i),
           ref' = [ref EXCEPT ![call[i].db] = Unused]
    PROVE  Shared!Next
<1> USE ConstantsAssumption DEF IInv
<1>0. PICK d \in Databases, e \in Paths :
        /\ d = call[i].db /\ e = call[i].at
        /\ d \in Holders(e) /\ registry[e].ref_count = Cardinality(Holders(e))
  BY UnregisterKnows DEF KeepConnection, At
<1>1. /\ call[i].pc = "unregister"
      /\ registry[e].ref_count > 1 /\ registry[e] \in DatabaseHandle
      /\ registry' = [registry EXCEPT ![e].ref_count = registry[e].ref_count - 1]
      /\ call' = [call EXCEPT ![i] = Idle]
      /\ ref' = [ref EXCEPT ![d] = Unused]
      /\ UNCHANGED lock
  BY <1>0 DEF KeepConnection, At, TypeOK, NativeTypeOK, NoEntry
<1>2. /\ call'[i] = Idle /\ ref'[d] = Unused
      /\ \A j \in Isolates \ {i} : call'[j] = call[j]
      /\ \A c \in Databases \ {d} : ref'[c] = ref[c]
  BY <1>1 DEF TypeOK, NativeTypeOK
<1>3. ASSUME NEW p \in Paths
      PROVE  /\ ConnState(p)' = ConnState(p)
             /\ Holders(p)' = IF p = e THEN Holders(p) \ {d} ELSE Holders(p)
  <2>1. HasActiveConnection(p)' <=> HasActiveConnection(p)
    BY <1>1 DEF TypeOK, NativeTypeOK, DatabaseHandle, HasActiveConnection
  <2>2. Holders(p)' = IF p = e THEN Holders(p) \ {d} ELSE Holders(p)
    BY <1>0, <1>2 DEF Holders, Unused
  <2>3. ConnState(p)' = ConnState(p)
    BY <1>1, <1>2, <2>1, OtherDirectories, ConnStateSame
    DEF fileLock, TypeOK, NativeTypeOK, Idle
  <2> QED
    BY <2>2, <2>3
<1>4. Holders(e) # {d}
  <2>1. Cardinality({d}) = 1
    BY FS_Singleton
  <2>2. Cardinality(Holders(e)) > 1
    BY <1>0, <1>1
  <2> QED
    BY <2>1, <2>2
<1>5. /\ Conn' = [Conn EXCEPT ![e] = Conn[e]]
      /\ Users' = [Users EXCEPT ![e] = Holders(e) \ {d}]
  <2>1. ConnState(e)' = Conn[e]
    BY <1>3 DEF Conn
  <2> QED
    BY <1>3, <2>1, NoticedAt
<1>6. Shared!Detach(d, e)
  BY <1>0, <1>4, <1>5 DEF Shared!Detach, Users
<1> QED
  BY <1>6 DEF Shared!Next

LEMMA RemoveDetaches ==
    ASSUME IInv, NEW i \in Isolates, RemoveConnection(i),
           ref' = [ref EXCEPT ![call[i].db] = Unused]
    PROVE  Shared!Next \/ UNCHANGED <<Conn, Users>>
<1> USE ConstantsAssumption DEF IInv
<1>0. PICK d \in Databases, e \in Endpoints :
        /\ d = call[i].db /\ e = call[i].at /\ Used(d) /\ ref[d].at = e
        /\ call[i].ptr \in live /\ endpoint[call[i].ptr] = e
        /\ e \in Paths => /\ d \in Holders(e) /\ HasActiveConnection(e)
                          /\ registry[e].ref_count = Cardinality(Holders(e))
  BY UnregisterKnows DEF RemoveConnection, At
<1>1. /\ call[i].pc = "unregister"
      /\ e \in Paths => registry[e].ref_count <= 1
      /\ registry' = [p \in Paths |-> IF p = e THEN NoEntry ELSE registry[p]]
      /\ call' = [call EXCEPT ![i].pc = "free"]
      /\ ref' = [ref EXCEPT ![d] = Unused]
      /\ UNCHANGED lock
  BY <1>0 DEF RemoveConnection, At
<1>2. /\ call'[i].pc = "free" /\ call'[i].at = e /\ ref'[d] = Unused
      /\ \A j \in Isolates \ {i} : call'[j] = call[j]
      /\ \A c \in Databases \ {d} : ref'[c] = ref[c]
  BY <1>0, <1>1 DEF TypeOK, NativeTypeOK, Call
<1>3. ASSUME NEW p \in Paths
      PROVE  /\ HasActiveConnection(p)' <=> p # e /\ HasActiveConnection(p)
             /\ Holders(p)' = IF p = e THEN Holders(p) \ {d} ELSE Holders(p)
             /\ p # e => ConnState(p)' = ConnState(p)
  <2>1. HasActiveConnection(p)' <=> p # e /\ HasActiveConnection(p)
    BY <1>1 DEF HasActiveConnection, NoEntry
  <2>2. Holders(p)' = IF p = e THEN Holders(p) \ {d} ELSE Holders(p)
    BY <1>0, <1>2 DEF Holders, Unused, Used
  <2>3. p # e => ConnState(p)' = ConnState(p)
    BY <1>1, <1>2, <2>1, OtherDirectories, ConnStateSame
    DEF fileLock, TypeOK, NativeTypeOK
  <2> QED
    BY <2>1, <2>2, <2>3
<1>4. CASE e \in Paths
  <2>1. Holders(e) = {d}
    <3>1. Cardinality(Holders(e)) = 1
      BY <1>0, <1>1, <1>4, HoldersFinite DEF HasActiveConnection
    <3> QED
      BY <1>0, <1>4, <3>1, HoldersFinite, FS_Singleton
  <2>2. ConnState(e)' = "closing"
    <3>1. \A j \in Isolates \ {i} : ~(call[j].pc = "register" /\ call[j].at = e)
      BY <1>0, <1>4 DEF CallSound, CallPath, Transit
    <3>2. ~Registering(e)'
      BY <1>2, <3>1 DEF Registering
    <3>3. e \in fileLock'
      BY <1>0, <1>1, <1>4 DEF HeapLocked, IsOpen, fileLock, Unlocked
    <3> QED
      BY <1>3, <1>4, <3>2, <3>3 DEF ConnState, Registering
  <2>3. /\ Conn' = [Conn EXCEPT ![e] = "closing"]
        /\ Users' = [Users EXCEPT ![e] = Holders(e) \ {d}]
    BY <1>3, <1>4, <2>2, NoticedAt
  <2>4. Shared!Detach(d, e)
    BY <1>4, <2>1, <2>3 DEF Shared!Detach, Users
  <2> QED
    BY <1>4, <2>4 DEF Shared!Next
<1>5. CASE e \notin Paths
  BY <1>3, <1>5, Unnoticed
<1> QED
  BY <1>4, <1>5

LEMMA FreeUnnoticed ==
    ASSUME IInv, NEW i \in Isolates, FreeHandle(i), UNCHANGED <<ref, outcome>>
    PROVE  UNCHANGED <<Conn, Users>>
<1>1. /\ call[i].pc = "free"
      /\ call' = [call EXCEPT ![i].pc = "drain"]
      /\ UNCHANGED <<registry, ref>>
      /\ lock' = [p \in Paths |-> IF p = call[i].at THEN [lock[call[i].at] EXCEPT !.closer = i]
                                  ELSE lock[p]]
      /\ call[i].at \in Paths => IsOpen(call[i].at)
  BY DEF FreeHandle, At, LockFor, IInv, CallSound, CallPointer, CallPath, Transit
<1>2. /\ call'[i].pc = "drain" /\ call'[i].at = call[i].at
      /\ \A j \in Isolates \ {i} : call'[j] = call[j]
  BY <1>1 DEF IInv, TypeOK, NativeTypeOK, Call
<1>3. ASSUME NEW p \in Paths PROVE ConnState(p)' = ConnState(p) /\ Holders(p)' = Holders(p)
  <2>1. HasActiveConnection(p)' <=> HasActiveConnection(p)
    BY <1>1 DEF HasActiveConnection
  <2>2. Registering(p)' <=> Registering(p)
    BY <1>1, <1>2 DEF Registering
  <2>3. (p \in fileLock)' <=> p \in fileLock
    <3>1. CASE p = call[i].at
      <4>1. lock[p] \in LockState /\ lock[p].opener # Null
        BY <1>1, <3>1 DEF IsOpen, IInv, TypeOK, NativeTypeOK
      <4>2. lock'[p].opener # Null
        BY <1>1, <3>1, <4>1 DEF LockState
      <4> QED
        BY <4>1, <4>2 DEF fileLock, Unlocked
    <3>2. CASE p # call[i].at
      BY <1>1, <3>2 DEF fileLock
    <3> QED
      BY <3>1, <3>2
  <2> QED
    BY <1>1, <2>1, <2>2, <2>3, ConnStateSame DEF Holders
<1> QED
  BY <1>3, Unnoticed

LEMMA TasksEndCloses ==
    ASSUME IInv, NEW i \in Isolates, NEW q \in Paths, TasksEnd(i, q),
           UNCHANGED <<ref, outcome>>
    PROVE  Shared!Close(q)
<1>1. /\ lock[q].closer # Null
      /\ lock' = [p \in Paths |-> IF p = q THEN Unlocked ELSE lock[p]]
      /\ UNCHANGED <<registry, call, ref>>
  BY DEF TasksEnd, LockFor
<1>2. ~HasActiveConnection(q) /\ ~Registering(q)
  BY <1>1, DroppedIsClosed DEF Passing, Registering, Transit
<1>3. ASSUME NEW p \in Paths
      PROVE  /\ HasActiveConnection(p)' <=> HasActiveConnection(p)
             /\ Registering(p)' <=> Registering(p)
             /\ Holders(p)' = Holders(p)
             /\ p # q => ConnState(p)' = ConnState(p)
  <2>1. /\ HasActiveConnection(p)' <=> HasActiveConnection(p)
        /\ Registering(p)' <=> Registering(p)
        /\ Holders(p)' = Holders(p)
    BY <1>1 DEF HasActiveConnection, Registering, Holders
  <2>2. p # q => ((p \in fileLock)' <=> p \in fileLock)
    BY <1>1 DEF fileLock
  <2> QED
    BY <2>1, <2>2, ConnStateSame
<1>4. ConnState(q) = "closing"
  BY <1>1, <1>2, ConnStateIs DEF fileLock, Unlocked
<1>5. ConnState(q)' = "closed"
  <2>1. q \notin fileLock'
    BY <1>1 DEF fileLock
  <2> QED
    BY <1>2, <1>3, <2>1 DEF ConnState, Registering
<1>6. /\ Conn' = [Conn EXCEPT ![q] = "closed"]
      /\ Users' = [Users EXCEPT ![q] = Holders(q)]
  BY <1>3, <1>5, NoticedAt
<1> QED
  BY <1>4, <1>6 DEF Shared!Close, Conn, Users

LEMMA HotRestartUnnoticed ==
    ASSUME IInv, NEW i \in Isolates, HotRestart(i)
    PROVE  UNCHANGED <<Conn, Users>>
<1>1. /\ ref' = [d \in Databases |-> IF Home[d] = i /\ IsHeld(d)
                                     THEN [ref[d] EXCEPT !.st = "lost"]
                                     ELSE ref[d]]
      /\ UNCHANGED <<registry, lock, call>>
  BY DEF HotRestart, native
<1>2. \A p \in Paths : Holders(p)' = Holders(p)
  BY <1>1 DEF IInv, TypeOK, Ref, IsHeld, Holders
<1>3. \A p \in Paths : ConnState(p)' = ConnState(p)
  BY <1>1 DEF ConnState, HasActiveConnection, fileLock
<1> QED
  BY <1>2, <1>3, Unnoticed

LEMMA NextRefines == IInv /\ [Next]_vars => [Shared!Next]_Shared!shared
<1> SUFFICES ASSUME IInv, [Next]_vars
             PROVE  Shared!Next \/ UNCHANGED <<Conn, Users>>
  BY DEF Shared!shared
<1> USE DEF IInv
<1>1. ASSUME NEW i \in Isolates, Proceed(i)
      PROVE  Shared!Next \/ UNCHANGED <<Conn, Users>>
  <2>1. CASE OpenReturns(i)
    BY <2>1, OpenReturnsAttaches
  <2>2. CASE CloseUnregisters(i)
    BY <2>2, KeepDetaches, RemoveDetaches DEF CloseUnregisters
  <2>3. CASE OpReturns(i)
    BY <2>3, OutsideTransitUnnoticed
    DEF OpReturns, UseHandle, At, TypeOK, NativeTypeOK, Idle
  <2>4. CASE CallProceeds(i)
    <3>1. CASE \E h \in Handles : Connect(i, h)
      BY <2>4, <3>1, ConnectOpens DEF CallProceeds
    <3>2. CASE ConnectLocked(i) \/ ConnectFailed(i)
      BY <2>4, <3>2, OutsideTransitUnnoticed
      DEF CallProceeds, ConnectLocked, ConnectFailed, At, TypeOK, NativeTypeOK, Call, Idle
    <3>3. CASE ReadEndpoint(i)
      BY <2>4, <3>3, OutsideTransitUnnoticed
      DEF CallProceeds, ReadEndpoint, Begin, At, TypeOK, NativeTypeOK
    <3>4. CASE FreeHandle(i)
      BY <2>4, <3>4, FreeUnnoticed DEF CallProceeds
    <3>5. CASE DrainRuntime(i)
      BY <2>4, <3>5, OutsideTransitUnnoticed
      DEF CallProceeds, DrainRuntime, DrainReturns, At, CallSound, CallOwner,
          TypeOK, NativeTypeOK, Idle
    <3>6. CASE VerifyDirectory(i)
      BY <2>4, <3>6, OutsideTransitUnnoticed
      DEF CallProceeds, VerifyDirectory, At, TypeOK, NativeTypeOK, Idle
    <3>7. CASE \E p \in Paths : TasksEnd(i, p)
      BY <2>4, <3>7, TasksEndCloses DEF CallProceeds, Shared!Next
    <3> QED
      BY <2>4, <3>1, <3>2, <3>3, <3>4, <3>5, <3>6, <3>7 DEF CallProceeds
  <2> QED
    BY <1>1, <2>1, <2>2, <2>3, <2>4 DEF Proceed
<1>2. ASSUME NEW i \in Isolates, Client(i)
      PROVE  Shared!Next \/ UNCHANGED <<Conn, Users>>
  <2>1. CASE HotRestart(i)
    BY <2>1, HotRestartUnnoticed
  <2>2. ASSUME NEW d \in Databases, NEW p \in Paths, OpenShared(i, d, p)
        PROVE  Shared!Next
    BY <2>2, OpenSharedAttaches DEF Shared!Next
  <2>3. ASSUME NEW d \in Databases, NEW e \in Endpoints, OpenNew(i, d, e)
        PROVE  UNCHANGED <<Conn, Users>>
    BY <2>3, OutsideTransitUnnoticed
    DEF OpenNew, MissConnection, Begin, At, TypeOK, NativeTypeOK
  <2>4. ASSUME NEW d \in Databases,
               CloseBegins(i, d) \/ QueryAccepted(i, d) \/ UseUnchecked(i, d)
        PROVE  UNCHANGED <<Conn, Users>>
    BY <2>4, OutsideTransitUnnoticed
    DEF CloseBegins, DbClose, QueryAccepted, ValidatedOp, UseUnchecked, UncheckedOp,
        Begin, At, TypeOK, NativeTypeOK
  <2>5. ASSUME NEW d \in Databases, QueryRejected(i, d)
        PROVE  UNCHANGED <<Conn, Users>>
    BY <2>5, OutsideTransitUnnoticed
    DEF QueryRejected, RejectedOp, At, native, TypeOK, NativeTypeOK
  <2>6. CASE Verify(i)
    BY <2>6, OutsideTransitUnnoticed
    DEF Verify, DbVerify, Begin, At, TypeOK, NativeTypeOK
  <2> QED
    BY <1>2, <2>1, <2>2, <2>3, <2>4, <2>5, <2>6 DEF Client
<1>3. CASE UNCHANGED vars
  BY <1>3 DEF vars, native, Conn, Users, ConnState, Holders, HasActiveConnection, fileLock
<1> QED
  BY <1>1, <1>2, <1>3 DEF Next

\* Connection reuse keeps its promise: each step of the native calls is, for
\* the objects of a directory, a step SharedConnection allows or no step.
THEOREM ImplementsSharedConnection == Spec => SharesConnections
<1>1. Init => Shared!Init
  BY InitRefines
<1>2. IInv /\ [Next]_vars => [Shared!Next]_Shared!shared
  BY NextRefines
<1> QED
  BY <1>1, <1>2, Invariance, PTL DEF Spec, SharesConnections, Shared!Spec

=============================================================================
