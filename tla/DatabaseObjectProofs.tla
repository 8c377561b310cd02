------------------------ MODULE DatabaseObjectProofs ------------------------
(***************************************************************************)
(* Proofs about DatabaseObject, for any number of isolates, objects,       *)
(* directories and addresses: its inductive invariant, that the class      *)
(* Database keeps the contract of ConnectionProtocol, and that nothing     *)
(* reaches a connection through an object after close() was called.        *)
(***************************************************************************)
EXTENDS DatabaseObject, SequenceTheorems, TLAPS

-----------------------------------------------------------------------------
(* The inductive invariant                                                 *)

\* The field and the local variable of an object, by its state.
ObjSound(d) ==
    /\ obj[d].handle # Null <=> obj[d].st \in {"open", "lost"}
    /\ obj[d].local # Null => obj[d].st \in {"connecting", "closed"}
    /\ obj[d].st \in {"absent", "connecting", "lost"} => ~obj[d].txn

\* An operation on h in progress, and a db_close of h, for object d.
Uses(c, d, h) == c = [pc |-> "deref", fn |-> "op", db |-> d, at |-> Mem, ptr |-> h]

Gives(c, d, h) ==
    /\ c.pc \in {"endpoint", "unregister", "free", "drain"}
    /\ c.fn = "close" /\ c.db = d /\ c.ptr = h

\* The call an isolate is in is the one its event body has made, for the
\* object of the event and with the pointer that object has.
JobSound(i) ==
    LET d == job[i].db
        k == job[i].kind
        o == obj[d]
        c == call[i] IN
    IF k = "none" THEN job[i] = NoJob /\ c = Idle
    ELSE
    /\ d \in Databases /\ Home[d] = i
    /\ k = "connect" =>
        /\ o.st = "connecting" /\ o.local = Null
        /\ c.pc \in {"connect", "retry", "register"}
        /\ c.fn = "new" /\ c.db = d /\ c.at = o.at
        /\ c.pc = "register" => c.ptr # Null
    /\ k \in {"setup", "abort"} => o.st = "connecting" /\ o.local # Null
    /\ k = "setup" => c = Idle \/ Uses(c, d, o.local)
    /\ k = "abort" => c = Idle \/ Gives(c, d, o.local)
    /\ k \in {"op", "txn", "commit"} => o.st = "open" /\ Uses(c, d, o.handle)
    /\ k = "rollback" => o.st = "open" /\ c = Idle
    /\ k = "close" => o.st = "closed" /\ o.local # Null /\ Gives(c, d, o.local)

\* An event waits in its object's isolate.  While connect() is not done it is
\* the object's only event, and there is at most one close() to come.
EventSound(i, n) ==
    LET e == queue[i][n]
        d == e.db IN
    /\ Home[d] = i
    /\ IF obj[d].st = "connecting"
       THEN /\ e.kind = "connect" /\ obj[d].local = Null /\ job[i].db # d
            /\ \A m \in 1 .. Len(queue[i]) : m # n => queue[i][m].db # d
       ELSE /\ e.kind # "connect" /\ obj[d].st \in {"open", "closed"}
            /\ e.kind = "close" =>
                /\ obj[d].st = "closed" /\ obj[d].local # Null
                /\ job[i] # [kind |-> "close", db |-> d]
                /\ \A m \in 1 .. Len(queue[i]) : m # n => queue[i][m] # e

QueueSound(i) == \A n \in 1 .. Len(queue[i]) : EventSound(i, n)

\* TypeOK without what ObjSound says again.
Typed ==
    /\ NativeTypeOK
    /\ obj \in [Databases -> Object]
    /\ queue \in [Isolates -> Seq(Events)]
    /\ \A i \in Isolates : Len(queue[i]) <= MaxQueue[i]
    /\ job \in [Isolates -> Job]
    /\ outcome \in [Databases -> {"none", "ok", "rejected"}]

IInv ==
    /\ TypeOK
    /\ \A d \in Databases : ObjSound(d)
    /\ \A i \in Isolates : JobSound(i) /\ QueueSound(i)

-----------------------------------------------------------------------------
(* The steps of the native side keep its type                              *)

\* A step that is a Begin.
LEMMA BeginTyped ==
    ASSUME call \in [Isolates -> Call], NEW i \in Isolates, NEW l \in Labels,
           NEW f \in {"none", "new", "close", "op", "repair", "verify"},
           NEW d \in Databases \cup {Null}, NEW e \in Endpoints, NEW h \in Pointers,
           Begin(i, l, f, d, e, h)
    PROVE  call' \in [Isolates -> Call]
<1>1. [pc |-> l, fn |-> f, db |-> d, at |-> e, ptr |-> h] \in Call
  BY DEF Call, Pointers
<1> QED
  BY <1>1 DEF Begin

\* A call that returns.
LEMMA IdleTyped ==
    ASSUME call \in [Isolates -> Call], NEW i \in Isolates,
           call' = [call EXCEPT ![i] = Idle]
    PROVE  call' \in [Isolates -> Call]
<1>1. Idle \in Call
  BY DEF Idle, Call, Labels, Endpoints
<1> QED
  BY <1>1

\* A call that moves on.
LEMMA MovesTyped ==
    ASSUME call \in [Isolates -> Call], NEW i \in Isolates, NEW l \in Labels,
           call' = [call EXCEPT ![i].pc = l]
    PROVE  call' \in [Isolates -> Call]
<1>1. [call[i] EXCEPT !.pc = l] \in Call
  BY DEF Call
<1> QED
  BY <1>1

\* A step that sets the LOCK of endpoint e.
LEMMA LockTyped ==
    ASSUME lock \in [Paths -> LockState], NEW e, NEW s, e \in Paths => s \in LockState,
           LockFor(e, s)
    PROVE  lock' \in [Paths -> LockState]
BY DEF LockFor

\* db_new.
LEMMA ReuseTyped ==
    ASSUME NativeTypeOK, NEW i \in Isolates, NEW p \in Paths, ReuseConnection(i, p)
    PROVE  NativeTypeOK'
<1> USE ConstantsAssumption DEF NativeTypeOK
<1>1. registry[p] \in DatabaseHandle
  BY DEF ReuseConnection, HasActiveConnection, NoEntry
<1>2. [registry[p] EXCEPT !.ref_count = registry[p].ref_count + 1] \in DatabaseHandle
  BY <1>1 DEF DatabaseHandle
<1>3. registry' = [registry EXCEPT ![p] = [registry[p] EXCEPT !.ref_count = registry[p].ref_count + 1]]
  BY DEF ReuseConnection
<1> QED
  BY <1>2, <1>3 DEF ReuseConnection

LEMMA ConnectTyped ==
    ASSUME NativeTypeOK, NEW i \in Isolates, NEW h \in Handles, Connect(i, h)
    PROVE  NativeTypeOK'
<1> USE DEF NativeTypeOK
<1>1. call[i].db \in Databases \cup {Null} /\ call[i].at \in Endpoints
  BY DEF Call
<1>2. call' \in [Isolates -> Call]
  BY <1>1, BeginTyped DEF Connect, Labels, Pointers
<1>3. lock' \in [Paths -> LockState]
  BY LockTyped DEF Connect, LockState
<1> QED
  BY <1>1, <1>2, <1>3 DEF Connect

LEMMA RegisterTyped ==
    ASSUME NativeTypeOK, NEW i \in Isolates, RegisterConnection(i), call[i].ptr # Null
    PROVE  NativeTypeOK'
<1> USE DEF NativeTypeOK
<1>1. call[i].ptr \in Handles
  BY DEF Call
<1>2. [ptr |-> call[i].ptr, ref_count |-> 1] \in DatabaseHandle
  BY <1>1 DEF DatabaseHandle
<1>3. registry' \in [Paths -> DatabaseHandle \cup {NoEntry}]
  BY <1>2 DEF RegisterConnection
<1>4. call' \in [Isolates -> Call]
  BY IdleTyped DEF RegisterConnection
<1> QED
  BY <1>3, <1>4 DEF RegisterConnection

\* db_close.
LEMMA ReadEndpointTyped ==
    ASSUME NativeTypeOK, NEW i \in Isolates, ReadEndpoint(i), call[i].ptr # Null
    PROVE  NativeTypeOK'
<1> USE DEF NativeTypeOK
<1>1. /\ call[i].db \in Databases \cup {Null} /\ call[i].ptr \in Handles
      /\ endpoint[call[i].ptr] \in Endpoints
  BY DEF Call
<1>2. call' \in [Isolates -> Call]
  BY <1>1, BeginTyped DEF ReadEndpoint, Labels, Pointers
<1> QED
  BY <1>2 DEF ReadEndpoint

LEMMA KeepTyped ==
    ASSUME NativeTypeOK, NEW i \in Isolates, KeepConnection(i)
    PROVE  NativeTypeOK'
<1> USE ConstantsAssumption DEF NativeTypeOK
<1>1. call' \in [Isolates -> Call]
  BY IdleTyped DEF KeepConnection
<1>2. PICK p \in Paths : p = call[i].at
  BY DEF KeepConnection
<1>3. registry[p] \in DatabaseHandle /\ registry[p].ref_count > 1
  BY <1>2 DEF KeepConnection, NoEntry
<1>4. registry' = [registry EXCEPT ![p].ref_count = registry[p].ref_count - 1]
  BY <1>2 DEF KeepConnection
<1>5. [registry[p] EXCEPT !.ref_count = registry[p].ref_count - 1] \in DatabaseHandle
  BY <1>3 DEF DatabaseHandle
<1> QED
  BY <1>1, <1>4, <1>5 DEF KeepConnection

LEMMA RemoveTyped ==
    ASSUME NativeTypeOK, NEW i \in Isolates, RemoveConnection(i)
    PROVE  NativeTypeOK'
<1> USE DEF NativeTypeOK
<1>1. call' \in [Isolates -> Call]
  BY MovesTyped DEF RemoveConnection, Labels
<1>2. registry' \in [Paths -> DatabaseHandle \cup {NoEntry}]
  BY DEF RemoveConnection
<1> QED
  BY <1>1, <1>2 DEF RemoveConnection

LEMMA FreeTyped ==
    ASSUME NativeTypeOK, NEW i \in Isolates, FreeHandle(i)
    PROVE  NativeTypeOK'
<1> USE DEF NativeTypeOK
<1>1. call' \in [Isolates -> Call]
  BY MovesTyped DEF FreeHandle, Labels
<1>2. lock' \in [Paths -> LockState]
  BY LockTyped DEF FreeHandle, LockState
<1> QED
  BY <1>1, <1>2 DEF FreeHandle

LEMMA TasksEndTyped ==
    ASSUME NativeTypeOK, NEW i \in Isolates, NEW p \in Paths, TasksEnd(i, p)
    PROVE  NativeTypeOK'
<1> USE DEF NativeTypeOK
<1>1. lock' \in [Paths -> LockState]
  BY LockTyped DEF TasksEnd, LockState, Unlocked
<1> QED
  BY <1>1 DEF TasksEnd

\* A pointer the registry has is not null.
LEMMA ValidNotNull ==
    ASSUME NativeTypeOK, NEW h, IsHandleValid(h)
    PROVE  h # Null
<1>1. PICK p \in Paths : HasActiveConnection(p) /\ registry[p].ptr = h
  BY DEF IsHandleValid
<1>2. registry[p] \in DatabaseHandle
  BY <1>1 DEF NativeTypeOK, HasActiveConnection, NoEntry
<1> QED
  BY <1>1, <1>2, ConstantsAssumption DEF DatabaseHandle

-----------------------------------------------------------------------------
(* What a step leaves alone                                                *)

\* Only isolate i and its object d change: the rest stays sound.
LEMMA OthersStaySound ==
    ASSUME IInv, Typed', NEW i \in Isolates, NEW d \in Databases, Home[d] = i,
           \A j \in Isolates \ {i} :
               call'[j] = call[j] /\ job'[j] = job[j] /\ queue'[j] = queue[j],
           \A c \in Databases \ {d} : obj'[c] = obj[c],
           ObjSound(d)', JobSound(i)', QueueSound(i)'
    PROVE  IInv'
<1> USE DEF IInv
<1>1. ASSUME NEW c \in Databases PROVE ObjSound(c)'
  BY DEF ObjSound
<1>2. ASSUME NEW j \in Isolates \ {i} PROVE JobSound(j)'
  <2>1. JobSound(j) /\ call'[j] = call[j] /\ job'[j] = job[j]
    OBVIOUS
  <2>2. CASE job[j].kind = "none"
    BY <2>1, <2>2 DEF JobSound
  <2>3. CASE job[j].kind # "none"
    <3>1. obj'[job[j].db] = obj[job[j].db]
      BY <2>1, <2>3 DEF JobSound
    <3> QED
      BY <2>1, <3>1 DEF JobSound
  <2> QED
    BY <2>2, <2>3
<1>3. ASSUME NEW j \in Isolates \ {i} PROVE QueueSound(j)'
  <2> SUFFICES ASSUME NEW n \in 1 .. Len(queue[j]) PROVE EventSound(j, n)'
    BY DEF QueueSound
  <2>1. EventSound(j, n) /\ queue[j][n] \in Events
    BY DEF QueueSound, TypeOK
  <2>2. queue[j][n].db \in Databases \ {d}
    BY <2>1 DEF EventSound, Events
  <2> QED
    BY <2>1, <2>2 DEF EventSound
<1>4. TypeOK'
  BY <1>1 DEF TypeOK, Typed, ObjSound
<1> QED
  BY <1>1, <1>2, <1>3, <1>4

\* What Dispatch takes, and what it leaves.
LEMMA DispatchTakes ==
    ASSUME TypeOK, NEW i \in Isolates, NEW k, NEW d, Dispatch(i, k, d)
    PROVE  /\ job[i] = NoJob
           /\ Len(queue[i]) \in Nat \ {0}
           /\ queue[i][1] = [kind |-> k, db |-> d]
           /\ queue' \in [Isolates -> Seq(Events)]
           /\ \A j \in Isolates \ {i} : queue'[j] = queue[j]
           /\ Len(queue'[i]) = Len(queue[i]) - 1
           /\ \A n \in 1 .. Len(queue'[i]) : /\ n + 1 \in 1 .. Len(queue[i])
                                             /\ queue'[i][n] = queue[i][n + 1]
<1>1. /\ queue \in [Isolates -> Seq(Events)]
      /\ queue[i] \in Seq(Events) /\ queue[i] # <<>>
      /\ queue' = [queue EXCEPT ![i] = Tail(queue[i])]
  BY DEF TypeOK, Dispatch
<1>2. /\ Tail(queue[i]) \in Seq(Events)
      /\ Len(Tail(queue[i])) = Len(queue[i]) - 1
      /\ \A n \in 1 .. Len(Tail(queue[i])) : Tail(queue[i])[n] = queue[i][n + 1]
  BY <1>1, HeadTailProperties
<1>3. Len(queue[i]) \in Nat \ {0} /\ queue[i][1] = Head(queue[i])
  BY <1>1, EmptySeq
<1> QED
  BY <1>1, <1>2, <1>3 DEF Dispatch, Between

\* The dispatched event: its object is in this isolate and in the state the
\* event needs.
LEMMA DispatchSound ==
    ASSUME IInv, NEW i \in Isolates, NEW k, NEW d \in Databases, Dispatch(i, k, d)
    PROVE  /\ Home[d] = i /\ job[i] = NoJob /\ call[i] = Idle
           /\ k = "connect" => obj[d].st = "connecting" /\ obj[d].local = Null
           /\ k # "connect" => obj[d].st \in {"open", "closed"}
           /\ k = "close" => obj[d].st = "closed" /\ obj[d].local # Null
<1>1. job[i] = NoJob /\ EventSound(i, 1) /\ queue[i][1] = [kind |-> k, db |-> d]
  BY DispatchTakes DEF IInv, QueueSound
<1>2. call[i] = Idle
  BY <1>1 DEF IInv, JobSound, NoJob
<1> QED
  BY <1>1, <1>2 DEF EventSound

\* The rest of the queue after it.
LEMMA DispatchLeavesSound ==
    ASSUME IInv, NEW i \in Isolates, NEW k, NEW d \in Databases, Dispatch(i, k, d),
           \A c \in Databases : c # d \/ k # "connect" => obj'[c] = obj[c],
           job'[i].db \in {d, Null}, job'[i].kind = "close" => k = "close"
    PROVE  QueueSound(i)'
<1> SUFFICES ASSUME NEW n \in 1 .. Len(queue'[i]) PROVE EventSound(i, n)'
  BY DEF QueueSound
<1>0. /\ Len(queue[i]) \in Nat \ {0} /\ Len(queue'[i]) = Len(queue[i]) - 1
      /\ \A m \in 1 .. Len(queue'[i]) : /\ m + 1 \in 1 .. Len(queue[i])
                                        /\ queue'[i][m] = queue[i][m + 1]
      /\ queue[i][1] = [kind |-> k, db |-> d]
      /\ job[i] = NoJob
  BY DispatchTakes DEF IInv
<1>1. /\ n + 1 \in 1 .. Len(queue[i]) /\ n + 1 # 1 /\ 1 \in 1 .. Len(queue[i])
      /\ queue'[i][n] = queue[i][n + 1]
      /\ queue[i][1] = [kind |-> k, db |-> d]
      /\ job[i] = NoJob
  BY <1>0
<1>2. EventSound(i, n + 1) /\ EventSound(i, 1) /\ queue[i][n + 1] \in Events
  BY <1>1 DEF IInv, QueueSound, TypeOK
<1> DEFINE e == queue[i][n + 1]
<1>3. ASSUME NEW m \in 1 .. Len(queue'[i]), m # n
      PROVE  /\ m + 1 \in 1 .. Len(queue[i]) /\ m + 1 # n + 1
             /\ queue'[i][m] = queue[i][m + 1]
  <2>1. m \in Int /\ n \in Int
    BY <1>0
  <2>2. m + 1 # n + 1
    BY <1>3, <2>1
  <2> QED
    BY <1>0, <2>2
<1>4. e.db \in Databases /\ queue'[i][n] = e
  BY <1>1, <1>2 DEF Events
<1>5. CASE k = "connect"
  <2>1. e.db # d
    BY <1>1, <1>2, <1>5 DEF EventSound
  <2>2. /\ obj'[e.db] = obj[e.db] /\ job'[i].db # e.db
        /\ job'[i] # [kind |-> "close", db |-> e.db]
    BY <1>4, <2>1, ConstantsAssumption
  <2> QED
    BY <1>2, <1>3, <1>4, <2>2 DEF EventSound
<1>6. CASE k # "connect"
  <2>1. obj'[e.db] = obj[e.db]
    BY <1>4, <1>6
  <2>2. obj[e.db].st = "connecting" => e.db # d
    BY <1>1, <1>2, <1>6 DEF EventSound
  <2>3. job'[i].db = e.db => e.db = d
    BY <1>4, ConstantsAssumption
  <2>4. job'[i] = [kind |-> "close", db |-> e.db] => k = "close" /\ e.db = d
    BY <2>3
  <2>5. e.kind = "close" => job'[i] # [kind |-> "close", db |-> e.db]
    <3> SUFFICES ASSUME e.kind = "close", k = "close", e.db = d PROVE FALSE
      BY <2>4
    <3>1. e = queue[i][1]
      BY <1>1, <1>2 DEF Events
    <3> QED
      BY <1>1, <1>2, <3>1 DEF EventSound
  <2> QED
    BY <1>2, <1>3, <1>4, <2>1, <2>2, <2>3, <2>5 DEF EventSound
<1> QED
  BY <1>5, <1>6

\* A step that begins with an event.
LEMMA DispatchStep ==
    ASSUME IInv, NEW i \in Isolates, NEW k, NEW d \in Databases, Dispatch(i, k, d),
           NativeTypeOK', obj' \in [Databases -> Object], job' \in [Isolates -> Job],
           outcome' \in [Databases -> {"none", "ok", "rejected"}],
           \A j \in Isolates \ {i} : call'[j] = call[j] /\ job'[j] = job[j],
           \A c \in Databases : c # d \/ k # "connect" => obj'[c] = obj[c],
           job'[i].db \in {d, Null}, job'[i].kind = "close" => k = "close",
           ObjSound(d)', JobSound(i)'
    PROVE  IInv'
<1>1. /\ queue' \in [Isolates -> Seq(Events)]
      /\ \A j \in Isolates \ {i} : queue'[j] = queue[j]
      /\ Len(queue[i]) \in Nat /\ Len(queue'[i]) = Len(queue[i]) - 1
  BY DispatchTakes DEF IInv
<1>2. ASSUME NEW j \in Isolates PROVE Len(queue'[j]) <= MaxQueue[j]
  <2>1. MaxQueue[j] \in Nat /\ Len(queue[j]) <= MaxQueue[j]
    BY DatabaseAssumption DEF IInv, TypeOK
  <2>2. CASE j = i
    BY <1>1, <2>1, <2>2
  <2>3. CASE j # i
    BY <1>1, <2>1, <2>3
  <2> QED
    BY <2>2, <2>3
<1>3. Typed'
  BY <1>1, <1>2 DEF Typed
<1>4. QueueSound(i)'
  BY DispatchLeavesSound
<1>5. Home[d] = i
  BY DispatchSound
<1> QED
  BY <1>1, <1>3, <1>4, <1>5, OthersStaySound

\* A step inside an event body.
LEMMA JobStep ==
    ASSUME IInv, NEW i \in Isolates, NEW d \in Databases, NEW k,
           k = job[i].kind, k # "none", d = job[i].db,
           NativeTypeOK', obj' \in [Databases -> Object], job' \in [Isolates -> Job],
           outcome' \in [Databases -> {"none", "ok", "rejected"}],
           UNCHANGED queue,
           \A j \in Isolates \ {i} : call'[j] = call[j] /\ job'[j] = job[j],
           \A c \in Databases \ {d} : obj'[c] = obj[c],
           \/ k \in {"connect", "setup", "abort"}
           \/ obj'[d].st = obj[d].st /\ obj'[d].local = obj[d].local
           \/ obj'[d].st = obj[d].st /\ k = "close",
           job'[i].db \in {d, Null}, job'[i].kind = "close" => k = "close",
           ObjSound(d)', JobSound(i)'
    PROVE  IInv'
<1>1. Typed'
  BY DEF Typed, IInv, TypeOK
<1>2. Home[d] = i /\ JobSound(i)
  BY DEF IInv, JobSound
<1>3. QueueSound(i)'
  <2> SUFFICES ASSUME NEW n \in 1 .. Len(queue[i]) PROVE EventSound(i, n)'
    BY DEF QueueSound
  <2>1. EventSound(i, n) /\ queue[i][n] \in Events
    BY DEF IInv, QueueSound, TypeOK
  <2> DEFINE e == queue[i][n]
  <2>2. e.db \in Databases
    BY <2>1 DEF Events
  <2>3. CASE e.db # d
    <3>1. /\ obj'[e.db] = obj[e.db] /\ job'[i].db # e.db
          /\ job'[i] # [kind |-> "close", db |-> e.db]
      BY <2>2, <2>3, ConstantsAssumption
    <3> QED
      BY <2>1, <3>1 DEF EventSound
  <2>4. CASE e.db = d
    <3>1. obj[d].st # "connecting" /\ e.kind # "connect"
      BY <2>1, <2>4 DEF EventSound
    <3>2. k \notin {"connect", "setup", "abort"} /\ obj'[d].st = obj[d].st
      BY <1>2, <3>1 DEF JobSound
    <3>3. CASE e.kind # "close"
      BY <2>1, <2>4, <3>1, <3>2, <3>3 DEF EventSound
    <3>4. CASE e.kind = "close"
      <4>1. k # "close"
        <5>1. job[i] = [kind |-> job[i].kind, db |-> job[i].db]
          BY DEF IInv, TypeOK, Job
        <5> QED
          BY <2>1, <2>4, <3>1, <3>4, <5>1 DEF EventSound
      <4>2. obj'[d].local = obj[d].local /\ job'[i] # [kind |-> "close", db |-> d]
        BY <3>2, <4>1
      <4> QED
        BY <2>1, <2>4, <3>1, <3>2, <4>2 DEF EventSound
    <3> QED
      BY <3>3, <3>4
  <2> QED
    BY <2>3, <2>4
<1> QED
  BY <1>1, <1>2, <1>3, OthersStaySound

-----------------------------------------------------------------------------
(* The invariant: the calls of the class                                   *)

LEMMA InitEstablishesIInv == Init => IInv
<1> SUFFICES ASSUME Init PROVE IInv
  OBVIOUS
<1> USE ConstantsAssumption, DatabaseAssumption DEF Init, NativeInit
<1>1. Typed
  <2>1. NativeTypeOK
    BY DEF NativeTypeOK, Endpoints, Idle, Call, Labels, NoEntry, Unlocked, LockState
  <2>2. Absent \in Object
    BY DEF Absent, Object, Endpoints, Pointers
  <2>3. NoJob \in Job
    BY DEF NoJob, Job
  <2>4. \A i \in Isolates : Len(queue[i]) = 0 /\ MaxQueue[i] \in Nat
    BY EmptySeq
  <2> QED
    BY <2>1, <2>2, <2>3, <2>4 DEF Typed
<1>2. \A d \in Databases : ObjSound(d)
  BY DEF ObjSound, Absent
<1>3. \A i \in Isolates : JobSound(i)
  BY DEF JobSound, NoJob
<1>4. \A i \in Isolates : QueueSound(i)
  BY EmptySeq DEF QueueSound
<1> QED
  BY <1>1, <1>2, <1>3, <1>4 DEF IInv, TypeOK, Typed, ObjSound

\* Queue i gets event e at its end.
Adds(i, e) ==
    /\ queue' \in [Isolates -> Seq(Events)]
    /\ \A j \in Isolates : Len(queue'[j]) <= MaxQueue[j]
    /\ \A j \in Isolates \ {i} : queue'[j] = queue[j]
    /\ Len(queue[i]) \in Nat /\ Len(queue'[i]) = Len(queue[i]) + 1
    /\ \A n \in 1 .. Len(queue'[i]) :
        IF n = Len(queue[i]) + 1 THEN queue'[i][n] = e
        ELSE n \in 1 .. Len(queue[i]) /\ queue'[i][n] = queue[i][n]

LEMMA ScheduleAdds ==
    ASSUME IInv, NEW d \in Databases, NEW k \in {"connect", "query", "use", "txn", "close"},
           Schedule(d, k)
    PROVE  /\ Home[d] \in Isolates
           /\ job[Home[d]] = NoJob /\ call[Home[d]] = Idle
           /\ Adds(Home[d], [kind |-> k, db |-> d])
<1> DEFINE i == Home[d]
           e == [kind |-> k, db |-> d]
<1>0. i \in Isolates
  BY DatabaseAssumption
<1>1. queue \in [Isolates -> Seq(Events)] /\ e \in Events
  BY DEF IInv, TypeOK, Events
<1>2. queue' = [queue EXCEPT ![i] = Append(queue[i], e)] /\ Len(queue[i]) < MaxQueue[i]
  BY DEF Schedule
<1>3. /\ Append(queue[i], e) \in Seq(Events)
      /\ Len(Append(queue[i], e)) = Len(queue[i]) + 1
      /\ Append(queue[i], e)[Len(queue[i]) + 1] = e
      /\ \A n \in 1 .. Len(queue[i]) : Append(queue[i], e)[n] = queue[i][n]
  BY <1>0, <1>1, AppendProperties
<1>4. Len(queue[i]) \in Nat /\ MaxQueue[i] \in Nat
  BY <1>0, <1>1, LenProperties, DatabaseAssumption
<1>5. job[i] = NoJob /\ call[i] = Idle
  BY <1>0 DEF Schedule, Between, IInv, JobSound, NoJob
<1>6. queue'[i] = Append(queue[i], e) /\ \A j \in Isolates \ {i} : queue'[j] = queue[j]
  BY <1>0, <1>1, <1>2
<1>7. ASSUME NEW j \in Isolates PROVE Len(queue'[j]) <= MaxQueue[j]
  <2>1. CASE j = i
    BY <1>2, <1>3, <1>4, <1>6, <2>1
  <2>2. CASE j # i
    BY <1>6, <2>2 DEF IInv, TypeOK
  <2> QED
    BY <2>1, <2>2
<1>8. queue' \in [Isolates -> Seq(Events)]
  BY <1>1, <1>2, <1>3
<1>9. ASSUME NEW n \in 1 .. Len(queue'[i])
      PROVE  IF n = Len(queue[i]) + 1 THEN queue'[i][n] = e
             ELSE n \in 1 .. Len(queue[i]) /\ queue'[i][n] = queue[i][n]
  BY <1>3, <1>4, <1>6
<1> QED
  BY <1>0, <1>3, <1>4, <1>5, <1>6, <1>7, <1>8, <1>9 DEF Adds

\* A call of the class: all it changes besides is its object.
LEMMA ScheduleStep ==
    ASSUME IInv, NEW d \in Databases, NEW k \in {"connect", "query", "use", "txn", "close"},
           Schedule(d, k), UNCHANGED <<native, job, outcome>>,
           obj' \in [Databases -> Object], \A c \in Databases \ {d} : obj'[c] = obj[c],
           ObjSound(d)',
           \/ k = "connect" /\ ~Pending(d) /\ obj'[d].st = "connecting" /\ obj'[d].local = Null
           \/ k = "close" /\ obj[d].st = "open" /\ obj'[d].st = "closed" /\ obj'[d].local # Null
           \/ k \notin {"connect", "close"} /\ obj[d].st = "open" /\ obj'[d] = obj[d]
    PROVE  IInv'
<1> DEFINE i == Home[d]
           new == [kind |-> k, db |-> d]
           last == Len(queue[i]) + 1
<1>0. i \in Isolates /\ job[i] = NoJob /\ job' = job /\ call' = call /\ Adds(i, new)
  BY ScheduleAdds DEF native
<1> HIDE DEF i
<1>1. NativeTypeOK'
  BY DEF IInv, TypeOK, NativeTypeOK, native
<1>2. Typed'
  BY <1>0, <1>1 DEF IInv, TypeOK, Typed, Adds
<1>3. JobSound(i)'
  BY <1>0 DEF IInv, JobSound, NoJob
<1>4. Len(queue[i]) \in Nat /\ Len(queue'[i]) = last
  BY <1>0 DEF Adds
<1>5. ASSUME NEW m \in 1 .. Len(queue[i])
      PROVE  /\ queue[i][m] \in Events /\ EventSound(i, m)
             /\ k = "connect" => queue[i][m].db # d
             /\ k = "close" => queue[i][m].db # d \/ queue[i][m].kind \notin {"connect", "close"}
  <2>1. queue[i][m] \in Events /\ EventSound(i, m)
    BY <1>0 DEF IInv, TypeOK, QueueSound
  <2> QED
    BY <2>1 DEF EventSound, Pending, i
<1>6. QueueSound(i)'
  <2> SUFFICES ASSUME NEW n \in 1 .. Len(queue'[i]) PROVE EventSound(i, n)'
    BY DEF QueueSound
  <2>0. \A m \in 1 .. Len(queue'[i]) :
            IF m = last THEN queue'[i][m] = new
            ELSE m \in 1 .. Len(queue[i]) /\ queue'[i][m] = queue[i][m]
    BY <1>0 DEF Adds
  <2>1. CASE n = last
    <3>1. queue'[i][n] = new /\ Home[d] = i
      BY <2>0, <2>1 DEF i
    <3>2. ASSUME NEW m \in 1 .. Len(queue'[i]), m # n
          PROVE  /\ k = "connect" => queue'[i][m].db # d
                 /\ k = "close" => queue'[i][m] # new
      BY <1>5, <2>0, <2>1, <3>2
    <3> QED
      BY <1>0, <3>1, <3>2, ConstantsAssumption DEF EventSound, NoJob
  <2>2. CASE n # last
    <3> DEFINE e == queue[i][n]
    <3>1. queue'[i][n] = e /\ n \in 1 .. Len(queue[i])
      BY <2>0, <2>2
    <3>2. e \in Events /\ e.db \in Databases /\ EventSound(i, n)
      BY <1>5, <3>1 DEF Events
    <3>3. ASSUME NEW m \in 1 .. Len(queue'[i]), m # n
          PROVE  IF m = last THEN queue'[i][m] = new
                 ELSE m \in 1 .. Len(queue[i]) /\ queue'[i][m] = queue[i][m]
      BY <2>0
    <3>4. CASE e.db # d
      BY <1>0, <3>1, <3>2, <3>3, <3>4 DEF EventSound
    <3>5. CASE e.db = d
      <4>1. k # "connect" /\ obj[d].st # "connecting" /\ obj'[d].st \in {"open", "closed"}
        BY <1>5, <3>1, <3>5, <3>2 DEF EventSound
      <4>2. e.kind # "connect"
        BY <3>2, <3>5, <4>1 DEF EventSound
      <4>3. e.kind # "close"
        BY <1>5, <3>1, <3>2, <3>5, <4>1 DEF EventSound
      <4> QED
        BY <3>1, <3>2, <3>5, <4>1, <4>2, <4>3 DEF EventSound
    <3> QED
      BY <3>4, <3>5
  <2> QED
    BY <2>1, <2>2
<1> QED
  BY <1>0, <1>2, <1>3, <1>6, OthersStaySound DEF i, Adds

LEMMA CallConnectPreserves ==
    ASSUME IInv, NEW d \in Databases, NEW e \in Endpoints, CallConnect(d, e)
    PROVE  IInv'
<1> DEFINE o == [Absent EXCEPT !.st = "connecting", !.at = e]
<1>1. /\ o \in Object /\ o.st = "connecting" /\ o.handle = Null
      /\ o.local = Null /\ ~o.txn
  BY DEF Absent, Object, Pointers
<1>2. /\ obj' \in [Databases -> Object] /\ obj'[d] = o
      /\ \A c \in Databases \ {d} : obj'[c] = obj[c]
  BY <1>1 DEF CallConnect, IInv, TypeOK
<1>3. ObjSound(d)'
  BY <1>1, <1>2 DEF ObjSound
<1> QED
  BY <1>1, <1>2, <1>3, ScheduleStep DEF CallConnect

LEMMA CallOperationPreserves ==
    ASSUME IInv, NEW d \in Databases, NEW k \in {"query", "use", "txn"}, CallOperation(d, k)
    PROVE  IInv'
<1>1. ObjSound(d)'
  BY DEF CallOperation, IInv, ObjSound
<1> QED
  BY <1>1, ScheduleStep DEF CallOperation, IInv, TypeOK

LEMMA CallClosePreserves ==
    ASSUME IInv, NEW d \in Databases, CallClose(d)
    PROVE  IInv'
<1> DEFINE o == [obj[d] EXCEPT !.st = "closed", !.handle = Null, !.local = obj[d].handle]
<1>1. obj[d] \in Object /\ obj[d].handle # Null /\ ObjSound(d)
  BY DEF CallClose, IInv, TypeOK
<1>2. o \in Object
  BY <1>1 DEF Object, Pointers
<1>3. obj' = [obj EXCEPT ![d] = o]
  BY DEF CallClose
<1>4. obj' \in [Databases -> Object] /\ obj'[d] = o /\ \A c \in Databases \ {d} : obj'[c] = obj[c]
  BY <1>2, <1>3 DEF IInv, TypeOK
<1>5. o.st = "closed" /\ o.handle = Null /\ o.local = obj[d].handle
  BY <1>1 DEF Object
<1>6. ObjSound(d)'
  BY <1>4, <1>5 DEF ObjSound
<1> QED
  BY <1>1, <1>4, <1>5, <1>6, ScheduleStep DEF CallClose

-----------------------------------------------------------------------------
(* The invariant: steps that begin with an event                           *)

\* Enter and Leave.
LEMMA EnterTyped ==
    ASSUME job \in [Isolates -> Job], NEW i \in Isolates, NEW d \in Databases,
           NEW k \in {"connect", "setup", "abort", "op", "txn", "commit", "rollback", "close"},
           Enter(i, k, d)
    PROVE  /\ job' \in [Isolates -> Job]
           /\ job'[i] = [kind |-> k, db |-> d] /\ job'[i].kind = k /\ job'[i].db = d
           /\ \A j \in Isolates \ {i} : job'[j] = job[j]
<1>1. [kind |-> k, db |-> d] \in Job
  BY DEF Job
<1> QED
  BY <1>1 DEF Enter

LEMMA LeaveTyped ==
    ASSUME job \in [Isolates -> Job], NEW i \in Isolates, Leave(i)
    PROVE  /\ job' \in [Isolates -> Job]
           /\ job'[i] = NoJob /\ job'[i].kind = "none" /\ job'[i].db = Null
           /\ \A j \in Isolates \ {i} : job'[j] = job[j]
<1>1. NoJob \in Job
  BY DEF NoJob, Job
<1> QED
  BY <1>1 DEF Leave, NoJob

\* A new value for one object.
LEMMA ObjectTyped ==
    ASSUME obj \in [Databases -> Object], NEW d \in Databases, NEW o \in Object,
           obj' = [obj EXCEPT ![d] = o]
    PROVE  /\ obj' \in [Databases -> Object] /\ obj'[d] = o
           /\ \A c \in Databases \ {d} : obj'[c] = obj[c]
OBVIOUS

\* A call that starts.
LEMMA BeginStarts ==
    ASSUME TypeOK, NEW i \in Isolates, NEW l, NEW f, NEW d, NEW e, NEW h, Begin(i, l, f, d, e, h)
    PROVE  /\ call'[i] = [pc |-> l, fn |-> f, db |-> d, at |-> e, ptr |-> h]
           /\ \A j \in Isolates \ {i} : call'[j] = call[j]
BY DEF TypeOK, NativeTypeOK, Begin

\* ... and ends.
LEMMA IdleEnds ==
    ASSUME TypeOK, NEW i \in Isolates, call' = [call EXCEPT ![i] = Idle]
    PROVE  call'[i] = Idle /\ \A j \in Isolates \ {i} : call'[j] = call[j]
BY DEF TypeOK, NativeTypeOK

LEMMA OpTyped ==
    ASSUME TypeOK, NEW i \in Isolates, NEW d \in Databases, NEW h \in Pointers,
           Begin(i, "deref", "op", d, Mem, h), UNCHANGED <<registry, live, endpoint, lock>>
    PROVE  /\ NativeTypeOK' /\ Uses(call'[i], d, h)
           /\ \A j \in Isolates \ {i} : call'[j] = call[j]
<1>1. call' \in [Isolates -> Call]
  BY BeginTyped DEF TypeOK, NativeTypeOK, Labels, Endpoints
<1> QED
  BY <1>1, BeginStarts DEF Uses, TypeOK, NativeTypeOK

LEMMA CloseTyped ==
    ASSUME TypeOK, NEW i \in Isolates, NEW d \in Databases, NEW h \in Pointers, DbClose(i, d, h)
    PROVE  /\ NativeTypeOK' /\ Gives(call'[i], d, h) /\ call'[i].pc = "endpoint" /\ h # Null
           /\ \A j \in Isolates \ {i} : call'[j] = call[j]
<1>1. call' \in [Isolates -> Call]
  BY BeginTyped DEF TypeOK, NativeTypeOK, Labels, Endpoints, DbClose
<1> QED
  BY <1>1, BeginStarts DEF Gives, TypeOK, NativeTypeOK, DbClose

LEMMA RunConnectSharedPreserves ==
    ASSUME IInv, NEW i \in Isolates, NEW d \in Databases, RunConnectShared(i, d)
    PROVE  IInv'
<1> DEFINE p == obj[d].at
           o == [obj[d] EXCEPT !.local = registry[p].ptr]
<1>0. /\ p \in Paths /\ ReuseConnection(i, p) /\ Dispatch(i, "connect", d)
      /\ NativeTypeOK /\ obj[d] \in Object /\ ObjSound(d)
  BY DEF RunConnectShared, IInv, TypeOK
<1>1. /\ registry[p] \in DatabaseHandle /\ NativeTypeOK' /\ call' = call
  <2>1. registry[p] \in DatabaseHandle
    BY <1>0 DEF ReuseConnection, HasActiveConnection, NoEntry, NativeTypeOK
  <2>2. NativeTypeOK'
    BY <1>0, ReuseTyped
  <2> QED
    BY <1>0, <2>1, <2>2 DEF ReuseConnection
<1>2. /\ o \in Object /\ o.st = obj[d].st /\ o.handle = obj[d].handle /\ o.txn = obj[d].txn
      /\ o.local = registry[p].ptr /\ o.local # Null
  BY <1>0, <1>1, ConstantsAssumption DEF Object, Pointers, DatabaseHandle
<1>3. /\ obj' \in [Databases -> Object] /\ obj'[d] = o
      /\ \A c \in Databases \ {d} : obj'[c] = obj[c]
  BY <1>2, ObjectTyped DEF RunConnectShared, IInv, TypeOK
<1>4. Home[d] = i /\ call[i] = Idle /\ obj[d].st = "connecting"
  BY <1>0, DispatchSound
<1>5. /\ job' \in [Isolates -> Job] /\ job'[i].kind = "setup" /\ job'[i].db = d
      /\ \A j \in Isolates \ {i} : job'[j] = job[j]
  BY EnterTyped DEF RunConnectShared, IInv, TypeOK
<1>6. JobSound(i)' /\ ObjSound(d)'
  BY <1>0, <1>1, <1>2, <1>3, <1>4, <1>5 DEF JobSound, ObjSound
<1>7. outcome' \in [Databases -> {"none", "ok", "rejected"}]
  BY DEF RunConnectShared, IInv, TypeOK
<1> QED
  BY <1>0, <1>1, <1>3, <1>5, <1>6, <1>7, DispatchStep

LEMMA RunConnectNewPreserves ==
    ASSUME IInv, NEW i \in Isolates, NEW d \in Databases, RunConnectNew(i, d)
    PROVE  IInv'
<1>1. /\ Dispatch(i, "connect", d) /\ obj[d] \in Object /\ UNCHANGED obj
      /\ Begin(i, "connect", "new", d, obj[d].at, Null)
      /\ UNCHANGED <<registry, live, endpoint, lock>>
  BY DEF RunConnectNew, MissConnection, IInv, TypeOK
<1>2. /\ call'[i] = [pc |-> "connect", fn |-> "new", db |-> d, at |-> obj[d].at, ptr |-> Null]
      /\ \A j \in Isolates \ {i} : call'[j] = call[j]
  BY <1>1, BeginStarts DEF IInv
<1>3. NativeTypeOK'
  <2>1. call' \in [Isolates -> Call]
    BY <1>1, BeginTyped DEF IInv, TypeOK, NativeTypeOK, Labels, Object, Pointers
  <2> QED
    BY <1>1, <2>1 DEF IInv, TypeOK, NativeTypeOK
<1>4. Home[d] = i /\ obj[d].st = "connecting" /\ obj[d].local = Null
  BY <1>1, DispatchSound
<1>5. /\ job' \in [Isolates -> Job] /\ job'[i].kind = "connect" /\ job'[i].db = d
      /\ \A j \in Isolates \ {i} : job'[j] = job[j]
  BY EnterTyped DEF RunConnectNew, IInv, TypeOK
<1>6. JobSound(i)' /\ ObjSound(d)'
  BY <1>1, <1>2, <1>4, <1>5 DEF JobSound, ObjSound, IInv
<1>7. outcome' \in [Databases -> {"none", "ok", "rejected"}]
  BY DEF RunConnectNew, IInv, TypeOK
<1> QED
  BY <1>1, <1>2, <1>3, <1>5, <1>6, <1>7, DispatchStep DEF IInv, TypeOK

\* An operation's event: what queryQL and useNamespace have in common.
LEMMA OpStarts ==
    ASSUME IInv, NEW i \in Isolates, NEW d \in Databases, NEW e \in {"query", "use", "txn"},
           NEW k \in {"op", "txn"},
           Dispatch(i, e, d), Begin(i, "deref", "op", d, Mem, obj[d].handle),
           obj[d].handle # Null, UNCHANGED <<registry, live, endpoint, lock, obj, outcome>>,
           Enter(i, k, d)
    PROVE  IInv'
<1>1. obj[d] \in Object /\ obj[d].handle \in Pointers /\ ObjSound(d)
  BY DEF IInv, TypeOK, Object
<1>2. /\ NativeTypeOK' /\ Uses(call'[i], d, obj[d].handle)
      /\ \A j \in Isolates \ {i} : call'[j] = call[j]
  BY <1>1, OpTyped DEF IInv
<1>3. Home[d] = i /\ obj[d].st = "open"
  BY <1>1, DispatchSound DEF ObjSound
<1>4. /\ job' \in [Isolates -> Job] /\ job'[i].kind = k /\ job'[i].db = d
      /\ \A j \in Isolates \ {i} : job'[j] = job[j]
  <2>1. /\ job \in [Isolates -> Job]
        /\ k \in {"connect", "setup", "abort", "op", "txn", "commit", "rollback", "close"}
    BY DEF IInv, TypeOK
  <2>2. [kind |-> k, db |-> d] \in Job
    BY <2>1 DEF Job
  <2> QED
    BY <2>1, <2>2 DEF Enter
<1>5. JobSound(i)' /\ ObjSound(d)'
  BY <1>1, <1>2, <1>3, <1>4 DEF JobSound, ObjSound
<1> QED
  BY <1>2, <1>4, <1>5, DispatchStep DEF IInv, TypeOK

LEMMA RunQueryPreserves ==
    ASSUME IInv, NEW i \in Isolates, NEW d \in Databases, RunQuery(i, d)
    PROVE  IInv'
<1>1. obj[d].handle # Null
  BY ValidNotNull DEF RunQuery, ValidatedOp, IInv, TypeOK
<1> QED
  BY <1>1, OpStarts DEF RunQuery, ValidatedOp

LEMMA RunUsePreserves ==
    ASSUME IInv, NEW i \in Isolates, NEW d \in Databases, NEW k \in {"use", "txn"},
           RunUse(i, d, k)
    PROVE  IInv'
<1>1. Enter(i, IF k = "txn" THEN "txn" ELSE "op", d)
  BY DEF RunUse
<1> QED
  BY <1>1, OpStarts DEF RunUse, UncheckedOp

\* A body the native side turns away.
LEMMA RejectedPreserves ==
    ASSUME IInv, NEW i \in Isolates, NEW d \in Databases,
           RunQueryRejected(i, d) \/ \E k \in {"use", "txn"} : RunUseOfNull(i, d, k)
    PROVE  IInv'
<1>1. PICK k \in {"query", "use", "txn"} : Dispatch(i, k, d)
  BY DEF RunQueryRejected, RunUseOfNull
<1>2. /\ UNCHANGED <<registry, live, endpoint, lock, call, obj, job>>
      /\ outcome' \in [Databases -> {"none", "ok", "rejected"}]
  BY DEF RunQueryRejected, RunUseOfNull, RejectedOp, native, IInv, TypeOK
<1>3. NativeTypeOK'
  BY <1>2 DEF IInv, TypeOK, NativeTypeOK
<1>4. job[i] = NoJob
  BY <1>1 DEF Dispatch, Between
<1>5. JobSound(i)' /\ ObjSound(d)'
  BY <1>2, <1>4 DEF IInv, JobSound, ObjSound, NoJob
<1> QED
  BY <1>1, <1>2, <1>3, <1>4, <1>5, DispatchStep DEF IInv, TypeOK, NoJob

LEMMA RunClosePreserves ==
    ASSUME IInv, NEW i \in Isolates, NEW d \in Databases, RunClose(i, d)
    PROVE  IInv'
<1>1. /\ Dispatch(i, "close", d) /\ DbClose(i, d, obj[d].local) /\ UNCHANGED <<obj, outcome>>
      /\ obj[d] \in Object /\ obj[d].local \in Pointers
  BY DEF RunClose, IInv, TypeOK, Object
<1>2. /\ NativeTypeOK' /\ Gives(call'[i], d, obj[d].local)
      /\ \A j \in Isolates \ {i} : call'[j] = call[j]
  BY <1>1, CloseTyped DEF IInv
<1>3. Home[d] = i /\ obj[d].st = "closed" /\ obj[d].local # Null
  BY <1>1, DispatchSound
<1>4. /\ job' \in [Isolates -> Job] /\ job'[i].kind = "close" /\ job'[i].db = d
      /\ \A j \in Isolates \ {i} : job'[j] = job[j]
  BY EnterTyped DEF RunClose, IInv, TypeOK
<1>5. JobSound(i)' /\ ObjSound(d)'
  BY <1>1, <1>2, <1>3, <1>4 DEF JobSound, ObjSound, IInv
<1> QED
  BY <1>1, <1>2, <1>4, <1>5, DispatchStep DEF IInv, TypeOK

-----------------------------------------------------------------------------
(* The invariant: steps inside an event body                               *)

\* A call in progress belongs to the body its isolate is in.
LEMMA InCall ==
    ASSUME IInv, NEW i \in Isolates, call[i].pc # "idle"
    PROVE  /\ job[i].kind # "none" /\ job[i].db \in Databases /\ Home[job[i].db] = i
           /\ call[i].db = job[i].db /\ call[i] \in Call /\ JobSound(i)
           /\ call[i].pc \in {"connect", "retry", "register"} => job[i].kind = "connect"
           /\ call[i].pc \in {"endpoint", "unregister", "free", "drain"} =>
                job[i].kind \in {"abort", "close"} /\ call[i].fn = "close"
           /\ call[i].pc = "deref" => job[i].kind \in {"setup", "op", "txn", "commit"}
<1>1. JobSound(i) /\ job[i] \in Job /\ call[i] \in Call
  BY DEF IInv, TypeOK, NativeTypeOK
<1>2. job[i].kind # "none"
  BY <1>1 DEF JobSound, Idle
<1>3. job[i].db \in Databases /\ Home[job[i].db] = i
  BY <1>1, <1>2 DEF JobSound
<1>4. job[i].kind \in {"connect", "setup", "abort", "op", "txn", "commit", "close"}
  BY <1>1, <1>2 DEF JobSound, Idle, Job
<1> QED
  BY <1>1, <1>2, <1>3, <1>4 DEF JobSound, Idle, Uses, Gives

\* One between two calls.
LEMMA InBody ==
    ASSUME IInv, NEW i \in Isolates, job[i].kind # "none"
    PROVE  /\ job[i].db \in Databases /\ Home[job[i].db] = i
           /\ JobSound(i) /\ ObjSound(job[i].db) /\ obj[job[i].db] \in Object
           /\ job[i] \in Job
BY DEF IInv, JobSound, TypeOK

LEMMA ConnectReturnsPreserves ==
    ASSUME IInv, NEW i \in Isolates, ConnectReturns(i)
    PROVE  IInv'
<1>1. PICK d \in Databases :
        /\ d = job[i].db /\ job[i].kind = "connect" /\ JobSound(i) /\ ObjSound(d)
        /\ obj[d] \in Object /\ call[i].pc = "register"
        /\ call[i].ptr # Null /\ call[i].ptr \in Pointers
        /\ obj[d].st = "connecting"
  <2>1. call[i].pc = "register"
    BY DEF ConnectReturns, RegisterConnection, At
  <2>2. job[i].db \in Databases /\ job[i].kind = "connect" /\ JobSound(i) /\ call[i] \in Call
    BY <2>1, InCall
  <2>3. call[i].ptr # Null /\ obj[job[i].db].st = "connecting"
    BY <2>1, <2>2 DEF JobSound
  <2> QED
    BY <2>1, <2>2, <2>3, InBody DEF Call, Pointers
<1> DEFINE o == [obj[d] EXCEPT !.local = call[i].ptr]
<1>2. NativeTypeOK' /\ call'[i] = Idle /\ \A j \in Isolates \ {i} : call'[j] = call[j]
  BY <1>1, RegisterTyped, IdleEnds DEF ConnectReturns, RegisterConnection, IInv, TypeOK
<1>3. /\ o \in Object /\ o.st = "connecting" /\ o.local # Null
      /\ o.handle = obj[d].handle /\ o.txn = obj[d].txn
  BY <1>1 DEF Object
<1>4. /\ obj' \in [Databases -> Object] /\ obj'[d] = o
      /\ \A c \in Databases \ {d} : obj'[c] = obj[c]
  BY <1>1, <1>3, ObjectTyped DEF ConnectReturns, IInv, TypeOK
<1>5. /\ job' \in [Isolates -> Job] /\ job'[i].kind = "setup" /\ job'[i].db = d
      /\ \A j \in Isolates \ {i} : job'[j] = job[j]
  BY <1>1, EnterTyped DEF ConnectReturns, IInv, TypeOK
<1>6. Home[d] = i
  BY <1>1, InBody
<1>7. JobSound(i)'
  BY <1>2, <1>3, <1>4, <1>5, <1>6 DEF JobSound
<1>8. ObjSound(d)'
  BY <1>1, <1>3, <1>4 DEF ObjSound
<1> QED
  BY <1>1, <1>2, <1>4, <1>5, <1>7, <1>8, JobStep DEF ConnectReturns, IInv, TypeOK

LEMMA ConnectThrowsPreserves ==
    ASSUME IInv, NEW i \in Isolates, ConnectThrows(i)
    PROVE  IInv'
<1>1. PICK d \in Databases : d = job[i].db /\ job[i].kind = "connect"
  <2>1. call[i].pc \in {"connect", "retry"}
    BY DEF ConnectThrows, ConnectFailed, At
  <2> QED
    BY <2>1, InCall
<1>2. NativeTypeOK' /\ call'[i] = Idle /\ \A j \in Isolates \ {i} : call'[j] = call[j]
  BY IdleTyped, IdleEnds DEF ConnectThrows, ConnectFailed, IInv, TypeOK, NativeTypeOK
<1>3. Absent \in Object
  BY DEF Absent, Object, Endpoints, Pointers
<1>4. /\ obj' \in [Databases -> Object] /\ obj'[d] = Absent
      /\ \A c \in Databases \ {d} : obj'[c] = obj[c]
  BY <1>1, <1>3, ObjectTyped DEF ConnectThrows, IInv, TypeOK
<1>5. /\ job' \in [Isolates -> Job] /\ job'[i] = NoJob
      /\ job'[i].kind = "none" /\ job'[i].db = Null
      /\ \A j \in Isolates \ {i} : job'[j] = job[j]
  BY LeaveTyped DEF ConnectThrows, IInv, TypeOK
<1>6. JobSound(i)' /\ ObjSound(d)'
  BY <1>1, <1>2, <1>4, <1>5 DEF JobSound, ObjSound, Absent
<1> QED
  BY <1>1, <1>2, <1>4, <1>5, <1>6, JobStep DEF ConnectThrows, IInv, TypeOK

LEMMA SetupPreserves ==
    ASSUME IInv, NEW i \in Isolates, Setup(i)
    PROVE  IInv'
<1>1. PICK d \in Databases :
        /\ d = job[i].db /\ job[i].kind = "setup" /\ JobSound(i) /\ ObjSound(d)
        /\ obj[d].local \in Pointers
  BY InBody DEF Setup, Object
<1>2. /\ NativeTypeOK' /\ Uses(call'[i], d, obj[d].local)
      /\ \A j \in Isolates \ {i} : call'[j] = call[j]
  BY <1>1, OpTyped DEF Setup, UncheckedOp, IInv
<1>3. JobSound(i)' /\ ObjSound(d)'
  BY <1>1, <1>2 DEF Setup, JobSound, ObjSound
<1> QED
  BY <1>1, <1>2, <1>3, JobStep DEF Setup, IInv, TypeOK

\* connect() has its object.
LEMMA ConstructPreserves ==
    ASSUME IInv, NEW i \in Isolates, job[i].kind = "setup", Construct(i),
           NativeTypeOK', call'[i] = Idle, \A j \in Isolates \ {i} : call'[j] = call[j],
           outcome' \in [Databases -> {"none", "ok", "rejected"}]
    PROVE  IInv'
<1>1. PICK d \in Databases :
        /\ d = job[i].db /\ JobSound(i) /\ ObjSound(d) /\ obj[d] \in Object
        /\ obj[d].st = "connecting" /\ obj[d].local # Null
  BY InBody DEF JobSound
<1> DEFINE o == [obj[d] EXCEPT !.st = "open", !.handle = obj[d].local, !.local = Null]
<1>2. /\ o \in Object /\ o.st = "open" /\ o.handle = obj[d].local
      /\ o.local = Null /\ o.txn = obj[d].txn
  BY <1>1 DEF Object, Pointers
<1>3. obj' = [obj EXCEPT ![d] = o]
  BY <1>1 DEF Construct, IInv, TypeOK
<1>4. /\ obj' \in [Databases -> Object] /\ obj'[d] = o
      /\ \A c \in Databases \ {d} : obj'[c] = obj[c]
  BY <1>1, <1>2, <1>3, ObjectTyped DEF IInv, TypeOK
<1>5. /\ job' \in [Isolates -> Job] /\ job'[i] = NoJob
      /\ job'[i].kind = "none" /\ job'[i].db = Null
      /\ \A j \in Isolates \ {i} : job'[j] = job[j]
  BY LeaveTyped DEF Construct, IInv, TypeOK
<1>6. JobSound(i)' /\ ObjSound(d)'
  BY <1>1, <1>2, <1>4, <1>5 DEF JobSound, ObjSound
<1>7. UNCHANGED queue
  BY DEF Construct
<1> QED
  BY <1>1, <1>4, <1>5, <1>6, <1>7, JobStep

\* UseHandle is over.
LEMMA UseEnds ==
    ASSUME IInv, NEW i \in Isolates, UseHandle(i)
    PROVE  /\ NativeTypeOK' /\ call'[i] = Idle /\ \A j \in Isolates \ {i} : call'[j] = call[j]
           /\ call[i].pc = "deref"
BY IdleTyped, IdleEnds DEF UseHandle, At, IInv, TypeOK, NativeTypeOK

LEMMA SetupEndsPreserves ==
    ASSUME IInv, NEW i \in Isolates, SetupSucceeds(i) \/ SetupSkipped(i)
    PROVE  IInv'
<1>1. CASE SetupSucceeds(i)
  BY <1>1, UseEnds, ConstructPreserves DEF SetupSucceeds, IInv, TypeOK
<1>2. CASE SetupSkipped(i)
  <2>1. NativeTypeOK' /\ call' = call
    BY <1>2 DEF SetupSkipped, native, IInv, TypeOK, NativeTypeOK
  <2>2. call[i] = Idle
    <3>1. JobSound(i) /\ call[i].pc = "idle" /\ job[i].kind = "setup"
      BY <1>2, InBody DEF SetupSkipped, At
    <3> QED
      BY <3>1 DEF JobSound, Uses
  <2> QED
    BY <1>2, <2>1, <2>2, ConstructPreserves DEF SetupSkipped, IInv, TypeOK
<1> QED
  BY <1>1, <1>2

LEMMA SetupFailsPreserves ==
    ASSUME IInv, NEW i \in Isolates, SetupFails(i)
    PROVE  IInv'
<1>1. PICK d \in Databases :
        d = job[i].db /\ job[i].kind = "setup" /\ JobSound(i) /\ ObjSound(d)
  BY InBody DEF SetupFails
<1>2. NativeTypeOK' /\ call'[i] = Idle /\ \A j \in Isolates \ {i} : call'[j] = call[j]
  BY UseEnds DEF SetupFails
<1>3. /\ job' \in [Isolates -> Job] /\ job'[i].kind = "abort" /\ job'[i].db = d
      /\ \A j \in Isolates \ {i} : job'[j] = job[j]
  BY <1>1, EnterTyped DEF SetupFails, IInv, TypeOK
<1>4. JobSound(i)' /\ ObjSound(d)'
  BY <1>1, <1>2, <1>3 DEF SetupFails, JobSound, ObjSound
<1> QED
  BY <1>1, <1>2, <1>3, <1>4, JobStep DEF SetupFails, IInv, TypeOK

LEMMA AbortPreserves ==
    ASSUME IInv, NEW i \in Isolates, Abort(i)
    PROVE  IInv'
<1>1. PICK d \in Databases :
        /\ d = job[i].db /\ job[i].kind = "abort" /\ JobSound(i) /\ ObjSound(d)
        /\ obj[d].local \in Pointers
  BY InBody DEF Abort, Object
<1>2. /\ NativeTypeOK' /\ Gives(call'[i], d, obj[d].local)
      /\ \A j \in Isolates \ {i} : call'[j] = call[j]
  BY <1>1, CloseTyped DEF Abort, IInv
<1>3. JobSound(i)' /\ ObjSound(d)'
  BY <1>1, <1>2 DEF Abort, JobSound, ObjSound
<1> QED
  BY <1>1, <1>2, <1>3, JobStep DEF Abort, IInv, TypeOK

LEMMA OpReturnsPreserves ==
    ASSUME IInv, NEW i \in Isolates, OpReturns(i)
    PROVE  IInv'
<1>1. PICK d \in Databases :
        /\ d = job[i].db /\ JobSound(i) /\ ObjSound(d) /\ obj[d] \in Object
        /\ job[i].kind \in {"op", "txn", "commit"} /\ obj[d].st = "open"
  BY InBody DEF OpReturns, JobSound
<1>2. NativeTypeOK' /\ call'[i] = Idle /\ \A j \in Isolates \ {i} : call'[j] = call[j]
  BY UseEnds DEF OpReturns
<1>3. /\ obj' \in [Databases -> Object] /\ obj'[d].st = obj[d].st
      /\ obj'[d].local = obj[d].local /\ obj'[d].handle = obj[d].handle
      /\ \A c \in Databases \ {d} : obj'[c] = obj[c]
  <2>1. CASE obj' = obj
    BY <2>1 DEF IInv, TypeOK
  <2>2. CASE obj' = [obj EXCEPT ![d].txn = obj[d].txn \/ job[i].kind = "txn"]
    <3> DEFINE o == [obj[d] EXCEPT !.txn = obj[d].txn \/ job[i].kind = "txn"]
    <3>1. /\ o \in Object /\ o.st = obj[d].st /\ o.local = obj[d].local
          /\ o.handle = obj[d].handle
      BY <1>1 DEF Object
    <3>2. obj' = [obj EXCEPT ![d] = o]
      BY <2>2
    <3> QED
      BY <3>1, <3>2, ObjectTyped DEF IInv, TypeOK
  <2> QED
    BY <1>1, <2>1, <2>2 DEF OpReturns
<1>4. /\ job' \in [Isolates -> Job] /\ job'[i] = NoJob
      /\ job'[i].kind = "none" /\ job'[i].db = Null
      /\ \A j \in Isolates \ {i} : job'[j] = job[j]
  BY LeaveTyped DEF OpReturns, IInv, TypeOK
<1>5. JobSound(i)'
  BY <1>2, <1>4 DEF JobSound
<1>6. ObjSound(d)'
  BY <1>1, <1>3 DEF ObjSound
<1>7. UNCHANGED queue /\ outcome' \in [Databases -> {"none", "ok", "rejected"}]
  BY DEF OpReturns, IInv, TypeOK
<1> QED
  BY <1>1, <1>2, <1>3, <1>4, <1>5, <1>6, <1>7, JobStep

LEMMA CommitFailsPreserves ==
    ASSUME IInv, NEW i \in Isolates, CommitFails(i)
    PROVE  IInv'
<1>1. PICK d \in Databases :
        d = job[i].db /\ job[i].kind = "commit" /\ JobSound(i) /\ ObjSound(d)
  BY InBody DEF CommitFails
<1>2. NativeTypeOK' /\ call'[i] = Idle /\ \A j \in Isolates \ {i} : call'[j] = call[j]
  BY UseEnds DEF CommitFails
<1>3. /\ job' \in [Isolates -> Job] /\ job'[i].kind = "rollback" /\ job'[i].db = d
      /\ \A j \in Isolates \ {i} : job'[j] = job[j]
  BY <1>1, EnterTyped DEF CommitFails, IInv, TypeOK
<1>4. JobSound(i)' /\ ObjSound(d)'
  BY <1>1, <1>2, <1>3 DEF CommitFails, JobSound, ObjSound
<1> QED
  BY <1>1, <1>2, <1>3, <1>4, JobStep DEF CommitFails, IInv, TypeOK

LEMMA RollBackPreserves ==
    ASSUME IInv, NEW i \in Isolates, RollBack(i)
    PROVE  IInv'
<1>1. PICK d \in Databases :
        /\ d = job[i].db /\ job[i].kind = "rollback" /\ JobSound(i) /\ ObjSound(d)
        /\ obj[d].handle \in Pointers
  BY InBody DEF RollBack, Object
<1>2. /\ NativeTypeOK' /\ Uses(call'[i], d, obj[d].handle)
      /\ \A j \in Isolates \ {i} : call'[j] = call[j]
  BY <1>1, OpTyped DEF RollBack, UncheckedOp, IInv
<1>3. /\ job' \in [Isolates -> Job] /\ job'[i].kind = "op" /\ job'[i].db = d
      /\ \A j \in Isolates \ {i} : job'[j] = job[j]
  BY <1>1, EnterTyped DEF RollBack, IInv, TypeOK
<1>4. JobSound(i)' /\ ObjSound(d)'
  BY <1>1, <1>2, <1>3 DEF RollBack, JobSound, ObjSound
<1> QED
  BY <1>1, <1>2, <1>3, <1>4, JobStep DEF RollBack, IInv, TypeOK

LEMMA CloseReturnsPreserves ==
    ASSUME IInv, NEW i \in Isolates, CloseReturns(i)
    PROVE  IInv'
<1>1. PICK d \in Databases :
        /\ d = job[i].db /\ job[i].kind \in {"abort", "close"} /\ call[i].fn = "close"
        /\ JobSound(i) /\ ObjSound(d) /\ obj[d] \in Object
  <2>1. call[i].pc \in {"unregister", "drain"}
    BY DEF CloseReturns, KeepConnection, DrainRuntime, At
  <2> QED
    BY <2>1, InCall, InBody
<1>2. /\ NativeTypeOK' /\ call'[i] = Idle
      /\ \A j \in Isolates \ {i} : call'[j] = call[j]
  <2>1. CASE KeepConnection(i)
    BY <2>1, KeepTyped, IdleEnds DEF KeepConnection, IInv, TypeOK
  <2>2. CASE DrainRuntime(i)
    <3>1. call' = [call EXCEPT ![i] = Idle] /\ UNCHANGED <<registry, live, endpoint, lock>>
      BY <1>1, <2>2 DEF DrainRuntime, DrainReturns
    <3>2. call' \in [Isolates -> Call]
      BY <3>1, IdleTyped DEF IInv, TypeOK, NativeTypeOK
    <3>3. NativeTypeOK'
      BY <3>1, <3>2 DEF IInv, TypeOK, NativeTypeOK
    <3> QED
      BY <3>1, <3>3, IdleEnds DEF IInv
  <2> QED
    BY <2>1, <2>2 DEF CloseReturns
<1> DEFINE o == IF job[i].kind = "abort" THEN Absent ELSE [obj[d] EXCEPT !.local = Null]
<1>3. /\ o \in Object /\ o.local = Null
      /\ job[i].kind = "abort" => o = Absent
      /\ job[i].kind = "close" =>
            o.st = obj[d].st /\ o.handle = obj[d].handle /\ o.txn = obj[d].txn
  <2>1. Absent \in Object /\ Absent.local = Null
    BY DEF Absent, Object, Endpoints, Pointers
  <2> QED
    BY <1>1, <2>1 DEF Object, Pointers
<1>4. /\ obj' \in [Databases -> Object] /\ obj'[d] = o
      /\ \A c \in Databases \ {d} : obj'[c] = obj[c]
  BY <1>1, <1>3, ObjectTyped DEF CloseReturns, AfterClose, IInv, TypeOK
<1>5. /\ job' \in [Isolates -> Job] /\ job'[i] = NoJob
      /\ job'[i].kind = "none" /\ job'[i].db = Null
      /\ \A j \in Isolates \ {i} : job'[j] = job[j]
  BY LeaveTyped DEF CloseReturns, AfterClose, IInv, TypeOK
<1>6. JobSound(i)'
  BY <1>2, <1>5 DEF JobSound
<1>7. ObjSound(d)'
  BY <1>1, <1>3, <1>4 DEF ObjSound, Absent
<1>8. UNCHANGED queue /\ outcome' \in [Databases -> {"none", "ok", "rejected"}]
  BY DEF CloseReturns, IInv, TypeOK
<1> HIDE DEF o
<1> QED
  BY <1>1, <1>2, <1>3, <1>4, <1>5, <1>6, <1>7, <1>8, JobStep

LEMMA CallProceedsPreserves ==
    ASSUME IInv, NEW i \in Isolates, CallProceeds(i)
    PROVE  IInv'
<1>0. call[i].pc # "idle" /\ UNCHANGED <<obj, queue, job, outcome>>
  BY DEF CallProceeds, Connect, ConnectLocked, ReadEndpoint, RemoveConnection, FreeHandle,
         TasksEnd, Polls, At
<1>1. PICK d \in Databases :
        /\ d = job[i].db /\ call[i].db = d /\ job[i].kind # "none" /\ JobSound(i) /\ ObjSound(d)
        /\ call[i] \in Call
  BY <1>0, InCall, InBody
<1> SUFFICES /\ NativeTypeOK' /\ JobSound(i)'
             /\ \A j \in Isolates \ {i} : call'[j] = call[j]
  <2>1. ObjSound(d)'
    BY <1>0, <1>1 DEF ObjSound
  <2> QED
    BY <1>0, <1>1, <2>1, JobStep DEF IInv, TypeOK
<1>2. ASSUME NEW h \in Handles, Connect(i, h)
      PROVE  /\ NativeTypeOK' /\ JobSound(i)'
             /\ \A j \in Isolates \ {i} : call'[j] = call[j]
  <2>1. NativeTypeOK'
    BY <1>2, ConnectTyped DEF IInv, TypeOK
  <2>2. /\ call'[i] = [pc |-> "register", fn |-> "new", db |-> call[i].db,
                       at |-> call[i].at, ptr |-> h]
        /\ \A j \in Isolates \ {i} : call'[j] = call[j]
    BY <1>2, BeginStarts DEF IInv, Connect
  <2>3. job[i].kind = "connect" /\ h # Null
    BY <1>0, <1>2, InCall, ConstantsAssumption DEF Connect, At
  <2> QED
    BY <1>0, <1>1, <2>1, <2>2, <2>3 DEF JobSound
<1>3. CASE ConnectLocked(i)
  <2>1. call' = [call EXCEPT ![i].pc = "retry"] /\ UNCHANGED <<registry, live, endpoint, lock>>
        /\ call[i].pc = "connect"
    BY <1>3 DEF ConnectLocked, At
  <2>2. NativeTypeOK'
    <3>1. call' \in [Isolates -> Call]
      BY <2>1, MovesTyped DEF IInv, TypeOK, NativeTypeOK, Labels
    <3> QED
      BY <2>1, <3>1 DEF IInv, TypeOK, NativeTypeOK
  <2>3. /\ call'[i].pc = "retry" /\ call'[i].fn = call[i].fn /\ call'[i].db = call[i].db
        /\ call'[i].at = call[i].at /\ call'[i].ptr = call[i].ptr
        /\ \A j \in Isolates \ {i} : call'[j] = call[j]
    BY <1>1, <2>1 DEF IInv, TypeOK, NativeTypeOK, Call
  <2>4. job[i].kind = "connect"
    BY <1>0, <2>1, InCall
  <2> QED
    BY <1>0, <1>1, <2>2, <2>3, <2>4 DEF JobSound
<1>4. CASE ReadEndpoint(i)
  <2>1. /\ call[i].pc = "endpoint" /\ job[i].kind \in {"abort", "close"}
        /\ Gives(call[i], d, obj[d].local) /\ obj[d].local # Null
    <3>1. call[i].pc = "endpoint"
      BY <1>4 DEF ReadEndpoint, At
    <3>2. job[i].kind \in {"abort", "close"}
      BY <1>0, <3>1, InCall
    <3> QED
      BY <1>1, <3>1, <3>2 DEF JobSound, Idle
  <2>2. NativeTypeOK'
    BY <1>4, <2>1, ReadEndpointTyped DEF IInv, TypeOK, Gives
  <2>3. /\ call'[i].pc = "unregister" /\ call'[i].fn = "close" /\ call'[i].db = d
        /\ call'[i].ptr = call[i].ptr
        /\ \A j \in Isolates \ {i} : call'[j] = call[j]
    <3>1. call' = [call EXCEPT ![i] = [pc |-> "unregister", fn |-> "close", db |-> call[i].db,
                     at |-> endpoint[call[i].ptr], ptr |-> call[i].ptr]]
      BY <1>4 DEF ReadEndpoint, Begin
    <3> QED
      BY <1>1, <3>1 DEF IInv, TypeOK, NativeTypeOK
  <2> QED
    BY <1>0, <1>1, <2>1, <2>2, <2>3 DEF JobSound, Gives
<1>5. CASE RemoveConnection(i) \/ FreeHandle(i)
  <2>1. PICK l \in {"free", "drain"} : call' = [call EXCEPT ![i].pc = l]
    BY <1>5 DEF RemoveConnection, FreeHandle
  <2>2. /\ job[i].kind \in {"abort", "close"} /\ Gives(call[i], d, obj[d].local)
    <3>1. call[i].pc \in {"unregister", "free"}
      BY <1>5 DEF RemoveConnection, FreeHandle, At
    <3>2. job[i].kind \in {"abort", "close"}
      BY <1>0, <3>1, InCall
    <3> QED
      BY <1>1, <3>1, <3>2 DEF JobSound, Idle
  <2>3. NativeTypeOK'
    <3>1. CASE RemoveConnection(i)
      BY <3>1, RemoveTyped DEF IInv, TypeOK
    <3>2. CASE FreeHandle(i)
      BY <3>2, FreeTyped DEF IInv, TypeOK
    <3> QED
      BY <1>5, <3>1, <3>2
  <2>4. /\ call'[i].pc = l /\ call'[i].fn = call[i].fn /\ call'[i].db = call[i].db
        /\ call'[i].ptr = call[i].ptr
        /\ \A j \in Isolates \ {i} : call'[j] = call[j]
    BY <1>1, <2>1 DEF IInv, TypeOK, NativeTypeOK, Call
  <2> QED
    BY <1>0, <1>1, <2>2, <2>3, <2>4 DEF JobSound, Gives
<1>6. ASSUME NEW p \in Paths, TasksEnd(i, p)
      PROVE  /\ NativeTypeOK' /\ JobSound(i)'
             /\ \A j \in Isolates \ {i} : call'[j] = call[j]
  <2>1. NativeTypeOK'
    BY <1>6, TasksEndTyped DEF IInv, TypeOK
  <2>2. call' = call
    BY <1>6 DEF TasksEnd
  <2> QED
    BY <1>0, <1>1, <2>1, <2>2 DEF JobSound
<1> QED
  BY <1>2, <1>3, <1>4, <1>5, <1>6 DEF CallProceeds

\* An isolate between two calls.
LEMMA IdleCall ==
    ASSUME IInv, NEW i \in Isolates, call[i].pc = "idle"
    PROVE  call[i] = Idle
<1>1. JobSound(i) /\ job[i].kind \in
        {"none", "connect", "setup", "abort", "op", "txn", "commit", "rollback", "close"}
  BY DEF IInv, TypeOK, Job
<1>2. ~Uses(call[i], job[i].db, obj[job[i].db].local) /\ ~Uses(call[i], job[i].db, obj[job[i].db].handle)
  BY DEF Uses
<1>3. ~Gives(call[i], job[i].db, obj[job[i].db].local)
  BY DEF Gives
<1> QED
  BY <1>1, <1>2, <1>3 DEF JobSound

\* An event that waits.
LEMMA WaitingEvent ==
    ASSUME IInv, NEW i \in Isolates, NEW n \in 1 .. Len(queue[i])
    PROVE  /\ EventSound(i, n) /\ queue[i][n] \in Events
           /\ queue[i][n].db \in Databases /\ Home[queue[i][n].db] = i
<1>1. EventSound(i, n) /\ queue[i] \in Seq(Events)
  BY DEF IInv, QueueSound, TypeOK
<1>2. queue[i][n] \in Events
  BY <1>1
<1> QED
  BY <1>1, <1>2 DEF EventSound, Events

-----------------------------------------------------------------------------
(* The invariant: the end of a transaction, hot restart, every step        *)

LEMMA EndTransactionPreserves ==
    ASSUME IInv, NEW i \in Isolates, NEW d \in Databases, EndTransaction(i, d)
    PROVE  IInv'
<1> DEFINE o == [obj[d] EXCEPT !.txn = FALSE]
<1>1. /\ Home[d] = i /\ job[i] = NoJob /\ call[i] = Idle
      /\ obj[d] \in Object /\ ObjSound(d) /\ obj[d].txn /\ obj[d].handle \in Pointers
      /\ UNCHANGED <<queue, outcome>>
  BY DEF EndTransaction, Between, IInv, JobSound, TypeOK, NoJob, Object
<1>2. /\ o \in Object /\ o.st = obj[d].st /\ o.local = obj[d].local
      /\ o.handle = obj[d].handle /\ ~o.txn
  BY <1>1 DEF Object
<1>3. /\ obj' \in [Databases -> Object] /\ obj'[d] = o
      /\ \A c \in Databases \ {d} : obj'[c] = obj[c]
  BY <1>2, ObjectTyped DEF EndTransaction, IInv, TypeOK
<1>4. ObjSound(d)'
  BY <1>1, <1>2, <1>3 DEF ObjSound
<1>5. /\ NativeTypeOK' /\ job' \in [Isolates -> Job]
      /\ job'[i].kind # "close" /\ (job'[i].db \in {d, Null})
      /\ \A j \in Isolates \ {i} : call'[j] = call[j] /\ job'[j] = job[j]
      /\ JobSound(i)'
  <2>1. CASE obj[d].handle = Null
    <3>1. UNCHANGED <<native, job>>
      BY <2>1 DEF EndTransaction
    <3>2. NativeTypeOK' /\ call' = call
      BY <3>1 DEF native, IInv, TypeOK, NativeTypeOK
    <3> QED
      BY <1>1, <3>1, <3>2 DEF IInv, TypeOK, JobSound, NoJob
  <2>2. CASE obj[d].handle # Null
    <3>1. UncheckedOp(i, d, obj[d].handle)
      BY <2>2 DEF EndTransaction
    <3>2. PICK k \in {"commit", "op"} : Enter(i, k, d)
      BY <2>2 DEF EndTransaction
    <3>3. /\ NativeTypeOK' /\ Uses(call'[i], d, obj[d].handle)
          /\ \A j \in Isolates \ {i} : call'[j] = call[j]
      BY <1>1, <3>1, OpTyped DEF UncheckedOp, IInv
    <3>4. [kind |-> k, db |-> d] \in Job
      BY DEF Job
    <3>5. /\ job' \in [Isolates -> Job] /\ job'[i].kind = k /\ job'[i].db = d
          /\ \A j \in Isolates \ {i} : job'[j] = job[j]
      BY <3>2, <3>4 DEF Enter, IInv, TypeOK
    <3>6. obj[d].st = "open"
      BY <1>1, <2>2 DEF ObjSound
    <3>7. JobSound(i)'
      <4>1. /\ obj'[d].st = "open" /\ Uses(call'[i], d, obj'[d].handle)
            /\ job'[i].kind \in {"commit", "op"}
        BY <1>2, <1>3, <3>3, <3>5, <3>6
      <4> QED
        BY <1>1, <3>5, <4>1 DEF JobSound
    <3> QED
      BY <3>3, <3>5, <3>7
  <2> QED
    BY <2>1, <2>2
<1>6. Typed'
  BY <1>1, <1>3, <1>5 DEF IInv, TypeOK, Typed
<1>7. QueueSound(i)'
  <2> SUFFICES ASSUME NEW n \in 1 .. Len(queue[i]) PROVE EventSound(i, n)'
    BY <1>1 DEF QueueSound
  <2>1. EventSound(i, n) /\ queue[i][n].db \in Databases
    BY WaitingEvent
  <2>2. /\ obj'[queue[i][n].db].st = obj[queue[i][n].db].st
        /\ obj'[queue[i][n].db].local = obj[queue[i][n].db].local
    BY <1>2, <1>3, <2>1
  <2>3. /\ obj[queue[i][n].db].st = "connecting" => job'[i].db # queue[i][n].db
        /\ job'[i] # [kind |-> "close", db |-> queue[i][n].db]
    <3>1. obj[d].st # "connecting"
      BY <1>1 DEF ObjSound
    <3> QED
      BY <1>5, <2>1, <3>1, ConstantsAssumption
  <2> QED
    BY <1>1, <2>1, <2>2, <2>3 DEF EventSound
<1> QED
  BY <1>1, <1>3, <1>4, <1>5, <1>6, <1>7, OthersStaySound

LEMMA HotRestartPreserves ==
    ASSUME IInv, NEW i \in Isolates, HotRestart(i)
    PROVE  IInv'
<1> DEFINE p(c) == IF obj[c].handle # Null THEN obj[c].handle ELSE obj[c].local
           lost(c) == [Absent EXCEPT !.st = "lost", !.at = obj[c].at, !.handle = p(c)]
           o(c) == IF Home[c] # i \/ obj[c].st = "lost" THEN obj[c]
                   ELSE IF p(c) = Null THEN Absent ELSE lost(c)
<1>1. /\ obj' = [c \in Databases |-> o(c)]
      /\ queue' = [queue EXCEPT ![i] = <<>>]
      /\ Leave(i) /\ call[i].pc = "idle"
      /\ UNCHANGED <<registry, live, endpoint, lock, call, outcome>>
  BY DEF HotRestart, At, native
<1>2. ASSUME NEW c \in Databases PROVE o(c) \in Object
  <2>1. obj[c] \in Object /\ p(c) \in Pointers /\ obj[c].at \in Endpoints
    BY DEF IInv, TypeOK, Object
  <2>2. Absent \in Object
    BY DEF Absent, Object, Endpoints, Pointers
  <2>3. lost(c) \in Object
    BY <2>1 DEF Absent, Object, Pointers
  <2> QED
    BY <2>1, <2>2, <2>3
<1>3. ASSUME NEW c \in Databases PROVE ObjSound(c)'
  <2>1. obj'[c] = o(c) /\ ObjSound(c)
    BY <1>1 DEF IInv
  <2>2. CASE Home[c] # i \/ obj[c].st = "lost"
    BY <2>1, <2>2 DEF ObjSound
  <2>3. CASE ~(Home[c] # i \/ obj[c].st = "lost") /\ p(c) = Null
    BY <2>1, <2>3 DEF ObjSound, Absent
  <2>4. CASE ~(Home[c] # i \/ obj[c].st = "lost") /\ p(c) # Null
    <3>1. /\ lost(c).st = "lost" /\ lost(c).handle = p(c)
          /\ lost(c).local = Null /\ ~lost(c).txn
      BY DEF Absent
    <3>2. obj'[c] = lost(c)
      BY <2>1, <2>4
    <3> QED
      BY <2>4, <3>1, <3>2 DEF ObjSound
  <2> QED
    BY <2>2, <2>3, <2>4
<1>4. /\ job' \in [Isolates -> Job] /\ job'[i] = NoJob
      /\ \A j \in Isolates \ {i} : job'[j] = job[j]
  BY <1>1, LeaveTyped DEF IInv, TypeOK
<1>5. /\ queue' \in [Isolates -> Seq(Events)] /\ queue'[i] = <<>>
      /\ \A j \in Isolates \ {i} : queue'[j] = queue[j]
  BY <1>1, EmptySeq DEF IInv, TypeOK
<1>6. ASSUME NEW j \in Isolates PROVE Len(queue'[j]) <= MaxQueue[j]
  <2>1. CASE j = i
    BY <1>5, <2>1, EmptySeq, DatabaseAssumption
  <2>2. CASE j # i
    BY <1>5, <2>2 DEF IInv, TypeOK
  <2> QED
    BY <2>1, <2>2
<1>7. obj' \in [Databases -> Object]
  BY <1>1, <1>2
<1>8. Typed'
  BY <1>1, <1>4, <1>5, <1>6, <1>7 DEF IInv, TypeOK, Typed, NativeTypeOK
<1>9. ASSUME NEW j \in Isolates PROVE JobSound(j)'
  <2>1. CASE j = i
    <3>1. call[i] = Idle
      BY <1>1, IdleCall
    <3>2. call'[i] = Idle /\ job'[i].kind = "none"
      <4>1. call' = call
        BY <1>1
      <4> QED
        BY <1>4, <3>1, <4>1 DEF NoJob
    <3> QED
      BY <1>4, <2>1, <3>2 DEF JobSound
  <2>2. CASE j # i
    <3>1. JobSound(j) /\ call'[j] = call[j] /\ job'[j] = job[j]
      BY <1>1, <1>4, <2>2 DEF IInv
    <3>2. CASE job[j].kind = "none"
      BY <3>1, <3>2 DEF JobSound
    <3>3. CASE job[j].kind # "none"
      <4>1. job[j].db \in Databases /\ Home[job[j].db] = j
        BY <3>1, <3>3 DEF JobSound
      <4>2. obj'[job[j].db] = obj[job[j].db]
        BY <1>1, <2>2, <4>1
      <4> QED
        BY <3>1, <4>2 DEF JobSound
    <3> QED
      BY <3>2, <3>3
  <2> QED
    BY <2>1, <2>2
<1>10. ASSUME NEW j \in Isolates PROVE QueueSound(j)'
  <2>1. CASE j = i
    BY <1>5, <2>1, EmptySeq DEF QueueSound
  <2>2. CASE j # i
    <3> SUFFICES ASSUME NEW n \in 1 .. Len(queue[j]) PROVE EventSound(j, n)'
      BY <1>5, <2>2 DEF QueueSound
    <3>1. EventSound(j, n) /\ queue[j][n].db \in Databases /\ Home[queue[j][n].db] # i
      BY <2>2, WaitingEvent
    <3>2. obj'[queue[j][n].db] = obj[queue[j][n].db]
      BY <1>1, <3>1
    <3> QED
      BY <1>4, <1>5, <2>2, <3>1, <3>2 DEF EventSound
  <2> QED
    BY <2>1, <2>2
<1> QED
  BY <1>3, <1>8, <1>9, <1>10 DEF IInv, Typed, TypeOK, ObjSound

LEMMA StutterPreserves == IInv /\ UNCHANGED vars => IInv'
<1> SUFFICES ASSUME IInv, UNCHANGED vars PROVE IInv'
  OBVIOUS
<1>1. UNCHANGED <<registry, live, endpoint, lock, call, obj, queue, job, outcome>>
  BY DEF vars, native
<1>2. TypeOK' /\ \A d \in Databases : ObjSound(d)'
  BY <1>1 DEF IInv, TypeOK, NativeTypeOK, ObjSound
<1>3. ASSUME NEW i \in Isolates PROVE JobSound(i)' /\ QueueSound(i)'
  BY <1>1 DEF IInv, JobSound, QueueSound, EventSound
<1> QED
  BY <1>2, <1>3 DEF IInv

LEMMA NextPreserves == IInv /\ [Next]_vars => IInv'
<1> SUFFICES ASSUME IInv, [Next]_vars PROVE IInv'
  OBVIOUS
<1>1. ASSUME NEW i \in Isolates, EventLoop(i) PROVE IInv'
  <2>1. ASSUME NEW d \in Databases,
               \/ RunConnectShared(i, d) \/ RunConnectNew(i, d)
               \/ RunQuery(i, d) \/ RunQueryRejected(i, d)
               \/ \E kind \in {"use", "txn"} : RunUse(i, d, kind) \/ RunUseOfNull(i, d, kind)
               \/ RunClose(i, d)
        PROVE  IInv'
    BY <2>1, RunConnectSharedPreserves, RunConnectNewPreserves, RunQueryPreserves,
       RejectedPreserves, RunUsePreserves, RunClosePreserves
  <2>2. ASSUME \/ ConnectReturns(i) \/ ConnectThrows(i)
               \/ Setup(i) \/ SetupSucceeds(i) \/ SetupSkipped(i) \/ SetupFails(i) \/ Abort(i)
        PROVE  IInv'
    BY <2>2, ConnectReturnsPreserves, ConnectThrowsPreserves, SetupPreserves,
       SetupEndsPreserves, SetupFailsPreserves, AbortPreserves
  <2>3. ASSUME \/ OpReturns(i) \/ CommitFails(i) \/ RollBack(i)
               \/ CloseReturns(i) \/ CallProceeds(i)
        PROVE  IInv'
    BY <2>3, OpReturnsPreserves, CommitFailsPreserves, RollBackPreserves,
       CloseReturnsPreserves, CallProceedsPreserves
  <2> QED
    BY <1>1, <2>1, <2>2, <2>3 DEF EventLoop
<1>2. ASSUME NEW d \in Databases, Application(d) PROVE IInv'
  <2>1. Home[d] \in Isolates
    BY DatabaseAssumption
  <2> QED
    BY <1>2, <2>1, CallConnectPreserves, CallOperationPreserves, CallClosePreserves,
       EndTransactionPreserves DEF Application
<1> QED
  BY <1>1, <1>2, HotRestartPreserves, StutterPreserves DEF Next

THEOREM Invariance == Spec => []IInv
BY InitEstablishesIInv, NextPreserves, PTL DEF Spec

\* The class has its objects, its event queues and its native calls in the
\* states the model gives them, for any number of each.
THEOREM TypeCorrect == Spec => []TypeOK
<1>1. IInv => TypeOK
  BY DEF IInv
<1> QED
  BY <1>1, Invariance, PTL

-----------------------------------------------------------------------------
(* After close()                                                           *)

\* The only step that makes something of a closed object again is a new
\* connect() for it, and that step is no native call.
LEMMA StaysClosed ==
    ASSUME IInv, Next, NEW d \in Databases, obj[d].st = "closed"
    PROVE  obj'[d].st \notin {"connecting", "open"} \/ UNCHANGED call
<1>0. obj \in [Databases -> Object] /\ obj[d] \in Object
  BY DEF IInv, TypeOK
<1>1. ASSUME NEW i \in Isolates, EventLoop(i)
      PROVE  obj'[d].st \notin {"connecting", "open"}
  <2>1. ASSUME NEW c \in Databases, RunConnectShared(i, c) PROVE obj'[d].st = "closed"
    BY <1>0, <2>1 DEF RunConnectShared, Object
  <2>2. ASSUME NEW c \in Databases,
               \/ RunConnectNew(i, c) \/ RunQuery(i, c) \/ RunQueryRejected(i, c)
               \/ \E kind \in {"use", "txn"} : RunUse(i, c, kind) \/ RunUseOfNull(i, c, kind)
               \/ RunClose(i, c)
        PROVE  obj' = obj
    BY <2>2 DEF RunConnectNew, RunQuery, RunQueryRejected, RunUse, RunUseOfNull, RunClose
  <2>3. ASSUME Setup(i) \/ SetupFails(i) \/ Abort(i) \/ CommitFails(i) \/ RollBack(i) \/ CallProceeds(i)
        PROVE  obj' = obj
    BY <2>3 DEF Setup, SetupFails, Abort, CommitFails, RollBack, CallProceeds
  <2>4. CASE ConnectReturns(i)
    BY <1>0, <2>4 DEF ConnectReturns, Object
  <2>5. CASE ConnectThrows(i)
    BY <1>0, <2>5 DEF ConnectThrows, Absent
  <2>6. CASE SetupSucceeds(i) \/ SetupSkipped(i)
    <3>1. Construct(i) /\ job[i].kind = "setup"
      BY <2>6 DEF SetupSucceeds, SetupSkipped
    <3>2. job[i].db # d
      BY <3>1, InBody DEF JobSound
    <3>3. obj'[d] = obj[d]
      BY <1>0, <3>1, <3>2 DEF Construct
    <3> QED
      BY <3>3
  <2>7. CASE OpReturns(i)
    <3>1. CASE obj' = obj
      BY <3>1
    <3>2. CASE obj' = [obj EXCEPT ![job[i].db].txn = obj[job[i].db].txn \/ job[i].kind = "txn"]
      BY <1>0, <3>2 DEF Object
    <3> QED
      BY <2>7, <3>1, <3>2 DEF OpReturns
  <2>8. CASE CloseReturns(i)
    <3> DEFINE c == job[i].db
               o == IF job[i].kind = "abort" THEN Absent ELSE [obj[c] EXCEPT !.local = Null]
    <3>1. obj' = [obj EXCEPT ![c] = o]
      BY <2>8 DEF CloseReturns, AfterClose
    <3>2. CASE c # d
      BY <1>0, <3>1, <3>2
    <3>3. CASE c = d
      <4>1. o.st \in {"absent", "closed"}
        BY <1>0, <3>3 DEF Absent, Object
      <4>2. obj'[d] = o
        BY <1>0, <3>1, <3>3
      <4> QED
        BY <4>1, <4>2
    <3> QED
      BY <3>2, <3>3
  <2> QED
    BY <1>1, <2>1, <2>2, <2>3, <2>4, <2>5, <2>6, <2>7, <2>8 DEF EventLoop
<1>2. ASSUME NEW i \in Isolates, HotRestart(i) PROVE UNCHANGED call
  BY <1>2 DEF HotRestart, native
<1>3. ASSUME NEW c \in Databases,
             \/ \E e \in Endpoints : CallConnect(c, e)
             \/ \E kind \in {"query", "use", "txn"} : CallOperation(c, kind)
             \/ CallClose(c)
      PROVE  UNCHANGED call
  BY <1>3 DEF CallConnect, CallOperation, CallClose, native
<1>4. ASSUME NEW c \in Databases, EndTransaction(Home[c], c) PROVE obj'[d].st = "closed"
  BY <1>0, <1>4 DEF EndTransaction, Object
<1> QED
  BY <1>1, <1>2, <1>3, <1>4 DEF Next, Application

LEMMA NextRunsNothingAfterClose ==
    IInv /\ [Next]_vars =>
        [\A i \in Isolates : call'[i].fn = "op" /\ call[i].fn # "op" =>
            obj[call'[i].db].st # "closed"]_vars
<1> SUFFICES ASSUME IInv, Next, NEW i \in Isolates, call'[i].fn = "op", call[i].fn # "op",
                    obj[call'[i].db].st = "closed"
             PROVE  FALSE
  OBVIOUS
<1>1. IInv'
  BY NextPreserves
<1>2. JobSound(i)' /\ job'[i] \in Job
  BY <1>1 DEF IInv, TypeOK
<1> DEFINE d == call'[i].db
<1>3. d \in Databases /\ obj'[d].st \in {"connecting", "open"}
  BY <1>2 DEF JobSound, Idle, Uses, Gives, Job
<1>4. UNCHANGED call
  BY <1>3, StaysClosed
<1> QED
  BY <1>4

\* What was scheduled before close() and runs after it does nothing: no
\* native operation starts for an object whose close() was called.
THEOREM NothingAfterClose == Spec => NothingRunsAfterClose
BY Invariance, NextRunsNothingAfterClose, PTL DEF Spec, NothingRunsAfterClose

-----------------------------------------------------------------------------
(* The reference the contract sees                                         *)

Pointer(d) == IF obj[d].handle # Null THEN obj[d].handle ELSE obj[d].local

LEMMA RefIsUnused ==
    ASSUME NEW d \in Databases, Pointer(d) = Null \/ Uncounted(d)
    PROVE  Refs[d] = Contract!Unused
BY DEF Refs, RefOf, Pointer, Contract!Unused

LEMMA RefIsHeld ==
    ASSUME NEW d \in Databases, Pointer(d) # Null, ~Uncounted(d), obj[d].st # "lost"
    PROVE  /\ Refs[d] = Contract!Held(obj[d].at, Pointer(d))
           /\ Contract!IsHeld(d) /\ Refs[d].ptr = Pointer(d)
BY DEF Refs, RefOf, Pointer, Contract!Held, Contract!IsHeld

\* Only an isolate's own calls are about its objects.
LEMMA CallOfObject ==
    ASSUME IInv, NEW i \in Isolates, call[i].db \in Databases
    PROVE  Home[call[i].db] = i /\ job[i].kind # "none" /\ job[i].db = call[i].db
<1>1. call[i].pc # "idle"
  BY IdleCall, ConstantsAssumption DEF Idle
<1> QED
  BY <1>1, InCall

\* An object whose isolate does not close it is counted.
LEMMA CountedUnlessClosing ==
    ASSUME IInv, NEW d \in Databases, NEW i \in Isolates, i = Home[d],
           call[i].db # d \/ call[i].fn # "close" \/ call[i].pc \notin {"free", "drain"}
    PROVE  ~Uncounted(d)
BY CallOfObject DEF Uncounted

\* A step of isolate i that is not about object d.
LEMMA RefKept ==
    ASSUME NEW i \in Isolates, NEW d \in Databases, obj'[d] = obj[d],
           \A j \in Isolates \ {i} : call'[j] = call[j],
           call[i].db # d, call'[i].db # d
    PROVE  Refs'[d] = Refs[d]
<1>1. Uncounted(d)' <=> Uncounted(d)
  BY DEF Uncounted
<1>2. RefOf(d)' = RefOf(d)
  BY <1>1 DEF RefOf
<1> QED
  BY <1>2 DEF Refs

LEMMA RefsMove ==
    ASSUME NEW d \in Databases, NEW v, Refs'[d] = v,
           \A c \in Databases \ {d} : Refs'[c] = Refs[c]
    PROVE  Refs' = [Refs EXCEPT ![d] = v]
BY DEF Refs

LEMMA RefsStay ==
    ASSUME \A c \in Databases : Refs'[c] = Refs[c]
    PROVE  UNCHANGED Refs
BY DEF Refs

\* All the steps of isolate i for object d: how to show what the contract
\* sees of them.
LEMMA OthersKeepRef ==
    ASSUME NEW i \in Isolates, NEW d \in Databases,
           \A c \in Databases \ {d} : obj'[c] = obj[c],
           \A j \in Isolates \ {i} : call'[j] = call[j],
           call[i].db \in {d, Null}, call'[i].db \in {d, Null}
    PROVE  \A c \in Databases \ {d} : Refs'[c] = Refs[c]
BY RefKept, ConstantsAssumption

\* The same of the next state.
LEMMA CountedAfter ==
    ASSUME IInv, NEW i \in Isolates, NEW d \in Databases, Home[d] = i,
           \A j \in Isolates \ {i} : call'[j] = call[j],
           call'[i].db # d \/ call'[i].fn # "close" \/ call'[i].pc \notin {"free", "drain"}
    PROVE  ~Uncounted(d)'
BY CallOfObject DEF Uncounted

LEMMA RefBecomesUnused ==
    ASSUME NEW d \in Databases, Pointer(d)' = Null \/ Uncounted(d)'
    PROVE  Refs'[d] = Contract!Unused
BY DEF Refs, RefOf, Pointer, Contract!Unused

LEMMA RefBecomesHeld ==
    ASSUME NEW d \in Databases, Pointer(d)' # Null, ~Uncounted(d)', obj'[d].st # "lost"
    PROVE  Refs'[d] = Contract!Held(obj'[d].at, Pointer(d)')
BY DEF Refs, RefOf, Pointer, Contract!Held

\* A step that leaves isolate i's object d what it is to the contract.
LEMMA SameRefs ==
    ASSUME IInv, NEW i \in Isolates, NEW d \in Databases, Home[d] = i,
           \A c \in Databases \ {d} : obj'[c] = obj[c],
           \A j \in Isolates \ {i} : call'[j] = call[j],
           call[i].db \in {d, Null}, call'[i].db \in {d, Null},
           Pointer(d)' = Pointer(d), obj'[d].at = obj[d].at,
           obj'[d].st # "lost", obj[d].st # "lost",
           \/ Pointer(d) = Null
           \/ call[i].fn # "close" /\ call'[i].fn # "close"
           \/ call[i].pc \notin {"free", "drain"} /\ call'[i].pc \notin {"free", "drain"}
           \/ /\ call[i].db = d /\ call[i].fn = "close" /\ call[i].pc \in {"free", "drain"}
              /\ call'[i].db = d /\ call'[i].fn = "close" /\ call'[i].pc \in {"free", "drain"}
    PROVE  UNCHANGED Refs
<1>1. \A c \in Databases \ {d} : Refs'[c] = Refs[c]
  BY OthersKeepRef
<1>2. Refs'[d] = Refs[d]
  <2>1. CASE Pointer(d) = Null
    BY <2>1, RefIsUnused, RefBecomesUnused
  <2>2. CASE Pointer(d) # Null /\ Uncounted(d) /\ Uncounted(d)'
    BY <2>2, RefIsUnused, RefBecomesUnused
  <2>3. CASE Pointer(d) # Null /\ ~Uncounted(d) /\ ~Uncounted(d)'
    BY <2>3, RefIsHeld, RefBecomesHeld
  <2>4. Pointer(d) # Null => (Uncounted(d) <=> Uncounted(d)')
    <3>1. CASE call[i].fn # "close" /\ call'[i].fn # "close"
      BY <3>1, CountedUnlessClosing, CountedAfter
    <3>2. CASE call[i].pc \notin {"free", "drain"} /\ call'[i].pc \notin {"free", "drain"}
      BY <3>2, CountedUnlessClosing, CountedAfter
    <3>3. CASE /\ call[i].db = d /\ call[i].fn = "close" /\ call[i].pc \in {"free", "drain"}
               /\ call'[i].db = d /\ call'[i].fn = "close" /\ call'[i].pc \in {"free", "drain"}
      BY <3>3 DEF Uncounted
    <3> QED
      BY <3>1, <3>2, <3>3
  <2> QED
    BY <2>1, <2>2, <2>3, <2>4
<1> QED
  BY <1>1, <1>2, RefsStay

-----------------------------------------------------------------------------
(* Each step keeps the contract                                            *)

LEMMA RunConnectSharedKeeps ==
    ASSUME IInv, IInv', NEW i \in Isolates, NEW d \in Databases, RunConnectShared(i, d)
    PROVE  Contract!OpenShared(i, d, obj[d].at)
<1> DEFINE p == obj[d].at
           o == [obj[d] EXCEPT !.local = registry[p].ptr]
<1>0. /\ p \in Paths /\ ReuseConnection(i, p) /\ Dispatch(i, "connect", d)
      /\ NativeTypeOK /\ obj[d] \in Object /\ ObjSound(d) /\ ObjSound(d)'
      /\ outcome' = [outcome EXCEPT ![d] = "none"]
  BY DEF RunConnectShared, IInv, TypeOK
<1>1. Home[d] = i /\ call[i] = Idle /\ obj[d].st = "connecting" /\ obj[d].local = Null
  BY <1>0, DispatchSound
<1>2. registry[p].ptr # Null /\ call' = call
  BY <1>0, ConstantsAssumption
  DEF ReuseConnection, HasActiveConnection, NoEntry, NativeTypeOK, DatabaseHandle
<1>3. /\ obj'[d].local = registry[p].ptr /\ obj'[d].st = obj[d].st
      /\ obj'[d].at = p /\ obj'[d].handle = obj[d].handle
      /\ \A c \in Databases \ {d} : obj'[c] = obj[c]
  BY <1>0 DEF RunConnectShared, IInv, TypeOK, Object
<1>4. Refs[d] = Contract!Unused
  <2>1. Pointer(d) = Null
    BY <1>0, <1>1 DEF Pointer, ObjSound
  <2> QED
    BY <2>1, RefIsUnused
<1>5. Refs'[d] = Contract!Held(p, registry[p].ptr)
  <2>1. Pointer(d)' = registry[p].ptr /\ obj'[d].st # "lost"
    BY <1>0, <1>1, <1>3 DEF Pointer, ObjSound
  <2>2. call[i].db # d
    BY <1>1, ConstantsAssumption DEF Idle
  <2>3. ~Uncounted(d)'
    BY <1>1, <1>2, <2>2, CallOfObject DEF Uncounted
  <2> QED
    BY <1>2, <1>3, <2>1, <2>3 DEF Refs, RefOf, Pointer, Contract!Held
<1>6. Refs' = [Refs EXCEPT ![d] = Contract!Held(p, registry[p].ptr)]
  <2>1. \A c \in Databases \ {d} : Refs'[c] = Refs[c]
    BY <1>1, <1>2, <1>3, OthersKeepRef DEF Idle
  <2> QED
    BY <1>5, <2>1, RefsMove
<1>7. Contract!ReuseConnection(i, p)
  BY <1>0 DEF ReuseConnection, Contract!ReuseConnection, At, Contract!At,
              HasActiveConnection, Contract!HasActiveConnection
<1> QED
  BY <1>0, <1>1, <1>4, <1>6, <1>7 DEF Contract!OpenShared

LEMMA RunConnectNewKeeps ==
    ASSUME IInv, IInv', NEW i \in Isolates, NEW d \in Databases, RunConnectNew(i, d)
    PROVE  Contract!OpenNew(i, d, obj[d].at)
<1>1. /\ MissConnection(i, d, obj[d].at) /\ Dispatch(i, "connect", d)
      /\ outcome' = [outcome EXCEPT ![d] = "none"] /\ obj' = obj /\ ObjSound(d)
  BY DEF RunConnectNew, IInv
<1>2. Home[d] = i /\ call[i] = Idle /\ obj[d].st = "connecting" /\ obj[d].local = Null
  BY <1>1, DispatchSound
<1>3. /\ call'[i] = [pc |-> "connect", fn |-> "new", db |-> d, at |-> obj[d].at, ptr |-> Null]
      /\ \A j \in Isolates \ {i} : call'[j] = call[j]
  BY <1>1, BeginStarts DEF IInv, MissConnection
<1>4. Pointer(d) = Null /\ Pointer(d)' = Null
  BY <1>1, <1>2 DEF Pointer, ObjSound
<1>5. UNCHANGED Refs
  BY <1>1, <1>2, <1>3, <1>4, SameRefs DEF Idle
<1>6. Refs[d] = Contract!Unused
  BY <1>4, RefIsUnused
<1>7. Contract!MissConnection(i, d, obj[d].at)
  BY <1>1 DEF MissConnection, Contract!MissConnection, At, Contract!At, Begin, Contract!Begin,
              HasActiveConnection, Contract!HasActiveConnection
<1> QED
  BY <1>1, <1>2, <1>5, <1>6, <1>7 DEF Contract!OpenNew

LEMMA ConnectReturnsKeeps ==
    ASSUME IInv, IInv', NEW i \in Isolates, ConnectReturns(i)
    PROVE  Contract!OpenReturns(i)
<1>0. RegisterConnection(i) /\ call[i].pc = "register" /\ outcome' = outcome
  BY DEF ConnectReturns, RegisterConnection, At
<1>1. PICK d \in Databases :
        /\ d = job[i].db /\ d = call[i].db /\ Home[d] = i
        /\ obj[d] \in Object /\ ObjSound(d) /\ obj[d].st = "connecting"
        /\ call[i].at = obj[d].at /\ call[i].ptr # Null
  <2>1. /\ JobSound(i) /\ job[i].kind = "connect" /\ job[i].db \in Databases
        /\ call[i].db = job[i].db /\ Home[job[i].db] = i
    BY <1>0, InCall
  <2>2. obj[job[i].db] \in Object /\ ObjSound(job[i].db)
    BY <2>1, InBody
  <2> QED
    BY <1>0, <2>1, <2>2 DEF JobSound
<1>2. call'[i] = Idle /\ \A j \in Isolates \ {i} : call'[j] = call[j]
  BY <1>0, IdleEnds DEF RegisterConnection, IInv
<1>3. /\ obj'[d].local = call[i].ptr /\ obj'[d].st = obj[d].st
      /\ obj'[d].at = obj[d].at /\ obj'[d].handle = obj[d].handle
      /\ \A c \in Databases \ {d} : obj'[c] = obj[c]
  BY <1>1 DEF ConnectReturns, IInv, TypeOK, Object
<1>4. Pointer(d)' = call[i].ptr
  BY <1>1, <1>3 DEF Pointer, ObjSound
<1>5. ~Uncounted(d)'
  BY <1>1, <1>2, CountedAfter DEF Idle
<1>6. Refs'[d] = Contract!Held(call[i].at, call[i].ptr)
  BY <1>1, <1>3, <1>4, <1>5, RefBecomesHeld
<1>7. Refs' = [Refs EXCEPT ![call[i].db] = Contract!Held(call[i].at, call[i].ptr)]
  <2>1. \A c \in Databases \ {d} : Refs'[c] = Refs[c]
    BY <1>1, <1>2, <1>3, OthersKeepRef DEF Idle
  <2> QED
    BY <1>1, <1>6, <2>1, RefsMove
<1>8. Contract!RegisterConnection(i)
  BY <1>0 DEF RegisterConnection, Contract!RegisterConnection, At, Contract!At, Idle, Contract!Idle
<1> QED
  BY <1>0, <1>7, <1>8 DEF Contract!OpenReturns

LEMMA ConnectThrowsKeeps ==
    ASSUME IInv, IInv', NEW i \in Isolates, ConnectThrows(i)
    PROVE  Contract!CallProceeds(i)
<1>0. ConnectFailed(i) /\ call[i].pc \in {"connect", "retry"} /\ outcome' = outcome
  BY DEF ConnectThrows, ConnectFailed, At
<1>1. PICK d \in Databases :
        /\ d = job[i].db /\ d = call[i].db /\ Home[d] = i
        /\ ObjSound(d) /\ obj[d].st = "connecting" /\ obj[d].local = Null
  <2>1. /\ JobSound(i) /\ job[i].kind = "connect" /\ job[i].db \in Databases
        /\ call[i].db = job[i].db /\ Home[job[i].db] = i
    BY <1>0, InCall
  <2> QED
    BY <2>1, InBody DEF JobSound
<1>2. call'[i] = Idle /\ \A j \in Isolates \ {i} : call'[j] = call[j]
  BY <1>0, IdleEnds DEF ConnectFailed, IInv
<1>3. obj'[d] = Absent /\ \A c \in Databases \ {d} : obj'[c] = obj[c]
  BY <1>1 DEF ConnectThrows, IInv, TypeOK
<1>4. Pointer(d) = Null /\ Pointer(d)' = Null
  BY <1>1, <1>3 DEF Pointer, ObjSound, Absent
<1>5. UNCHANGED Refs
  <2>1. \A c \in Databases \ {d} : Refs'[c] = Refs[c]
    BY <1>1, <1>2, <1>3, OthersKeepRef DEF Idle
  <2>2. Refs'[d] = Refs[d]
    BY <1>4, RefIsUnused, RefBecomesUnused
  <2> QED
    BY <2>1, <2>2, RefsStay
<1>6. Contract!ConnectFailed(i)
  BY <1>0 DEF ConnectFailed, Contract!ConnectFailed, At, Contract!At, Idle, Contract!Idle,
              fileLock, Contract!fileLock, Unlocked, Contract!Unlocked
<1> QED
  BY <1>0, <1>5, <1>6 DEF Contract!CallProceeds

\* The operations that check nothing, for an object that has its pointer.
LEMMA UncheckedKeeps ==
    ASSUME IInv, NEW i \in Isolates, NEW d \in Databases, NEW h,
           Home[d] = i, UncheckedOp(i, d, h), h = Pointer(d), outcome' = outcome,
           obj[d].st # "lost", obj'[d].st = obj[d].st, obj'[d].at = obj[d].at,
           Pointer(d)' = Pointer(d), \A c \in Databases \ {d} : obj'[c] = obj[c]
    PROVE  Contract!UseUnchecked(i, d)
<1>1. call[i] = Idle /\ h # Null
  BY IdleCall DEF UncheckedOp, At
<1>2. /\ call'[i] = [pc |-> "deref", fn |-> "op", db |-> d, at |-> Mem, ptr |-> h]
      /\ \A j \in Isolates \ {i} : call'[j] = call[j]
  BY BeginStarts DEF IInv, UncheckedOp
<1>3. UNCHANGED Refs
  BY <1>1, <1>2, SameRefs DEF Idle
<1>4. ~Uncounted(d)
  BY <1>1, CountedUnlessClosing DEF Idle
<1>5. Contract!IsHeld(d) /\ Refs[d].ptr = h
  BY <1>1, <1>4, RefIsHeld
<1>6. Contract!UncheckedOp(i, d, h)
  BY DEF UncheckedOp, Contract!UncheckedOp, At, Contract!At, Begin, Contract!Begin
<1> QED
  BY <1>3, <1>5, <1>6 DEF Contract!UseUnchecked

\* An operation returns, and its object still has its pointer.
LEMMA ReturnsKeeps ==
    ASSUME IInv, NEW i \in Isolates, NEW d \in Databases, UseHandle(i), d = job[i].db,
           outcome' = [outcome EXCEPT ![d] = "ok"],
           obj[d].st # "lost", obj'[d].st # "lost", obj'[d].at = obj[d].at,
           Pointer(d)' = Pointer(d), \A c \in Databases \ {d} : obj'[c] = obj[c]
    PROVE  Contract!OpReturns(i)
<1>0. call[i].pc = "deref" /\ call' = [call EXCEPT ![i] = Idle]
  BY DEF UseHandle, At
<1>1. call[i].db = d /\ Home[d] = i
  BY <1>0, InCall
<1>2. call'[i] = Idle /\ \A j \in Isolates \ {i} : call'[j] = call[j]
  BY <1>0, IdleEnds DEF IInv
<1>3. UNCHANGED Refs
  BY <1>0, <1>1, <1>2, SameRefs DEF Idle
<1>4. Contract!UseHandle(i)
  BY DEF UseHandle, Contract!UseHandle, NeedsOther, Contract!NeedsOther, Polls,
         Contract!Polls, At, Contract!At, Idle, Contract!Idle
<1> QED
  BY <1>1, <1>3, <1>4 DEF Contract!OpReturns

\* db_close is called.
LEMMA ClosingKeeps ==
    ASSUME IInv, NEW i \in Isolates, NEW d \in Databases, Home[d] = i,
           DbClose(i, d, obj[d].local), obj[d].st \in {"connecting", "closed"},
           obj' = obj, outcome' = outcome
    PROVE  Contract!CloseBegins(i, d)
<1>1. call[i] = Idle /\ obj[d].local # Null /\ ObjSound(d)
  BY IdleCall DEF DbClose, At, IInv
<1>2. /\ call'[i] = [pc |-> "endpoint", fn |-> "close", db |-> d, at |-> Mem, ptr |-> obj[d].local]
      /\ \A j \in Isolates \ {i} : call'[j] = call[j]
  BY BeginStarts DEF IInv, DbClose
<1>3. Pointer(d) = obj[d].local /\ Pointer(d)' = Pointer(d)
  BY <1>1 DEF Pointer, ObjSound
<1>4. UNCHANGED Refs
  BY <1>1, <1>2, <1>3, SameRefs DEF Idle
<1>5. ~Uncounted(d)
  BY <1>1, CountedUnlessClosing DEF Idle
<1>6. Contract!IsHeld(d) /\ Refs[d].ptr = obj[d].local
  BY <1>1, <1>3, <1>5, RefIsHeld
<1>7. Contract!DbClose(i, d, obj[d].local)
  BY DEF DbClose, Contract!DbClose, At, Contract!At, Begin, Contract!Begin
<1> QED
  BY <1>4, <1>6, <1>7 DEF Contract!CloseBegins

\* The steps of connect() after db_new.
LEMMA SetupKeeps ==
    ASSUME IInv, IInv', NEW i \in Isolates
    PROVE  /\ Setup(i) => \E d \in Databases : Contract!UseUnchecked(i, d)
           /\ SetupSucceeds(i) \/ SetupFails(i) => Contract!OpReturns(i)
           /\ Abort(i) => \E d \in Databases : Contract!CloseBegins(i, d)
           /\ SetupSkipped(i) => UNCHANGED <<native, Refs, outcome>>
<1>1. ASSUME job[i].kind \in {"setup", "abort"}
      PROVE  \E d \in Databases :
                /\ d = job[i].db /\ Home[d] = i /\ obj[d] \in Object
                /\ obj[d].st = "connecting" /\ obj[d].handle = Null /\ obj[d].local # Null
                /\ Pointer(d) = obj[d].local
  BY <1>1, InBody DEF JobSound, ObjSound, Pointer
<1>2. ASSUME Setup(i) PROVE \E d \in Databases : Contract!UseUnchecked(i, d)
  <2>1. PICK d \in Databases :
            /\ d = job[i].db /\ Home[d] = i
            /\ obj[d].st = "connecting" /\ Pointer(d) = obj[d].local
    BY <1>1, <1>2 DEF Setup
  <2>2. UncheckedOp(i, d, obj[d].local) /\ obj' = obj /\ outcome' = outcome
    BY <1>2, <2>1 DEF Setup
  <2>3. Pointer(d)' = Pointer(d)
    BY <2>2 DEF Pointer
  <2> QED
    BY <2>1, <2>2, <2>3, UncheckedKeeps
<1>3. ASSUME Construct(i), job[i].kind = "setup"
      PROVE  \E d \in Databases :
                /\ d = job[i].db /\ Home[d] = i /\ obj[d].st = "connecting"
                /\ obj'[d].st = "open" /\ obj'[d].at = obj[d].at
                /\ Pointer(d)' = Pointer(d)
                /\ \A c \in Databases \ {d} : obj'[c] = obj[c]
  <2>1. PICK d \in Databases :
            /\ d = job[i].db /\ Home[d] = i /\ obj[d] \in Object /\ obj[d].st = "connecting"
            /\ obj[d].handle = Null /\ obj[d].local # Null /\ Pointer(d) = obj[d].local
    BY <1>1, <1>3
  <2> DEFINE o == [obj[d] EXCEPT !.st = "open", !.handle = obj[d].local, !.local = Null]
  <2>2. o.st = "open" /\ o.at = obj[d].at /\ o.handle = obj[d].local
    BY <2>1 DEF Object
  <2>3. obj' = [obj EXCEPT ![d] = o]
    BY <1>3, <2>1 DEF Construct, IInv, TypeOK
  <2>4. obj'[d] = o /\ \A c \in Databases \ {d} : obj'[c] = obj[c]
    BY <2>3 DEF IInv, TypeOK
  <2>5. Pointer(d)' = Pointer(d)
    BY <2>1, <2>2, <2>4 DEF Pointer
  <2>6. /\ obj'[d].st = "open" /\ obj'[d].at = obj[d].at
        /\ \A c \in Databases \ {d} : obj'[c] = obj[c]
    BY <2>2, <2>4
  <2> HIDE DEF o
  <2> WITNESS d \in Databases
  <2> QED
    BY <2>1, <2>5, <2>6
<1>4. ASSUME SetupSucceeds(i) PROVE Contract!OpReturns(i)
  <2>1. PICK d \in Databases :
            /\ d = job[i].db /\ obj[d].st = "connecting"
            /\ obj'[d].st = "open" /\ obj'[d].at = obj[d].at
            /\ Pointer(d)' = Pointer(d)
            /\ \A c \in Databases \ {d} : obj'[c] = obj[c]
    BY <1>3, <1>4 DEF SetupSucceeds
  <2>2. UseHandle(i) /\ outcome' = [outcome EXCEPT ![d] = "ok"]
    BY <1>4, <2>1 DEF SetupSucceeds
  <2> QED
    BY <2>1, <2>2, ReturnsKeeps
<1>5. ASSUME SetupFails(i) PROVE Contract!OpReturns(i)
  <2>1. PICK d \in Databases : d = job[i].db /\ obj[d].st = "connecting"
    BY <1>1, <1>5 DEF SetupFails
  <2>2. UseHandle(i) /\ obj' = obj /\ outcome' = [outcome EXCEPT ![d] = "ok"]
    BY <1>5, <2>1 DEF SetupFails
  <2>3. Pointer(d)' = Pointer(d)
    BY <2>2 DEF Pointer
  <2> QED
    BY <2>1, <2>2, <2>3, ReturnsKeeps
<1>6. ASSUME Abort(i) PROVE \E d \in Databases : Contract!CloseBegins(i, d)
  <2>1. PICK d \in Databases : d = job[i].db /\ Home[d] = i /\ obj[d].st = "connecting"
    BY <1>1, <1>6 DEF Abort
  <2>2. DbClose(i, d, obj[d].local) /\ obj' = obj /\ outcome' = outcome
    BY <1>6, <2>1 DEF Abort
  <2> QED
    BY <2>1, <2>2, ClosingKeeps
<1>7. ASSUME SetupSkipped(i) PROVE UNCHANGED <<native, Refs, outcome>>
  <2>1. PICK d \in Databases :
            /\ d = job[i].db /\ Home[d] = i /\ obj[d].st = "connecting"
            /\ obj'[d].st = "open" /\ obj'[d].at = obj[d].at
            /\ Pointer(d)' = Pointer(d)
            /\ \A c \in Databases \ {d} : obj'[c] = obj[c]
    BY <1>3, <1>7 DEF SetupSkipped
  <2>2. call[i] = Idle /\ UNCHANGED <<native, outcome>> /\ call' = call
    BY <1>7, IdleCall DEF SetupSkipped, At, native
  <2>3. UNCHANGED Refs
    BY <2>1, <2>2, SameRefs DEF Idle
  <2> QED
    BY <2>2, <2>3
<1> QED
  BY <1>2, <1>4, <1>5, <1>6, <1>7

\* The event bodies of the operations.
LEMMA RunOpKeeps ==
    ASSUME IInv, IInv', NEW i \in Isolates, NEW d \in Databases
    PROVE  /\ RunQuery(i, d) => Contract!QueryAccepted(i, d)
           /\ \A k \in {"use", "txn"} : RunUse(i, d, k) => Contract!UseUnchecked(i, d)
           /\ RunQueryRejected(i, d) =>
                Contract!QueryRejected(i, d) \/ UNCHANGED <<native, Refs, outcome>>
           /\ \A k \in {"use", "txn"} : RunUseOfNull(i, d, k) => UNCHANGED <<native, Refs, outcome>>
<1>1. ASSUME NEW k \in {"query", "use", "txn"}, Dispatch(i, k, d)
      PROVE  /\ Home[d] = i /\ call[i] = Idle /\ obj[d].st \in {"open", "closed"}
             /\ obj[d].handle # Null => Pointer(d) = obj[d].handle
             /\ ~Uncounted(d)
  <2>1. Home[d] = i /\ call[i] = Idle /\ obj[d].st \in {"open", "closed"}
    BY <1>1, DispatchSound
  <2>2. ~Uncounted(d)
    BY <2>1, CountedUnlessClosing DEF Idle
  <2> QED
    BY <2>1, <2>2 DEF Pointer
<1>2. ASSUME RunQuery(i, d) PROVE Contract!QueryAccepted(i, d)
  <2> DEFINE h == obj[d].handle
  <2>1. /\ Dispatch(i, "query", d) /\ ValidatedOp(i, d, h)
        /\ obj' = obj /\ outcome' = outcome
    BY <1>2 DEF RunQuery
  <2>2. h # Null
    BY <2>1, ValidNotNull DEF ValidatedOp, IInv, TypeOK
  <2>3. /\ Home[d] = i /\ call[i] = Idle /\ obj[d].st \in {"open", "closed"}
        /\ Pointer(d) = h /\ ~Uncounted(d) /\ Pointer(d)' = Pointer(d)
    BY <1>1, <2>1, <2>2 DEF Pointer
  <2>4. /\ call'[i] = [pc |-> "deref", fn |-> "op", db |-> d, at |-> Mem, ptr |-> h]
        /\ \A j \in Isolates \ {i} : call'[j] = call[j]
    BY <2>1, BeginStarts DEF IInv, ValidatedOp
  <2>5. UNCHANGED Refs
    BY <2>1, <2>3, <2>4, SameRefs DEF Idle
  <2>6. Contract!IsHeld(d) /\ Refs[d].ptr = h
    BY <2>2, <2>3, RefIsHeld
  <2>7. Contract!ValidatedOp(i, d, h)
    BY <2>1 DEF ValidatedOp, Contract!ValidatedOp, At, Contract!At, Begin, Contract!Begin,
                IsHandleValid, Contract!IsHandleValid,
                HasActiveConnection, Contract!HasActiveConnection
  <2> QED
    BY <2>1, <2>3, <2>5, <2>6, <2>7 DEF Contract!QueryAccepted
<1>3. ASSUME NEW k \in {"use", "txn"}, RunUse(i, d, k) PROVE Contract!UseUnchecked(i, d)
  <2>1. /\ Dispatch(i, k, d) /\ UncheckedOp(i, d, obj[d].handle)
        /\ obj' = obj /\ outcome' = outcome /\ obj[d].handle # Null
    BY <1>3 DEF RunUse, UncheckedOp
  <2>2. /\ Home[d] = i /\ obj[d].st \in {"open", "closed"}
        /\ Pointer(d) = obj[d].handle /\ Pointer(d)' = Pointer(d)
    BY <1>1, <2>1 DEF Pointer
  <2> QED
    BY <2>1, <2>2, UncheckedKeeps
<1>4. ASSUME RunQueryRejected(i, d)
      PROVE  Contract!QueryRejected(i, d) \/ UNCHANGED <<native, Refs, outcome>>
  <2> DEFINE h == obj[d].handle
  <2>1. /\ Dispatch(i, "query", d) /\ RejectedOp(i, h) /\ obj' = obj
        /\ outcome' = IF h = Null THEN outcome ELSE [outcome EXCEPT ![d] = "rejected"]
        /\ UNCHANGED native /\ call' = call
    BY <1>4 DEF RunQueryRejected, RejectedOp, native
  <2>2. UNCHANGED Refs
    <3>1. Home[d] = i /\ call[i] = Idle /\ obj[d].st \in {"open", "closed"}
      BY <1>1, <2>1
    <3>2. Pointer(d)' = Pointer(d)
      BY <2>1 DEF Pointer
    <3> QED
      BY <2>1, <3>1, <3>2, SameRefs DEF Idle
  <2>3. CASE h = Null
    BY <2>1, <2>2, <2>3
  <2>4. CASE h # Null
    <3>1. Home[d] = i /\ Contract!IsHeld(d) /\ Refs[d].ptr = h
      BY <1>1, <2>1, <2>4, RefIsHeld
    <3>2. Contract!RejectedOp(i, h)
      BY <2>1 DEF RejectedOp, Contract!RejectedOp, At, Contract!At, native, Contract!native,
                  IsHandleValid, Contract!IsHandleValid,
                  HasActiveConnection, Contract!HasActiveConnection
    <3> QED
      BY <2>1, <2>2, <2>4, <3>1, <3>2 DEF Contract!QueryRejected
  <2> QED
    BY <2>3, <2>4
<1>5. ASSUME NEW k \in {"use", "txn"}, RunUseOfNull(i, d, k)
      PROVE  UNCHANGED <<native, Refs, outcome>>
  <2>1. Dispatch(i, k, d) /\ obj' = obj /\ UNCHANGED <<native, outcome>> /\ call' = call
    BY <1>5 DEF RunUseOfNull, native
  <2>2. Home[d] = i /\ call[i] = Idle /\ obj[d].st \in {"open", "closed"}
    BY <1>1, <2>1
  <2>3. Pointer(d)' = Pointer(d)
    BY <2>1 DEF Pointer
  <2>4. UNCHANGED Refs
    BY <2>1, <2>2, <2>3, SameRefs DEF Idle
  <2> QED
    BY <2>1, <2>4
<1> QED
  BY <1>2, <1>3, <1>4, <1>5

\* The end of an operation, and of a transaction.
LEMMA EndOpKeeps ==
    ASSUME IInv, IInv', NEW i \in Isolates
    PROVE  /\ OpReturns(i) \/ CommitFails(i) => Contract!OpReturns(i)
           /\ RollBack(i) => \E d \in Databases : Contract!UseUnchecked(i, d)
           /\ \A d \in Databases : EndTransaction(i, d) =>
                Contract!UseUnchecked(i, d) \/ UNCHANGED <<native, Refs, outcome>>
<1>1. ASSUME job[i].kind \in {"op", "txn", "commit", "rollback"}
      PROVE  \E d \in Databases :
                /\ d = job[i].db /\ Home[d] = i /\ obj[d] \in Object
                /\ obj[d].st = "open" /\ Pointer(d) = obj[d].handle
  BY <1>1, InBody DEF JobSound, ObjSound, Pointer
<1>2. ASSUME NEW d \in Databases, obj[d] \in Object, NEW b,
             obj' = [obj EXCEPT ![d].txn = b]
      PROVE  /\ obj'[d].st = obj[d].st /\ obj'[d].at = obj[d].at
             /\ Pointer(d)' = Pointer(d)
             /\ \A c \in Databases \ {d} : obj'[c] = obj[c]
  BY <1>2 DEF Object, Pointer, IInv, TypeOK
<1>3. ASSUME OpReturns(i) PROVE Contract!OpReturns(i)
  <2>1. PICK d \in Databases :
            d = job[i].db /\ obj[d] \in Object /\ obj[d].st = "open"
    BY <1>1, <1>3 DEF OpReturns
  <2>2. UseHandle(i) /\ outcome' = [outcome EXCEPT ![d] = "ok"]
    BY <1>3, <2>1 DEF OpReturns
  <2>3. /\ obj'[d].st = obj[d].st /\ obj'[d].at = obj[d].at
        /\ Pointer(d)' = Pointer(d)
        /\ \A c \in Databases \ {d} : obj'[c] = obj[c]
    <3>1. CASE obj' = obj
      BY <3>1 DEF Pointer
    <3>2. CASE obj' = [obj EXCEPT ![d].txn = obj[d].txn \/ job[i].kind = "txn"]
      BY <1>2, <2>1, <3>2
    <3> QED
      BY <1>3, <2>1, <3>1, <3>2 DEF OpReturns
  <2> QED
    BY <2>1, <2>2, <2>3, ReturnsKeeps
<1>4. ASSUME CommitFails(i) PROVE Contract!OpReturns(i)
  <2>1. PICK d \in Databases : d = job[i].db /\ obj[d].st = "open"
    BY <1>1, <1>4 DEF CommitFails
  <2>2. UseHandle(i) /\ obj' = obj /\ outcome' = [outcome EXCEPT ![d] = "ok"]
    BY <1>4, <2>1 DEF CommitFails
  <2>3. Pointer(d)' = Pointer(d)
    BY <2>2 DEF Pointer
  <2> QED
    BY <2>1, <2>2, <2>3, ReturnsKeeps
<1>5. ASSUME RollBack(i) PROVE \E d \in Databases : Contract!UseUnchecked(i, d)
  <2>1. PICK d \in Databases :
            /\ d = job[i].db /\ Home[d] = i /\ obj[d].st = "open"
            /\ Pointer(d) = obj[d].handle
    BY <1>1, <1>5 DEF RollBack
  <2>2. UncheckedOp(i, d, obj[d].handle) /\ obj' = obj /\ outcome' = outcome
    BY <1>5, <2>1 DEF RollBack
  <2>3. Pointer(d)' = Pointer(d)
    BY <2>2 DEF Pointer
  <2> QED
    BY <2>1, <2>2, <2>3, UncheckedKeeps
<1>6. ASSUME NEW d \in Databases, EndTransaction(i, d)
      PROVE  Contract!UseUnchecked(i, d) \/ UNCHANGED <<native, Refs, outcome>>
  <2>1. /\ Home[d] = i /\ obj[d].txn /\ obj[d] \in Object /\ ObjSound(d)
        /\ obj' = [obj EXCEPT ![d].txn = FALSE] /\ outcome' = outcome /\ call[i].pc = "idle"
    BY <1>6 DEF EndTransaction, Between, At, IInv, TypeOK
  <2>2. /\ obj'[d].st = obj[d].st /\ obj'[d].at = obj[d].at
        /\ Pointer(d)' = Pointer(d) /\ obj[d].st # "lost"
        /\ \A c \in Databases \ {d} : obj'[c] = obj[c]
    BY <1>2, <2>1 DEF ObjSound
  <2>3. CASE obj[d].handle = Null
    <3>1. UNCHANGED native /\ call' = call /\ call[i] = Idle
      BY <1>6, <2>1, <2>3, IdleCall DEF EndTransaction, native
    <3>2. UNCHANGED Refs
      BY <2>1, <2>2, <3>1, SameRefs DEF Idle
    <3> QED
      BY <2>1, <3>1, <3>2
  <2>4. CASE obj[d].handle # Null
    <3>1. UncheckedOp(i, d, obj[d].handle) /\ Pointer(d) = obj[d].handle
      BY <1>6, <2>4 DEF EndTransaction, Pointer
    <3> QED
      BY <2>1, <2>2, <3>1, UncheckedKeeps
  <2> QED
    BY <2>3, <2>4
<1> QED
  BY <1>3, <1>4, <1>5, <1>6

\* The calls that only schedule.
LEMMA SchedulingKeeps ==
    ASSUME IInv, IInv', NEW d \in Databases,
           \/ \E e \in Endpoints : CallConnect(d, e)
           \/ \E k \in {"query", "use", "txn"} : CallOperation(d, k)
           \/ CallClose(d)
    PROVE  UNCHANGED <<native, Refs, outcome>>
<1>0. /\ Home[d] \in Isolates /\ obj[d] \in Object /\ ObjSound(d)
      /\ UNCHANGED <<native, outcome>> /\ call' = call /\ call[Home[d]] = Idle
  BY IdleCall, DatabaseAssumption
  DEF CallConnect, CallOperation, CallClose, Schedule, Between, At, native, IInv, TypeOK
<1>1. CASE \E e \in Endpoints : CallConnect(d, e)
  <2>1. PICK e \in Endpoints :
            /\ obj[d].st \in {"absent", "closed"} /\ obj[d].local = Null
            /\ obj' = [obj EXCEPT ![d] = [Absent EXCEPT !.st = "connecting", !.at = e]]
    BY <1>1 DEF CallConnect
  <2> DEFINE o == [Absent EXCEPT !.st = "connecting", !.at = e]
  <2>2. o.handle = Null /\ o.local = Null
    BY DEF Absent
  <2>3. obj'[d] = o /\ \A c \in Databases \ {d} : obj'[c] = obj[c]
    BY <2>1 DEF IInv, TypeOK
  <2>4. Pointer(d) = Null /\ Pointer(d)' = Null
    BY <1>0, <2>1, <2>2, <2>3 DEF Pointer, ObjSound
  <2>5. Refs'[d] = Refs[d]
    BY <2>4, RefIsUnused, RefBecomesUnused
  <2>6. \A c \in Databases \ {d} : Refs'[c] = Refs[c]
    BY <1>0, <2>3, OthersKeepRef DEF Idle
  <2> QED
    BY <1>0, <2>5, <2>6, RefsStay
<1>2. CASE \E k \in {"query", "use", "txn"} : CallOperation(d, k)
  <2>1. obj' = obj /\ obj[d].st = "open"
    BY <1>2 DEF CallOperation
  <2>2. Pointer(d)' = Pointer(d)
    BY <2>1 DEF Pointer
  <2> QED
    BY <1>0, <2>1, <2>2, SameRefs DEF Idle
<1>3. CASE CallClose(d)
  <2> DEFINE o == [obj[d] EXCEPT !.st = "closed", !.handle = Null, !.local = obj[d].handle]
  <2>1. obj[d].st = "open" /\ obj' = [obj EXCEPT ![d] = o]
    BY <1>3 DEF CallClose
  <2>2. o.st = "closed" /\ o.at = obj[d].at /\ o.handle = Null /\ o.local = obj[d].handle
    BY <1>0 DEF Object
  <2>3. obj'[d] = o /\ \A c \in Databases \ {d} : obj'[c] = obj[c]
    BY <2>1 DEF IInv, TypeOK
  <2>4. Pointer(d)' = Pointer(d) /\ obj'[d].at = obj[d].at /\ obj'[d].st # "lost"
    BY <1>0, <2>1, <2>2, <2>3 DEF Pointer, ObjSound
  <2> HIDE DEF o
  <2> QED
    BY <1>0, <2>1, <2>3, <2>4, SameRefs DEF Idle
<1> QED
  BY <1>1, <1>2, <1>3

\* close()'s own event.
LEMMA RunCloseKeeps ==
    ASSUME IInv, NEW i \in Isolates, NEW d \in Databases, RunClose(i, d)
    PROVE  Contract!CloseBegins(i, d)
<1>1. /\ Dispatch(i, "close", d) /\ DbClose(i, d, obj[d].local)
      /\ obj' = obj /\ outcome' = outcome
  BY DEF RunClose
<1>2. Home[d] = i /\ obj[d].st = "closed"
  BY <1>1, DispatchSound
<1> QED
  BY <1>1, <1>2, ClosingKeeps

\* What a step of db_close is about.
LEMMA InClose ==
    ASSUME IInv, NEW i \in Isolates,
           call[i].pc \in {"endpoint", "unregister", "free", "drain"}
    PROVE  \E d \in Databases :
              /\ d = job[i].db /\ d = call[i].db /\ Home[d] = i
              /\ call[i] \in Call /\ call[i].fn = "close"
              /\ job[i].kind \in {"abort", "close"}
              /\ obj[d] \in Object /\ ObjSound(d)
              /\ obj[d].st \in {"connecting", "closed"}
              /\ obj[d].handle = Null /\ Pointer(d) # Null
<1>1. /\ job[i].kind \in {"abort", "close"} /\ call[i].fn = "close"
      /\ JobSound(i) /\ call[i].db = job[i].db /\ call[i] \in Call
  BY InCall
<1>2. /\ job[i].db \in Databases /\ Home[job[i].db] = i
      /\ obj[job[i].db] \in Object /\ ObjSound(job[i].db)
  BY <1>1, InBody
<1>3. /\ obj[job[i].db].st \in {"connecting", "closed"}
      /\ obj[job[i].db].local # Null
  BY <1>1 DEF JobSound
<1> QED
  BY <1>1, <1>2, <1>3 DEF ObjSound, Pointer

\* db_close has returned, and the object lets go of the pointer.
LEMMA CloseReturnsKeeps ==
    ASSUME IInv, NEW i \in Isolates, CloseReturns(i)
    PROVE  Contract!CloseUnregisters(i) \/ Contract!CallProceeds(i)
<1>0. outcome' = outcome /\ AfterClose(i) /\ (KeepConnection(i) \/ DrainRuntime(i))
  BY DEF CloseReturns
<1>1. PICK d \in Databases :
        /\ d = job[i].db /\ d = call[i].db /\ Home[d] = i /\ call[i].fn = "close"
        /\ obj[d] \in Object /\ obj[d].handle = Null /\ Pointer(d) # Null
  <2>1. call[i].pc \in {"unregister", "drain"}
    BY <1>0 DEF KeepConnection, DrainRuntime, At
  <2> QED
    BY <2>1, InClose
<1>2. call'[i] = Idle /\ \A j \in Isolates \ {i} : call'[j] = call[j]
  <2>1. call' = [call EXCEPT ![i] = Idle]
    <3>1. CASE KeepConnection(i)
      BY <3>1 DEF KeepConnection
    <3>2. CASE DrainRuntime(i)
      BY <1>1, <3>2 DEF DrainRuntime, DrainReturns
    <3> QED
      BY <1>0, <3>1, <3>2
  <2> QED
    BY <2>1, IdleEnds DEF IInv
<1> DEFINE o == IF job[i].kind = "abort" THEN Absent ELSE [obj[d] EXCEPT !.local = Null]
<1>3. o.handle = Null /\ o.local = Null
  BY <1>1 DEF Absent, Object
<1>4. obj'[d] = o /\ \A c \in Databases \ {d} : obj'[c] = obj[c]
  BY <1>0, <1>1 DEF AfterClose, IInv, TypeOK
<1>5. Pointer(d)' = Null
  BY <1>3, <1>4 DEF Pointer
<1>6. Refs'[d] = Contract!Unused
  BY <1>5, RefBecomesUnused
<1>7. \A c \in Databases \ {d} : Refs'[c] = Refs[c]
  BY <1>1, <1>2, <1>4, OthersKeepRef DEF Idle
<1>8. CASE KeepConnection(i)
  <2>1. Contract!KeepConnection(i)
    BY <1>8 DEF KeepConnection, Contract!KeepConnection, At, Contract!At, Idle, Contract!Idle
  <2>2. Refs' = [Refs EXCEPT ![call[i].db] = Contract!Unused]
    BY <1>1, <1>6, <1>7, RefsMove
  <2> QED
    BY <1>0, <2>1, <2>2 DEF Contract!CloseUnregisters
<1>9. CASE DrainRuntime(i)
  <2>1. Contract!DrainRuntime(i)
    BY <1>9 DEF DrainRuntime, Contract!DrainRuntime, DrainReturns, Contract!DrainReturns,
                At, Contract!At, Idle, Contract!Idle
  <2>2. Uncounted(d)
    BY <1>1, <1>9 DEF Uncounted, DrainRuntime, At
  <2>3. UNCHANGED Refs
    BY <1>6, <1>7, <2>2, RefIsUnused, RefsStay
  <2> QED
    BY <1>0, <2>1, <2>3 DEF Contract!CallProceeds
<1> QED
  BY <1>0, <1>8, <1>9

\* The steps inside db_new and db_close.
LEMMA CallProceedsKeeps ==
    ASSUME IInv, NEW i \in Isolates, CallProceeds(i)
    PROVE  Contract!CloseUnregisters(i) \/ Contract!CallProceeds(i)
<1>0. obj' = obj /\ outcome' = outcome
  BY DEF CallProceeds
<1>1. ASSUME NEW d \in Databases PROVE Pointer(d)' = Pointer(d)
  BY <1>0 DEF Pointer
<1>2. ASSUME (\E h \in Handles : Connect(i, h)) \/ ConnectLocked(i)
      PROVE  UNCHANGED Refs
  <2>1. call[i].pc \in {"connect", "retry"}
    BY <1>2 DEF Connect, ConnectLocked, At
  <2>2. PICK d \in Databases :
          /\ d = job[i].db /\ d = call[i].db /\ Home[d] = i /\ call[i].fn = "new"
          /\ call[i] \in Call /\ obj[d].st = "connecting" /\ Pointer(d) = Null
    <3>1. /\ JobSound(i) /\ job[i].kind = "connect" /\ job[i].db \in Databases
          /\ call[i].db = job[i].db /\ Home[job[i].db] = i /\ call[i] \in Call
      BY <2>1, InCall
    <3>2. ObjSound(job[i].db)
      BY <3>1, InBody
    <3> QED
      BY <2>1, <3>1, <3>2 DEF JobSound, ObjSound, Pointer
  <2>3. /\ call'[i].db = d /\ \A j \in Isolates \ {i} : call'[j] = call[j]
    <3>1. ASSUME NEW h \in Handles, Connect(i, h)
          PROVE  /\ call'[i].db = d /\ \A j \in Isolates \ {i} : call'[j] = call[j]
      <4>1. call' = [call EXCEPT ![i] = [pc |-> "register", fn |-> "new", db |-> call[i].db,
                       at |-> call[i].at, ptr |-> h]]
        BY <3>1 DEF Connect, Begin
      <4> QED
        BY <2>2, <4>1 DEF IInv, TypeOK, NativeTypeOK
    <3>2. CASE ConnectLocked(i)
      <4>1. call' = [call EXCEPT ![i].pc = "retry"]
        BY <3>2 DEF ConnectLocked
      <4> QED
        BY <2>2, <4>1 DEF IInv, TypeOK, NativeTypeOK, Call
    <3> QED
      BY <1>2, <3>1, <3>2
  <2> QED
    BY <1>0, <1>1, <2>2, <2>3, SameRefs
<1>3. ASSUME NEW h \in Handles, Connect(i, h) PROVE Contract!Connect(i, h)
  BY <1>3 DEF Connect, Contract!Connect, At, Contract!At, Begin, Contract!Begin, LockFor,
              Contract!LockFor, fileLock, Contract!fileLock, Unlocked, Contract!Unlocked
<1>4. CASE (\E h \in Handles : Connect(i, h)) \/ ConnectLocked(i)
  <2>1. ConnectLocked(i) => Contract!ConnectLocked(i)
    BY DEF ConnectLocked, Contract!ConnectLocked, At, Contract!At,
           fileLock, Contract!fileLock, Unlocked, Contract!Unlocked
  <2> QED
    BY <1>0, <1>2, <1>3, <1>4, <2>1 DEF Contract!CallProceeds
<1>5. ASSUME ReadEndpoint(i) \/ RemoveConnection(i) \/ FreeHandle(i)
      PROVE  \E d \in Databases, l \in {"unregister", "free", "drain"} :
                /\ d = call[i].db /\ Home[d] = i /\ call[i].fn = "close"
                /\ obj[d].st \in {"connecting", "closed"}
                /\ call'[i].db = d /\ call'[i].fn = "close" /\ call'[i].pc = l
                /\ ReadEndpoint(i) => l = "unregister" /\ call[i].pc = "endpoint"
                /\ RemoveConnection(i) => l = "free"
                /\ FreeHandle(i) => l = "drain" /\ call[i].pc = "free"
                /\ \A j \in Isolates \ {i} : call'[j] = call[j]
  <2>1. /\ ReadEndpoint(i) => call[i].pc = "endpoint"
        /\ RemoveConnection(i) => call[i].pc = "unregister"
        /\ FreeHandle(i) => call[i].pc = "free"
    BY DEF ReadEndpoint, RemoveConnection, FreeHandle, At
  <2>2. PICK d \in Databases :
          /\ d = call[i].db /\ Home[d] = i /\ call[i] \in Call /\ call[i].fn = "close"
          /\ obj[d].st \in {"connecting", "closed"}
    BY <1>5, <2>1, InClose
  <2>3. CASE ReadEndpoint(i)
    <3>1. call' = [call EXCEPT ![i] = [pc |-> "unregister", fn |-> "close", db |-> call[i].db,
                     at |-> endpoint[call[i].ptr], ptr |-> call[i].ptr]]
      BY <2>3 DEF ReadEndpoint, Begin
    <3>2. /\ call'[i].db = d /\ call'[i].fn = "close" /\ call'[i].pc = "unregister"
          /\ \A j \in Isolates \ {i} : call'[j] = call[j]
      BY <2>2, <3>1 DEF IInv, TypeOK, NativeTypeOK
    <3> QED
      BY <2>1, <2>2, <2>3, <3>2
  <2>4. CASE RemoveConnection(i)
    <3>1. call' = [call EXCEPT ![i].pc = "free"]
      BY <2>4 DEF RemoveConnection
    <3>2. /\ call'[i].db = d /\ call'[i].fn = "close" /\ call'[i].pc = "free"
          /\ \A j \in Isolates \ {i} : call'[j] = call[j]
      BY <2>2, <3>1 DEF IInv, TypeOK, NativeTypeOK, Call
    <3> QED
      BY <2>1, <2>2, <2>4, <3>2
  <2>5. CASE FreeHandle(i)
    <3>1. call' = [call EXCEPT ![i].pc = "drain"]
      BY <2>5 DEF FreeHandle
    <3>2. /\ call'[i].db = d /\ call'[i].fn = "close" /\ call'[i].pc = "drain"
          /\ \A j \in Isolates \ {i} : call'[j] = call[j]
      BY <2>2, <3>1 DEF IInv, TypeOK, NativeTypeOK, Call
    <3> QED
      BY <2>1, <2>2, <2>5, <3>2
  <2> QED
    BY <1>5, <2>3, <2>4, <2>5
<1>6. CASE ReadEndpoint(i)
  <2>1. Contract!ReadEndpoint(i)
    BY <1>6 DEF ReadEndpoint, Contract!ReadEndpoint, At, Contract!At, Begin, Contract!Begin
  <2>2. UNCHANGED Refs
    <3>1. PICK d \in Databases :
            /\ d = call[i].db /\ Home[d] = i /\ obj[d].st \in {"connecting", "closed"}
            /\ call'[i].db = d /\ call'[i].pc = "unregister" /\ call[i].pc = "endpoint"
            /\ \A j \in Isolates \ {i} : call'[j] = call[j]
      BY <1>5, <1>6
    <3> QED
      BY <1>0, <1>1, <3>1, SameRefs
  <2> QED
    BY <1>0, <2>1, <2>2 DEF Contract!CallProceeds
<1>7. CASE FreeHandle(i)
  <2>1. Contract!FreeHandle(i)
    BY <1>7 DEF FreeHandle, Contract!FreeHandle, At, Contract!At, LockFor, Contract!LockFor
  <2>2. UNCHANGED Refs
    <3>1. PICK d \in Databases :
            /\ d = call[i].db /\ Home[d] = i /\ obj[d].st \in {"connecting", "closed"}
            /\ call[i].fn = "close" /\ call[i].pc = "free"
            /\ call'[i].db = d /\ call'[i].fn = "close" /\ call'[i].pc = "drain"
            /\ \A j \in Isolates \ {i} : call'[j] = call[j]
      BY <1>5, <1>7
    <3> QED
      BY <1>0, <1>1, <3>1, SameRefs
  <2> QED
    BY <1>0, <2>1, <2>2 DEF Contract!CallProceeds
<1>8. CASE RemoveConnection(i)
  <2>1. Contract!RemoveConnection(i)
    BY <1>8 DEF RemoveConnection, Contract!RemoveConnection, At, Contract!At,
                NoEntry, Contract!NoEntry
  <2>2. PICK d \in Databases :
          /\ d = call[i].db
          /\ call'[i].db = d /\ call'[i].fn = "close" /\ call'[i].pc = "free"
          /\ \A j \in Isolates \ {i} : call'[j] = call[j]
    BY <1>5, <1>8
  <2>3. Refs'[d] = Contract!Unused
    BY <2>2, RefBecomesUnused DEF Uncounted
  <2>4. \A c \in Databases \ {d} : Refs'[c] = Refs[c]
    BY <1>0, <2>2, OthersKeepRef
  <2>5. Refs' = [Refs EXCEPT ![call[i].db] = Contract!Unused]
    BY <2>2, <2>3, <2>4, RefsMove
  <2> QED
    BY <1>0, <2>1, <2>5 DEF Contract!CloseUnregisters
<1>9. CASE \E p \in Paths : TasksEnd(i, p)
  <2>1. PICK p \in Paths : TasksEnd(i, p)
    BY <1>9
  <2>2. Contract!TasksEnd(i, p)
    BY <2>1 DEF TasksEnd, Contract!TasksEnd, Polls, Contract!Polls, At, Contract!At,
                LockFor, Contract!LockFor, Unlocked, Contract!Unlocked
  <2>3. call' = call
    BY <2>1 DEF TasksEnd
  <2>4. ASSUME NEW d \in Databases PROVE Refs'[d] = Refs[d]
    <3>1. Uncounted(d)' <=> Uncounted(d)
      BY <2>3 DEF Uncounted
    <3>2. RefOf(d)' = RefOf(d)
      BY <1>0, <2>3, <3>1 DEF RefOf
    <3> QED
      BY <3>2 DEF Refs
  <2>5. UNCHANGED Refs
    BY <2>4, RefsStay
  <2> QED
    BY <1>0, <2>2, <2>5 DEF Contract!CallProceeds
<1> QED
  BY <1>4, <1>6, <1>7, <1>8, <1>9 DEF CallProceeds

\* The isolate goes, and with it the objects that held a reference.
LEMMA HotRestartKeeps ==
    ASSUME IInv, NEW i \in Isolates, HotRestart(i)
    PROVE  Contract!HotRestart(i) \/ UNCHANGED <<native, Refs, outcome>>
<1> DEFINE Lost(d) == Home[d] = i /\ obj[d].st # "lost" /\ Pointer(d) # Null
<1>0. /\ At(i, "idle") /\ call[i] = Idle
      /\ call' = call /\ UNCHANGED <<native, outcome>>
  <2>1. At(i, "idle") /\ UNCHANGED <<native, outcome>>
    BY Zenon DEF HotRestart
  <2>2. call[i].pc = "idle"
    BY <2>1 DEF At
  <2> QED
    BY <2>1, <2>2, IdleCall DEF native
<1>1. ASSUME NEW d \in Databases
      PROVE  /\ Home[d] # i \/ obj[d].st = "lost" => obj'[d] = obj[d]
             /\ Home[d] = i /\ obj[d].st # "lost" /\ Pointer(d) = Null => obj'[d] = Absent
             /\ Lost(d) => /\ obj'[d].st = "lost" /\ obj'[d].at = obj[d].at
                            /\ obj'[d].handle = Pointer(d)
  <2> DEFINE p(c) == IF obj[c].handle # Null THEN obj[c].handle ELSE obj[c].local
             n(c) == IF Home[c] # i \/ obj[c].st = "lost" THEN obj[c]
                     ELSE IF p(c) = Null THEN Absent
                     ELSE [Absent EXCEPT !.st = "lost", !.at = obj[c].at, !.handle = p(c)]
  <2>1. obj' = [c \in Databases |-> n(c)]
    BY Zenon DEF HotRestart
  <2>2. p(d) = Pointer(d)
    BY DEF Pointer
  <2> DEFINE lost == [Absent EXCEPT !.st = "lost", !.at = obj[d].at, !.handle = p(d)]
  <2>3. lost.st = "lost" /\ lost.at = obj[d].at /\ lost.handle = p(d)
    BY DEF Absent
  <2>4. obj'[d] = n(d)
    <3> HIDE DEF n
    <3> QED
      BY <2>1
  <2> QED
    BY <2>2, <2>3, <2>4
<1>2. ASSUME NEW d \in Databases, Home[d] # i \/ obj[d].st = "lost"
      PROVE  Refs'[d] = Refs[d]
  <2>1. Uncounted(d)' <=> Uncounted(d)
    BY <1>0 DEF Uncounted
  <2>2. obj'[d] = obj[d]
    BY <1>1, <1>2
  <2>3. RefOf(d)' = RefOf(d)
    BY <2>1, <2>2 DEF RefOf
  <2> QED
    BY <2>3 DEF Refs
<1>3. ASSUME NEW d \in Databases, Home[d] = i, obj[d].st # "lost", Pointer(d) = Null
      PROVE  Refs'[d] = Refs[d] /\ ~Contract!IsHeld(d)
  <2>1. obj'[d] = Absent
    BY <1>1, <1>3
  <2>2. Pointer(d)' = Null
    BY <2>1 DEF Pointer, Absent
  <2> QED
    BY <1>3, <2>2, RefIsUnused, RefBecomesUnused DEF Contract!IsHeld, Contract!Unused
<1>4. ASSUME NEW d \in Databases, Lost(d)
      PROVE  /\ Contract!IsHeld(d)
             /\ Refs'[d] = [Refs[d] EXCEPT !.st = "lost"]
  <2>1. obj'[d].st = "lost" /\ obj'[d].at = obj[d].at /\ obj'[d].handle = Pointer(d)
    BY <1>1, <1>4
  <2>2. ~Uncounted(d) /\ ~Uncounted(d)'
    <3>1. ~Uncounted(d)
      BY <1>0, <1>4, CountedUnlessClosing DEF Idle
    <3> QED
      BY <1>0, <3>1 DEF Uncounted
  <2>3. Contract!IsHeld(d) /\ Refs[d] = Contract!Held(obj[d].at, Pointer(d))
    BY <1>4, <2>2, RefIsHeld
  <2>4. Refs'[d] = [st |-> "lost", at |-> obj[d].at, ptr |-> Pointer(d)]
    BY <1>4, <2>1, <2>2 DEF Refs, RefOf
  <2> QED
    BY <2>3, <2>4 DEF Contract!Held
<1>5. ASSUME NEW d \in Databases, obj[d].st = "lost" PROVE ~Contract!IsHeld(d)
  BY <1>5 DEF Contract!IsHeld, Refs, RefOf
<1>6. CASE \E d \in Databases : Lost(d)
  <2>1. \E d \in Databases : Home[d] = i /\ Contract!IsHeld(d)
    BY <1>4, <1>6
  <2>2. Refs' = [d \in Databases |-> IF Home[d] = i /\ Contract!IsHeld(d)
                                     THEN [Refs[d] EXCEPT !.st = "lost"]
                                     ELSE Refs[d]]
    <3>1. ASSUME NEW d \in Databases
          PROVE  Refs'[d] = IF Home[d] = i /\ Contract!IsHeld(d)
                            THEN [Refs[d] EXCEPT !.st = "lost"] ELSE Refs[d]
      BY <1>2, <1>3, <1>4, <1>5
    <3>2. Refs' = [d \in Databases |-> Refs'[d]]
      BY DEF Refs
    <3> QED
      BY <3>1, <3>2
  <2>3. Contract!At(i, "idle")
    BY <1>0 DEF At, Contract!At
  <2>4. UNCHANGED <<Contract!native, outcome>>
    BY <1>0 DEF native, Contract!native
  <2> QED
    BY <2>1, <2>2, <2>3, <2>4, Zenon DEF Contract!HotRestart
<1>7. CASE ~\E d \in Databases : Lost(d)
  <2>1. \A d \in Databases : Refs'[d] = Refs[d]
    BY <1>2, <1>3, <1>7
  <2> QED
    BY <1>0, <2>1, RefsStay
<1> QED
  BY <1>6, <1>7

-----------------------------------------------------------------------------
(* The contract                                                            *)

LEMMA InitRefines == Init => Contract!Init
<1> SUFFICES ASSUME Init PROVE Contract!Init
  OBVIOUS
<1>1. \A d \in Databases : Pointer(d) = Null
  BY DEF Init, Pointer, Absent
<1>2. Refs = [d \in Databases |-> Contract!Unused]
  BY <1>1, RefIsUnused DEF Refs
<1>3. Contract!NativeInit
  BY DEF Init, NativeInit, Contract!NativeInit, NoEntry, Contract!NoEntry, Idle,
         Contract!Idle, Unlocked, Contract!Unlocked
<1> QED
  BY <1>2, <1>3 DEF Init, Contract!Init

\* What a step of an isolate's event loop is to the contract.
LEMMA EventLoopRefines ==
    ASSUME IInv, IInv', NEW i \in Isolates, EventLoop(i)
    PROVE  Contract!Proceed(i) \/ Contract!Client(i) \/ UNCHANGED <<native, Refs, outcome>>
<1> USE DEF Contract!Proceed, Contract!Client
<1>1. ASSUME NEW d \in Databases, RunConnectShared(i, d) PROVE Contract!Client(i)
  <2>1. obj[d].at \in Paths
    BY <1>1 DEF RunConnectShared
  <2> QED
    BY <1>1, <2>1, RunConnectSharedKeeps
<1>2. ASSUME NEW d \in Databases, RunConnectNew(i, d) PROVE Contract!Client(i)
  <2>1. obj[d].at \in Contract!Endpoints
    BY DEF IInv, TypeOK, Object, Endpoints, Contract!Endpoints
  <2> QED
    BY <1>2, <2>1, RunConnectNewKeeps
<1>3. ASSUME NEW d \in Databases, RunClose(i, d) PROVE Contract!Client(i)
  BY <1>3, RunCloseKeeps
<1>4. ConnectReturns(i) => Contract!Proceed(i)
  BY ConnectReturnsKeeps
<1>5. ConnectThrows(i) => Contract!Proceed(i)
  BY ConnectThrowsKeeps
<1>6. CloseReturns(i) \/ CallProceeds(i) => Contract!Proceed(i)
  BY CloseReturnsKeeps, CallProceedsKeeps
<1>7. Setup(i) \/ Abort(i) => Contract!Client(i)
  BY SetupKeeps
<1>8. SetupSucceeds(i) \/ SetupFails(i) => Contract!Proceed(i)
  BY SetupKeeps
<1>9. SetupSkipped(i) => UNCHANGED <<native, Refs, outcome>>
  BY SetupKeeps
<1>10. ASSUME NEW d \in Databases, RunQuery(i, d) \/ RunQueryRejected(i, d)
       PROVE  Contract!Client(i) \/ UNCHANGED <<native, Refs, outcome>>
  BY <1>10, RunOpKeeps
<1>11. ASSUME NEW d \in Databases, NEW k \in {"use", "txn"},
              RunUse(i, d, k) \/ RunUseOfNull(i, d, k)
       PROVE  Contract!Client(i) \/ UNCHANGED <<native, Refs, outcome>>
  BY <1>11, RunOpKeeps
<1>12. OpReturns(i) \/ CommitFails(i) => Contract!Proceed(i)
  BY EndOpKeeps
<1>13. RollBack(i) => Contract!Client(i)
  BY EndOpKeeps
<1> HIDE DEF Contract!Proceed, Contract!Client
<1> QED
  BY <1>1, <1>2, <1>3, <1>4, <1>5, <1>6, <1>7, <1>8, <1>9, <1>10, <1>11, <1>12, <1>13
  DEF EventLoop

\* Every step is a step of the contract, or nothing to it.
LEMMA NextRefines == IInv /\ IInv' /\ [Next]_vars => [Contract!Next]_Contract!vars
<1> SUFFICES ASSUME IInv, IInv', [Next]_vars
             PROVE  Contract!Next \/ UNCHANGED <<native, Refs, outcome>>
  BY DEF Contract!vars, Contract!native, native
<1>1. ASSUME NEW i \in Isolates, EventLoop(i)
      PROVE  Contract!Next \/ UNCHANGED <<native, Refs, outcome>>
  BY <1>1, EventLoopRefines DEF Contract!Next
<1>2. ASSUME NEW i \in Isolates, HotRestart(i)
      PROVE  Contract!Next \/ UNCHANGED <<native, Refs, outcome>>
  BY <1>2, HotRestartKeeps DEF Contract!Next, Contract!Client
<1>3. ASSUME NEW d \in Databases,
             \/ \E e \in Endpoints : CallConnect(d, e)
             \/ \E k \in {"query", "use", "txn"} : CallOperation(d, k)
             \/ CallClose(d)
      PROVE  UNCHANGED <<native, Refs, outcome>>
  BY <1>3, SchedulingKeeps
<1>4. ASSUME NEW d \in Databases, EndTransaction(Home[d], d)
      PROVE  Contract!Next \/ UNCHANGED <<native, Refs, outcome>>
  <2>1. Home[d] \in Isolates
    BY DatabaseAssumption
  <2>2. \/ Contract!UseUnchecked(Home[d], d)
        \/ UNCHANGED <<native, Refs, outcome>>
    BY <1>4, <2>1, EndOpKeeps
  <2> QED
    BY <2>1, <2>2 DEF Contract!Next, Contract!Client
<1>5. ASSUME UNCHANGED vars PROVE UNCHANGED <<native, Refs, outcome>>
  <2>1. obj' = obj /\ call' = call /\ UNCHANGED <<native, outcome>>
    BY <1>5 DEF vars, native
  <2>2. ASSUME NEW d \in Databases PROVE Refs'[d] = Refs[d]
    <3>1. Uncounted(d)' <=> Uncounted(d)
      BY <2>1 DEF Uncounted
    <3>2. RefOf(d)' = RefOf(d)
      BY <2>1, <3>1 DEF RefOf
    <3> QED
      BY <3>2 DEF Refs
  <2> QED
    BY <2>1, <2>2, RefsStay
<1> QED
  BY <1>1, <1>2, <1>3, <1>4, <1>5 DEF Next, Application

\* Whatever the order of calls, events and hot restarts, and whatever other
\* isolates do meanwhile, the class Database uses the native side as the
\* contract allows: each pointer is used by the object that got it, while the
\* object has it, and given up once.
THEOREM KeepsTheContract == Spec => KeepsContract
BY Invariance, InitRefines, NextRefines, PTL DEF Spec, KeepsContract, Contract!Spec


-----------------------------------------------------------------------------
(* What the class has from the contract.  ConnectionProofs says it of any  *)
(* reference that keeps the contract; here that is Refs.  Protocol has the *)
(* definitions of Contract over again, with the theorems about them.       *)

Protocol == INSTANCE ConnectionProofs WITH ref <- Refs

\* The assumptions ConnectionProofs makes are made here as well.
LEMMA SameFinite == ASSUME NEW S PROVE IsFiniteSet(S) => Protocol!IsFiniteSet(S)
BY DEF IsFiniteSet, Protocol!IsFiniteSet

LEMMA SameSize == ASSUME NEW S PROVE Protocol!Cardinality(S) = Contract!Cardinality(S)
BY DEF Protocol!Cardinality, Contract!Cardinality

LEMMA ProtocolAssumptions ==
    /\ Protocol!IsFiniteSet(Databases) /\ Mem \notin Paths
    /\ Null \notin Handles /\ Null \notin Databases /\ Null \notin Isolates
    /\ Home \in [Databases -> Isolates]
BY SameFinite, ConstantsAssumption, DatabaseAssumption

LEMMA SameInit == Contract!Init => Protocol!Init
BY DEF Contract!Init, Protocol!Init, Contract!NativeInit, Protocol!NativeInit,
   Contract!NoEntry, Protocol!NoEntry, Contract!Idle, Protocol!Idle,
   Contract!Unused, Protocol!Unused, Contract!Unlocked, Protocol!Unlocked

LEMMA SameNext == Contract!Next => Protocol!Next
BY DEF Contract!OpenShared, Protocol!OpenShared, Contract!OpenNew, Protocol!OpenNew,
   Contract!OpenReturns, Protocol!OpenReturns, Contract!CloseBegins, Protocol!CloseBegins,
   Contract!CloseUnregisters, Protocol!CloseUnregisters, Contract!QueryAccepted,
   Protocol!QueryAccepted, Contract!QueryRejected, Protocol!QueryRejected,
   Contract!UseUnchecked, Protocol!UseUnchecked, Contract!OpReturns, Protocol!OpReturns,
   Contract!CallProceeds, Protocol!CallProceeds, Contract!Verify, Protocol!Verify,
   Contract!HotRestart, Protocol!HotRestart, Contract!Proceed, Protocol!Proceed,
   Contract!Client, Protocol!Client, Contract!Next, Protocol!Next, Contract!NoEntry,
   Protocol!NoEntry, Contract!HasActiveConnection, Protocol!HasActiveConnection,
   Contract!IsHandleValid, Protocol!IsHandleValid, Contract!At, Protocol!At, Contract!Begin,
   Protocol!Begin, Contract!Endpoints, Protocol!Endpoints, Contract!Idle, Protocol!Idle,
   Contract!Unused, Protocol!Unused, Contract!Held, Protocol!Held, Contract!IsHeld,
   Protocol!IsHeld, Contract!ReuseConnection, Protocol!ReuseConnection,
   Contract!MissConnection, Protocol!MissConnection, Contract!Connect, Protocol!Connect,
   Contract!ConnectLocked, Protocol!ConnectLocked, Contract!ConnectFailed,
   Protocol!ConnectFailed, Contract!RegisterConnection, Protocol!RegisterConnection,
   Contract!DbClose, Protocol!DbClose, Contract!ReadEndpoint, Protocol!ReadEndpoint,
   Contract!KeepConnection, Protocol!KeepConnection, Contract!RemoveConnection,
   Protocol!RemoveConnection, Contract!FreeHandle, Protocol!FreeHandle,
   Contract!DrainRuntime, Protocol!DrainRuntime, Contract!ValidatedOp, Protocol!ValidatedOp,
   Contract!RejectedOp, Protocol!RejectedOp, Contract!UncheckedOp, Protocol!UncheckedOp,
   Contract!UseHandle, Protocol!UseHandle, Contract!DbVerify, Protocol!DbVerify,
   Contract!VerifyDirectory, Protocol!VerifyDirectory, Contract!native, Protocol!native,
   Contract!Unlocked, Protocol!Unlocked, Contract!fileLock, Protocol!fileLock,
   Contract!LockFor, Protocol!LockFor, Contract!Polls, Protocol!Polls, Contract!TasksEnd,
   Protocol!TasksEnd, Contract!DrainReturns, Protocol!DrainReturns, Contract!NeedsOther,
   Protocol!NeedsOther

LEMMA SameSpec == Spec => Protocol!Spec
<1>1. [Contract!Next]_Contract!vars => [Protocol!Next]_Protocol!vars
  BY SameNext DEF Contract!vars, Protocol!vars, Contract!native, Protocol!native
<1> QED BY <1>1, SameInit, KeepsTheContract, PTL DEF KeepsContract, Contract!Spec, Protocol!Spec

LEMMA SameProperties ==
    /\ Protocol!DereferencesOnlyLive => Contract!DereferencesOnlyLive
    /\ Protocol!HoldersShareConnection => Contract!HoldersShareConnection
    /\ Protocol!OneConnectionPerPath => Contract!OneConnectionPerPath
    /\ Protocol!RefCountExact => Contract!RefCountExact
    /\ Protocol!NothingLeaks => Contract!NothingLeaks
BY SameSize DEF Contract!DereferencesOnlyLive, Protocol!DereferencesOnlyLive,
   Contract!HoldersShareConnection, Protocol!HoldersShareConnection,
   Contract!OneConnectionPerPath, Protocol!OneConnectionPerPath, Contract!RefCountExact,
   Protocol!RefCountExact, Contract!NothingLeaks, Protocol!NothingLeaks, Contract!InTransit,
   Protocol!InTransit, Contract!Holders, Protocol!Holders, Contract!HasActiveConnection,
   Protocol!HasActiveConnection, Contract!IsHandleValid, Protocol!IsHandleValid,
   Contract!fileLock, Protocol!fileLock, Contract!Unlocked, Protocol!Unlocked,
   Contract!LeftToOpener, Protocol!LeftToOpener

\* However an application calls and closes its Database objects, and is hot
\* restarted, no native function reads, uses or frees a connection that has been
\* freed, and the objects of a directory have one connection.
THEOREM ObjectsUseLiveConnections ==
    Spec => [](/\ Contract!DereferencesOnlyLive
               /\ Contract!HoldersShareConnection
               /\ Contract!OneConnectionPerPath)
<1>1. Protocol!Spec => []Protocol!DereferencesOnlyLive
  BY ProtocolAssumptions, Protocol!NoDanglingDereference
<1>2. Protocol!Spec => []Protocol!HoldersShareConnection
  BY ProtocolAssumptions, Protocol!HoldersShare
<1>3. Protocol!Spec => []Protocol!OneConnectionPerPath
  BY ProtocolAssumptions, Protocol!DirectoriesOpenOnce
<1> QED BY <1>1, <1>2, <1>3, SameSpec, SameProperties, PTL

\* The connections they are given are counted, no connection is left that
\* nobody has, and a LOCK only where the last object to close was not of the
\* isolate that had opened the connection.
THEOREM ObjectsAreCounted ==
    Spec => [](Contract!RefCountExact /\ Contract!NothingLeaks)
<1>1. Protocol!Spec => []Protocol!RefCountExact
  BY ProtocolAssumptions, Protocol!CountsAreExact
<1>2. Protocol!Spec => []Protocol!NothingLeaks
  BY ProtocolAssumptions, Protocol!ConnectionsAreGivenBack
<1> QED BY <1>1, <1>2, SameSpec, SameProperties, PTL

\* And what the class does to the connection of a directory is what
\* SharedConnection allows: the first object opens it, the last closes it.
THEOREM ObjectsShareConnections == Spec => Protocol!SharesConnections
<1>1. Protocol!Spec => Protocol!SharesConnections
  BY ProtocolAssumptions, Protocol!ImplementsSharedConnection
<1> QED BY <1>1, SameSpec, PTL

=============================================================================
