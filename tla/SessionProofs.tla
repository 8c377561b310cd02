----------------------------- MODULE SessionProofs -----------------------------
(***************************************************************************)
(* Proofs about Session, for any isolates, objects and calls: who sees     *)
(* whose parameter, and what a transaction leaves behind.  The inductive   *)
(* invariant has a part for the parameters and one for the transaction;    *)
(* neither needs to know what waits in the queues, which the last section  *)
(* adds for type correctness.                                              *)
(***************************************************************************)
EXTENDS Session, FiniteSetTheorems, TLAPS

-----------------------------------------------------------------------------
(* The inductive invariant                                                 *)

Pcs == {"none", "bound", "failed", "callback", "lost"} \cup Waiting \cup Ended

CallRecords ==
    [pc : Pcs, kind : {"none", "search", "transaction", "write"}, name : Nat,
     got : Calls \cup {None}, written : SUBSET (Calls \X Nat), mixed : BOOLEAN]

Shape ==
    /\ obj \in [Databases -> {"open", "closed", "lost"}]
    /\ counter \in [Databases -> Nat]
    /\ running \in [Isolates -> Calls \cup {None}]
    /\ call \in [Calls -> CallRecords]
    /\ \A k \in DOMAIN params : params[k] \in Calls
    /\ txn.open \in BOOLEAN /\ txn = [open |-> txn.open, writes |-> txn.writes]

\* A search of another isolate that has come as far as naming its parameter,
\* and has named it alike.
Rival(c) ==
    \E e \in Calls :
        /\ Isolate(e) # Isolate(c)
        /\ call[e].kind = "search"
        /\ call[e].pc \notin {"none", "called"}
        /\ call[e].name = call[c].name

\* Who has bound what is in the session.
BoundBy(k, c) ==
    /\ call[c].name = k
    /\ call[c].kind = "search"
    /\ call[c].pc \notin {"none", "called", "binding"}
    /\ call[c].pc \in {"bound", "unbinding", "failed"} \/ ~IsOpen(c)

Searching == {"binding", "bound", "unbinding", "failed"}

\* Whose vector a search uses.
SearchSound(c) ==
    /\ call[c].pc \in Searching => call[c].kind = "search"
    /\ call[c].pc \in {"none", "called", "binding", "bound", "callback", "writing"}
        => call[c].got = None
    /\ At(c, "bound") => running[Isolate(c)] = c /\ (Value(call[c].name) = c \/ Rival(c))
    /\ call[c].pc \in {"unbinding", "returned"} /\ call[c].got # None
        => call[c].got = c \/ Rival(c)

Parameters == \A k \in DOMAIN params : BoundBy(k, params[k])
Searches   == \A c \in Calls : SearchSound(c)

\* Each call's writes are its own, finitely many, and numbered.
Writing ==
    \A c \in Calls :
        /\ IsFiniteSet(call[c].written)
        /\ \A w \in call[c].written : w[1] = c /\ w[2] <= Cardinality(call[c].written)
        /\ call[c].pc \in {"none", "called"} => call[c].written = {}
        /\ call[c].pc \in {"callback", "writing"} => call[c].kind = "transaction"

\* Where the writes of an undisturbed transaction are: together, on one side.
Undisturbed(c) ==
    /\ InSpan(c) => IF txn.open
                    THEN call[c].written \subseteq txn.writes /\ call[c].written \cap store = {}
                    ELSE call[c].written \subseteq store
    /\ call[c].pc \in {"returned", "threw"} =>
        \/ call[c].written \subseteq store
        \/ call[c].written \cap (store \cup txn.writes) = {}

\* The database and the transaction hold only what their callers were told of.
Transactions ==
    /\ ~txn.open => txn.writes = {}
    /\ \A w \in store \cup txn.writes : w[1] \in Calls /\ w \in call[w[1]].written
    /\ NothingLeftOpen
    /\ \A c \in Calls :
        call[c].kind = "transaction" /\ ~call[c].mixed => Undisturbed(c)

IInv == Shape /\ Parameters /\ Searches /\ Writing /\ Transactions

LEMMA HomeTyped ==
    \A c \in Calls : Owner[c] \in Databases /\ Isolate(c) \in Isolates
BY SessionAssumption DEF Isolate

-----------------------------------------------------------------------------
(* Steps that leave the transaction alone                                  *)

\* A step after which every call is where it was as far as transactions go.
LEMMA TransactionsKept ==
    ASSUME IInv, Shape', UNCHANGED <<txn, store>>,
           \A c \in Calls :
            /\ call'[c].written = call[c].written
            /\ At(c, "none") \/ (call'[c].mixed = call[c].mixed /\ call'[c].kind = call[c].kind)
            /\ At(c, "none") => call'[c].pc \in {"none", "called"}
            /\ InSpan(c) => call'[c].pc \in {"callback", "writing", "abandoned", "lost"}
            /\ ~InSpan(c) => ~InSpan(c)'
            /\ call[c].pc \in {"abandoned", "lost"} => call'[c].pc = call[c].pc
            /\ At(c, "returned")' /\ ~At(c, "returned") => call'[c].kind # "transaction"
            /\ At(c, "threw")' /\ ~At(c, "threw") => call'[c].written = {} \/ call'[c].kind # "transaction"
    PROVE  Transactions'
<1>1. NothingLeftOpen'
  <2> SUFFICES ASSUME txn.open
               PROVE  \E c \in Calls : \/ InSpan(c)'
                                       \/ call'[c].kind = "transaction" /\ call'[c].pc \in {"abandoned", "lost"}
    BY DEF NothingLeftOpen
  <2>1. PICK c \in Calls : InSpan(c) \/ (call[c].kind = "transaction" /\ call[c].pc \in {"abandoned", "lost"})
    BY DEF IInv, Transactions, NothingLeftOpen
  <2>2. call'[c].kind = "transaction"
    BY <2>1 DEF InSpan, At
  <2> QED BY <2>1, <2>2 DEF InSpan
<1>2. ASSUME NEW c \in Calls, call'[c].kind = "transaction", ~call'[c].mixed
      PROVE  Undisturbed(c)'
  <2>1. CASE At(c, "none")
    BY <1>2, <2>1 DEF Undisturbed, InSpan, At
  <2>2. CASE ~At(c, "none")
    <3>1. Undisturbed(c)
      BY <1>2, <2>2 DEF IInv, Transactions
    <3> QED BY <1>2, <2>2, <3>1 DEF Undisturbed, At
  <2> QED BY <2>1, <2>2
<1> QED BY <1>1, <1>2 DEF IInv, Transactions

-----------------------------------------------------------------------------
(* Steps that leave the parameters alone                                   *)

\* Calls on their way keep their kind and their name.
Onward ==
    \A c \in Calls : call[c].pc \notin {"none", "called"} =>
        /\ call'[c].pc \notin {"none", "called"}
        /\ call'[c].kind = call[c].kind
        /\ call'[c].name = call[c].name

LEMMA RivalStays ==
    ASSUME Onward, NEW c \in Calls, call[c].pc \notin {"none", "called"}, Rival(c)
    PROVE  Rival(c)'
BY DEF Onward, Rival, Isolate

\* A call stays where it is in its search, or is in none.
Aside(c) ==
    \/ /\ call'[c].pc = call[c].pc /\ call'[c].kind = call[c].kind
       /\ call'[c].name = call[c].name /\ call'[c].got = call[c].got
    \/ /\ call[c].pc \in {"none", "called", "callback", "writing"}
       /\ call'[c].pc \notin Searching /\ call'[c].got = None
       /\ call[c].pc # "none" => call'[c].kind = call[c].kind /\ call'[c].name = call[c].name
       /\ call[c].pc \in {"callback", "writing"} => call'[c].pc \notin {"none", "called"}

LEMMA ParametersKept ==
    ASSUME IInv, UNCHANGED <<obj, running, params>>, \A c \in Calls : Aside(c)
    PROVE  Parameters' /\ Searches'
<1>1. Onward
  BY DEF Onward, Aside
<1>2. ASSUME NEW k \in DOMAIN params' PROVE BoundBy(k, params[k])'
  <2> DEFINE c == params[k]
  <2>1. c \in Calls /\ k \in DOMAIN params /\ params' = params /\ BoundBy(k, c)
    BY DEF IInv, Shape, Parameters
  <2>2. call[c].pc \notin {"callback", "writing"}
    BY <2>1 DEF IInv, Writing, BoundBy
  <2>3. call'[c].pc = call[c].pc /\ call'[c].kind = call[c].kind /\ call'[c].name = call[c].name
    BY <2>1, <2>2 DEF Aside, BoundBy
  <2> QED BY <2>1, <2>3 DEF BoundBy, IsOpen
<1>3. ASSUME NEW c \in Calls PROVE SearchSound(c)'
  <2>1. Rival(c) /\ call[c].pc \notin {"none", "called"} => Rival(c)'
    BY <1>1, RivalStays
  <2>2. Aside(c) /\ SearchSound(c)
    BY DEF IInv, Searches
  <2> QED BY <2>1, <2>2 DEF SearchSound, Aside, Searching, At, Value, Isolate
<1>4. Parameters'
  BY <1>2 DEF Parameters
<1> QED BY <1>3, <1>4 DEF Searches

-----------------------------------------------------------------------------
(* Searches, close() and restarts                                          *)

\* Only calls change in Writing.
LEMMA WritingKept ==
    ASSUME IInv,
           \A c \in Calls :
            /\ call'[c].written = call[c].written
            /\ call[c].pc \notin {"none", "called"} => call'[c].pc \notin {"none", "called"}
            /\ call'[c].pc \in {"callback", "writing"} =>
                call[c].pc \in {"callback", "writing"} /\ call'[c].kind = call[c].kind
    PROVE  Writing'
BY DEF IInv, Writing

LEMMA MakePreserves ==
    ASSUME IInv, NEW c \in Calls, NEW kind \in {"search", "transaction", "write"}, Make(c, kind)
    PROVE  IInv'
<1> USE DEF IInv
<1>1. /\ call' = [call EXCEPT ![c] = NewCall("called", kind)] /\ At(c, "none")
      /\ UNCHANGED <<obj, counter, running, params, txn, store>>
  BY DEF Make
<1>2. /\ NewCall("called", kind) \in CallRecords
      /\ NewCall("called", kind).pc = "called" /\ NewCall("called", kind).got = None
      /\ NewCall("called", kind).written = {} /\ NewCall("called", kind).mixed = FALSE
  BY DEF NewCall, CallRecords, Pcs, Waiting
<1>3. Shape'
  BY <1>1, <1>2 DEF Shape
<1>4. call[c].written = {} /\ call[c].got = None
  BY <1>1 DEF Writing, Searches, SearchSound, At
<1>5. \A e \in Calls : e # c => call'[e] = call[e]
  BY <1>1 DEF Shape
<1>6. call'[c] = NewCall("called", kind)
  BY <1>1 DEF Shape
<1>7. Parameters' /\ Searches'
  <2>1. ASSUME NEW e \in Calls PROVE Aside(e)
    BY <1>1, <1>2, <1>5, <1>6 DEF Aside, At, Searching
  <2> QED BY <1>1, <2>1, ParametersKept
<1>8. Writing'
  <2>1. call[c].pc = "none"
    BY <1>1 DEF At
  <2>2. /\ call'[c].written = call[c].written
        /\ call'[c].pc \notin {"callback", "writing"}
    BY <1>2, <1>4, <1>6
  <2> QED BY <1>5, <2>1, <2>2, WritingKept
<1>9. Transactions'
  <2>1. \A e \in Calls : At(e, "none") => call[e].written = {}
    BY DEF Writing, At
  <2> QED BY <1>1, <1>2, <1>3, <1>4, <1>5, <1>6, TransactionsKept DEF At, InSpan
<1> QED BY <1>3, <1>7, <1>8, <1>9

LEMMA ClosePreserves ==
    ASSUME IInv, NEW d \in Databases, Close(d)
    PROVE  IInv'
<1> USE DEF IInv
<1>1. /\ obj' = [obj EXCEPT ![d] = "closed"] /\ obj[d] = "open"
      /\ UNCHANGED <<counter, running, call, params, txn, store>>
  BY DEF Close
<1>2. Shape'
  BY <1>1 DEF Shape
<1>3. ASSUME NEW k \in DOMAIN params' PROVE BoundBy(k, params[k])'
  <2>1. BoundBy(k, params[k]) /\ params[k] \in Calls
    BY <1>1, <1>3 DEF Parameters, Shape
  <2>2. ~IsOpen(params[k]) => ~IsOpen(params[k])'
    BY <1>1, <2>1, HomeTyped DEF IsOpen, Shape
  <2> QED BY <1>1, <2>1, <2>2 DEF BoundBy
<1>4. Searches'
  BY <1>1 DEF Searches, SearchSound, Rival, Value, At, Isolate
<1>5. Writing' /\ Transactions'
  BY <1>1 DEF Writing, Transactions, NothingLeftOpen, InSpan, Undisturbed, At
<1> QED BY <1>2, <1>3, <1>4, <1>5 DEF Parameters

LEMMA HotRestartPreserves ==
    ASSUME IInv, NEW i \in Isolates, HotRestart(i)
    PROVE  IInv'
<1> USE DEF IInv
<1>1. /\ obj' = [d \in Databases |-> IF Home[d] = i THEN "lost" ELSE obj[d]]
      /\ running' = [running EXCEPT ![i] = None]
      /\ UNCHANGED <<counter, params, txn, store>>
  BY DEF HotRestart
<1>2. ASSUME NEW c \in Calls
      PROVE  call'[c] = IF Isolate(c) = i /\ UnderWay(c) THEN [call[c] EXCEPT !.pc = "lost"] ELSE call[c]
  BY DEF HotRestart
<1>3. ASSUME NEW c \in Calls
      PROVE  /\ call'[c] \in CallRecords /\ call'[c].kind = call[c].kind
             /\ call'[c].name = call[c].name /\ call'[c].got = call[c].got
             /\ call'[c].written = call[c].written /\ call'[c].mixed = call[c].mixed
             /\ call'[c].pc = IF Isolate(c) = i /\ UnderWay(c) THEN "lost" ELSE call[c].pc
  <2>1. call[c] \in CallRecords
    BY DEF Shape
  <2>2. CASE Isolate(c) = i /\ UnderWay(c)
    <3>1. call'[c] = [call[c] EXCEPT !.pc = "lost"]
      BY <1>2, <2>2
    <3> QED BY <2>1, <2>2, <3>1 DEF CallRecords, Pcs
  <2>3. CASE ~(Isolate(c) = i /\ UnderWay(c))
    <3>1. call'[c] = call[c]
      BY <1>2, <2>3
    <3> QED BY <2>1, <2>3, <3>1
  <2> QED BY <2>2, <2>3
<1>4. Shape'
  <2>1. call' \in [Calls -> CallRecords]
    BY <1>3 DEF HotRestart
  <2> QED BY <1>1, <2>1 DEF Shape
<1>5. Onward
  BY <1>3 DEF Onward
<1>6. ASSUME NEW k \in DOMAIN params' PROVE BoundBy(k, params[k])'
  <2>1. BoundBy(k, params[k]) /\ params[k] \in Calls
    BY <1>1, <1>6 DEF Parameters, Shape
  <2>2. ~IsOpen(params[k]) \/ Isolate(params[k]) = i => ~IsOpen(params[k])'
    BY <1>1, <2>1, HomeTyped DEF IsOpen, Isolate
  <2> QED BY <1>1, <1>3, <2>1, <2>2 DEF BoundBy
<1>7. ASSUME NEW c \in Calls PROVE SearchSound(c)'
  <2>1. Rival(c) /\ call[c].pc \notin {"none", "called"} => Rival(c)'
    BY <1>5, RivalStays
  <2>2. SearchSound(c)
    BY DEF Searches
  <2>3. At(c, "bound")' => At(c, "bound") /\ running'[Isolate(c)] = c
    <3>1. SUFFICES ASSUME At(c, "bound")' PROVE At(c, "bound") /\ running'[Isolate(c)] = c
      OBVIOUS
    <3>2. At(c, "bound") /\ call'[c].pc = call[c].pc
      BY <1>3, <3>1 DEF At
    <3>3. Isolate(c) # i
      BY <1>3, <3>1, <3>2 DEF At, UnderWay, Ended
    <3> QED BY <1>1, <2>2, <3>2, <3>3 DEF SearchSound, Shape
  <2> QED BY <1>1, <1>3, <2>1, <2>2, <2>3 DEF SearchSound, Searching, At, Value, Isolate
<1>8. Writing'
  BY <1>3, WritingKept
<1>9. Transactions'
  BY <1>1, <1>3, <1>4, TransactionsKept DEF At, InSpan, UnderWay, Ended
<1> QED BY <1>4, <1>6, <1>7, <1>8, <1>9 DEF Parameters, Searches

\* A step of one search: no other call moves, and it stays out of transactions.
LEMMA SearchStep ==
    ASSUME IInv, NEW c \in Calls, Shape', UNCHANGED <<obj, txn, store>>,
           call[c].pc \in {"called"} \cup Searching, call[c].kind = "search",
           \A e \in Calls : e # c => call'[e] = call[e],
           call'[c].kind = "search", call'[c].written = call[c].written,
           call'[c].mixed = call[c].mixed,
           At(c, "called") \/ call'[c].name = call[c].name,
           call'[c].pc \in Searching \cup {"returned", "threw"}
    PROVE  Onward /\ Writing' /\ Transactions'
<1>1. ASSUME NEW e \in Calls, call[e].pc \notin {"none", "called"}
      PROVE  /\ call'[e].pc \notin {"none", "called"}
             /\ call'[e].kind = call[e].kind /\ call'[e].name = call[e].name
  <2>1. CASE e = c
    BY <1>1, <2>1 DEF Searching, At
  <2>2. CASE e # c
    BY <1>1, <2>2
  <2> QED BY <2>1, <2>2
<1>2. Writing'
  BY WritingKept DEF Searching
<1>3. Transactions'
  BY TransactionsKept DEF At, InSpan, Searching
<1> QED BY <1>1, <1>2, <1>3 DEF Onward

\* Another search that is between binding and querying is in another isolate.
LEMMA BoundElsewhere ==
    ASSUME IInv, NEW c \in Calls, Between(Isolate(c)), NEW e \in Calls, At(e, "bound")
    PROVE  Isolate(e) # Isolate(c)
BY SessionAssumption DEF IInv, Searches, SearchSound, Between

LEMMA NameParameterPreserves ==
    ASSUME IInv, NEW c \in Calls, NameParameter(c)
    PROVE  IInv'
<1> USE DEF IInv
<1>1. /\ At(c, "called") /\ call[c].kind = "search" /\ call[c] \in CallRecords
      /\ UNCHANGED <<obj, running, params, txn, store>>
      /\ counter' = [counter EXCEPT ![Owner[c]] = counter[Owner[c]] + 1]
  BY DEF NameParameter, Shape
<1>2. PICK new \in CallRecords :
        /\ call' = [call EXCEPT ![c] = new]
        /\ new.kind = call[c].kind /\ new.written = call[c].written /\ new.mixed = call[c].mixed
        /\ new.got = call[c].got /\ new.pc \in {"binding", "threw"}
  <2>1. counter[Owner[c]] \in Nat
    BY HomeTyped DEF Shape
  <2>2. CASE IsOpen(c)
    <3>1. [call[c] EXCEPT !.pc = "binding", !.name = counter[Owner[c]]] \in CallRecords
      BY <1>1, <2>1 DEF CallRecords, Pcs, Waiting
    <3>2. call' = [call EXCEPT ![c] = [call[c] EXCEPT !.pc = "binding", !.name = counter[Owner[c]]]]
      BY <2>2 DEF NameParameter, Shape
    <3> QED BY <1>1, <3>1, <3>2 DEF CallRecords
  <2>3. CASE ~IsOpen(c)
    <3>1. [call[c] EXCEPT !.pc = "threw"] \in CallRecords
      BY <1>1 DEF CallRecords, Pcs, Ended
    <3>2. call' = [call EXCEPT ![c] = [call[c] EXCEPT !.pc = "threw"]]
      BY <2>3 DEF NameParameter, Goes, Shape
    <3> QED BY <1>1, <3>1, <3>2 DEF CallRecords
  <2> QED BY <2>2, <2>3
<1>3. call'[c] = new /\ \A e \in Calls : e # c => call'[e] = call[e]
  BY <1>2 DEF Shape
<1>4. Shape'
  <2>1. counter' \in [Databases -> Nat]
    BY <1>1, HomeTyped DEF Shape
  <2> QED BY <1>1, <1>2, <2>1 DEF Shape
<1>5. Onward /\ Writing' /\ Transactions'
  BY <1>1, <1>2, <1>3, <1>4, SearchStep DEF At, Searching
<1>6. Parameters'
  BY <1>1, <1>3 DEF Parameters, BoundBy, At, IsOpen, Shape
<1>7. ASSUME NEW e \in Calls PROVE SearchSound(e)'
  <2>1. SearchSound(e) /\ (Rival(e) /\ call[e].pc \notin {"none", "called"} => Rival(e)')
    BY <1>5, RivalStays DEF Searches
  <2>2. CASE e = c
    BY <1>1, <1>2, <1>3, <2>1, <2>2 DEF SearchSound, Searching, At
  <2>3. CASE e # c
    BY <1>1, <1>3, <2>1, <2>3 DEF SearchSound, Searching, At, Value, Isolate
  <2> QED BY <2>2, <2>3
<1> QED BY <1>4, <1>5, <1>6, <1>7 DEF Searches

LEMMA BindParameterPreserves ==
    ASSUME IInv, NEW c \in Calls, BindParameter(c)
    PROVE  IInv'
<1> USE DEF IInv
<1>1. /\ At(c, "binding") /\ call[c] \in CallRecords /\ Between(Isolate(c))
      /\ UNCHANGED <<obj, counter, txn, store>>
  BY DEF BindParameter, Dispatch, Shape
<1>2. call[c].kind = "search" /\ call[c].got = None
  BY <1>1 DEF Searches, SearchSound, Searching, At
<1>3. PICK pc \in {"bound", "threw"} :
        /\ call' = [call EXCEPT ![c].pc = pc]
        /\ pc = "bound" => Set(call[c].name, c) /\ running' = [running EXCEPT ![Isolate(c)] = c]
        /\ pc = "threw" => UNCHANGED <<params, running>>
  <2>1. CASE IsOpen(c)
    BY <2>1 DEF BindParameter, Goes
  <2>2. CASE ~IsOpen(c)
    BY <2>2 DEF BindParameter, Goes
  <2> QED BY <2>1, <2>2
<1>4. /\ call'[c].pc = pc /\ call'[c].kind = "search" /\ call'[c].written = call[c].written
      /\ call'[c].name = call[c].name /\ call'[c].mixed = call[c].mixed /\ call'[c].got = None
      /\ \A e \in Calls : e # c => call'[e] = call[e]
  BY <1>1, <1>2, <1>3 DEF Shape, CallRecords
<1>5. Shape'
  <2>1. call' \in [Calls -> CallRecords]
    BY <1>1, <1>3 DEF Shape, CallRecords, Pcs, Ended
  <2>2. /\ running' \in [Isolates -> Calls \cup {None}]
        /\ \A k \in DOMAIN params' : params'[k] \in Calls
    BY <1>3 DEF Shape, Set
  <2> QED BY <1>1, <2>1, <2>2 DEF Shape
<1>6. Onward /\ Writing' /\ Transactions'
  BY <1>1, <1>2, <1>3, <1>4, <1>5, SearchStep DEF At, Searching
<1>7. ASSUME NEW k \in DOMAIN params' PROVE BoundBy(k, params[k])'
  <2>1. CASE k \in DOMAIN params /\ params'[k] = params[k]
    <3>1. BoundBy(k, params[k]) /\ params[k] \in Calls
      BY <2>1 DEF Parameters, Shape
    <3>2. params[k] # c
      BY <1>1, <3>1 DEF BoundBy, At
    <3> QED BY <1>1, <1>4, <2>1, <3>1, <3>2 DEF BoundBy, IsOpen
  <2>2. CASE k = call[c].name /\ params'[k] = c /\ pc = "bound"
    BY <1>4, <2>2 DEF BoundBy
  <2> QED BY <1>3, <1>7, <2>1, <2>2 DEF Set
<1>8. ASSUME NEW e \in Calls PROVE SearchSound(e)'
  <2>1. SearchSound(e) /\ (Rival(e) /\ call[e].pc \notin {"none", "called"} => Rival(e)')
    BY <1>6, RivalStays DEF Searches
  <2>2. CASE e = c
    <3>1. pc = "bound" => running'[Isolate(c)] = c /\ Value(call[c].name)' = c
      BY <1>3, <1>4, HomeTyped DEF Set, Value, Shape
    <3> QED BY <1>3, <1>4, <2>2, <3>1 DEF SearchSound, Searching, At, Isolate
  <2>3. CASE e # c
    <3>1. call'[e] = call[e]
      BY <1>4, <2>3
    <3>2. ASSUME At(e, "bound")
          PROVE  running'[Isolate(e)] = e /\ (Value(call[e].name)' = e \/ Rival(e)')
      <4>1. Isolate(e) # Isolate(c)
        BY <1>1, <3>2, BoundElsewhere
      <4>2. running'[Isolate(e)] = e
        <5>1. running[Isolate(e)] = e
          BY <2>1, <3>2 DEF SearchSound
        <5>2. CASE pc = "bound"
          BY <1>3, <4>1, <5>1, <5>2, HomeTyped DEF Shape
        <5>3. CASE pc = "threw"
          BY <1>3, <5>1, <5>3
        <5> QED BY <5>2, <5>3
      <4>3. CASE call[e].name = call[c].name /\ pc = "bound"
        <5>1. /\ call'[c].kind = "search" /\ call'[c].pc \notin {"none", "called"}
              /\ call'[c].name = call'[e].name
          BY <1>4, <3>1, <4>3
        <5>2. Isolate(c)' # Isolate(e)'
          BY <4>1 DEF Isolate
        <5>3. Rival(e)'
          BY <5>1, <5>2 DEF Rival
        <5> QED BY <4>2, <5>3
      <4>4. CASE call[e].name # call[c].name \/ pc = "threw"
        <5>1. Value(call[e].name)' = Value(call[e].name)
          BY <1>3, <3>1, <4>4 DEF Value, Set
        <5> QED BY <2>1, <3>2, <4>2, <5>1 DEF SearchSound, At
      <4> QED BY <1>3, <4>2, <4>3, <4>4
    <3> QED BY <2>1, <3>1, <3>2 DEF SearchSound, Searching, At, Isolate
  <2> QED BY <2>2, <2>3
<1> QED BY <1>5, <1>6, <1>7, <1>8 DEF Parameters, Searches

LEMMA SearchPreserves ==
    ASSUME IInv, NEW c \in Calls, Search(c)
    PROVE  IInv'
<1> USE DEF IInv
<1>1. /\ At(c, "bound") /\ call[c] \in CallRecords
      /\ running' = [running EXCEPT ![Isolate(c)] = None]
      /\ UNCHANGED <<obj, counter, params, txn, store>>
  BY DEF Search, Shape
<1>2. /\ call[c].kind = "search"
      /\ Value(call[c].name) = c \/ Rival(c)
      /\ \A e \in Calls : At(e, "bound") /\ e # c => Isolate(e) # Isolate(c)
  BY <1>1 DEF Searches, SearchSound, Searching, At
<1>3. PICK pc \in {"unbinding", "failed"} :
        /\ call' = [call EXCEPT ![c].pc = pc, ![c].got = Value(call[c].name)]
        /\ pc = "unbinding" => Value(call[c].name) # None
  BY DEF Search
<1>4. Value(call[c].name) \in Calls \cup {None}
  BY DEF Value, Shape
<1>5. /\ call'[c].pc = pc /\ call'[c].kind = "search" /\ call'[c].written = call[c].written
      /\ call'[c].name = call[c].name /\ call'[c].mixed = call[c].mixed
      /\ call'[c].got = Value(call[c].name)
      /\ \A e \in Calls : e # c => call'[e] = call[e]
  BY <1>1, <1>2, <1>3 DEF Shape, CallRecords
<1>6. Shape'
  <2>1. call' \in [Calls -> CallRecords]
    <3>1. [call[c] EXCEPT !.pc = pc, !.got = Value(call[c].name)] \in CallRecords
      BY <1>1, <1>4 DEF CallRecords, Pcs, Waiting
    <3>2. call' = [call EXCEPT ![c] = [call[c] EXCEPT !.pc = pc, !.got = Value(call[c].name)]]
      BY <1>3 DEF Shape
    <3> QED BY <3>1, <3>2 DEF Shape
  <2>2. running' \in [Isolates -> Calls \cup {None}]
    BY <1>1 DEF Shape
  <2> QED BY <1>1, <2>1, <2>2 DEF Shape
<1>7. Onward /\ Writing' /\ Transactions'
  BY <1>1, <1>2, <1>3, <1>5, <1>6, SearchStep DEF At, Searching
<1>8. ASSUME NEW k \in DOMAIN params' PROVE BoundBy(k, params[k])'
  <2>1. BoundBy(k, params[k]) /\ params[k] \in Calls
    BY <1>1, <1>8 DEF Parameters, Shape
  <2>2. CASE params[k] = c
    BY <1>1, <1>3, <1>5, <2>1, <2>2 DEF BoundBy
  <2>3. CASE params[k] # c
    BY <1>1, <1>5, <2>1, <2>3 DEF BoundBy, IsOpen
  <2> QED BY <2>2, <2>3
<1>9. ASSUME NEW e \in Calls PROVE SearchSound(e)'
  <2>1. SearchSound(e) /\ (Rival(e) /\ call[e].pc \notin {"none", "called"} => Rival(e)')
    BY <1>7, RivalStays DEF Searches
  <2>2. CASE e = c
    <3>1. Rival(c) => Rival(c)'
      BY <1>1, <2>1, <2>2 DEF At
    <3> QED BY <1>2, <1>3, <1>5, <2>2, <3>1 DEF SearchSound, Searching, At
  <2>3. CASE e # c
    <3>1. call'[e] = call[e]
      BY <1>5, <2>3
    <3>2. At(e, "bound") => running'[Isolate(e)] = running[Isolate(e)]
      BY <1>1, <1>2, <2>3, HomeTyped DEF Shape
    <3> QED BY <1>1, <2>1, <3>1, <3>2 DEF SearchSound, Searching, At, Value, Isolate
  <2> QED BY <2>2, <2>3
<1> QED BY <1>6, <1>7, <1>8, <1>9 DEF Parameters, Searches

LEMMA UnbindParameterPreserves ==
    ASSUME IInv, NEW c \in Calls, UnbindParameter(c)
    PROVE  IInv'
<1> USE DEF IInv
<1>1. /\ At(c, "unbinding") \/ At(c, "failed")
      /\ call[c] \in CallRecords /\ Between(Isolate(c))
      /\ UNCHANGED <<obj, counter, running, txn, store>>
  BY DEF UnbindParameter, Dispatch, Shape
<1>2. call[c].kind = "search"
  BY <1>1 DEF Searches, SearchSound, Searching, At
<1>3. PICK pc \in {"returned", "threw"} :
        /\ call' = [call EXCEPT ![c].pc = pc]
        /\ pc = "returned" => At(c, "unbinding")
        /\ IF IsOpen(c) THEN Unset(call[c].name) ELSE UNCHANGED params
  <2>1. CASE IsOpen(c) /\ At(c, "failed")
    BY <2>1 DEF UnbindParameter, Goes
  <2>2. CASE IsOpen(c) /\ ~At(c, "failed")
    BY <1>1, <2>2 DEF UnbindParameter, Goes
  <2>3. CASE ~IsOpen(c)
    BY <2>3 DEF UnbindParameter, Goes
  <2> QED BY <2>1, <2>2, <2>3
<1>4. /\ call'[c].pc = pc /\ call'[c].kind = "search" /\ call'[c].written = call[c].written
      /\ call'[c].name = call[c].name /\ call'[c].mixed = call[c].mixed
      /\ call'[c].got = call[c].got
      /\ \A e \in Calls : e # c => call'[e] = call[e]
  BY <1>1, <1>2, <1>3 DEF Shape, CallRecords
<1>5. /\ DOMAIN params' \subseteq DOMAIN params
      /\ \A k \in DOMAIN params' : params'[k] = params[k]
      /\ \A k \in DOMAIN params : k # call[c].name => k \in DOMAIN params'
      /\ IsOpen(c) => call[c].name \notin DOMAIN params'
  BY <1>3 DEF Unset
<1>6. Shape'
  <2>1. call' \in [Calls -> CallRecords]
    BY <1>1, <1>3 DEF Shape, CallRecords, Pcs, Ended
  <2>2. \A k \in DOMAIN params' : params'[k] \in Calls
    BY <1>5 DEF Shape
  <2> QED BY <1>1, <2>1, <2>2 DEF Shape
<1>7. Onward /\ Writing' /\ Transactions'
  BY <1>1, <1>2, <1>3, <1>4, <1>6, SearchStep DEF At, Searching
<1>8. ASSUME NEW k \in DOMAIN params' PROVE BoundBy(k, params[k])'
  <2>1. BoundBy(k, params[k]) /\ params[k] \in Calls /\ params'[k] = params[k]
    BY <1>5, <1>8 DEF Parameters, Shape
  <2>2. CASE params[k] = c
    <3>1. ~IsOpen(c)
      BY <1>5, <1>8, <2>1, <2>2 DEF BoundBy
    <3> QED BY <1>1, <1>3, <1>4, <2>1, <2>2, <3>1 DEF BoundBy, IsOpen
  <2>3. CASE params[k] # c
    BY <1>1, <1>4, <2>1, <2>3 DEF BoundBy, IsOpen
  <2> QED BY <2>2, <2>3
<1>9. ASSUME NEW e \in Calls PROVE SearchSound(e)'
  <2>1. SearchSound(e) /\ (Rival(e) /\ call[e].pc \notin {"none", "called"} => Rival(e)')
    BY <1>7, RivalStays DEF Searches
  <2>2. CASE e = c
    <3>1. Rival(c) => Rival(c)'
      BY <1>1, <2>1, <2>2 DEF At
    <3> QED BY <1>1, <1>2, <1>3, <1>4, <2>1, <2>2, <3>1 DEF SearchSound, Searching, At
  <2>3. CASE e # c
    <3>1. call'[e] = call[e]
      BY <1>4, <2>3
    <3>2. ASSUME At(e, "bound")
          PROVE  Value(call[e].name)' = e \/ Rival(e)'
      <4>1. CASE call[e].name = call[c].name
        <5>1. Isolate(c)' # Isolate(e)'
          BY <1>1, <3>2, BoundElsewhere DEF Isolate
        <5> QED BY <1>3, <1>4, <3>1, <4>1, <5>1 DEF Rival
      <4>2. CASE call[e].name # call[c].name
        <5>1. Value(call[e].name)' = Value(call[e].name)
          BY <1>5, <3>1, <4>2 DEF Value
        <5> QED BY <2>1, <3>2, <5>1 DEF SearchSound, At
      <4> QED BY <4>1, <4>2
    <3> QED BY <1>1, <2>1, <3>1, <3>2 DEF SearchSound, Searching, At, Isolate
  <2> QED BY <2>2, <2>3
<1> QED BY <1>6, <1>7, <1>8, <1>9 DEF Parameters, Searches

-----------------------------------------------------------------------------
(* Transactions and writes                                                 *)

LEMMA ExecutesFacts ==
    ASSUME IInv, NEW c \in Calls, NEW pc \in Pcs, NEW W \in SUBSET (Calls \X Nat),
           Executes(c, pc, W)
    PROVE  /\ call' \in [Calls -> CallRecords]
           /\ \A e \in Calls :
                /\ call'[e].kind = call[e].kind /\ call'[e].name = call[e].name
                /\ call'[e].got = call[e].got
           /\ \A e \in Calls : e # c =>
                /\ call'[e].pc = call[e].pc /\ call'[e].written = call[e].written
                /\ InSpan(e) => call'[e].mixed
                /\ ~InSpan(e) => call'[e] = call[e]
           /\ call'[c].pc = pc /\ call'[c].written = call[c].written \cup W
           /\ ~call'[c].mixed => ~call[c].mixed /\ ~(pc = "callback" /\ At(c, "called") /\ txn.open)
<1> DEFINE m == call[c].mixed \/ (pc = "callback" /\ At(c, "called") /\ txn.open)
           new == [call[c] EXCEPT !.pc = pc, !.written = call[c].written \cup W, !.mixed = m]
<1>1. \A e \in Calls : call[e] \in CallRecords
  BY DEF IInv, Shape
<1>2. m \in BOOLEAN
  BY <1>1 DEF CallRecords
<1>3. /\ new \in CallRecords /\ new.kind = call[c].kind /\ new.name = call[c].name
      /\ new.got = call[c].got /\ new.pc = pc /\ new.written = call[c].written \cup W
      /\ new.mixed = m
  <2> HIDE DEF m
  <2> QED BY <1>1, <1>2 DEF CallRecords
<1>4. ASSUME NEW e \in Calls
      PROVE  /\ [call[e] EXCEPT !.mixed = TRUE] \in CallRecords
             /\ [call[e] EXCEPT !.mixed = TRUE].kind = call[e].kind
             /\ [call[e] EXCEPT !.mixed = TRUE].name = call[e].name
             /\ [call[e] EXCEPT !.mixed = TRUE].got = call[e].got
             /\ [call[e] EXCEPT !.mixed = TRUE].pc = call[e].pc
             /\ [call[e] EXCEPT !.mixed = TRUE].written = call[e].written
             /\ [call[e] EXCEPT !.mixed = TRUE].mixed
  BY <1>1 DEF CallRecords
<1>5. call' = [e \in Calls |-> IF e = c THEN new
                               ELSE IF InSpan(e) THEN [call[e] EXCEPT !.mixed = TRUE] ELSE call[e]]
  BY DEF Executes
<1>6. call'[c] = new
  BY <1>5
<1>7. ~m => ~call[c].mixed /\ ~(pc = "callback" /\ At(c, "called") /\ txn.open)
  OBVIOUS
<1> HIDE DEF new, m
<1>8. ASSUME NEW e \in Calls, e # c
      PROVE  /\ call'[e] \in CallRecords /\ call'[e].kind = call[e].kind
             /\ call'[e].name = call[e].name /\ call'[e].got = call[e].got
             /\ call'[e].pc = call[e].pc /\ call'[e].written = call[e].written
             /\ InSpan(e) => call'[e].mixed
             /\ ~InSpan(e) => call'[e] = call[e]
  <2>1. CASE InSpan(e)
    <3>1. call'[e] = [call[e] EXCEPT !.mixed = TRUE]
      BY <1>5, <1>8, <2>1
    <3> QED BY <1>4, <2>1, <3>1
  <2>2. CASE ~InSpan(e)
    <3>1. call'[e] = call[e]
      BY <1>5, <1>8, <2>2
    <3> QED BY <1>1, <2>2, <3>1
  <2> QED BY <2>1, <2>2
<1>9. call' \in [Calls -> CallRecords]
  <2>1. \A e \in Calls : call'[e] \in CallRecords
    BY <1>3, <1>6, <1>8
  <2>2. call' = [e \in Calls |-> call'[e]]
    BY <1>5
  <2> QED BY <2>1, <2>2
<1>10. call'[c].pc = pc /\ call'[c].written = call[c].written \cup W
  BY <1>3, <1>6
<1>11. ~call'[c].mixed => ~call[c].mixed /\ ~(pc = "callback" /\ At(c, "called") /\ txn.open)
  BY <1>3, <1>6, <1>7
<1>12. call'[c].kind = call[c].kind /\ call'[c].name = call[c].name /\ call'[c].got = call[c].got
  BY <1>3, <1>6
<1> QED BY <1>8, <1>9, <1>10, <1>11, <1>12

\* BEGIN, COMMIT and CANCEL write nothing.
LEMMA ExecutesNothing ==
    ASSUME IInv, NEW c \in Calls, NEW pc \in Pcs, Executes(c, pc, {})
    PROVE  /\ call' \in [Calls -> CallRecords]
           /\ \A e \in Calls : call'[e].kind = call[e].kind /\ call'[e].written = call[e].written
           /\ \A e \in Calls : e # c =>
                /\ call'[e].pc = call[e].pc
                /\ InSpan(e) => call'[e].mixed
                /\ ~InSpan(e) => call'[e] = call[e]
           /\ call'[c].pc = pc
           /\ ~call'[c].mixed => ~call[c].mixed /\ ~(pc = "callback" /\ At(c, "called") /\ txn.open)
<1>1. {} \in SUBSET (Calls \X Nat) /\ call[c].written \cup {} = call[c].written
  OBVIOUS
<1>2. /\ call' \in [Calls -> CallRecords]
      /\ \A e \in Calls :
            /\ call'[e].kind = call[e].kind /\ call'[e].name = call[e].name
            /\ call'[e].got = call[e].got
      /\ \A e \in Calls : e # c =>
            /\ call'[e].pc = call[e].pc /\ call'[e].written = call[e].written
            /\ InSpan(e) => call'[e].mixed
            /\ ~InSpan(e) => call'[e] = call[e]
      /\ call'[c].pc = pc /\ call'[c].written = call[c].written \cup {}
      /\ ~call'[c].mixed => ~call[c].mixed /\ ~(pc = "callback" /\ At(c, "called") /\ txn.open)
  <2>1. {} \in SUBSET (Calls \X Nat)
    OBVIOUS
  <2> QED BY <2>1, ExecutesFacts, Zenon
<1>3. \A e \in Calls : call'[e].kind = call[e].kind /\ call'[e].written = call[e].written
  BY <1>1, <1>2
<1> QED BY <1>2, <1>3

\* A call that executes a statement, and ends up outside its search.
LEMMA ExecutesAside ==
    ASSUME IInv, NEW c \in Calls, NEW pc \in Pcs \ (Searching \cup {"none", "called"}),
           NEW W \in SUBSET (Calls \X Nat),
           Executes(c, pc, W), call[c].pc \in {"called", "callback", "writing"}, Unowned
    PROVE  Parameters' /\ Searches'
<1>1. call[c].got = None
  BY DEF IInv, Searches, SearchSound
<1>2. ASSUME NEW e \in Calls PROVE Aside(e)
  BY <1>1, ExecutesFacts DEF Aside
<1> QED BY <1>2, ParametersKept DEF Unowned

\* A call that only moves, outside any search.
LEMMA GoesFacts ==
    ASSUME IInv, NEW c \in Calls, NEW pc \in Pcs \ (Searching \cup {"none", "called"}),
           Goes(c, pc), call[c].pc \in {"called", "callback", "writing"}, Unowned,
           UNCHANGED <<txn, store>>
    PROVE  /\ Shape' /\ Parameters' /\ Searches'
           /\ \A e \in Calls : e # c => call'[e] = call[e]
           /\ call'[c].pc = pc /\ call'[c].kind = call[c].kind
           /\ call'[c].written = call[c].written /\ call'[c].mixed = call[c].mixed
<1>1. call[c] \in CallRecords /\ call[c].got = None
  BY DEF IInv, Shape, Searches, SearchSound
<1>2. call' = [call EXCEPT ![c] = [call[c] EXCEPT !.pc = pc]]
  BY DEF Goes, IInv, Shape
<1>3. [call[c] EXCEPT !.pc = pc] \in CallRecords
  BY <1>1 DEF CallRecords
<1>4. /\ \A e \in Calls : e # c => call'[e] = call[e]
      /\ call'[c].pc = pc /\ call'[c].kind = call[c].kind
      /\ call'[c].written = call[c].written /\ call'[c].mixed = call[c].mixed
      /\ call'[c].name = call[c].name /\ call'[c].got = call[c].got
  BY <1>1, <1>2 DEF IInv, Shape, CallRecords
<1>5. Shape'
  BY <1>2, <1>3 DEF IInv, Shape, Unowned
<1>6. ASSUME NEW e \in Calls PROVE Aside(e)
  BY <1>1, <1>4 DEF Aside
<1> QED BY <1>4, <1>5, <1>6, ParametersKept DEF Unowned

\* Nothing but a call's place changes: it stays out of the transaction.
LEMMA GoesPreserves ==
    ASSUME IInv, NEW c \in Calls, NEW pc \in Pcs \ (Searching \cup {"none", "called"}),
           Goes(c, pc), call[c].pc \in {"called", "callback", "writing"}, Unowned,
           UNCHANGED <<txn, store>>,
           InSpan(c) => pc \in {"callback", "writing", "abandoned", "lost"},
           ~InSpan(c) => pc = "threw" /\ (call[c].kind = "transaction" => At(c, "called"))
    PROVE  IInv'
<1>1. /\ Shape' /\ Parameters' /\ Searches'
      /\ \A e \in Calls : e # c => call'[e] = call[e]
      /\ call'[c].pc = pc /\ call'[c].kind = call[c].kind
      /\ call'[c].written = call[c].written /\ call'[c].mixed = call[c].mixed
  BY GoesFacts
<1>2. At(c, "called") => call[c].written = {}
  BY DEF IInv, Writing, At
<1>3. call[c].pc \in {"callback", "writing"} => InSpan(c)
  BY DEF IInv, Writing, InSpan
<1>4. Writing'
  BY <1>1, <1>3, WritingKept DEF InSpan
<1>5. Transactions'
  BY <1>1, <1>2, <1>3, TransactionsKept DEF InSpan, At, Unowned
<1> QED BY <1>1, <1>4, <1>5 DEF IInv

LEMMA CallbackPreserves ==
    ASSUME IInv, NEW c \in Calls, CallbackWrites(c) \/ WriteFails(c) \/ Abandon(c)
    PROVE  IInv'
<1>1. At(c, "callback") \/ At(c, "writing") => InSpan(c)
  BY DEF IInv, Writing, At, InSpan
<1>2. CASE CallbackWrites(c)
  BY <1>1, <1>2, GoesPreserves DEF CallbackWrites, At, Pcs, Waiting, Searching
<1>3. CASE WriteFails(c)
  <2>1. CASE At(c, "writing")
    <3>1. Goes(c, "callback") /\ Unowned /\ UNCHANGED <<txn, store>>
      BY <1>3, <2>1 DEF WriteFails
    <3> QED BY <1>1, <2>1, <3>1, GoesPreserves DEF At, Pcs, Searching
  <2>2. CASE ~At(c, "writing")
    <3>1. Goes(c, "threw") /\ Unowned /\ UNCHANGED <<txn, store>>
          /\ At(c, "called") /\ call[c].kind = "write"
      BY <1>3, <2>2 DEF WriteFails
    <3> QED BY <3>1, GoesPreserves DEF At, Pcs, Searching, Ended, InSpan
  <2> QED BY <2>1, <2>2
<1>4. CASE Abandon(c)
  BY <1>1, <1>4, GoesPreserves DEF Abandon, At, Pcs, Ended, Searching
<1> QED BY <1>2, <1>3, <1>4

LEMMA RunTransactionPreserves ==
    ASSUME IInv, NEW c \in Calls, RunTransaction(c)
    PROVE  IInv'
<1> USE DEF IInv
<1>1. /\ At(c, "called") /\ call[c].kind = "transaction" /\ call[c].written = {}
      /\ Unowned /\ UNCHANGED store
  BY DEF RunTransaction, Writing, At
<1>2. CASE ~IsOpen(c)
  <2>1. Goes(c, "threw") /\ UNCHANGED txn
    BY <1>2 DEF RunTransaction
  <2> QED BY <1>1, <2>1, GoesPreserves DEF At, Pcs, Searching, Ended, InSpan
<1>3. CASE IsOpen(c)
  <2> PICK spans \in BOOLEAN :
            Executes(c, "callback", {}) /\ txn' = [txn EXCEPT !.open = txn.open \/ spans]
    BY <1>3 DEF RunTransaction, BeginTransaction
  <2>1. Executes(c, "callback", {})
    OBVIOUS
  <2>2. txn' = [open |-> txn.open \/ spans, writes |-> txn.writes]
    BY DEF Shape
  <2>3. /\ txn'.open \in BOOLEAN /\ txn'.writes = txn.writes /\ txn.open \in BOOLEAN
        /\ txn.open => txn'.open
    BY <2>2 DEF Shape
  <2>4. {} \in SUBSET (Calls \X Nat) /\ "callback" \in Pcs
    BY DEF Pcs
  <2>5. /\ call' \in [Calls -> CallRecords]
        /\ \A e \in Calls : call'[e].kind = call[e].kind /\ call'[e].written = call[e].written
        /\ \A e \in Calls : e # c => call'[e].pc = call[e].pc
                                     /\ (InSpan(e) => call'[e].mixed)
                                     /\ (~InSpan(e) => call'[e] = call[e])
        /\ call'[c].pc = "callback" /\ (~call'[c].mixed => ~txn.open)
    BY <1>1, <2>1, <2>4, ExecutesNothing
  <2>6. Parameters' /\ Searches'
    BY <1>1, <2>1, <2>4, ExecutesAside DEF At, Searching
  <2>7. Shape'
    BY <1>1, <2>2, <2>3, <2>5 DEF Shape, Unowned
  <2>8. Writing'
    BY <1>1, <2>5 DEF Writing
  <2>9. NothingLeftOpen'
    BY <1>1, <2>5 DEF NothingLeftOpen, InSpan
  <2>10. ASSUME NEW e \in Calls, call'[e].kind = "transaction", ~call'[e].mixed
         PROVE  Undisturbed(e)'
    <3>1. CASE e = c
      BY <1>1, <2>3, <2>5, <2>10, <3>1 DEF Undisturbed, InSpan, At, Transactions
    <3>2. CASE e # c
      <4>1. ~InSpan(e) /\ call'[e] = call[e] /\ Undisturbed(e)
        BY <2>5, <2>10, <3>2 DEF Transactions
      <4> QED BY <1>1, <2>3, <4>1 DEF Undisturbed, InSpan, At
    <3> QED BY <3>1, <3>2
  <2>11. \A w \in store' \cup txn'.writes : w[1] \in Calls /\ w \in call'[w[1]].written
    BY <1>1, <2>3, <2>5 DEF Transactions
  <2>12. ~txn'.open => txn'.writes = {}
    BY <1>1, <2>3 DEF Transactions, Unowned
  <2>13. Transactions'
    BY <1>1, <2>9, <2>10, <2>11, <2>12 DEF Transactions, Unowned
  <2> QED BY <2>6, <2>7, <2>8, <2>13
<1> QED BY <1>2, <1>3

\* db_commit and db_rollback: either way nothing is left in the transaction.
LEMMA EndPreserves ==
    ASSUME IInv, NEW c \in Calls, Commit(c) \/ RollBack(c)
    PROVE  IInv'
<1> USE DEF IInv
<1>1. At(c, "callback") /\ InSpan(c) /\ Unowned /\ txn' = NoTransaction
  BY DEF Commit, RollBack, Writing, InSpan, At, CommitTransaction, CancelTransaction
<1>2. txn'.open = FALSE /\ txn'.writes = {}
  BY <1>1 DEF NoTransaction
<1>3. PICK pc \in {"returned", "threw"} :
        /\ Executes(c, pc, {})
        /\ store' \in {store \cup txn.writes, store}
  BY DEF Commit, RollBack, CommitTransaction, CancelTransaction
<1>4. {} \in SUBSET (Calls \X Nat) /\ pc \in Pcs
  BY DEF Pcs, Ended
<1>5. /\ call' \in [Calls -> CallRecords]
      /\ \A e \in Calls : call'[e].kind = call[e].kind /\ call'[e].written = call[e].written
      /\ \A e \in Calls : e # c => call'[e].pc = call[e].pc
                                   /\ (InSpan(e) => call'[e].mixed)
                                   /\ (~InSpan(e) => call'[e] = call[e])
      /\ call'[c].pc = pc /\ (~call'[c].mixed => ~call[c].mixed)
  BY <1>3, <1>4, ExecutesNothing
<1>6. Parameters' /\ Searches'
  BY <1>1, <1>3, <1>4, ExecutesAside DEF At, Searching
<1>7. Shape'
  BY <1>1, <1>5 DEF Shape, Unowned, NoTransaction
<1>8. Writing'
  BY <1>5 DEF Writing
<1>9. ASSUME NEW e \in Calls, call'[e].kind = "transaction", ~call'[e].mixed
      PROVE  Undisturbed(e)'
  <2>1. CASE e = c
    <3>1. Undisturbed(c) /\ InSpan(c)
      BY <1>1, <1>5, <1>9, <2>1 DEF Transactions
    <3> QED BY <1>2, <1>3, <1>5, <2>1, <3>1 DEF Undisturbed, InSpan, At
  <2>2. CASE e # c
    <3>1. ~InSpan(e) /\ call'[e] = call[e] /\ Undisturbed(e)
      BY <1>5, <1>9, <2>2 DEF Transactions
    <3> QED BY <1>2, <1>3, <3>1 DEF Undisturbed, InSpan, At
  <2> QED BY <2>1, <2>2
<1>10. \A w \in store' \cup txn'.writes : w[1] \in Calls /\ w \in call'[w[1]].written
  BY <1>2, <1>3, <1>5 DEF Transactions
<1>11. Transactions'
  BY <1>1, <1>2, <1>9, <1>10 DEF Transactions, NothingLeftOpen, Unowned
<1> QED BY <1>6, <1>7, <1>8, <1>11

\* A write is new to its call, and to the database and the transaction.
LEMMA RunWritePreserves ==
    ASSUME IInv, NEW c \in Calls, RunWrite(c)
    PROVE  IInv'
<1> USE DEF IInv
<1> DEFINE old == call[c].written
           w == <<c, Cardinality(old) + 1>>
<1>1. /\ At(c, "writing") \/ (At(c, "called") /\ call[c].kind = "write")
      /\ Unowned /\ WriteRecord(w)
      /\ Executes(c, IF At(c, "writing") THEN "callback" ELSE "returned", {w})
  BY DEF RunWrite
<1>2. IsFiniteSet(old) /\ Cardinality(old) \in Nat /\ old \subseteq Calls \X Nat
  BY FS_CardinalityType DEF Writing, Shape, CallRecords
<1>3. {w} \in SUBSET (Calls \X Nat) /\ w[1] = c /\ w[2] = Cardinality(old) + 1
  BY <1>2
<1>4. w \notin old
  <2>1. \A v \in old : v[2] \in Nat /\ v[2] <= Cardinality(old)
    BY <1>2 DEF Writing
  <2> QED BY <1>2, <1>3, <2>1
<1>5. IsFiniteSet(old \cup {w}) /\ Cardinality(old \cup {w}) = Cardinality(old) + 1
  BY <1>2, <1>4, FS_AddElement
<1>6. w \notin store \cup txn.writes
  BY <1>3, <1>4 DEF Transactions
<1> HIDE DEF w
<1>7. PICK pc \in {"callback", "returned"} :
        /\ Executes(c, pc, {w})
        /\ pc = "callback" => InSpan(c)
        /\ pc = "returned" => call[c].kind = "write"
  <2>1. CASE At(c, "writing")
    BY <1>1, <2>1 DEF Writing, InSpan, At
  <2>2. CASE ~At(c, "writing")
    BY <1>1, <2>2
  <2> QED BY <2>1, <2>2
<1>8. pc \in Pcs /\ call[c].pc \in {"called", "callback", "writing"}
  BY <1>1 DEF Pcs, Ended, At
<1>9. /\ call' \in [Calls -> CallRecords]
      /\ \A e \in Calls : call'[e].kind = call[e].kind
      /\ \A e \in Calls : e # c =>
            /\ call'[e].pc = call[e].pc /\ call'[e].written = call[e].written
            /\ InSpan(e) => call'[e].mixed
            /\ ~InSpan(e) => call'[e] = call[e]
      /\ call'[c].pc = pc /\ call'[c].written = old \cup {w}
      /\ ~call'[c].mixed => ~call[c].mixed
  BY <1>3, <1>7, <1>8, ExecutesFacts
<1>10. Parameters' /\ Searches'
  BY <1>1, <1>3, <1>7, <1>8, ExecutesAside DEF Searching
<1>11. /\ txn.open => txn' = [open |-> txn.open, writes |-> txn.writes \cup {w}] /\ store' = store
       /\ ~txn.open => txn' = txn /\ store' = store \cup {w}
       /\ txn'.open = txn.open
  <2>1. CASE txn.open
    <3>1. txn' = [txn EXCEPT !.writes = txn.writes \cup {w}] /\ store' = store
      BY <1>1, <2>1 DEF WriteRecord
    <3> QED BY <2>1, <3>1 DEF Shape
  <2>2. CASE ~txn.open
    BY <1>1, <2>2 DEF WriteRecord
  <2> QED BY <2>1, <2>2
<1>12. Shape'
  <2>1. txn' = [open |-> txn'.open, writes |-> txn'.writes]
    BY <1>11 DEF Shape
  <2> QED BY <1>1, <1>9, <1>11, <2>1 DEF Shape, Unowned
<1>13. Writing'
  <2>1. ASSUME NEW e \in Calls
        PROVE  /\ IsFiniteSet(call'[e].written)
               /\ \A v \in call'[e].written : v[1] = e /\ v[2] <= Cardinality(call'[e].written)
    <3>1. CASE e = c
      <4>1. \A v \in old : v[1] = c /\ v[2] \in Nat /\ v[2] <= Cardinality(old)
        BY <1>2 DEF Writing
      <4>2. \A v \in old \cup {w} : v[1] = c /\ v[2] <= Cardinality(old) + 1
        BY <1>2, <1>3, <4>1
      <4> QED BY <1>5, <1>9, <3>1, <4>2
    <3>2. CASE e # c
      BY <1>9, <3>2 DEF Writing
    <3> QED BY <3>1, <3>2
  <2>2. ASSUME NEW e \in Calls
        PROVE  /\ call'[e].pc \in {"none", "called"} => call'[e].written = {}
               /\ call'[e].pc \in {"callback", "writing"} => call'[e].kind = "transaction"
    <3>1. CASE e = c
      BY <1>7, <1>9, <3>1 DEF InSpan
    <3>2. CASE e # c
      BY <1>9, <3>2 DEF Writing
    <3> QED BY <3>1, <3>2
  <2> QED BY <2>1, <2>2 DEF Writing
<1>14. ASSUME NEW e \in Calls, call'[e].kind = "transaction", ~call'[e].mixed
       PROVE  Undisturbed(e)'
  <2>1. CASE e = c
    <3>1. InSpan(c) /\ Undisturbed(c) /\ pc = "callback"
      BY <1>7, <1>9, <1>14, <2>1 DEF Transactions
    <3>2. CASE txn.open
      <4>1. old \subseteq txn.writes /\ old \cap store = {}
        BY <3>1, <3>2 DEF Undisturbed
      <4>2. txn'.open /\ txn'.writes = txn.writes \cup {w} /\ store' = store
        BY <1>11, <3>2
      <4> QED BY <1>6, <1>9, <2>1, <3>1, <4>1, <4>2 DEF Undisturbed, At
    <3>3. CASE ~txn.open
      <4>1. old \subseteq store
        BY <3>1, <3>3 DEF Undisturbed
      <4>2. ~txn'.open /\ store' = store \cup {w}
        BY <1>11, <3>3
      <4> QED BY <1>9, <2>1, <3>1, <4>1, <4>2 DEF Undisturbed, At
    <3> QED BY <3>2, <3>3
  <2>2. CASE e # c
    <3>1. ~InSpan(e) /\ call'[e] = call[e] /\ Undisturbed(e)
      BY <1>9, <1>14, <2>2 DEF Transactions
    <3>2. w \notin call[e].written
      BY <1>3, <2>2 DEF Writing
    <3>3. store \subseteq store' /\ store' \cup txn'.writes = store \cup txn.writes \cup {w}
      BY <1>11
    <3> QED BY <3>1, <3>2, <3>3 DEF Undisturbed, InSpan, At
  <2> QED BY <2>1, <2>2
<1>15. \A v \in store' \cup txn'.writes : v[1] \in Calls /\ v \in call'[v[1]].written
  <2>1. store' \cup txn'.writes = store \cup txn.writes \cup {w}
    BY <1>11
  <2>2. \A e \in Calls : call[e].written \subseteq call'[e].written
    BY <1>9
  <2> QED BY <1>3, <1>9, <2>1, <2>2 DEF Transactions
<1>16. NothingLeftOpen'
  <2> SUFFICES ASSUME txn.open
               PROVE  \E e \in Calls : InSpan(e)' \/ (call'[e].kind = "transaction"
                                                      /\ call'[e].pc \in {"abandoned", "lost"})
    BY <1>11 DEF NothingLeftOpen
  <2>1. PICK e \in Calls : InSpan(e) \/ (call[e].kind = "transaction"
                                         /\ call[e].pc \in {"abandoned", "lost"})
    BY DEF Transactions, NothingLeftOpen
  <2>2. call'[e].kind = "transaction"
    BY <1>9, <2>1 DEF InSpan
  <2>3. CASE e = c
    <3>1. pc = "callback"
      BY <1>7, <1>9, <2>2, <2>3
    <3> QED BY <1>9, <2>2, <2>3, <3>1 DEF InSpan
  <2>4. CASE e # c
    BY <1>9, <2>1, <2>2, <2>4 DEF InSpan
  <2> QED BY <2>3, <2>4
<1>17. ~txn'.open => txn'.writes = {}
  BY <1>1, <1>11 DEF Transactions, Unowned
<1>18. Transactions'
  BY <1>1, <1>14, <1>15, <1>16, <1>17 DEF Transactions, Unowned
<1> QED BY <1>10, <1>12, <1>13, <1>18

-----------------------------------------------------------------------------
(* The invariant                                                           *)

LEMMA InitIInv == Init => IInv
<1> SUFFICES ASSUME Init PROVE IInv
  OBVIOUS
<1>1. /\ NewCall("none", "none") \in CallRecords
      /\ NewCall("none", "none").pc = "none" /\ NewCall("none", "none").kind = "none"
      /\ NewCall("none", "none").got = None /\ NewCall("none", "none").written = {}
  BY DEF NewCall, CallRecords, Pcs
<1>2. \A c \in Calls : call[c] = NewCall("none", "none")
  BY DEF Init
<1>3. DOMAIN params = {}
  BY DEF Init
<1>4. txn.open = FALSE /\ txn.writes = {} /\ txn = [open |-> txn.open, writes |-> txn.writes]
  BY DEF Init, NoTransaction
<1>5. Shape
  BY <1>1, <1>3, <1>4 DEF Init, Shape
<1>6. Parameters /\ Searches
  BY <1>1, <1>2, <1>3 DEF Parameters, Searches, SearchSound, Searching, At
<1>7. Writing
  BY <1>1, <1>2, FS_EmptySet DEF Writing
<1>8. Transactions
  BY <1>1, <1>2, <1>4 DEF Init, Transactions, NothingLeftOpen, Undisturbed, InSpan, At
<1> QED BY <1>5, <1>6, <1>7, <1>8 DEF IInv

LEMMA StutterPreserves ==
    ASSUME IInv, UNCHANGED vars
    PROVE  IInv'
<1> USE DEF vars, At, InSpan, IsOpen, Isolate
<1>1. Shape' /\ Parameters' /\ Writing'
  BY DEF IInv, Shape, Parameters, BoundBy, Writing
<1>2. Searches'
  BY DEF IInv, Searches, SearchSound, Rival, Value
<1>3. Transactions'
  BY DEF IInv, Transactions, NothingLeftOpen, Undisturbed
<1> QED BY <1>1, <1>2, <1>3 DEF IInv

LEMMA NextPreservesIInv == IInv /\ [Next]_vars => IInv'
<1> SUFFICES ASSUME IInv, [Next]_vars PROVE IInv'
  OBVIOUS
<1>1. CASE \E c \in Calls, kind \in {"search", "transaction", "write"} : Make(c, kind)
  BY <1>1, MakePreserves
<1>2. ASSUME NEW c \in Calls, Proceed(c) PROVE IInv'
  BY <1>2, NameParameterPreserves, BindParameterPreserves, SearchPreserves,
     UnbindParameterPreserves, RunTransactionPreserves, RunWritePreserves, CallbackPreserves
     DEF Proceed
<1>3. ASSUME NEW c \in Calls, Callback(c) PROVE IInv'
  BY <1>3, CallbackPreserves, EndPreserves DEF Callback
<1>4. CASE \E d \in Databases : Close(d)
  BY <1>4, ClosePreserves
<1>5. CASE \E i \in Isolates : HotRestart(i)
  BY <1>5, HotRestartPreserves
<1>6. CASE UNCHANGED vars
  BY <1>6, StutterPreserves
<1> QED BY <1>1, <1>2, <1>3, <1>4, <1>5, <1>6 DEF Next

LEMMA Invariance == Spec => []IInv
BY InitIInv, NextPreservesIInv, PTL DEF Spec

-----------------------------------------------------------------------------
(* Theorems                                                                *)

\* A search uses another's vector only if an object of another isolate has
\* numbered its parameter alike.
THEOREM VectorsAreOwn == Spec => []OwnVector
<1>1. IInv => OwnVector
  BY DEF IInv, Searches, SearchSound, OwnVector, Rival, SharesName
<1> QED BY <1>1, Invariance, PTL

\* Nor does it miss its parameter for any other reason.
THEOREM ParametersAreBound == Spec => []ParameterIsBound
<1>1. IInv => ParameterIsBound
  <2> SUFFICES ASSUME IInv, NEW c \in Calls, At(c, "bound"), Value(call[c].name) = None
               PROVE  SharesName(c)
    BY DEF ParameterIsBound
  <2>1. Value(call[c].name) # c
    BY SessionAssumption
  <2> QED BY <2>1 DEF IInv, Searches, SearchSound, Rival, SharesName
<1> QED BY <1>1, Invariance, PTL

\* What is bound in the session belongs to a search under way, or to one
\* whose object was closed or lost.
THEOREM ParametersAreRemoved == Spec => []ParametersRemoved
<1>1. IInv => ParametersRemoved
  BY DEF IInv, Parameters, BoundBy, ParametersRemoved
<1> QED BY <1>1, Invariance, PTL

\* A transaction that nothing else used the session in stores all of its
\* callback's writes or none.
THEOREM TransactionsAreAtomic == Spec => []AllOrNothing
<1>1. IInv => AllOrNothing
  BY DEF IInv, Transactions, Undisturbed, AllOrNothing
<1> QED BY <1>1, Invariance, PTL

\* Only a call whose object was closed or lost, or whose CANCEL failed, leaves a
\* transaction open.
THEOREM TransactionsAreEnded == Spec => []NothingLeftOpen
<1>1. IInv => NothingLeftOpen
  BY DEF IInv, Transactions
<1> QED BY <1>1, Invariance, PTL

-----------------------------------------------------------------------------
(* What waits in the queues, and the bounds of the counters: what type     *)
(* correctness needs besides.  A call is in the queue of its isolate,      *)
(* once, exactly as long as an event of its own is to come; an object has  *)
(* given out no more numbers than it has calls past their first event.     *)

Queued      == Waiting \cup {"failed"}
In(q, c)    == \E n \in 1 .. Len(q) : q[n] = c
Distinct(q) == \A m, n \in 1 .. Len(q) : q[m] = q[n] => m = n

Queues ==
    /\ queue \in [Isolates -> Seq(Calls)]
    /\ \A i \in Isolates : Distinct(queue[i])
    /\ \A c \in Calls, i \in Isolates :
        In(queue[i], c) <=> call[c].pc \in Queued /\ Isolate(c) = i

\* The calls of an object that may have a number.
Named(d) == {c \in Calls : Owner[c] = d /\ call[c].pc \notin {"none", "called"}}

Bounds ==
    /\ \A d \in Databases : counter[d] <= Cardinality(Named(d))
    /\ \A c \in Calls :
        /\ call[c].name \in Numbers
        /\ call[c].written \subseteq {c} \X (1 .. MaxWrites[c])
        /\ At(c, "writing") => Cardinality(call[c].written) < MaxWrites[c]

LEMMA InAppended ==
    ASSUME NEW S, NEW q \in Seq(S), NEW c \in S, Distinct(q), ~In(q, c)
    PROVE  /\ Append(q, c) \in Seq(S) /\ Distinct(Append(q, c))
           /\ \A e \in S : In(Append(q, c), e) <=> In(q, e) \/ e = c
<1> DEFINE p == Append(q, c)
<1>1. /\ p \in Seq(S) /\ Len(p) = Len(q) + 1 /\ Len(q) \in Nat /\ p[Len(q) + 1] = c
      /\ \A n \in 1 .. Len(q) : p[n] = q[n]
  OBVIOUS
<1> HIDE DEF p
<1>2. \A n \in 1 .. Len(p) : n \in 1 .. Len(q) \/ n = Len(q) + 1
  BY <1>1
<1>3. Distinct(p)
  BY <1>1, <1>2 DEF Distinct, In
<1>4. ASSUME NEW e \in S PROVE In(p, e) <=> In(q, e) \/ e = c
  <2>1. In(q, e) => In(p, e)
    BY <1>1 DEF In
  <2>2. In(p, c)
    <3>1. Len(q) + 1 \in 1 .. Len(p)
      BY <1>1
    <3> QED BY <1>1, <3>1 DEF In
  <2>3. In(p, e) => In(q, e) \/ e = c
    BY <1>1, <1>2 DEF In
  <2> QED BY <2>1, <2>2, <2>3
<1> QED BY <1>1, <1>3, <1>4 DEF p

LEMMA InTail ==
    ASSUME NEW S, NEW q \in Seq(S), q # <<>>, Distinct(q)
    PROVE  /\ Tail(q) \in Seq(S) /\ Distinct(Tail(q))
           /\ \A e \in S : In(Tail(q), e) <=> In(q, e) /\ e # Head(q)
<1> DEFINE p == Tail(q)
<1>1. /\ p \in Seq(S) /\ Len(q) \in Nat /\ Len(q) > 0 /\ Len(p) = Len(q) - 1 /\ Head(q) = q[1]
      /\ \A n \in 1 .. Len(p) : p[n] = q[n + 1]
  OBVIOUS
<1> HIDE DEF p
<1>2. \A n \in 1 .. Len(p) : n + 1 \in 1 .. Len(q) /\ n + 1 # 1
  BY <1>1
<1>3. 1 \in 1 .. Len(q)
  BY <1>1
<1>4. Distinct(p)
  <2> SUFFICES ASSUME NEW m \in 1 .. Len(p), NEW n \in 1 .. Len(p), p[m] = p[n] PROVE m = n
    BY DEF Distinct
  <2>1. m + 1 = n + 1
    BY <1>1, <1>2 DEF Distinct
  <2> QED BY <2>1
<1>5. ASSUME NEW e \in S, In(p, e) PROVE In(q, e) /\ e # Head(q)
  <2>1. PICK n \in 1 .. Len(p) : p[n] = e
    BY <1>5 DEF In
  <2> QED BY <1>1, <1>2, <1>3, <2>1 DEF In, Distinct
<1>6. ASSUME NEW e \in S, In(q, e), e # Head(q) PROVE In(p, e)
  <2>1. PICK n \in 1 .. Len(q) : q[n] = e
    BY <1>6 DEF In
  <2>2. n - 1 \in 1 .. Len(p) /\ (n - 1) + 1 = n
    BY <1>1, <1>6, <2>1
  <2> QED BY <1>1, <2>1, <2>2 DEF In
<1> QED BY <1>1, <1>4, <1>5, <1>6 DEF p

\* Nothing but c moves.
Alike(c) == \A e \in Calls : e # c =>
    call'[e].pc = call[e].pc /\ call'[e].name = call[e].name /\ call'[e].written = call[e].written

LEMMA QueuesSame ==
    ASSUME Queues, UNCHANGED queue,
           \A c \in Calls : call'[c].pc \in Queued <=> call[c].pc \in Queued
    PROVE  Queues'
BY DEF Queues, Isolate

LEMMA QueuesSchedule ==
    ASSUME Queues, NEW c \in Calls, Schedule(c), Alike(c),
           call[c].pc \notin Queued, call'[c].pc \in Queued
    PROVE  Queues'
<1> DEFINE i == Isolate(c)
<1>1. /\ i \in Isolates /\ queue[i] \in Seq(Calls) /\ Distinct(queue[i]) /\ ~In(queue[i], c)
  BY HomeTyped DEF Queues
<1>2. /\ queue' \in [Isolates -> Seq(Calls)] /\ queue'[i] = Append(queue[i], c)
      /\ \A j \in Isolates : j # i => queue'[j] = queue[j]
  BY <1>1, InAppended DEF Queues, Schedule
<1>3. /\ Distinct(queue'[i])
      /\ \A e \in Calls : In(queue'[i], e) <=> In(queue[i], e) \/ e = c
  BY <1>1, <1>2, InAppended
<1>4. \A j \in Isolates : Distinct(queue'[j])
  BY <1>2, <1>3 DEF Queues
<1>5. ASSUME NEW e \in Calls, NEW j \in Isolates
      PROVE  In(queue'[j], e) <=> call'[e].pc \in Queued /\ Isolate(e) = j
  <2>1. In(queue[j], e) <=> call[e].pc \in Queued /\ Isolate(e) = j
    BY DEF Queues
  <2>2. e # c => call'[e].pc = call[e].pc
    BY DEF Alike
  <2> QED BY <1>2, <1>3, <2>1, <2>2
<1> QED BY <1>2, <1>4, <1>5 DEF Queues, Isolate

LEMMA QueuesDispatch ==
    ASSUME Queues, NEW c \in Calls, Dispatch(c), Alike(c), call'[c].pc \notin Queued
    PROVE  Queues'
<1> DEFINE i == Isolate(c)
<1>1. /\ i \in Isolates /\ queue[i] \in Seq(Calls) /\ Distinct(queue[i])
      /\ queue[i] # <<>> /\ Head(queue[i]) = c
  BY HomeTyped DEF Queues, Dispatch
<1>2. /\ queue' \in [Isolates -> Seq(Calls)] /\ queue'[i] = Tail(queue[i])
      /\ \A j \in Isolates : j # i => queue'[j] = queue[j]
  BY <1>1, InTail DEF Queues, Dispatch
<1>3. /\ Distinct(queue'[i])
      /\ \A e \in Calls : In(queue'[i], e) <=> In(queue[i], e) /\ e # c
  BY <1>1, <1>2, InTail
<1>4. \A j \in Isolates : Distinct(queue'[j])
  BY <1>2, <1>3 DEF Queues
<1>5. ASSUME NEW e \in Calls, NEW j \in Isolates
      PROVE  In(queue'[j], e) <=> call'[e].pc \in Queued /\ Isolate(e) = j
  <2>1. In(queue[j], e) <=> call[e].pc \in Queued /\ Isolate(e) = j
    BY DEF Queues
  <2>2. e # c => call'[e].pc = call[e].pc
    BY DEF Alike
  <2> QED BY <1>2, <1>3, <2>1, <2>2
<1> QED BY <1>2, <1>4, <1>5 DEF Queues, Isolate

LEMMA QueuesRequeue ==
    ASSUME Queues, NEW c \in Calls, Requeue(c), Alike(c), call'[c].pc \in Queued
    PROVE  Queues'
<1> DEFINE i == Isolate(c)
           q == Tail(queue[i])
<1>1. /\ i \in Isolates /\ queue[i] \in Seq(Calls) /\ Distinct(queue[i])
      /\ queue[i] # <<>> /\ Head(queue[i]) = c
  BY HomeTyped DEF Queues, Requeue
<1>2. /\ q \in Seq(Calls) /\ Distinct(q)
      /\ \A e \in Calls : In(q, e) <=> In(queue[i], e) /\ e # c
  BY <1>1, InTail
<1>3. queue' = [queue EXCEPT ![i] = Append(q, c)]
  BY DEF Requeue
<1> HIDE DEF q
<1>4. /\ Append(q, c) \in Seq(Calls) /\ Distinct(Append(q, c))
      /\ \A e \in Calls : In(Append(q, c), e) <=> In(queue[i], e) \/ e = c
  BY <1>2, InAppended
<1>5. /\ queue' \in [Isolates -> Seq(Calls)] /\ queue'[i] = Append(q, c)
      /\ \A j \in Isolates : j # i => queue'[j] = queue[j]
  BY <1>1, <1>3, <1>4 DEF Queues
<1>6. \A j \in Isolates : Distinct(queue'[j])
  BY <1>4, <1>5 DEF Queues
<1>7. ASSUME NEW e \in Calls, NEW j \in Isolates
      PROVE  In(queue'[j], e) <=> call'[e].pc \in Queued /\ Isolate(e) = j
  <2>1. In(queue[j], e) <=> call[e].pc \in Queued /\ Isolate(e) = j
    BY DEF Queues
  <2>2. e # c => call'[e].pc = call[e].pc
    BY DEF Alike
  <2> QED BY <1>4, <1>5, <2>1, <2>2
<1> QED BY <1>5, <1>6, <1>7 DEF Queues, Isolate


LEMMA NamedFinite ==
    ASSUME NEW D \in SUBSET Calls
    PROVE  /\ IsFiniteSet(D) /\ Cardinality(D) \in Nat
           /\ Cardinality(D) <= Cardinality(Calls) /\ Cardinality(Calls) \in Nat
BY SessionAssumption, FS_Subset, FS_CardinalityType

\* An object's numbers stay fewer than its searches, for calls do not return
\* to where they started from.
LEMMA NamedGrows ==
    ASSUME NEW d \in Databases,
           \A c \in Calls : call[c].pc \notin {"none", "called"} => call'[c].pc \notin {"none", "called"}
    PROVE  /\ Cardinality(Named(d)) \in Nat /\ Cardinality(Named(d)') \in Nat
           /\ Cardinality(Named(d)) <= Cardinality(Named(d)')
<1>1. Named(d) \in SUBSET Named(d)' /\ Named(d) \in SUBSET Calls /\ Named(d)' \in SUBSET Calls
  BY DEF Named
<1>2. IsFiniteSet(Named(d)')
  BY <1>1, NamedFinite
<1> QED BY <1>1, <1>2, NamedFinite, FS_Subset

LEMMA BoundsKept ==
    ASSUME IInv, Bounds, UNCHANGED counter,
           \A c \in Calls :
            /\ call[c].pc \notin {"none", "called"} => call'[c].pc \notin {"none", "called"}
            /\ call'[c].name \in {call[c].name, 0}
            /\ call'[c].written \in {call[c].written, {}}
            /\ At(c, "writing")' => Cardinality(call'[c].written) < MaxWrites[c]
    PROVE  Bounds'
<1>1. ASSUME NEW d \in Databases PROVE counter'[d] <= Cardinality(Named(d)')
  <2>1. counter[d] <= Cardinality(Named(d)) /\ counter[d] \in Nat
    BY DEF Bounds, IInv, Shape
  <2> QED BY <2>1, NamedGrows
<1>2. 0 \in Numbers
  BY NamedFinite DEF Numbers
<1>3. ASSUME NEW c \in Calls
      PROVE  /\ call'[c].name \in Numbers
             /\ call'[c].written \subseteq {c} \X (1 .. MaxWrites[c])
  BY <1>2, <1>3 DEF Bounds
<1> QED BY <1>1, <1>3 DEF Bounds, Numbers

\* A step of one call that writes nothing, and does not begin to.
LEMMA BoundsAside ==
    ASSUME IInv, Bounds, UNCHANGED counter, NEW c \in Calls, Alike(c),
           call'[c].pc \notin {"none", "called", "writing"},
           call'[c].name = call[c].name, call'[c].written = call[c].written
    PROVE  Bounds'
<1>1. ASSUME NEW e \in Calls
      PROVE  /\ call[e].pc \notin {"none", "called"} => call'[e].pc \notin {"none", "called"}
             /\ call'[e].name = call[e].name
             /\ call'[e].written = call[e].written
             /\ At(e, "writing")' => Cardinality(call'[e].written) < MaxWrites[e]
  BY DEF Alike, Bounds, At
<1> QED BY <1>1, BoundsKept

LEMMA GoesAlike ==
    ASSUME IInv, NEW c \in Calls, NEW pc, Goes(c, pc)
    PROVE  /\ Alike(c) /\ call'[c].pc = pc
           /\ call'[c].name = call[c].name /\ call'[c].written = call[c].written
BY DEF Goes, Alike, IInv, Shape, CallRecords

LEMMA ExecutesAlike ==
    ASSUME IInv, NEW c \in Calls, NEW pc \in Pcs, NEW W \in SUBSET (Calls \X Nat),
           Executes(c, pc, W)
    PROVE  /\ Alike(c) /\ call'[c].pc = pc
           /\ call'[c].name = call[c].name /\ call'[c].written = call[c].written \cup W
BY ExecutesFacts DEF Alike

-----------------------------------------------------------------------------
(* One lemma per kind of step                                              *)

QInv == Queues /\ Bounds

LEMMA MakeQueues ==
    ASSUME IInv, QInv, NEW c \in Calls, NEW kind \in {"search", "transaction", "write"}, Make(c, kind)
    PROVE  QInv'
<1>1. /\ call' = [call EXCEPT ![c] = NewCall("called", kind)] /\ call[c].pc = "none"
      /\ Schedule(c) /\ UNCHANGED counter
  BY DEF Make, At
<1>2. /\ \A e \in Calls : e # c => call'[e] = call[e]
      /\ call'[c].pc = "called" /\ call'[c].name = 0 /\ call'[c].written = {}
  BY <1>1 DEF IInv, Shape, NewCall
<1>3. Queues'
  BY <1>1, <1>2, QueuesSchedule DEF QInv, Alike, Queued, Waiting
<1>4. Bounds'
  <2>1. ASSUME NEW e \in Calls
        PROVE  /\ call[e].pc \notin {"none", "called"} => call'[e].pc \notin {"none", "called"}
               /\ call'[e].name \in {call[e].name, 0}
               /\ call'[e].written \in {call[e].written, {}}
               /\ At(e, "writing")' => Cardinality(call'[e].written) < MaxWrites[e]
    BY <1>1, <1>2 DEF QInv, Bounds, At
  <2> QED BY <1>1, <2>1, BoundsKept DEF QInv
<1> QED BY <1>3, <1>4 DEF QInv

LEMMA CloseQueues ==
    ASSUME QInv, NEW d \in Databases, Close(d)
    PROVE  QInv'
BY DEF Close, QInv, Queues, Bounds, Named, At, Isolate

LEMMA HotRestartQueues ==
    ASSUME IInv, QInv, NEW i \in Isolates, HotRestart(i)
    PROVE  QInv'
<1>1. /\ queue' = [queue EXCEPT ![i] = <<>>] /\ UNCHANGED counter
      /\ \A c \in Calls : call'[c] = IF Isolate(c) = i /\ UnderWay(c)
                                     THEN [call[c] EXCEPT !.pc = "lost"] ELSE call[c]
  BY DEF HotRestart
<1>2. ASSUME NEW c \in Calls
      PROVE  /\ call'[c].pc = IF Isolate(c) = i /\ UnderWay(c) THEN "lost" ELSE call[c].pc
             /\ call'[c].name = call[c].name /\ call'[c].written = call[c].written
  BY <1>1 DEF IInv, Shape, CallRecords
<1>3. \A c \in Calls : Isolate(c) = i => call'[c].pc \notin Queued
  BY <1>2 DEF UnderWay, Queued, Waiting, Ended
<1>4. /\ queue' \in [Isolates -> Seq(Calls)] /\ queue'[i] = <<>>
      /\ \A j \in Isolates : j # i => queue'[j] = queue[j]
  BY <1>1 DEF QInv, Queues
<1>5. Distinct(<<>>) /\ \A c : ~In(<<>>, c)
  BY DEF Distinct, In
<1>6. ASSUME NEW c \in Calls, NEW j \in Isolates
      PROVE  In(queue'[j], c) <=> call'[c].pc \in Queued /\ Isolate(c) = j
  <2>1. CASE j = i
    BY <1>3, <1>4, <1>5, <2>1
  <2>2. CASE j # i
    <3>1. In(queue[j], c) <=> call[c].pc \in Queued /\ Isolate(c) = j
      BY DEF QInv, Queues
    <3>2. Isolate(c) = j => call'[c].pc = call[c].pc
      BY <1>2, <2>2
    <3> QED BY <1>4, <2>2, <3>1, <3>2
  <2> QED BY <2>1, <2>2
<1>7. Queues'
  BY <1>4, <1>5, <1>6 DEF QInv, Queues, Isolate
<1>8. Bounds'
  <2>1. ASSUME NEW c \in Calls
        PROVE  /\ call[c].pc \notin {"none", "called"} => call'[c].pc \notin {"none", "called"}
               /\ call'[c].name = call[c].name
               /\ call'[c].written = call[c].written
               /\ At(c, "writing")' => Cardinality(call'[c].written) < MaxWrites[c]
    BY <1>2 DEF QInv, Bounds, At
  <2> QED BY <1>1, <2>1, BoundsKept DEF QInv
<1> QED BY <1>7, <1>8 DEF QInv


LEMMA NameParameterQueues ==
    ASSUME IInv, QInv, NEW c \in Calls, NameParameter(c)
    PROVE  QInv'
<1> DEFINE d == Owner[c]
<1>1. /\ d \in Databases /\ call[c].pc = "called" /\ counter[d] \in Nat
      /\ counter' = [counter EXCEPT ![d] = counter[d] + 1]
  BY HomeTyped DEF NameParameter, At, IInv, Shape
<1>2. /\ Alike(c) /\ call'[c].written = call[c].written
      /\ call'[c].pc \in {"binding", "threw"} /\ call'[c].name \in {call[c].name, counter[d]}
  <2>1. CASE IsOpen(c)
    <3>1. call' = [call EXCEPT ![c].pc = "binding", ![c].name = counter[d]]
      BY <2>1 DEF NameParameter
    <3> QED BY <3>1 DEF Alike, IInv, Shape, CallRecords
  <2>2. CASE ~IsOpen(c)
    BY <2>2, GoesAlike DEF NameParameter
  <2> QED BY <2>1, <2>2
<1>3. Queues'
  <2>1. CASE IsOpen(c)
    <3>1. Requeue(c) /\ call' = [call EXCEPT ![c].pc = "binding", ![c].name = counter[d]]
      BY <2>1 DEF NameParameter
    <3>2. call'[c].pc = "binding"
      BY <3>1 DEF IInv, Shape, CallRecords
    <3> QED BY <1>2, <3>1, <3>2, QueuesRequeue DEF QInv, Queued, Waiting
  <2>2. CASE ~IsOpen(c)
    <3>1. Dispatch(c) /\ Goes(c, "threw")
      BY <2>2 DEF NameParameter
    <3> QED BY <1>2, <3>1, GoesAlike, QueuesDispatch DEF QInv, Queued, Waiting
  <2> QED BY <2>1, <2>2
<1>4. \A e \in Calls :
        call[e].pc \notin {"none", "called"} => call'[e].pc \notin {"none", "called"}
  BY <1>1, <1>2 DEF Alike
<1>5. Cardinality(Named(d)') \in Nat /\ counter[d] + 1 <= Cardinality(Named(d)')
      /\ Cardinality(Named(d)') <= Cardinality(Calls)
  <2>1. Named(d) \in SUBSET Calls /\ c \notin Named(d)
    BY <1>1 DEF Named
  <2>2. IsFiniteSet(Named(d)) /\ Cardinality(Named(d)) \in Nat
    BY <2>1, NamedFinite
  <2>3. Cardinality(Named(d) \cup {c}) = Cardinality(Named(d)) + 1
    BY <2>1, <2>2, FS_AddElement
  <2>4. (Named(d) \cup {c}) \in SUBSET Named(d)' /\ Named(d)' \in SUBSET Calls
    BY <1>2, <1>4 DEF Named
  <2>5. IsFiniteSet(Named(d)') /\ Cardinality(Named(d)') \in Nat
        /\ Cardinality(Named(d)') <= Cardinality(Calls)
    BY <2>4, NamedFinite
  <2>6. Cardinality(Named(d) \cup {c}) <= Cardinality(Named(d)')
    BY <2>4, <2>5, FS_Subset
  <2>7. counter[d] <= Cardinality(Named(d))
    BY <1>1 DEF QInv, Bounds
  <2> QED BY <1>1, <2>2, <2>3, <2>5, <2>6, <2>7
<1>6. ASSUME NEW b \in Databases PROVE counter'[b] <= Cardinality(Named(b)')
  <2>1. CASE b = d
    BY <1>1, <1>5, <2>1 DEF IInv, Shape
  <2>2. CASE b # d
    <3>1. counter'[b] = counter[b] /\ counter[b] \in Nat /\ counter[b] <= Cardinality(Named(b))
      BY <1>1, <2>2 DEF IInv, Shape, QInv, Bounds
    <3> QED BY <1>4, <3>1, NamedGrows
  <2> QED BY <2>1, <2>2
<1>7. counter[d] \in Numbers
  BY <1>1, <1>5, NamedFinite DEF Numbers
<1>8. ASSUME NEW e \in Calls
      PROVE  /\ call'[e].name \in Numbers
             /\ call'[e].written \subseteq {e} \X (1 .. MaxWrites[e])
             /\ At(e, "writing")' => Cardinality(call'[e].written) < MaxWrites[e]
  <2>1. call'[e].written = call[e].written /\ call'[e].name \in {call[e].name, counter[d]}
    BY <1>2 DEF Alike
  <2>2. At(e, "writing")' => At(e, "writing")
    BY <1>2 DEF Alike, At
  <2> QED BY <1>7, <2>1, <2>2 DEF QInv, Bounds
<1>9. Bounds'
  BY <1>6, <1>8 DEF Bounds, Numbers
<1> QED BY <1>3, <1>9 DEF QInv

LEMMA SearchStepQueues ==
    ASSUME IInv, QInv, NEW c \in Calls, BindParameter(c) \/ Search(c) \/ UnbindParameter(c)
    PROVE  QInv'
<1>1. CASE BindParameter(c)
  <2>1. PICK pc \in {"bound", "threw"} : Goes(c, pc)
    BY <1>1 DEF BindParameter
  <2>2. Dispatch(c) /\ UNCHANGED counter
    BY <1>1 DEF BindParameter
  <2> QED BY <2>1, <2>2, GoesAlike, QueuesDispatch, BoundsAside DEF QInv, Queued, Waiting
<1>2. CASE Search(c)
  <2>1. PICK pc \in {"unbinding", "failed"} :
            call' = [call EXCEPT ![c].pc = pc, ![c].got = Value(call[c].name)]
    BY <1>2 DEF Search
  <2>2. /\ Alike(c) /\ call'[c].pc = pc
        /\ call'[c].name = call[c].name /\ call'[c].written = call[c].written
    BY <2>1 DEF Alike, IInv, Shape, CallRecords
  <2>3. Schedule(c) /\ UNCHANGED counter /\ call[c].pc \notin Queued
    BY <1>2 DEF Search, At, Queued, Waiting
  <2> QED BY <2>2, <2>3, QueuesSchedule, BoundsAside DEF QInv, Queued, Waiting
<1>3. CASE UnbindParameter(c)
  <2>1. PICK pc \in {"returned", "threw"} : Goes(c, pc)
    BY <1>3 DEF UnbindParameter
  <2>2. Dispatch(c) /\ UNCHANGED counter
    BY <1>3 DEF UnbindParameter
  <2> QED BY <2>1, <2>2, GoesAlike, QueuesDispatch, BoundsAside DEF QInv, Queued, Waiting
<1> QED BY <1>1, <1>2, <1>3

LEMMA TransactionQueues ==
    ASSUME IInv, QInv, NEW c \in Calls,
           RunTransaction(c) \/ WriteFails(c) \/ Abandon(c) \/ Commit(c) \/ RollBack(c)
    PROVE  QInv'
<1>1. UNCHANGED counter
  BY DEF RunTransaction, WriteFails, Abandon, Commit, RollBack, Unowned
<1>2. PICK pc \in {"callback", "returned", "threw", "abandoned"} : Goes(c, pc) \/ Executes(c, pc, {})
  BY DEF RunTransaction, WriteFails, Abandon, Commit, RollBack
<1>3. pc \in Pcs /\ {} \in SUBSET (Calls \X Nat)
  BY DEF Pcs, Ended
<1>4. /\ Alike(c) /\ call'[c].pc = pc
      /\ call'[c].name = call[c].name /\ call'[c].written = call[c].written
  <2>1. CASE Goes(c, pc)
    BY <2>1, GoesAlike
  <2>2. CASE Executes(c, pc, {})
    <3>1. call[c].written \cup {} = call[c].written
      OBVIOUS
    <3> QED BY <1>3, <2>2, <3>1, ExecutesAlike
  <2> QED BY <1>2, <2>1, <2>2
<1>5. pc \notin Queued
  BY DEF Queued, Waiting
<1>6. Queues'
  <2>1. CASE Dispatch(c)
    BY <1>4, <1>5, <2>1, QueuesDispatch DEF QInv
  <2>2. CASE At(c, "callback") /\ UNCHANGED queue
    <3>1. \A e \in Calls : call'[e].pc \in Queued <=> call[e].pc \in Queued
      BY <1>4, <1>5, <2>2 DEF Alike, At, Queued, Waiting
    <3> QED BY <2>2, <3>1, QueuesSame DEF QInv
  <2> QED BY <2>1, <2>2 DEF RunTransaction, WriteFails, Abandon, Commit, RollBack
<1>7. Bounds'
  BY <1>1, <1>4, BoundsAside DEF QInv
<1> QED BY <1>6, <1>7 DEF QInv

LEMMA CallbackWritesQueues ==
    ASSUME IInv, QInv, NEW c \in Calls, CallbackWrites(c)
    PROVE  QInv'
<1>1. /\ Goes(c, "writing") /\ Schedule(c) /\ UNCHANGED counter
      /\ call[c].pc = "callback" /\ Cardinality(call[c].written) < MaxWrites[c]
  BY DEF CallbackWrites, Unowned, At
<1>2. /\ Alike(c) /\ call'[c].pc = "writing"
      /\ call'[c].name = call[c].name /\ call'[c].written = call[c].written
  BY <1>1, GoesAlike
<1>3. Queues'
  BY <1>1, <1>2, QueuesSchedule DEF QInv, Queued, Waiting
<1>4. ASSUME NEW e \in Calls
      PROVE  /\ call[e].pc \notin {"none", "called"} => call'[e].pc \notin {"none", "called"}
             /\ call'[e].name = call[e].name
             /\ call'[e].written = call[e].written
             /\ At(e, "writing")' => Cardinality(call'[e].written) < MaxWrites[e]
  BY <1>1, <1>2 DEF Alike, QInv, Bounds, At
<1>5. Bounds'
  BY <1>1, <1>4, BoundsKept DEF QInv
<1> QED BY <1>3, <1>5 DEF QInv

LEMMA RunWriteQueues ==
    ASSUME IInv, QInv, NEW c \in Calls, RunWrite(c)
    PROVE  QInv'
<1> DEFINE n  == Cardinality(call[c].written)
           W  == {<<c, n + 1>>}
<1>1. /\ n \in Nat /\ MaxWrites[c] \in Nat \ {0} /\ call[c].written \in SUBSET (Calls \X Nat)
  BY SessionAssumption, FS_CardinalityType DEF IInv, Writing, Shape, CallRecords
<1>2. n < MaxWrites[c]
  <2>1. CASE At(c, "writing")
    BY <2>1 DEF QInv, Bounds
  <2>2. CASE At(c, "called")
    <3>1. n = 0
      BY <2>2, FS_EmptySet DEF IInv, Writing, At
    <3> QED BY <1>1, <3>1
  <2> QED BY <2>1, <2>2 DEF RunWrite
<1>3. W \in SUBSET (Calls \X Nat) /\ W \subseteq {c} \X (1 .. MaxWrites[c])
  BY <1>1, <1>2
<1>4. PICK pc \in {"callback", "returned"} : Executes(c, pc, W)
  BY DEF RunWrite
<1>5. pc \in Pcs /\ pc \notin Queued
  BY DEF Pcs, Queued, Waiting, Ended
<1>6. Dispatch(c) /\ UNCHANGED counter
  BY DEF RunWrite, Unowned
<1> HIDE DEF W
<1>7. /\ Alike(c) /\ call'[c].pc = pc
      /\ call'[c].name = call[c].name /\ call'[c].written = call[c].written \cup W
  BY <1>3, <1>4, <1>5, ExecutesAlike
<1>8. Queues'
  BY <1>5, <1>6, <1>7, QueuesDispatch DEF QInv
<1>9. ASSUME NEW d \in Databases PROVE counter'[d] <= Cardinality(Named(d)')
  <2>1. \A e \in Calls :
            call[e].pc \notin {"none", "called"} => call'[e].pc \notin {"none", "called"}
    BY <1>7 DEF Alike
  <2>2. counter'[d] = counter[d] /\ counter[d] \in Nat /\ counter[d] <= Cardinality(Named(d))
    BY <1>6 DEF IInv, Shape, QInv, Bounds
  <2> QED BY <2>1, <2>2, NamedGrows
<1>10. ASSUME NEW e \in Calls
       PROVE  /\ call'[e].name \in Numbers
              /\ call'[e].written \subseteq {e} \X (1 .. MaxWrites[e])
              /\ At(e, "writing")' => Cardinality(call'[e].written) < MaxWrites[e]
  <2>1. CASE e = c
    BY <1>3, <1>7, <2>1 DEF QInv, Bounds, At
  <2>2. CASE e # c
    BY <1>7, <2>2 DEF Alike, QInv, Bounds, At
  <2> QED BY <2>1, <2>2
<1>11. Bounds'
  BY <1>9, <1>10 DEF Bounds, Numbers
<1> QED BY <1>8, <1>11 DEF QInv


LEMMA InitQInv == Init => QInv
<1> SUFFICES ASSUME Init PROVE QInv
  OBVIOUS
<1>1. /\ queue = [i \in Isolates |-> <<>>] /\ counter = [d \in Databases |-> 0]
      /\ \A c \in Calls : call[c].pc = "none" /\ call[c].name = 0 /\ call[c].written = {}
  BY DEF Init, NewCall
<1>2. Queues
  <2>1. <<>> \in Seq(Calls) /\ Distinct(<<>>) /\ \A c : ~In(<<>>, c)
    BY DEF Distinct, In
  <2>2. "none" \notin Queued
    BY DEF Queued, Waiting
  <2> QED BY <1>1, <2>1, <2>2 DEF Queues
<1>3. ASSUME NEW d \in Databases PROVE counter[d] <= Cardinality(Named(d))
  <2>1. Named(d) \in SUBSET Calls
    BY DEF Named
  <2> QED BY <1>1, <2>1, NamedFinite
<1>4. 0 \in Numbers
  BY NamedFinite DEF Numbers
<1> QED BY <1>1, <1>2, <1>3, <1>4 DEF QInv, Bounds, At

LEMMA NextPreservesQInv == IInv /\ QInv /\ [Next]_vars => QInv'
<1> SUFFICES ASSUME IInv, QInv, [Next]_vars PROVE QInv'
  OBVIOUS
<1>1. CASE \E c \in Calls, kind \in {"search", "transaction", "write"} : Make(c, kind)
  BY <1>1, MakeQueues
<1>2. ASSUME NEW c \in Calls, Proceed(c) PROVE QInv'
  BY <1>2, NameParameterQueues, SearchStepQueues, TransactionQueues, RunWriteQueues DEF Proceed
<1>3. ASSUME NEW c \in Calls, Callback(c) PROVE QInv'
  BY <1>3, CallbackWritesQueues, TransactionQueues DEF Callback
<1>4. CASE \E d \in Databases : Close(d)
  BY <1>4, CloseQueues
<1>5. CASE \E i \in Isolates : HotRestart(i)
  BY <1>5, HotRestartQueues
<1>6. CASE UNCHANGED vars
  BY <1>6 DEF vars, QInv, Queues, Bounds, Named, At, Isolate
<1> QED BY <1>1, <1>2, <1>3, <1>4, <1>5, <1>6 DEF Next

LEMMA Typed == IInv /\ QInv => TypeOK
<1> SUFFICES ASSUME IInv, QInv PROVE TypeOK
  OBVIOUS
<1>1. ASSUME NEW d \in Databases PROVE counter[d] \in Numbers
  <2>1. Named(d) \in SUBSET Calls
    BY DEF Named
  <2>2. counter[d] <= Cardinality(Named(d)) /\ counter[d] \in Nat
    BY DEF QInv, Bounds, IInv, Shape
  <2> QED BY <2>1, <2>2, NamedFinite DEF Numbers
<1>2. ASSUME NEW c \in Calls PROVE call[c].written \in SUBSET Writes
  <2>1. call[c].written \subseteq {c} \X (1 .. MaxWrites[c])
    BY DEF QInv, Bounds
  <2> QED BY <2>1 DEF Writes
<1>3. call \in [Calls ->
            [pc : {"none", "bound", "failed", "callback", "lost"} \cup Waiting \cup Ended,
             kind : {"none", "search", "transaction", "write"},
             name : Numbers, got : Calls \cup {None}, written : SUBSET Writes, mixed : BOOLEAN]]
  <2>1. ASSUME NEW c \in Calls PROVE call[c] \in CallRecords /\ call[c].name \in Numbers
    BY DEF IInv, Shape, QInv, Bounds
  <2> QED BY <1>2, <2>1 DEF IInv, Shape, CallRecords, Pcs
<1>4. store \in SUBSET Writes /\ txn.writes \in SUBSET Writes
  BY <1>2 DEF IInv, Transactions
<1>5. txn \in [open : BOOLEAN, writes : SUBSET Writes]
  BY <1>4 DEF IInv, Shape
<1>6. DOMAIN params \subseteq Numbers /\ \A k \in DOMAIN params : params[k] \in Calls
  BY DEF IInv, Shape, Parameters, BoundBy, QInv, Bounds
<1>7. \A c \in Calls, i \in Isolates :
        (\E n \in 1 .. Len(queue[i]) : queue[i][n] = c)
            <=> call[c].pc \in Waiting \cup {"failed"} /\ Home[Owner[c]] = i
  BY DEF QInv, Queues, In, Queued, Isolate
<1>8. counter \in [Databases -> Numbers]
  BY <1>1 DEF IInv, Shape
<1> QED BY <1>3, <1>4, <1>5, <1>6, <1>7, <1>8 DEF TypeOK, IInv, Shape, QInv, Queues

\* The state is always one of those it is meant to be in: no call is lost from
\* its isolate's queue or waits in another's, no object gives out more numbers
\* than it has calls, and no callback writes more than it is allowed to.
THEOREM TypeCorrect == Spec => []TypeOK
<1>1. Spec => []QInv
  BY InitQInv, NextPreservesQInv, Invariance, PTL DEF Spec
<1> QED BY <1>1, Invariance, Typed, PTL

=============================================================================
