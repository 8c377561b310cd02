---------------------------- MODULE MigrationProofs ----------------------------
(***************************************************************************)
(* Theorems about Migration, for any tables, fields and designs, and any   *)
(* number of migrations.                                                   *)
(***************************************************************************)
EXTENDS Migration, SchemaProofs, FiniteSetTheorems

-----------------------------------------------------------------------------
(* The inductive invariant                                                 *)

\* The statements of the current call, and those that have run.
Statements == DDLFor(run.before, run.want)
DoneSoFar  == Statements \ run.todo

\* A call knows its design from the start, or from the history it reads.
DesignKnown ==
    \/ run.pc \in {"diff", "begin", "execute", "record"}
    \/ run.pc \in {"ensure", "define"} /\ run.kind = "migrate"
    => run.want \in Designs

\* Up to its statements a call leaves the schema it found; then the database is
\* what the statements taken from todo make of that schema.
SchemaIsApplied ==
    /\ run.pc \in {"ensure", "define", "history", "diff", "begin"} => schema = run.before
    /\ At("begin") => run.todo = Statements
    /\ At("execute") =>
          /\ run.todo \subseteq Statements
          /\ schema = Applied(run.before, run.want, DoneSoFar)
          /\ CreatedFirst(run.before, DoneSoFar)

\* A call that got past the difference was free to run it.
Consented ==
    run.pc \in {"begin", "execute"} /\ Changes(run.before, run.want).destructive => run.allow

IInv == TypeOK /\ DesignKnown /\ SchemaIsApplied /\ Consented


-----------------------------------------------------------------------------
(* With designs that are read back as written                              *)

\* The types and defaults of such designs, in a database.
SettledDatabase(c) ==
    \A t \in Tables : c[t] # Absent =>
        /\ c[t].vectorIndexes = {}
        /\ \A f \in Fields : c[t].fields[f] # Absent =>
              /\ c[t].fields[f].type \in {"string", "int", "any"}
              /\ c[t].fields[f].default.kind # "text"

\* And in a snapshot.
SettledSnapshot(c) ==
    \A t \in Tables : c[t] # Absent =>
        \A f \in Fields : c[t].fields[f] # Absent =>
              /\ c[t].fields[f].type \in {"string", "int", "any"}
              /\ c[t].fields[f].default.kind # "text"

SettledDesigns == \A want \in Structures : SettledDesign(want)

AllSettled ==
    /\ SettledDatabase(schema) /\ SettledDatabase(run.before)
    /\ \A n \in DOMAIN history : SettledSnapshot(history[n].snapshot)
    /\ run.want \in Designs => SettledDesign(run.want)

\* The snapshot a rollback returns to is the second newest success, until its
\* own success is recorded.
Target ==
    run.kind = "rollback" /\ run.pc \in {"diff", "begin", "execute", "record"} =>
        \E n \in Successes :
            /\ Cardinality(NewerThan(n, Successes)) = 1
            /\ run.want = ConvertSchema(history[n].snapshot)

\* Between COMMIT and the record the database is what the design asks for.
CommittedIsWanted == At("record") => ~HasChanges(Difference)

\* At every step of a call: if there was nothing destructive to do, there is
\* nothing destructive left to do.
HarmlessLeft ==
    run.want \in Designs /\ ~Changes(run.before, run.want).destructive
        => ~Changes(schema, run.want).destructive

SettledInv ==
    /\ AllSettled /\ Target /\ CommittedIsWanted /\ HarmlessLeft
    /\ RollbackRestoresFields /\ SuccessIsWhole


-----------------------------------------------------------------------------
(* The steps of a call                                                     *)

Pcs == {"idle", "ensure", "define", "history", "diff", "begin", "execute", "record",
        "recordFailure"}
Outcomes == {"none", "success", "noop", "blocked", "refused", "error", "failed", "crashed"}

LEMMA Moves ==
    ASSUME run \in Run, NEW pc \in Pcs, GoTo(pc)
    PROVE  /\ run' \in Run
           /\ run'.pc = pc /\ run'.outcome = run.outcome /\ run'.kind = run.kind
           /\ run'.want = run.want /\ run'.allow = run.allow /\ run'.dry = run.dry
           /\ run'.todo = run.todo /\ run'.before = run.before
BY DEF Run, GoTo, Pcs

LEMMA Returns ==
    ASSUME run \in Run, NEW o \in Outcomes, Return(o)
    PROVE  /\ run' \in Run
           /\ run'.pc = "idle" /\ run'.outcome = o /\ run'.kind = run.kind
           /\ run'.want = run.want /\ run'.allow = run.allow /\ run'.dry = run.dry
           /\ run'.before = run.before
BY DEF Run, Return, Outcomes

\* A call that ends owes nothing.
LEMMA ReturnKeeps ==
    ASSUME IInv, NEW o \in Outcomes, Return(o), UNCHANGED <<schema, historyTable>>,
           history' \in Seq(MigrationRecord)
    PROVE  IInv'
<1>1. run' \in Run /\ run'.pc = "idle"
  BY Returns DEF IInv, TypeOK
<1> QED
  BY <1>1 DEF IInv, TypeOK, DesignKnown, SchemaIsApplied, Consented, At

LEMMA InitKeeps == Init => IInv
<1> SUFFICES ASSUME Init PROVE IInv
  OBVIOUS
<1>1. schema \in DatabaseTables
  BY DEF Init, EmptySchema, DatabaseTables
<1>2. /\ run \in Run
      /\ run.pc = "idle"
  BY <1>1 DEF Init, NoRun, NewRun, Run
<1> QED
  BY <1>1, <1>2, AbsentAssumption DEF Init, IInv, TypeOK, DesignKnown, SchemaIsApplied,
     Consented, At

LEMMA StartKeeps ==
    ASSUME IInv, NEW kind \in {"migrate", "rollback"}, NEW want \in Designs \cup {Absent},
           kind = "migrate" => want \in Designs,
           NEW allow \in BOOLEAN, NEW dry \in BOOLEAN, Start(kind, want, allow, dry)
    PROVE  IInv'
<1>1. /\ run' \in Run
      /\ run'.pc = "ensure" /\ run'.kind = kind /\ run'.want = want /\ run'.before = schema
  BY DEF Start, NewRun, Run, IInv, TypeOK
<1> QED
  BY <1>1 DEF Start, IInv, TypeOK, DesignKnown, SchemaIsApplied, Consented, At

\* Ensured, on the way to the history or to the difference.
LEMMA EnsuredKeeps ==
    ASSUME IInv, At("ensure") \/ At("define"), Ensured,
           UNCHANGED <<schema, history>>,
           historyTable' \in {"absent", "partial", "complete"}
    PROVE  IInv'
<1>1. run \in Run
  BY DEF IInv, TypeOK
<1>2. CASE run.kind = "rollback"
  <2>1. run' \in Run /\ run'.pc = "history" /\ run'.before = run.before
    BY <1>1, <1>2, Moves DEF Ensured, Pcs
  <2> QED
    BY <2>1 DEF IInv, TypeOK, DesignKnown, SchemaIsApplied, Consented, At
<1>3. CASE run.kind = "migrate"
  <2>1. run' \in Run /\ run'.pc = "diff" /\ run'.want = run.want /\ run'.before = run.before
    BY <1>1, <1>3, Moves DEF Ensured, Pcs
  <2>2. run.want \in Designs
    BY <1>3 DEF IInv, DesignKnown, At
  <2> QED
    BY <2>1, <2>2 DEF IInv, TypeOK, DesignKnown, SchemaIsApplied, Consented, At
<1> QED
  BY <1>1, <1>2, <1>3 DEF Run

LEMMA CreateHistoryTableKeeps == ASSUME IInv, CreateHistoryTable PROVE IInv'
<1>1. /\ run' \in Run /\ run'.pc = "define" /\ run'.want = run.want /\ run'.kind = run.kind
      /\ run'.before = run.before
  BY Moves DEF IInv, TypeOK, CreateHistoryTable, Pcs
<1> QED
  BY <1>1 DEF IInv, TypeOK, DesignKnown, SchemaIsApplied, Consented, At,
     CreateHistoryTable

\* A snapshot made into something to migrate to is a design.
LEMMA ConvertTyped ==
    ASSUME NEW c \in Snapshots
    PROVE  /\ ConvertSchema(c) \in Designs
           /\ \A t \in Tables : ConvertSchema(c)[t] = Absent <=> c[t] = Absent
<1>1. ASSUME NEW x \in FieldSchema PROVE Converted(x) \in FieldDefinition
  BY DEF FieldSchema, FieldDefinition, Converted, ParseType, Types
<1>2. ASSUME NEW t \in Tables, c[t] # Absent
      PROVE  ConvertSchema(c)[t] \in TableStructure
  <2>1. c[t] \in TableSchema
    BY <1>2 DEF Snapshots
  <2> DEFINE F == [f \in Fields |-> IF c[t].fields[f] = Absent THEN Absent
                                    ELSE Converted(c[t].fields[f])]
  <2>2. F \in [Fields -> FieldDefinition \cup {Absent}]
    BY <1>1, <2>1 DEF TableSchema
  <2>3. ConvertSchema(c)[t] = [fields |-> F, vectorIndexes |-> {}]
    BY <1>2 DEF ConvertSchema
  <2> HIDE DEF F
  <2> QED
    BY <2>2, <2>3 DEF TableStructure
<1> QED
  BY <1>2, AbsentAssumption DEF ConvertSchema, Designs

LEMMA ReadHistoryKeeps == ASSUME IInv, ReadHistory PROVE IInv'
<1>1. schema = run.before
  BY DEF ReadHistory, At, IInv, SchemaIsApplied
<1>2. CASE Return("refused")
  BY <1>2, ReturnKeeps DEF ReadHistory, Outcomes, IInv, TypeOK
<1>3. ASSUME NEW n \in RecentSuccesses,
             run' = [run EXCEPT !.pc = "diff", !.want = ConvertSchema(history[n].snapshot)]
      PROVE  IInv'
  <2>1. history[n].snapshot \in Snapshots
    <3>1. history \in Seq(MigrationRecord) /\ n \in DOMAIN history
      BY DEF RecentSuccesses, Successes, IInv, TypeOK
    <3>2. history[n] \in MigrationRecord
      BY <3>1
    <3> QED
      BY <3>2 DEF MigrationRecord
  <2>2. ConvertSchema(history[n].snapshot) \in Designs
    BY <2>1, ConvertTyped
  <2>3. run' \in Run /\ run'.pc = "diff" /\ run'.want \in Designs /\ run'.before = run.before
    BY <1>3, <2>2 DEF IInv, TypeOK, Run
  <2> QED
    BY <1>1, <2>3 DEF ReadHistory, IInv, TypeOK, DesignKnown, SchemaIsApplied, Consented,
       At
<1> QED
  BY <1>2, <1>3 DEF ReadHistory

LEMMA ComputeDiffKeeps == ASSUME IInv, ComputeDiff PROVE IInv'
<1>1. schema = run.before
  BY DEF ComputeDiff, At, IInv, SchemaIsApplied
<1>2. CASE \E o \in Outcomes : Return(o)
  BY <1>2, ReturnKeeps DEF ComputeDiff, IInv, TypeOK
<1>3. CASE /\ run' = [run EXCEPT !.pc = "begin",
                                 !.todo = GenerateFromDiff(Difference, run.want)]
           /\ ~(Difference.destructive /\ ~run.allow)
  <2>1. run.want \in Designs /\ schema \in DatabaseTables /\ run \in Run
    BY DEF ComputeDiff, IInv, TypeOK, DesignKnown, At
  <2>2. GenerateFromDiff(Difference, run.want) = Statements
        /\ Difference = Changes(schema, run.want)
    BY <1>1 DEF Difference, Statements, DDLFor, Changes
  <2>3. Statements \in SUBSET DDL
    BY <1>1, <2>1, StatementIs DEF Statements
  <2>4. /\ run' \in Run /\ run'.pc = "begin" /\ run'.todo = Statements
        /\ run'.want = run.want /\ run'.allow = run.allow /\ run'.before = run.before
    BY <1>3, <2>1, <2>2, <2>3 DEF Run
  <2> QED
    BY <1>1, <1>3, <2>1, <2>2, <2>4 DEF ComputeDiff, IInv, TypeOK, DesignKnown, SchemaIsApplied,
       Consented, At, Statements
<1> QED
  BY <1>2, <1>3 DEF ComputeDiff, Outcomes

LEMMA ReadFailsKeeps == ASSUME IInv, ReadFails PROVE IInv'
BY ReturnKeeps DEF ReadFails, Outcomes, IInv, TypeOK

LEMMA BeginKeeps == ASSUME IInv, Begin PROVE IInv'
<1>1. run.want \in Designs /\ schema \in DatabaseTables /\ run \in Run
      /\ run.todo = Statements /\ schema = run.before
  BY DEF Begin, IInv, TypeOK, DesignKnown, SchemaIsApplied, At
<1>2. /\ run' \in Run /\ run'.pc = "execute" /\ run'.todo = run.todo
      /\ run'.want = run.want /\ run'.allow = run.allow /\ run'.before = run.before
  BY <1>1, Moves DEF Begin, Pcs
<1>3. Statements' = Statements /\ DoneSoFar' = {}
  BY <1>1, <1>2 DEF Begin, Statements, DoneSoFar
<1>4. Applied(schema, run.want, {}) = schema /\ CreatedFirst(schema, {})
  BY <1>1, AppliedNothing
<1>5. SchemaIsApplied'
  BY <1>1, <1>2, <1>3, <1>4 DEF Begin, SchemaIsApplied, At
<1> QED
  BY <1>1, <1>2, <1>5, AbsentAssumption DEF Begin, IInv, TypeOK, DesignKnown, Consented, At

\* A statement more has run.
LEMMA OneStatement ==
    ASSUME IInv, ExecuteStatement
    PROVE  /\ run.want \in Designs /\ run.before \in DatabaseTables
           /\ run' \in Run /\ run'.pc = "execute" /\ run'.want = run.want
           /\ run'.kind = run.kind /\ run'.allow = run.allow /\ run'.dry = run.dry
           /\ run'.before = run.before
           /\ run'.todo \subseteq Statements' /\ Statements' = Statements
           /\ DoneSoFar \in SUBSET DoneSoFar' /\ DoneSoFar' \in SUBSET Statements
           /\ schema = Applied(run.before, run.want, DoneSoFar)
           /\ schema' = Applied(run.before, run.want, DoneSoFar')
           /\ CreatedFirst(run.before, DoneSoFar')
           /\ schema' \in DatabaseTables
<1> DEFINE done == DoneSoFar
<1>1. run.want \in Designs /\ run \in Run /\ run.before \in DatabaseTables
      /\ run.pc = "execute" /\ run.todo \subseteq Statements
      /\ schema = Applied(run.before, run.want, done) /\ CreatedFirst(run.before, done)
  BY DEF ExecuteStatement, IInv, TypeOK, DesignKnown, SchemaIsApplied, At, Run
<1>2. PICK s \in run.todo : /\ IsNext(s, run.todo) /\ ~Invalid(s)
                            /\ schema' = Execute(schema, s)
                            /\ run' = [run EXCEPT !.todo = @ \ {s}]
  BY DEF ExecuteStatement
<1>3. /\ run' \in Run /\ run'.pc = "execute" /\ run'.todo = run.todo \ {s}
      /\ run'.want = run.want /\ run'.kind = run.kind /\ run'.allow = run.allow
      /\ run'.dry = run.dry /\ run'.before = run.before
  BY <1>1, <1>2 DEF Run
<1>4. /\ done \in SUBSET Statements /\ s \in Statements \ done
      /\ Statements \ done = run.todo
      /\ Statements' = Statements /\ DoneSoFar' = done \cup {s}
  BY <1>1, <1>2, <1>3 DEF DoneSoFar, Statements
<1> HIDE DEF done
<1>5. /\ schema' = Applied(run.before, run.want, done \cup {s})
      /\ CreatedFirst(run.before, done \cup {s})
  BY <1>1, <1>2, <1>4, StepApplies, TableFirst DEF Statements
<1>6. schema' \in DatabaseTables
  BY <1>1, <1>4, <1>5, AppliedTyped DEF Statements
<1> QED
  BY <1>1, <1>3, <1>4, <1>5, <1>6 DEF done

LEMMA ExecuteStatementKeeps == ASSUME IInv, ExecuteStatement PROVE IInv'
<1>1. SchemaIsApplied'
  BY OneStatement DEF SchemaIsApplied, At
<1>2. run.pc = "execute" /\ historyTable' = historyTable /\ history' = history
  BY DEF ExecuteStatement, At
<1> QED
  BY <1>1, <1>2, OneStatement DEF IInv, TypeOK, DesignKnown, Consented

LEMMA CancelDryRunKeeps == ASSUME IInv, CancelDryRun PROVE IInv'
BY ReturnKeeps DEF CancelDryRun, Outcomes, IInv, TypeOK

LEMMA CommitKeeps == ASSUME IInv, Commit PROVE IInv'
<1>1. run.want \in Designs /\ run \in Run
  BY DEF Commit, IInv, TypeOK, DesignKnown, At
<1>2. run' \in Run /\ run'.pc = "record" /\ run'.want = run.want /\ run'.dry = run.dry
  BY <1>1, Moves DEF Commit, Pcs
<1> QED
  BY <1>1, <1>2 DEF Commit, IInv, TypeOK, DesignKnown, SchemaIsApplied, Consented, At

LEMMA TransactionFailsKeeps == ASSUME IInv, TransactionFails PROVE IInv'
<1>1. CASE run.dry
  BY <1>1, ReturnKeeps DEF TransactionFails, Outcomes, IInv, TypeOK
<1>2. CASE ~run.dry
  <2>1. run' \in Run /\ run'.pc = "recordFailure" /\ run'.dry = run.dry
    BY <1>2, Moves DEF TransactionFails, Pcs, IInv, TypeOK
  <2> QED
    BY <1>2, <2>1 DEF TransactionFails, IInv, TypeOK, DesignKnown, SchemaIsApplied, Consented,
       At
<1> QED
  BY <1>1, <1>2

\* A record of the schema, or of a failure, is one of _migrations.
LEMMA RecordsTyped ==
    ASSUME IInv, history' = Append(history, Success(Introspect(schema)))
                 \/ history' = Append(history, Failure)
    PROVE  history' \in Seq(MigrationRecord)
<1>1. Introspect(schema) \in Snapshots
  BY IntrospectSees DEF IInv, TypeOK
<1>2. EmptySchema \in Snapshots
  BY DEF EmptySchema, Snapshots
<1>3. Success(Introspect(schema)) \in MigrationRecord /\ Failure \in MigrationRecord
  BY <1>1, <1>2 DEF Success, Failure, MigrationRecord
<1> QED
  BY <1>3 DEF IInv, TypeOK

LEMMA RecordSuccessKeeps == ASSUME IInv, RecordSuccess PROVE IInv'
BY RecordsTyped, ReturnKeeps DEF RecordSuccess, Outcomes

LEMMA RecordFailsKeeps == ASSUME IInv, RecordFails PROVE IInv'
<1>1. run' \in Run /\ run'.pc = "recordFailure" /\ run'.dry = run.dry
  BY Moves DEF RecordFails, Pcs, IInv, TypeOK
<1> QED
  BY <1>1 DEF RecordFails, IInv, TypeOK, DesignKnown, SchemaIsApplied, Consented, At

LEMMA RecordFailureKeeps == ASSUME IInv, RecordFailure PROVE IInv'
<1>1. history' \in Seq(MigrationRecord)
  BY RecordsTyped DEF RecordFailure, IInv, TypeOK
<1> QED
  BY <1>1, ReturnKeeps DEF RecordFailure, Outcomes

LEMMA CrashKeeps == ASSUME IInv, Crash PROVE IInv'
BY ReturnKeeps DEF Crash, Outcomes, IInv, TypeOK

LEMMA NextKeeps == IInv /\ [Next]_vars => IInv'
<1> SUFFICES ASSUME IInv, [Next]_vars PROVE IInv'
  OBVIOUS
<1>1. ASSUME NEW allow \in BOOLEAN, NEW dry \in BOOLEAN, NEW want \in Structures,
             Start("migrate", want, allow, dry)
      PROVE  IInv'
  <2>1. want \in Designs
    BY StructuresAssumption
  <2> QED
    BY <1>1, <2>1, StartKeeps
<1>2. ASSUME NEW allow \in BOOLEAN, NEW dry \in BOOLEAN, Start("rollback", Absent, allow, dry)
      PROVE  IInv'
  BY <1>2, StartKeeps
<1>3. CASE HistoryTableFound
  BY <1>3, EnsuredKeeps DEF HistoryTableFound, IInv, TypeOK
<1>4. CASE DefineHistoryFields
  BY <1>4, EnsuredKeeps DEF DefineHistoryFields
<1>5. CASE UNCHANGED vars
  BY <1>5 DEF vars, IInv, TypeOK, DesignKnown, SchemaIsApplied, Consented, At,
     Statements, DoneSoFar
<1> QED
  BY <1>1, <1>2, <1>3, <1>4, <1>5, CreateHistoryTableKeeps, ReadHistoryKeeps, ComputeDiffKeeps,
     ReadFailsKeeps, BeginKeeps, ExecuteStatementKeeps, CancelDryRunKeeps, CommitKeeps,
     TransactionFailsKeeps, RecordSuccessKeeps, RecordFailsKeeps, RecordFailureKeeps, CrashKeeps
     DEF Next

\* The state is typed, the schema included after any part of any migration's
\* statements, and no dry run reaches the steps that write the history.
THEOREM TypeCorrect == Spec => []TypeOK
<1>1. IInv => TypeOK
  BY DEF IInv
<1> QED
  BY <1>1, InitKeeps, NextKeeps, PTL DEF Spec


-----------------------------------------------------------------------------
(* Consent                                                                 *)

\* Everything but the statements leaves the schema alone, everything but the
\* two records the history.
LEMMA WhatChanges ==
    ASSUME IInv, Next
    PROVE  /\ ExecuteStatement \/ UNCHANGED schema
           /\ RecordSuccess \/ RecordFailure \/ UNCHANGED history
BY DEF Next, Start, HistoryTableFound, CreateHistoryTable, DefineHistoryFields, ReadHistory,
   ComputeDiff, ReadFails, Begin, ExecuteStatement, CancelDryRun, Commit, TransactionFails,
   RecordSuccess, RecordFails, RecordFailure, Crash

\* Without allowDestructiveMigrations no step takes away a table or a field,
\* changes a type or makes a field required: the flag is checked against the
\* difference, and what a statement does to what the ones before it left is
\* part of what the difference says.
THEOREM NothingIsLost == Spec => NothingLostWithoutConsent
<1>1. IInv /\ [Next]_vars => [~run.allow => Kept(schema, schema')]_vars
  <2> SUFFICES ASSUME IInv, Next, ~run.allow PROVE Kept(schema, schema')
    BY DEF vars
  <2>1. CASE UNCHANGED schema
    BY <2>1 DEF Kept
  <2>2. CASE ExecuteStatement
    <3>1. ~Changes(run.before, run.want).destructive
      BY <2>2 DEF ExecuteStatement, At, IInv, Consented
    <3>2. ASSUME NEW t \in Tables, schema[t] # Absent
          PROVE  /\ schema'[t] # Absent
                 /\ \A f \in Fields : schema[t].fields[f] # Absent =>
                       /\ schema'[t].fields[f] # Absent
                       /\ schema'[t].fields[f].type = schema[t].fields[f].type
                       /\ schema[t].fields[f].optional => schema'[t].fields[f].optional
      <4> DEFINE done == DoneSoFar
                 more == DoneSoFar'
      <4>1. /\ run.want \in Designs /\ run.before \in DatabaseTables
            /\ done \in SUBSET more /\ more \in SUBSET DDLFor(run.before, run.want)
            /\ schema = Applied(run.before, run.want, done)
            /\ schema' = Applied(run.before, run.want, more)
        BY <2>2, OneStatement DEF Statements
      <4> HIDE DEF done, more
      <4>2. Applied(run.before, run.want, done)[t] # Absent
        BY <3>2, <4>1
      <4> QED
        BY <3>1, <4>1, <4>2, NothingDestroyed
    <3>3. schema \in DatabaseTables /\ schema' \in DatabaseTables
      BY <2>2, OneStatement DEF IInv, TypeOK
    <3>4. ASSUME NEW c \in DatabaseTables
          PROVE  /\ DOMAIN c = Tables
                 /\ \A t \in Tables : c[t] # Absent => DOMAIN c[t].fields = Fields
      BY DEF DatabaseTables, DatabaseTable
    <3> QED
      BY <3>2, <3>3, <3>4 DEF Kept, Present
  <2> QED
    BY <2>1, <2>2, WhatChanges
<1> QED
  BY <1>1, InitKeeps, NextKeeps, PTL DEF Spec, NothingLostWithoutConsent

-----------------------------------------------------------------------------
(* Success is recorded                                                     *)

\* A step either does not end in the success of a call that was not a dry run,
\* or records it, or there was no call.
LEMMA HowCallsSucceed ==
    ASSUME IInv, Next, run'.pc = "idle", run'.outcome = "success", ~run'.dry
    PROVE  RecordSuccess
<1>1. run \in Run
  BY DEF IInv, TypeOK
<1>2. ASSUME NEW pc \in Pcs \ {"idle"}, GoTo(pc) PROVE FALSE
  BY <1>1, <1>2, Moves
<1>3. ASSUME NEW o \in Outcomes \ {"success"}, Return(o) PROVE FALSE
  BY <1>1, <1>3, Returns
<1>4. ASSUME NEW kind, NEW want, NEW allow, NEW dry, Start(kind, want, allow, dry) PROVE FALSE
  BY <1>4 DEF Start, NewRun
<1>5. ~HistoryTableFound /\ ~CreateHistoryTable /\ ~DefineHistoryFields
  BY <1>2 DEF HistoryTableFound, CreateHistoryTable, DefineHistoryFields, Ensured, Pcs
<1>6. ~ReadHistory
  BY <1>1, <1>3 DEF ReadHistory, Outcomes, Run
<1>7. ~ComputeDiff
  BY <1>1, <1>3 DEF ComputeDiff, Outcomes, Run
<1>8. ~ReadFails /\ ~Crash
  BY <1>3 DEF ReadFails, Crash, Outcomes
<1>9. ~Begin /\ ~Commit /\ ~TransactionFails /\ ~RecordFails
  BY <1>2, <1>3 DEF Begin, Commit, TransactionFails, RecordFails, Pcs, Outcomes
<1>10. ~ExecuteStatement
  BY <1>1 DEF ExecuteStatement, At, Run
<1>11. ~CancelDryRun
  BY <1>1, Returns DEF CancelDryRun, Outcomes
<1>12. ~RecordFailure
  BY <1>3 DEF RecordFailure, Outcomes
<1> QED
  BY <1>4, <1>5, <1>6, <1>7, <1>8, <1>9, <1>10, <1>11, <1>12 DEF Next

\* When a call reports success its record is the newest, and holds the schema
\* there is.
THEOREM SuccessIsRecorded == Spec => []RecordedAsCurrent
<1>1. Init => RecordedAsCurrent
  BY DEF Init, NoRun, NewRun, RecordedAsCurrent, Succeeded
<1>2. IInv /\ RecordedAsCurrent /\ [Next]_vars => RecordedAsCurrent'
  <2> SUFFICES ASSUME IInv, RecordedAsCurrent, [Next]_vars PROVE RecordedAsCurrent'
    OBVIOUS
  <2>1. CASE UNCHANGED vars
    BY <2>1 DEF vars, RecordedAsCurrent, Succeeded, At
  <2>2. CASE Next
    <3> SUFFICES ASSUME run'.pc = "idle", run'.outcome = "success", ~run'.dry
                 PROVE  history' # <<>> /\ history'[Len(history')] = Success(Introspect(schema'))
      BY DEF RecordedAsCurrent, Succeeded, At
    <3>1. RecordSuccess
      BY <2>2, HowCallsSucceed
    <3>2. history \in Seq(MigrationRecord) /\ schema' = schema
          /\ history' = Append(history, Success(Introspect(schema)))
      BY <3>1 DEF RecordSuccess, IInv, TypeOK
    <3> QED
      BY <3>2
  <2> QED
    BY <2>1, <2>2
<1> QED
  BY <1>1, <1>2, InitKeeps, NextKeeps, PTL DEF Spec


-----------------------------------------------------------------------------
(* Settled designs: lemmas about the schema                                *)

\* Any part of their statements makes a settled database of a settled database.
LEMMA AppliedSettled ==
    ASSUME NEW c \in DatabaseTables, SettledDatabase(c), NEW want \in Designs,
           SettledDesign(want), NEW done \in SUBSET DDLFor(c, want)
    PROVE  SettledDatabase(Applied(c, want, done))
<1> DEFINE A == Applied(c, want, done)
<1>1. ASSUME NEW t \in Tables, A[t] # Absent
      PROVE  /\ A[t] = TableNow(c, want, done, t)
             /\ A[t].vectorIndexes = {}
  <2>1. A[t] = TableNow(c, want, done, t)
    BY <1>1 DEF Applied
  <2>2. ASSUME NEW f PROVE ~Ran(done, {"createVector"}, t, f)
    <3> SUFFICES ASSUME NEW s \in done, s.op = "createVector", s.table = t PROVE FALSE
      BY DEF Ran
    <3>1. s.field \in want[t].vectorIndexes /\ want[t] # Absent
      BY StatementIs
    <3> QED
      BY <3>1 DEF SettledDesign
  <2>3. Base(c, t).vectorIndexes = {}
    BY DEF Base, NewTable, SettledDatabase
  <2>4. VectorsNow(c, done, t) = {}
    BY <2>2, <2>3 DEF VectorsNow
  <2> HIDE DEF A
  <2> QED
    BY <2>1, <2>4 DEF TableNow, TableOf
<1>2. ASSUME NEW t \in Tables, A[t] # Absent, NEW f \in Fields, A[t].fields[f] # Absent
      PROVE  /\ A[t].fields[f].type \in {"string", "int", "any"}
             /\ A[t].fields[f].default.kind # "text"
  <2>1. A[t].fields[f] = FieldNow(c, want, done, t, f)
    BY <1>2 DEF Applied, TableNow, TableOf, FieldsNow
  <2>2. CASE Ran(done, DefineOps, t, f)
    <3>1. PICK s \in done : s.op \in DefineOps /\ s.table = t /\ s.field = f
      BY <2>2 DEF Ran
    <3>2. HasField(want, t, f)
      BY <3>1, StatementIs
    <3>3. /\ want[t].fields[f].type \in {"string", "int", "any"}
          /\ want[t].fields[f].default.kind # "text"
      BY <3>2 DEF SettledDesign, HasField
    <3>4. A[t].fields[f] = DefinedField(want[t].fields[f])
      BY <2>1, <2>2 DEF FieldNow
    <3> HIDE DEF A
    <3> QED
      BY <3>3, <3>4 DEF DefinedField
  <2>3. CASE ~Ran(done, DefineOps, t, f)
    <3>1. A[t].fields[f] = Base(c, t).fields[f]
      BY <1>2, <2>1, <2>3 DEF FieldNow
    <3> HIDE DEF A
    <3>2. c[t] # Absent /\ c[t].fields[f] # Absent /\ A[t].fields[f] = c[t].fields[f]
      BY <1>2, <3>1 DEF Base, NewTable
    <3> QED
      BY <3>2 DEF SettledDatabase
  <2> QED
    BY <2>2, <2>3
<1> HIDE DEF A
<1>3. SettledDatabase(A)
  BY <1>1, <1>2 DEF SettledDatabase
<1> QED
  BY <1>3 DEF A

\* All of them leave no difference.
LEMMA AllOfThem ==
    ASSUME NEW c \in DatabaseTables, SettledDatabase(c), NEW want \in Designs, SettledDesign(want)
    PROVE  ~HasChanges(Changes(Applied(c, want, DDLFor(c, want)), want))
<1>1. NoVectors(c)
  BY DEF SettledDatabase, NoVectors
<1> QED
  BY <1>1, AllApplied

LEMMA SnapshotSettled ==
    ASSUME NEW c \in DatabaseTables, SettledDatabase(c)
    PROVE  SettledSnapshot(Introspect(c))
<1> SUFFICES ASSUME NEW t \in Tables, Introspect(c)[t] # Absent,
                    NEW f \in Fields, Introspect(c)[t].fields[f] # Absent
             PROVE  /\ Introspect(c)[t].fields[f].type \in {"string", "int", "any"}
                    /\ Introspect(c)[t].fields[f].default.kind # "text"
  BY DEF SettledSnapshot
<1>1. /\ c[t] # Absent /\ c[t].fields[f] # Absent
      /\ Introspect(c)[t].fields[f] = ReadField(c[t].fields[f])
  BY IntrospectSees
<1>2. c[t].fields[f].type \in {"string", "int", "any"} /\ c[t].fields[f].default.kind # "text"
  BY <1>1 DEF SettledDatabase
<1> QED
  BY <1>1, <1>2 DEF ReadField, ReadType, ReadDefault

LEMMA ConvertSettled ==
    ASSUME NEW c \in Snapshots, SettledSnapshot(c)
    PROVE  SettledDesign(ConvertSchema(c))
<1> SUFFICES ASSUME NEW t \in Tables, ConvertSchema(c)[t] # Absent
             PROVE  /\ ConvertSchema(c)[t].vectorIndexes = {}
                    /\ \A f \in Fields : ConvertSchema(c)[t].fields[f] # Absent =>
                          /\ ConvertSchema(c)[t].fields[f].type \in {"string", "int", "any"}
                          /\ ConvertSchema(c)[t].fields[f].default.kind # "text"
  BY DEF SettledDesign
<1>1. /\ c[t] # Absent /\ ConvertSchema(c)[t].vectorIndexes = {}
      /\ \A f \in Fields : ConvertSchema(c)[t].fields[f] =
            IF c[t].fields[f] = Absent THEN Absent ELSE Converted(c[t].fields[f])
  BY DEF ConvertSchema
<1>2. ASSUME NEW f \in Fields, c[t].fields[f] # Absent
      PROVE  /\ Converted(c[t].fields[f]).type \in {"string", "int", "any"}
             /\ Converted(c[t].fields[f]).default.kind # "text"
  BY <1>1, <1>2 DEF SettledSnapshot, Converted, ParseType
<1> QED
  BY <1>1, <1>2

\* A database that differs in nothing from a converted snapshot has its fields.
LEMMA SameFields ==
    ASSUME NEW c \in DatabaseTables, NEW snap \in Snapshots, SettledSnapshot(snap),
           ~HasChanges(Changes(c, ConvertSchema(snap)))
    PROVE  FieldsIn(Introspect(c)) = FieldsIn(snap)
<1> DEFINE want == ConvertSchema(snap)
           cur == Introspect(c)
<1>1. want \in Designs
  BY ConvertTyped
<1>2. cur \in Snapshots
  BY IntrospectSees
<1>3. ASSUME NEW t \in Tables
      PROVE  /\ cur[t] = Absent <=> snap[t] = Absent
             /\ cur[t] # Absent => cur[t].fields = snap[t].fields
  <2>1. /\ want[t] = Absent <=> snap[t] = Absent
        /\ \A f \in Fields : /\ HasField(want, t, f) <=> HasField(snap, t, f)
                             /\ HasField(snap, t, f) =>
                                  want[t].fields[f] = Converted(snap[t].fields[f])
    <3>2. want[t] = Absent <=> snap[t] = Absent
      BY ConvertTyped
    <3>3. ASSUME NEW f \in Fields, snap[t] # Absent
          PROVE  /\ want[t].fields[f] = IF snap[t].fields[f] = Absent THEN Absent
                                        ELSE Converted(snap[t].fields[f])
                 /\ snap[t].fields[f] # Absent => Converted(snap[t].fields[f]) # Absent
      <4>1. ASSUME NEW x \in FieldSchema PROVE Converted(x) \in FieldDefinition
        BY DEF FieldSchema, FieldDefinition, Converted, ParseType, Types
      <4>2. snap[t].fields[f] \in FieldSchema \cup {Absent}
        BY <3>3 DEF Snapshots, TableSchema
      <4> QED
        BY <3>3, <4>1, <4>2, AbsentAssumption DEF ConvertSchema
    <3> HIDE DEF want
    <3> QED
      BY <3>2, <3>3 DEF HasField
  <2>2. /\ t \notin Changes(c, want).tablesAdded /\ t \notin Changes(c, want).tablesRemoved
        /\ \A f \in Fields : /\ <<t, f>> \notin Changes(c, want).fieldsAdded
                             /\ <<t, f>> \notin Changes(c, want).fieldsRemoved
                             /\ <<t, f>> \notin Changes(c, want).fieldsModified
    BY DEF HasChanges
  <2> HIDE DEF want
  <2>3. /\ c[t] = Absent <=> want[t] = Absent
        /\ \A f \in Fields :
             /\ HasField(c, t, f) <=> HasField(want, t, f)
             /\ HasField(c, t, f) => ~Modified(ReadField(c[t].fields[f]), want[t].fields[f])
    BY <1>1, <2>2, ChangesAre
  <2>4. /\ cur[t] = Absent <=> c[t] = Absent
        /\ cur[t] # Absent => \A f \in Fields :
              /\ cur[t].fields[f] = Absent <=> ~HasField(c, t, f)
              /\ HasField(c, t, f) => cur[t].fields[f] = ReadField(c[t].fields[f])
    BY IntrospectSees DEF HasField
  <2> HIDE DEF cur
  <2>5. ASSUME cur[t] # Absent, NEW f \in Fields PROVE cur[t].fields[f] = snap[t].fields[f]
    <3>1. CASE ~HasField(c, t, f)
      BY <2>1, <2>3, <2>4, <2>5, <3>1 DEF HasField
    <3>2. CASE HasField(c, t, f)
      <4> DEFINE a == cur[t].fields[f]
                 b == snap[t].fields[f]
      <4>1. HasField(snap, t, f) /\ ~Modified(a, Converted(b))
        BY <2>1, <2>3, <2>4, <2>5, <3>2
      <4>2. a # Absent /\ b # Absent /\ snap[t] # Absent
        BY <2>4, <2>5, <3>2, <4>1 DEF HasField
      <4>3. a \in FieldSchema /\ b \in FieldSchema
        BY <1>2, <2>5, <4>2 DEF Snapshots, TableSchema
      <4>4. b.type \in {"string", "int", "any"}
        BY <4>2 DEF SettledSnapshot
      <4> HIDE DEF a, b
      <4>5. /\ a.type = b.type /\ a.optional = b.optional
            /\ a.assert = b.assert /\ a.default = b.default
        BY <4>1, <4>4 DEF Modified, TypeChanged, Converted, ParseType
      <4>6. a = b
        BY <4>3, <4>5 DEF FieldSchema
      <4> QED
        BY <4>6 DEF a, b
    <3> QED
      BY <3>1, <3>2
  <2>6. cur[t] # Absent => /\ cur[t].fields \in [Fields -> FieldSchema \cup {Absent}]
                           /\ snap[t].fields \in [Fields -> FieldSchema \cup {Absent}]
    BY <1>2, <2>1, <2>3, <2>4 DEF Snapshots, TableSchema
  <2>7. cur[t] = Absent <=> snap[t] = Absent
    BY <2>1, <2>3, <2>4
  <2> QED
    BY <2>5, <2>6, <2>7
<1> HIDE DEF cur
<1> QED
  BY <1>3 DEF FieldsIn, cur


-----------------------------------------------------------------------------
(* Positions in the history                                                *)

LEMMA PositionsFinite ==
    ASSUME history \in Seq(MigrationRecord)
    PROVE  /\ IsFiniteSet(Successes) /\ Successes \subseteq 1 .. Len(history)
           /\ \A n : IsFiniteSet(NewerThan(n, Successes))
<1>1. Successes \subseteq 1 .. Len(history)
  BY DEF Successes
<1>2. IsFiniteSet(1 .. Len(history))
  BY FS_Interval
<1>3. \A n : NewerThan(n, Successes) \subseteq 1 .. Len(history)
  BY <1>1 DEF NewerThan
<1> QED
  BY <1>1, <1>2, <1>3, FS_Subset

\* A success more.
LEMMA OneMoreSuccess ==
    ASSUME history \in Seq(MigrationRecord), NEW snapshot \in Snapshots,
           history' = Append(history, Success(snapshot)), NEW n \in Successes
    PROVE  /\ n \in Successes' /\ history'[n] = history[n]
           /\ Cardinality(NewerThan(n, Successes')) = Cardinality(NewerThan(n, Successes)) + 1
<1> DEFINE l == Len(history) + 1
<1>1. Success(snapshot) \in MigrationRecord /\ Success(snapshot).status = "success"
  BY DEF Success, MigrationRecord
<1>2. /\ DOMAIN history = 1 .. Len(history) /\ DOMAIN history' = 1 .. l
      /\ \A m \in 1 .. Len(history) : history'[m] = history[m]
      /\ history'[l] = Success(snapshot)
      /\ Len(history) \in Nat
  BY <1>1
<1> HIDE DEF l
<1>3. Successes' = Successes \cup {l}
  <2>1. Successes' = {m \in 1 .. l : history'[m].status = "success"}
    BY <1>2 DEF Successes
  <2>2. Successes = {m \in 1 .. Len(history) : history[m].status = "success"}
    BY <1>2 DEF Successes
  <2>3. ASSUME NEW m PROVE m \in 1 .. l <=> m \in 1 .. Len(history) \/ m = l
    BY <1>2 DEF l
  <2>4. l \notin 1 .. Len(history)
    BY <1>2 DEF l
  <2> QED
    BY <1>1, <1>2, <2>1, <2>2, <2>3, <2>4
<1>4. n \in 1 .. Len(history) /\ l > n /\ l \notin Successes
  BY <1>2, PositionsFinite DEF l
<1>5. NewerThan(n, Successes') = NewerThan(n, Successes) \cup {l} /\ l \notin NewerThan(n, Successes)
  BY <1>3, <1>4 DEF NewerThan
<1>6. IsFiniteSet(NewerThan(n, Successes))
  BY PositionsFinite
<1>7. Cardinality(NewerThan(n, Successes) \cup {l}) = Cardinality(NewerThan(n, Successes)) + 1
  BY <1>5, <1>6, FS_AddElement
<1> QED
  BY <1>2, <1>3, <1>4, <1>5, <1>7

\* What is second among the recent successes is second among all.
LEMMA RecentAreNewest ==
    ASSUME history \in Seq(MigrationRecord), NEW n \in RecentSuccesses
    PROVE  n \in Successes /\ NewerThan(n, RecentSuccesses) = NewerThan(n, Successes)
<1>1. Successes \subseteq 1 .. Len(history) /\ Len(history) \in Nat
  BY PositionsFinite
<1>2. n \in Successes /\ n + RecentLimit > Len(history) /\ n \in 1 .. Len(history)
  BY <1>1 DEF RecentSuccesses
<1>3. ASSUME NEW m \in Successes, m > n PROVE m + RecentLimit > Len(history)
  <2>1. m \in Nat /\ n \in Nat /\ RecentLimit \in Nat
    BY <1>1, <1>2, LimitAssumption
  <2> QED
    BY <1>1, <1>2, <1>3, <2>1
<1>4. ASSUME NEW m
      PROVE  m \in NewerThan(n, RecentSuccesses) <=> m \in NewerThan(n, Successes)
  BY <1>3 DEF RecentSuccesses, NewerThan
<1> QED
  BY <1>2, <1>4 DEF NewerThan

-----------------------------------------------------------------------------
(* Settled designs: the steps of a call                                    *)

\* The design of a call changes when the call starts, or reads the history.
LEMMA WantChanges ==
    ASSUME IInv, Next
    PROVE  \/ run'.want \in Structures
           \/ run'.want = Absent
           \/ ReadHistory /\ \E n \in RecentSuccesses :
                                run'.want = ConvertSchema(history[n].snapshot)
           \/ run'.want = run.want
<1>1. run \in Run
  BY DEF IInv, TypeOK
<1>2. ASSUME NEW pc \in Pcs, GoTo(pc) PROVE run'.want = run.want
  BY <1>1, <1>2, Moves
<1>3. ASSUME NEW o \in Outcomes, Return(o) PROVE run'.want = run.want
  BY <1>1, <1>3, Returns
<1>4. ASSUME NEW kind, NEW want, NEW allow, NEW dry, Start(kind, want, allow, dry)
      PROVE  run'.want = want
  BY <1>4 DEF Start, NewRun
<1>5. CASE HistoryTableFound \/ CreateHistoryTable \/ DefineHistoryFields
  BY <1>2, <1>5 DEF HistoryTableFound, CreateHistoryTable, DefineHistoryFields, Ensured, Pcs
<1>6. CASE ReadHistory
  BY <1>1, <1>3, <1>6 DEF ReadHistory, Outcomes, Run
<1>7. CASE ComputeDiff \/ ExecuteStatement
  BY <1>1, <1>3, <1>7 DEF ComputeDiff, ExecuteStatement, Outcomes, Run
<1>8. CASE ReadFails \/ Crash \/ CancelDryRun \/ RecordSuccess \/ RecordFailure
  BY <1>3, <1>8 DEF ReadFails, Crash, CancelDryRun, RecordSuccess, RecordFailure, Outcomes
<1>9. CASE Begin \/ Commit \/ TransactionFails \/ RecordFails
  BY <1>2, <1>3, <1>9 DEF Begin, Commit, TransactionFails, RecordFails, Pcs, Outcomes
<1> QED
  BY <1>4, <1>5, <1>6, <1>7, <1>8, <1>9 DEF Next

\* What a call found stays what it found, until the next call starts.
LEMMA BeforeChanges ==
    ASSUME IInv, Next
    PROVE  \/ run'.before = schema /\ schema' = schema
           \/ run'.before = run.before
<1>1. run \in Run
  BY DEF IInv, TypeOK
<1>2. ASSUME NEW pc \in Pcs, GoTo(pc) PROVE run'.before = run.before
  BY <1>1, <1>2, Moves
<1>3. ASSUME NEW o \in Outcomes, Return(o) PROVE run'.before = run.before
  BY <1>1, <1>3, Returns
<1>4. ASSUME NEW kind, NEW want, NEW allow, NEW dry, Start(kind, want, allow, dry)
      PROVE  run'.before = schema /\ schema' = schema
  BY <1>4 DEF Start, NewRun
<1>5. CASE HistoryTableFound \/ CreateHistoryTable \/ DefineHistoryFields
  BY <1>2, <1>5 DEF HistoryTableFound, CreateHistoryTable, DefineHistoryFields, Ensured, Pcs
<1>6. CASE ReadHistory \/ ComputeDiff \/ ExecuteStatement
  BY <1>1, <1>3, <1>6 DEF ReadHistory, ComputeDiff, ExecuteStatement, Outcomes, Run
<1>7. CASE ReadFails \/ Crash \/ CancelDryRun \/ RecordSuccess \/ RecordFailure
  BY <1>3, <1>7 DEF ReadFails, Crash, CancelDryRun, RecordSuccess, RecordFailure, Outcomes
<1>8. CASE Begin \/ Commit \/ TransactionFails \/ RecordFails
  BY <1>2, <1>3, <1>8 DEF Begin, Commit, TransactionFails, RecordFails, Pcs, Outcomes
<1> QED
  BY <1>4, <1>5, <1>6, <1>7, <1>8 DEF Next

\* A call that starts finds the schema there is.
LEMMA WhoChangesWant ==
    ASSUME IInv, Next, run'.want # run.want
    PROVE  ReadHistory \/ run'.before = schema
<1>1. run \in Run
  BY DEF IInv, TypeOK
<1>2. ASSUME NEW pc \in Pcs, GoTo(pc) PROVE FALSE
  BY <1>1, <1>2, Moves
<1>3. ASSUME NEW o \in Outcomes, Return(o) PROVE FALSE
  BY <1>1, <1>3, Returns
<1>4. ASSUME NEW kind, NEW want, NEW allow, NEW dry, Start(kind, want, allow, dry)
      PROVE  run'.before = schema
  BY <1>4 DEF Start, NewRun
<1>5. CASE HistoryTableFound \/ CreateHistoryTable \/ DefineHistoryFields
  BY <1>2, <1>5 DEF HistoryTableFound, CreateHistoryTable, DefineHistoryFields, Ensured, Pcs
<1>6. CASE ComputeDiff \/ ExecuteStatement
  BY <1>1, <1>3, <1>6 DEF ComputeDiff, ExecuteStatement, Outcomes, Run
<1>7. CASE ReadFails \/ Crash \/ CancelDryRun \/ RecordSuccess \/ RecordFailure
  BY <1>3, <1>7 DEF ReadFails, Crash, CancelDryRun, RecordSuccess, RecordFailure, Outcomes
<1>8. CASE Begin \/ Commit \/ TransactionFails \/ RecordFails
  BY <1>2, <1>3, <1>8 DEF Begin, Commit, TransactionFails, RecordFails, Pcs, Outcomes
<1> QED
  BY <1>4, <1>5, <1>6, <1>7, <1>8 DEF Next

LEMMA AllSettledKept ==
    ASSUME SettledDesigns, IInv, AllSettled, Next PROVE AllSettled'
<1>1. /\ schema \in DatabaseTables /\ history \in Seq(MigrationRecord) /\ run \in Run
      /\ SettledDatabase(schema)
      /\ \A n \in DOMAIN history : SettledSnapshot(history[n].snapshot)
  BY DEF IInv, TypeOK, AllSettled
<1>2. SettledDatabase(schema')
  <2>1. CASE ExecuteStatement
    <3>1. SettledDesign(run.want) /\ SettledDatabase(run.before)
      BY <2>1, OneStatement DEF AllSettled
    <3> QED
      BY <2>1, <3>1, OneStatement, AppliedSettled DEF Statements
  <2>2. CASE UNCHANGED schema
    BY <1>1, <2>2 DEF SettledDatabase
  <2> QED
    BY <2>1, <2>2, WhatChanges
<1>3. \A n \in DOMAIN history' : SettledSnapshot(history'[n].snapshot)
  <2>1. ASSUME NEW r \in MigrationRecord, SettledSnapshot(r.snapshot),
               history' = Append(history, r), NEW n \in DOMAIN history'
        PROVE  SettledSnapshot(history'[n].snapshot)
    <3>1. CASE n = Len(history) + 1
      BY <1>1, <2>1, <3>1
    <3>2. CASE n # Len(history) + 1
      <4>1. n \in DOMAIN history /\ history'[n] = history[n]
        BY <1>1, <2>1, <3>2
      <4> QED
        BY <1>1, <4>1
    <3> QED
      BY <3>1, <3>2
  <2>2. CASE RecordSuccess
    <3>1. Introspect(schema) \in Snapshots /\ SettledSnapshot(Introspect(schema))
      BY <1>1, IntrospectSees, SnapshotSettled
    <3>2. /\ Success(Introspect(schema)) \in MigrationRecord
          /\ Success(Introspect(schema)).snapshot = Introspect(schema)
      BY <3>1 DEF Success, MigrationRecord
    <3> QED
      BY <2>1, <2>2, <3>1, <3>2 DEF RecordSuccess
  <2>3. CASE RecordFailure
    <3>1. EmptySchema \in Snapshots /\ SettledSnapshot(EmptySchema)
      BY DEF EmptySchema, Snapshots, SettledSnapshot
    <3>2. Failure \in MigrationRecord /\ Failure.snapshot = EmptySchema
      BY <3>1 DEF Failure, MigrationRecord
    <3> QED
      BY <1>1, <2>1, <2>3, <3>1, <3>2 DEF RecordFailure
  <2> QED
    BY <1>1, <2>2, <2>3, WhatChanges
<1>4. run'.want \in Designs => SettledDesign(run'.want)
  <2>1. CASE run'.want \in Structures
    BY <2>1 DEF SettledDesigns
  <2>2. CASE run'.want = Absent
    BY <2>2, AbsentAssumption
  <2>3. ASSUME NEW n \in RecentSuccesses, run'.want = ConvertSchema(history[n].snapshot)
        PROVE  SettledDesign(run'.want)
    <3>1. n \in DOMAIN history
      BY DEF RecentSuccesses, Successes
    <3>2. history[n] \in MigrationRecord
      BY <1>1, <3>1
    <3>3. history[n].snapshot \in Snapshots /\ SettledSnapshot(history[n].snapshot)
      BY <1>1, <3>1, <3>2 DEF MigrationRecord
    <3> QED
      BY <2>3, <3>3, ConvertSettled
  <2>4. CASE run'.want = run.want
    BY <2>4 DEF AllSettled
  <2> QED
    BY <2>1, <2>2, <2>3, <2>4, WantChanges
<1>5. SettledDatabase(run'.before)
  BY <1>1, BeforeChanges DEF AllSettled, SettledDatabase
<1> QED
  BY <1>2, <1>3, <1>4, <1>5 DEF AllSettled

\* When COMMIT is sent there is no difference any more.
LEMMA CommitSettles ==
    ASSUME IInv, AllSettled, Commit
    PROVE  ~HasChanges(Changes(schema', run.want))
<1>1. /\ run.want \in Designs /\ run.before \in DatabaseTables /\ run.todo = {}
      /\ schema = Applied(run.before, run.want, DoneSoFar) /\ schema' = schema
  BY DEF Commit, IInv, TypeOK, DesignKnown, SchemaIsApplied, At, Run
<1>2. DoneSoFar = DDLFor(run.before, run.want)
  BY <1>1 DEF DoneSoFar, Statements
<1>3. SettledDatabase(run.before) /\ SettledDesign(run.want)
  BY <1>1 DEF AllSettled
<1> QED
  BY <1>1, <1>2, <1>3, AllOfThem

LEMMA CommittedIsWantedKept ==
    ASSUME IInv, AllSettled, CommittedIsWanted, Next PROVE CommittedIsWanted'
<1> SUFFICES ASSUME run'.pc = "record" PROVE ~HasChanges(Changes(schema', run'.want))
  BY DEF CommittedIsWanted, At, Difference, Changes
<1>1. run \in Run
  BY DEF IInv, TypeOK
<1>2. ASSUME NEW pc \in Pcs \ {"record"}, GoTo(pc) PROVE FALSE
  BY <1>1, <1>2, Moves
<1>3. ASSUME NEW o \in Outcomes, Return(o) PROVE FALSE
  BY <1>1, <1>3, Returns
<1>4. Commit
  <2>1. ASSUME NEW kind, NEW want, NEW allow, NEW dry, Start(kind, want, allow, dry) PROVE FALSE
    BY <2>1 DEF Start, NewRun
  <2>2. ~HistoryTableFound /\ ~CreateHistoryTable /\ ~DefineHistoryFields
    BY <1>2 DEF HistoryTableFound, CreateHistoryTable, DefineHistoryFields, Ensured, Pcs
  <2>3. ~ReadHistory /\ ~ComputeDiff
    BY <1>1, <1>3 DEF ReadHistory, ComputeDiff, Outcomes, Run
  <2>4. ~ReadFails /\ ~Crash /\ ~CancelDryRun /\ ~RecordSuccess /\ ~RecordFailure
    BY <1>3 DEF ReadFails, Crash, CancelDryRun, RecordSuccess, RecordFailure, Outcomes
  <2>5. ~Begin /\ ~TransactionFails /\ ~RecordFails
    BY <1>2, <1>3 DEF Begin, TransactionFails, RecordFails, Pcs, Outcomes
  <2>6. ~ExecuteStatement
    BY <1>1 DEF ExecuteStatement, At, Run
  <2> QED
    BY <2>1, <2>2, <2>3, <2>4, <2>5, <2>6 DEF Next
<1>5. run'.want = run.want
  BY <1>1, <1>4, Moves DEF Commit, Pcs
<1> QED
  BY <1>4, <1>5, CommitSettles

\* The steps between the history and the record leave call and history as they
\* are.
LEMMA TargetKept == ASSUME IInv, Target, Next PROVE Target'
<1> SUFFICES ASSUME run'.kind = "rollback", run'.pc \in {"diff", "begin", "execute", "record"}
             PROVE  \E n \in Successes' :
                       /\ Cardinality(NewerThan(n, Successes')) = 1
                       /\ run'.want = ConvertSchema(history'[n].snapshot)
  BY DEF Target
<1>1. run \in Run /\ history \in Seq(MigrationRecord)
  BY DEF IInv, TypeOK
<1>2. ASSUME NEW pc \in Pcs, GoTo(pc)
      PROVE  /\ pc \in {"diff", "begin", "execute", "record"}
             /\ run'.want = run.want /\ run.kind = "rollback"
  BY <1>1, <1>2, Moves
<1>3. ASSUME NEW o \in Outcomes, Return(o) PROVE FALSE
  BY <1>1, <1>3, Returns
<1>4. ASSUME NEW kind, NEW want, NEW allow, NEW dry, Start(kind, want, allow, dry) PROVE FALSE
  BY <1>4 DEF Start, NewRun
<1>5. ~HistoryTableFound /\ ~CreateHistoryTable /\ ~DefineHistoryFields
  BY <1>2 DEF HistoryTableFound, CreateHistoryTable, DefineHistoryFields, Ensured, Pcs
<1>6. ~ReadFails /\ ~Crash /\ ~CancelDryRun /\ ~RecordSuccess /\ ~RecordFailure
      /\ ~TransactionFails /\ ~RecordFails
  BY <1>2, <1>3 DEF ReadFails, Crash, CancelDryRun, RecordSuccess, RecordFailure,
     TransactionFails, RecordFails, Outcomes, Pcs
<1>7. CASE ReadHistory
  <2>1. PICK n \in RecentSuccesses :
           /\ Cardinality(NewerThan(n, RecentSuccesses)) = 1
           /\ run' = [run EXCEPT !.pc = "diff", !.want = ConvertSchema(history[n].snapshot)]
    BY <1>3, <1>7 DEF ReadHistory, Outcomes
  <2>2. n \in Successes /\ NewerThan(n, RecentSuccesses) = NewerThan(n, Successes)
    BY <1>1, RecentAreNewest
  <2>3. run'.want = ConvertSchema(history[n].snapshot)
    BY <1>1, <2>1 DEF Run
  <2>4. Successes' = Successes /\ history' = history
    BY <1>7 DEF ReadHistory, Successes
  <2> QED
    BY <2>1, <2>2, <2>3, <2>4
<1>8. CASE ComputeDiff \/ Begin \/ ExecuteStatement \/ Commit
  <2>1. run.pc \in {"diff", "begin", "execute"} /\ history' = history
    BY <1>8 DEF ComputeDiff, Begin, ExecuteStatement, Commit, At
  <2>2. run.kind = "rollback" /\ run'.want = run.want
    <3>1. CASE ComputeDiff
      BY <1>1, <1>3, <3>1 DEF ComputeDiff, Outcomes, Run
    <3>2. CASE Begin \/ Commit
      BY <1>2, <3>2 DEF Begin, Commit, Pcs
    <3>3. CASE ExecuteStatement
      BY <1>1, <3>3 DEF ExecuteStatement, Run
    <3> QED
      BY <1>8, <3>1, <3>2, <3>3
  <2>3. Successes' = Successes
    BY <2>1 DEF Successes
  <2> QED
    BY <2>1, <2>2, <2>3 DEF Target
<1> QED
  BY <1>4, <1>5, <1>6, <1>7, <1>8 DEF Next

\* A rollback that records its success has the fields of its target.
LEMMA RollbackRestoresFieldsKept ==
    ASSUME IInv, AllSettled, Target, CommittedIsWanted, Next
    PROVE  RollbackRestoresFields'
<1> SUFFICES ASSUME run'.pc = "idle", run'.outcome = "success", ~run'.dry, run'.kind = "rollback"
             PROVE  \E n \in Successes' :
                       /\ Cardinality(NewerThan(n, Successes')) = 2
                       /\ FieldsIn(Introspect(schema')) = FieldsIn(history'[n].snapshot)
  BY DEF RollbackRestoresFields, Succeeded, At
<1>1. RecordSuccess
  BY HowCallsSucceed
<1>2. /\ run \in Run /\ run.pc = "record" /\ history \in Seq(MigrationRecord)
      /\ schema \in DatabaseTables /\ schema' = schema
      /\ history' = Append(history, Success(Introspect(schema)))
      /\ run'.kind = run.kind
  BY <1>1, Returns DEF RecordSuccess, IInv, TypeOK, At, Outcomes
<1>3. PICK n \in Successes : /\ Cardinality(NewerThan(n, Successes)) = 1
                             /\ run.want = ConvertSchema(history[n].snapshot)
  BY <1>2 DEF Target
<1>4. /\ n \in Successes' /\ history'[n] = history[n]
      /\ Cardinality(NewerThan(n, Successes')) = Cardinality(NewerThan(n, Successes)) + 1
  <2>1. Introspect(schema) \in Snapshots
    BY <1>2, IntrospectSees
  <2> QED
    BY <1>2, <2>1, OneMoreSuccess
<1>5. ~HasChanges(Changes(schema, ConvertSchema(history[n].snapshot)))
  BY <1>2, <1>3 DEF CommittedIsWanted, At, Difference, Changes
<1>6. history[n].snapshot \in Snapshots /\ SettledSnapshot(history[n].snapshot)
  <2>1. n \in DOMAIN history
    BY DEF Successes
  <2>2. history[n] \in MigrationRecord
    BY <1>2, <2>1
  <2> QED
    BY <2>1, <2>2 DEF MigrationRecord, AllSettled
<1>7. FieldsIn(Introspect(schema)) = FieldsIn(history[n].snapshot)
  BY <1>2, <1>5, <1>6, SameFields
<1>8. Cardinality(NewerThan(n, Successes')) = 2
  BY <1>3, <1>4
<1>9. schema' = schema /\ history'[n].snapshot = history[n].snapshot
  BY <1>2, <1>4
<1>10. FieldsIn(Introspect(schema')) = FieldsIn(history'[n].snapshot)
  BY <1>7, <1>9
<1> QED
  BY <1>4, <1>8, <1>10

\* A design that has just been set is set on the schema the call found.
LEMMA HarmlessLeftKept ==
    ASSUME IInv, AllSettled, HarmlessLeft, Next PROVE HarmlessLeft'
<1> SUFFICES ASSUME run'.want \in Designs, ~Changes(run'.before, run'.want).destructive
             PROVE  ~Changes(schema', run'.want).destructive
  BY DEF HarmlessLeft
<1>1. CASE ExecuteStatement
  <2>1. SettledDesign(run.want)
    BY <1>1, OneStatement DEF AllSettled
  <2>2. ~Changes(Applied(run.before, run.want, DoneSoFar'), run.want).destructive
    BY <1>1, <2>1, OneStatement, RestIsHarmless DEF Statements
  <2> QED
    BY <1>1, <2>2, OneStatement
<1>2. CASE schema' = run'.before
  BY <1>2
<1>3. CASE run'.before = run.before /\ run'.want = run.want /\ schema' = schema
  BY <1>3 DEF HarmlessLeft
<1>4. CASE ~ExecuteStatement /\ run'.before = run.before /\ run'.want # run.want
  <2>1. schema' = schema
    BY <1>4, WhatChanges
  <2>2. ReadHistory \/ schema' = run'.before
    BY <1>4, <2>1, WhoChangesWant
  <2>3. CASE ReadHistory
    BY <1>4, <2>1, <2>3 DEF ReadHistory, At, IInv, SchemaIsApplied
  <2> QED
    BY <2>2, <2>3
<1> QED
  BY <1>1, <1>2, <1>3, <1>4, BeforeChanges, WhatChanges

\* A migration or rollback that reports success leaves no difference.
LEMMA SuccessIsWholeKept ==
    ASSUME IInv, CommittedIsWanted, Next PROVE SuccessIsWhole'
<1> SUFFICES ASSUME run'.pc = "idle", run'.outcome = "success", ~run'.dry
             PROVE  ~HasChanges(Changes(schema', run'.want))
  BY DEF SuccessIsWhole, Succeeded, At, Difference, Changes
<1>1. RecordSuccess
  BY HowCallsSucceed
<1>2. run.pc = "record" /\ schema' = schema /\ run'.want = run.want
  BY <1>1, Returns DEF RecordSuccess, IInv, TypeOK, At, Outcomes
<1> QED
  BY <1>2 DEF CommittedIsWanted, At, Difference, Changes

\* What is settled stays settled.
LEMMA SettledInit == Init => SettledInv
<1> SUFFICES ASSUME Init PROVE SettledInv
  OBVIOUS
<1>1. run.pc = "idle" /\ run.outcome = "none" /\ run.want = Absent /\ run.before = schema
  BY DEF Init, NoRun, NewRun
<1>2. SettledDatabase(schema) /\ SettledDatabase(run.before)
  BY <1>1 DEF Init, EmptySchema, SettledDatabase
<1>3. AllSettled
  BY <1>1, <1>2, AbsentAssumption DEF Init, AllSettled
<1> QED
  BY <1>1, <1>3, AbsentAssumption DEF SettledInv, Target, CommittedIsWanted, HarmlessLeft,
     RollbackRestoresFields, SuccessIsWhole, Succeeded, At

LEMMA SettledNext ==
    ASSUME SettledDesigns PROVE IInv /\ SettledInv /\ [Next]_vars => SettledInv'
<1> SUFFICES ASSUME IInv, SettledInv, [Next]_vars PROVE SettledInv'
  OBVIOUS
<1>1. CASE Next
  BY <1>1, AllSettledKept, TargetKept, CommittedIsWantedKept, HarmlessLeftKept,
     RollbackRestoresFieldsKept, SuccessIsWholeKept DEF SettledInv
<1>2. CASE UNCHANGED vars
  BY <1>2 DEF vars, SettledInv, AllSettled, SettledDatabase, SettledSnapshot, Target,
     CommittedIsWanted, HarmlessLeft, RollbackRestoresFields, SuccessIsWhole, Succeeded, At,
     Difference, Successes
<1> QED
  BY <1>1, <1>2

\* Success is the whole: with designs that are read back as written, whatever
\* calls failed or died before, one that reports success leaves nothing to do.
THEOREM SuccessIsTheWhole == SettledDesigns => (Spec => []SuccessIsWhole)
<1> SUFFICES ASSUME SettledDesigns PROVE Spec => []SuccessIsWhole
  OBVIOUS
<1>1. IInv /\ SettledInv /\ [Next]_vars => SettledInv'
  BY SettledNext
<1>2. SettledInv => SuccessIsWhole
  BY DEF SettledInv
<1> QED
  BY <1>1, <1>2, InitKeeps, NextKeeps, SettledInit, PTL DEF Spec

\* A call that could do without consent can be repeated without it, at whatever
\* statement it failed or the process ended: what was done is never undone by
\* what is left to do.
THEOREM RetriesNeedNoConsent == SettledDesigns => (Spec => []RetryNeedsNoConsent)
<1> SUFFICES ASSUME SettledDesigns PROVE Spec => []RetryNeedsNoConsent
  OBVIOUS
<1>1. IInv /\ SettledInv /\ [Next]_vars => SettledInv'
  BY SettledNext
<1>2. IInv /\ SettledInv => RetryNeedsNoConsent
  <2> SUFFICES ASSUME IInv, SettledInv, run.want # Absent,
                      ~Diff(Introspect(run.before), run.want).destructive
               PROVE  ~Difference.destructive
    BY DEF RetryNeedsNoConsent
  <2>1. run.want \in Designs
    BY DEF IInv, TypeOK, Run
  <2> QED
    BY <2>1 DEF SettledInv, HarmlessLeft, Changes, Difference
<1> QED
  BY <1>1, <1>2, InitKeeps, NextKeeps, SettledInit, PTL DEF Spec

\* A rollback that reports success has brought back the tables and fields of
\* the second newest success, of any number of records and whatever failures
\* lie between them.
THEOREM RollbackRestores == SettledDesigns => (Spec => []RollbackRestoresFields)
<1> SUFFICES ASSUME SettledDesigns PROVE Spec => []RollbackRestoresFields
  OBVIOUS
<1>1. IInv /\ SettledInv /\ [Next]_vars => SettledInv'
  BY SettledNext
<1>2. SettledInv => RollbackRestoresFields
  BY DEF SettledInv
<1> QED
  BY <1>1, <1>2, InitKeeps, NextKeeps, SettledInit, PTL DEF Spec

=============================================================================
