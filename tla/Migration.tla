------------------------------ MODULE Migration ------------------------------
(***************************************************************************)
(* MigrationEngine.executeMigration and rollbackMigration, with the history*)
(* they keep in table _migrations, of one migrating client on a persistent *)
(* database.  A step is one await of the engine: the process can end, and  *)
(* any call to the database fail, between any two of them.                 *)
(*                                                                         *)
(* Database.transaction sends BEGIN, COMMIT and CANCEL as queries of their *)
(* own, and the repository has measured that such queries begin and cancel *)
(* nothing: each statement of a migration takes effect when it runs.       *)
(***************************************************************************)
EXTENDS Schema, Sequences, FiniteSets

CONSTANTS
    Structures,     \* the designs migrated to: lists of TableStructure, by table
    RecentLimit,    \* records rollbackMigration looks at (10 in the code)
    MaxRecords      \* bound: no run starts once history has this many records

ASSUME LimitAssumption == RecentLimit \in Nat /\ MaxRecords \in Nat

ASSUME StructuresAssumption == Structures \subseteq Designs

VARIABLES
    schema,         \* the tables, fields and indexes of the database
    historyTable,   \* definition of _migrations: "absent", "partial", "complete"
    history,        \* its records, newest last
    run             \* the current, or the last, call of the engine

vars == <<schema, historyTable, history, run>>

\* A record of _migrations.  recordFailure stores an empty snapshot.
Success(snapshot) == [status |-> "success", snapshot |-> snapshot]
Failure           == [status |-> "failed", snapshot |-> EmptySchema]

\* The local variables of a call, where it stands, and how it ended.  before
\* is the schema it found, which the code does not keep.
NewRun(kind, want, allow, dry) ==
    [pc |-> "ensure", outcome |-> "none", kind |-> kind, want |-> want,
     allow |-> allow, dry |-> dry, todo |-> {}, before |-> schema]

NoRun == [NewRun("migrate", Absent, FALSE, FALSE) EXCEPT !.pc = "idle"]

At(pc)     == run.pc = pc
GoTo(pc)   == run' = [run EXCEPT !.pc = pc]
Return(o)  == run' = [run EXCEPT !.pc = "idle", !.outcome = o, !.todo = {}]

Init ==
    /\ schema = EmptySchema
    /\ historyTable = "absent"
    /\ history = <<>>
    /\ run = NoRun

-----------------------------------------------------------------------------
(* Up to the transaction: nothing that fails here is recorded.             *)

Start(kind, want, allow, dry) ==
    /\ At("idle")
    /\ dry \/ Len(history) < MaxRecords
    /\ run' = NewRun(kind, want, allow, dry)
    /\ UNCHANGED <<schema, historyTable, history>>

Ensured == GoTo(IF run.kind = "rollback" THEN "history" ELSE "diff")

\* ensureMigrationsTable: INFO FOR TABLE succeeds.
HistoryTableFound ==
    /\ At("ensure")
    /\ historyTable # "absent"
    /\ Ensured
    /\ UNCHANGED <<schema, historyTable, history>>

\* It fails: DEFINE TABLE, then one statement for each field.
CreateHistoryTable ==
    /\ At("ensure")
    /\ historyTable = "absent"
    /\ historyTable' = "partial"
    /\ GoTo("define")
    /\ UNCHANGED <<schema, history>>

DefineHistoryFields ==
    /\ At("define")
    /\ historyTable' = "complete"
    /\ Ensured
    /\ UNCHANGED <<schema, history>>

\* The positions in history of the successful migrations.
Successes == {n \in DOMAIN history : history[n].status = "success"}

\* Variant: failed migrations count as well.
RecentSuccesses_CountsFailures ==
    {n \in DOMAIN history : n + RecentLimit > Len(history)}

\* Those among getAllMigrations(limit: 10), the newest records.
RecentSuccesses == {n \in Successes : n + RecentLimit > Len(history)}

NewerThan(n, positions) == {m \in positions : m > n}

\* Fewer than two successes are refused; of others the target is the second.
ReadHistory ==
    /\ At("history")
    /\ \/ /\ Cardinality(RecentSuccesses) < 2
          /\ Return("refused")
       \/ \E n \in RecentSuccesses :
             /\ Cardinality(NewerThan(n, RecentSuccesses)) = 1
             /\ run' = [run EXCEPT !.pc = "diff", !.want = ConvertSchema(history[n].snapshot)]
    /\ UNCHANGED <<schema, historyTable, history>>

\* SchemaDiff.calculate on what introspection finds.
Difference == Diff(Introspect(schema), run.want)

ComputeDiff ==
    /\ At("diff")
    /\ IF ~HasChanges(Difference) THEN Return("noop")
       ELSE IF Difference.destructive /\ ~run.allow THEN Return("blocked")
       ELSE run' = [run EXCEPT !.pc = "begin",
                               !.todo = GenerateFromDiff(Difference, run.want)]
    /\ UNCHANGED <<schema, historyTable, history>>

\* A query of the steps above fails; ensureMigrationsTable may be part done.
ReadFails ==
    /\ run.pc \in {"ensure", "define", "history", "diff"}
    /\ Return("error")
    /\ UNCHANGED <<schema, historyTable, history>>

-----------------------------------------------------------------------------
(* Database.transaction around the statements                              *)

\* db_begin answers, and has begun nothing.
Begin ==
    /\ At("begin")
    /\ GoTo("execute")
    /\ UNCHANGED <<schema, historyTable, history>>

ExecuteStatement ==
    /\ At("execute")
    /\ \E s \in run.todo :
          /\ IsNext(s, run.todo)
          /\ ~Invalid(s)
          /\ schema' = Execute(schema, s)
          /\ run' = [run EXCEPT !.todo = @ \ {s}]
    /\ UNCHANGED <<historyTable, history>>

\* _DryRunRollbackSignal makes transaction() cancel, which undoes nothing;
\* should CANCEL itself fail, that is swallowed.
CancelDryRun ==
    /\ At("execute")
    /\ run.todo = {}
    /\ run.dry
    /\ Return("success")
    /\ UNCHANGED <<schema, historyTable, history>>

\* Variant: the statements are not awaited, and COMMIT overtakes some.
Commit_Overtakes ==
    /\ At("execute")
    /\ ~run.dry
    /\ GoTo("record")
    /\ UNCHANGED <<schema, historyTable, history>>

\* Variant: the signal is not thrown, and the dry run goes on.
Commit_DryRuns ==
    /\ At("execute")
    /\ run.todo = {}
    /\ GoTo("record")
    /\ UNCHANGED <<schema, historyTable, history>>

\* db_commit answers; whether its statement failed makes no difference.
Commit ==
    /\ At("execute")
    /\ run.todo = {}
    /\ ~run.dry
    /\ GoTo("record")
    /\ UNCHANGED <<schema, historyTable, history>>

\* BEGIN, a statement or COMMIT fails: transaction() cancels and rethrows, and
\* the statements before the failure stay.
TransactionFails ==
    /\ At("begin") \/ (At("execute") /\ (run.todo # {} \/ ~run.dry))
    /\ IF run.dry THEN Return("failed") ELSE GoTo("recordFailure")
    /\ UNCHANGED <<schema, historyTable, history>>

-----------------------------------------------------------------------------
(* After the transaction.  A partial _migrations rejects records.          *)

\* Variant: the snapshot is the schema read before the transaction.
RecordSuccess_OldSnapshot ==
    /\ At("record")
    /\ historyTable = "complete"
    /\ history' = Append(history, Success(Introspect(run.before)))
    /\ Return("success")
    /\ UNCHANGED <<schema, historyTable>>

RecordSuccess ==
    /\ At("record")
    /\ historyTable = "complete"
    /\ history' = Append(history, Success(Introspect(schema)))
    /\ Return("success")
    /\ UNCHANGED <<schema, historyTable>>

\* Introspection or the record fails: the same catch as for the transaction.
RecordFails ==
    /\ At("record")
    /\ GoTo("recordFailure")
    /\ UNCHANGED <<schema, historyTable, history>>

\* recordFailure, which swallows a failure of its own.
RecordFailure ==
    /\ At("recordFailure")
    /\ \/ history' = history
       \/ historyTable = "complete" /\ history' = Append(history, Failure)
    /\ Return("failed")
    /\ UNCHANGED <<schema, historyTable>>

\* The process ends: what has run is on disk.
Crash ==
    /\ ~At("idle")
    /\ Return("crashed")
    /\ UNCHANGED <<schema, historyTable, history>>

-----------------------------------------------------------------------------
Next ==
    \/ \E allow, dry \in BOOLEAN :
          \/ \E want \in Structures : Start("migrate", want, allow, dry)
          \/ Start("rollback", Absent, allow, dry)
    \/ HistoryTableFound \/ CreateHistoryTable \/ DefineHistoryFields
    \/ ReadHistory \/ ComputeDiff \/ ReadFails
    \/ Begin \/ ExecuteStatement \/ CancelDryRun \/ Commit \/ TransactionFails
    \/ RecordSuccess \/ RecordFails \/ RecordFailure
    \/ Crash

Spec == Init /\ [][Next]_vars

-----------------------------------------------------------------------------
(* Properties                                                              *)

Run == [pc : {"idle", "ensure", "define", "history", "diff", "begin", "execute",
              "record", "recordFailure"},
        outcome : {"none", "success", "noop", "blocked", "refused", "error", "failed",
                   "crashed"},
        kind : {"migrate", "rollback"}, want : Designs \cup {Absent},
        allow : BOOLEAN, dry : BOOLEAN, todo : SUBSET DDL, before : DatabaseTables]

MigrationRecord == [status : {"success", "failed"}, snapshot : Snapshots]

\* Every variable has its type; a dry run ends with its statements and is in
\* none of the steps that write the history.
TypeOK ==
    /\ schema \in DatabaseTables
    /\ historyTable \in {"absent", "partial", "complete"}
    /\ history \in Seq(MigrationRecord)
    /\ run \in Run
    /\ run.pc \in {"record", "recordFailure"} => ~run.dry

\* Every table and field of old is in new, takes the same type, and can
\* still be left out if it could.
Kept(old, new) ==
    \A t \in Present(old) :
        /\ t \in Present(new)
        /\ \A f \in Present(old[t].fields) :
              /\ f \in Present(new[t].fields)
              /\ new[t].fields[f].type = old[t].fields[f].type
              /\ old[t].fields[f].optional => new[t].fields[f].optional

\* Without allowDestructiveMigrations no step of a call, migration or rollback,
\* takes a table or a field away, changes its type or makes it required: also
\* not one of a call that fails half-way, or of a dry run.  (An assertion that
\* is added counts as harmless in the code, and is not looked at here.)
NothingLostWithoutConsent == [][~run.allow => Kept(schema, schema')]_vars

\* A call that found nothing destructive to do leaves nothing destructive to be
\* done, wherever it failed or the process ended: called again, it is not
\* blocked by what it did itself.  (For designs that are read back as written.)
RetryNeedsNoConsent ==
    At("idle") /\ run.want # Absent /\ ~Diff(Introspect(run.before), run.want).destructive
        => ~Difference.destructive

Succeeded(kind) == At("idle") /\ run.outcome = "success" /\ run.kind = kind /\ ~run.dry

\* Success is the whole: when a call reports it, nothing differs from the design,
\* whatever failed before.  (For designs that are read back as written.)
SuccessIsWhole ==
    Succeeded("migrate") \/ Succeeded("rollback") => ~HasChanges(Difference)

\* When a call reports success its record is the newest one and holds the
\* schema the database has: the snapshot a later rollback returns to.
RecordedAsCurrent ==
    Succeeded("migrate") \/ Succeeded("rollback") =>
        history # <<>> /\ history[Len(history)] = Success(Introspect(schema))

FieldsIn(tables) ==
    [t \in Tables |-> IF tables[t] = Absent THEN Absent ELSE tables[t].fields]

\* A rollback that reports success leaves the tables and fields of the second
\* newest success there was when it began (its own record is the newest now).
RollbackRestoresFields ==
    Succeeded("rollback") =>
        \E n \in Successes :
            /\ Cardinality(NewerThan(n, Successes)) = 2
            /\ FieldsIn(Introspect(schema)) = FieldsIn(history[n].snapshot)

-----------------------------------------------------------------------------
(* What the documents say and the code does not do                         *)

\* migration_engine.dart:26 "Execute in transaction with automatic rollback
\* on failure": a call that reports failure leaves the schema it found.
FailedLeavesSchema == At("idle") /\ run.outcome = "failed" => schema = run.before

\* migration_engine.dart:240 "Rolls back to the previous migration snapshot":
\* to everything in the snapshot, indexes included.
RollbackRestoresSnapshot ==
    Succeeded("rollback") =>
        \A n \in Successes :
            Cardinality(NewerThan(n, Successes)) = 2 => Introspect(schema) = history[n].snapshot

\* migration_execution_test.dart:260 "no-op migration when schemas match": a
\* design that has been migrated to has no difference left.
NextRunIsNoop ==
    Succeeded("migrate") => ~HasChanges(Difference)

=============================================================================
