# surrealdartb in TLA+

surrealdartb embeds SurrealDB in Dart and Flutter programs. A Dart class,
`Database`, calls a Rust library through FFI; the library keeps boxed SurrealDB
connections and runs every call to its end on a current-thread Tokio runtime of
the calling thread. Above `Database` there are a migration engine, vector
indexes, and an ORM layer with a code generator.

This directory holds TLA+ modules of the parts where order matters, TLC runs
on small instances of them, and TLAPS proofs about each of them for instances of
any size.

    tlc -workers 2 -config MCConnectionProtocol.cfg MCConnectionProtocol
    tlapm ConnectionProofs.tla

A run of TLC takes at most about two and a half minutes, and the proofs of a module
about as long. The proof modules are those named `...Proofs`.

## 1. Inventory

| Component | Source | State | Operations | Hard behaviour | Correct when |
|---|---|---|---|---|---|
| Connection registry | `rust/src/connection_registry.rs` | path -> pointer, `ref_count`, behind one mutex | get-or-reuse, register, unregister, validate, close existing | each function locks on its own; callers compose them | the count is exact; an entry is an open connection |
| Native lifecycle | `rust/src/database.rs` | boxed `Database`s, RocksDB LOCK files | `db_new`, `db_close`, `db_use_*`, `db_begin/commit/rollback` | two isolates between look-up and registration; freed pointers | one connection per directory, nothing used after free, nothing leaked |
| Recovery | `rust/src/recovery.rs` | none of its own | repair, verify | closes a connection under its holders | nobody uses it afterwards |
| Tokio runtime | `rust/src/runtime.rs` | one runtime per thread | `block_on` | a task progresses only inside a call of the thread that spawned it | a call runs to its end |
| Queries, conversion | `rust/src/query.rs` | session parameters, response boxes | CRUD, `db_set`, responses | one statement of several fails; strings that look like times | a box is freed once, results keep their places, a round trip changes nothing |
| Native errors | `rust/src/error.rs` | `LAST_ERROR` per thread | set, take | set by one call, taken by another | a failure is reported with its own message |
| Searches | `lib/src/database.dart` (searchSimilar) | a numbered session parameter | bind, query, unbind | session shared by all holders of a pointer; a close in between | a search uses its own vector and leaves nothing behind |
| `Database` | `lib/src/database.dart` | `_handle`, `_closed`, event queue | connect, close, about 40 operations | the body of a call runs later than its checks | a pointer is used only while it is owned |
| Transactions | both | the session's open transaction | begin, callback, commit, rollback | interleaved callers on one session; close in between; statements whose errors nobody looks at | all or nothing |
| Migration engine | `lib/src/schema/migration_*.dart` | `_migrations` table | migrate, roll back, history | failure or process end between any two awaits, with the statements so far in force | schema and history agree; no loss without consent; a call can be repeated |
| Schema, diff, DDL | `lib/src/schema/{introspection,diff_engine,ddl_generator}.dart` | none | introspect, diff, generate | texts compared after a round trip | after a migration there is no difference |
| Vector indexes | `lib/src/schema/index_manager.dart`, `lib/src/vector/` | none | create, drop, rebuild | rebuild is two queries | the index is there afterwards |
| Live queries | `rust/src/live_query.rs` | queues of notifications | start, poll, kill | not compiled in | - |
| Authentication | `rust/src/auth.rs` | the session's user | signin and others | stubs in embedded mode; signup stores a message and succeeds | it answers, and frees what it gives |
| ORM | `lib/src/orm/` | none | condition and include trees to text | precedence, escaping | the text means what the tree says |
| Code generator, value types, FFI bindings | `lib/generator/`, `lib/src/types/`, `lib/src/ffi/` | none | text and value conversion | - | - |

Calls go down (`Database` -> FFI -> registry, runtime, SurrealDB); nothing calls
back into Dart. What is shared: the registry and the LOCK files by all isolates
of a process; a connection, with its session, by all `Database` objects of a
directory; the event queue by all objects of an isolate; the `_migrations`
table by all processes, one after another.

## 2. Modules

    SharedConnection      what connection reuse promises
      ^ implemented by
    ConnectionProtocol    native side + clients that keep its contract
      ^ implemented by      (ConnectionProofs; RepairProofs for RepairSpec)
    DatabaseObject        native side + the Dart class and its event loop
                            (DatabaseObjectProofs)
    both EXTEND ConnectionRegistry, the native steps

    NativeCalls           what a native function answers, and the body that calls it
    Session               what objects on one connection do to its session
    Records               the fields of a record through JSON and SurrealQL
      (each with a proof module: NativeCallsProofs, SessionProofs, RecordsProofs)

    Schema                table structures, introspection, diff, DDL
      ^ EXTENDS             (SchemaProofs)
    Migration             the migration engine and its history
                            (MigrationProofs, which EXTENDS SchemaProofs)

### ConnectionRegistry

| Variable | In the code |
|---|---|
| `registry` | `CONNECTION_REGISTRY`: for each RocksDB directory a pointer and `ref_count`; 0 means no entry |
| `live`, `endpoint` | the heap: addresses that hold a `Database`, and the endpoint string last written there, which stays readable after a free |
| `lock` | for each directory whose RocksDB LOCK file the process holds, the isolate whose runtime has the connection's tasks (`opener`) and the one that dropped the connection (`closer`) |
| `call` | for each isolate the native call its thread is in, and where in it |

A native call is cut where the registry mutex is free: `db_new` is
ReuseConnection, or MissConnection, Connect (with ConnectLocked for the one
retry after 100 ms), RegisterConnection; `db_close` is DbClose, ReadEndpoint,
KeepConnection or RemoveConnection, FreeHandle, DrainRuntime. An operation is
ValidatedOp (the functions that ask `is_handle_valid`) or UncheckedOp
(`db_use_ns`, `db_use_db`, the transaction statements, which only test for
null), then UseHandle.

The code has undefined behaviour once a pointer is freed too early. The model
allows both of what can come of it: Crash, or going on with the bytes left
there. Heap addresses are reused at will.

A connection's background tasks live on the current-thread runtime of the isolate
that opened it (`runtime.rs:65-82`) and run only while that isolate's thread is
in `block_on` (Polls). Two things follow, and both are in the model. An operation
on a connection another isolate has opened waits for that isolate's next call
(NeedsOther, the guard of UseHandle). And after a last close LOCK is released
when the opener's thread runs the tasks (TasksEnd): at once if the closer is the
opener, since DrainRuntime stands for 500 ms in its `block_on` and the model
takes them to be long enough; otherwise DrainRuntime returns with LOCK held
(LeftToOpener). An isolate is taken to stay on one thread, with one runtime.

### ConnectionProtocol

Adds `ref`, one reference per `Database` object, and the clients: an object
gets a pointer from one `db_new`, uses only it, gives it up in one `db_close`,
from its own isolate. FairSpec lets every call that can go on do so. HotRestart
loses an isolate's objects without closing them; it waits for a native call of the
isolate to return. RepairSpec adds `db_repair_rocksdb`, for which `exact` says whether the caller's string is the
key the directory is registered under (it often is not: section 4).
`db_verify_rocksdb` is two steps, the question to the registry and the opening
of the directory, so that opens and closes of other isolates come between.

### DatabaseObject

| Variable | In the code |
|---|---|
| `obj` | `_handle`, `_closed` (state "closed"), the pointer in a local variable of connect() or close(), and whether a transaction callback is running |
| `queue` | the isolate's event queue: every operation is `Future(() {...})` |
| `job` | the body the event loop is in |

CallX is the synchronous half of an operation (`_ensureNotClosed`, then
scheduling); RunX starts its body, which reads `_handle` when it runs; the
native steps are those of ConnectionRegistry. A body with two native calls
(connect's set-up and clean-up, commit then rollback) stays in one event, as in
the code. `Contract` instantiates ConnectionProtocol with `ref` computed from
`_handle`, the local pointer and the call in progress.

### NativeCalls

| Variable | In the code |
|---|---|
| `lastError` | `LAST_ERROR` of each thread: which function stored the message, why, and whether that was the last call on the thread |
| `heap` | what Rust has given out on the thread and Dart has to free: a Response box, its JSON, a token, a message |
| `body` | the event body running on the thread: where it is, what its statements came to, what its `finally` blocks still free |

Each exported function is one `Function` record: what it is refused for before
anything is done, whether it runs statements, one other call of the engine, or
nothing, and what it gives. The body around it is the same for all: Call, then
Fail, Respond or Succeed inside the function, then HasErrors, GetResults or
TakeMessage, Free and Finish. Values and wording are left out: a result is the
number of its statement. An event body is synchronous and runs on one thread; a
thread runs bodies of any isolate, one at a time.

### Session

| Variable | In the code |
|---|---|
| `obj` | `_handle` and `_closed` of each object |
| `counter` | `_paramCounter` |
| `queue`, `running` | the event queue of each isolate; the call whose event is between binding and querying |
| `call` | each call: where it is, its parameter's number, whose vector it was computed with, the writes its callback was told of |
| `params`, `txn`, `store` | the session: bound parameters, open transaction; the database |

A search is NameParameter (the number, then set() schedules `db_set`),
BindParameter (`db_set`; the query is a microtask of the same event), Search
(`db_query`, then the `finally` schedules `db_unset`), UnbindParameter. Search
may fail at any time. A transaction is RunTransaction (`db_begin`, then the
callback), CallbackWrites and RunWrite for what the callback does, and Commit,
RollBack, or Abandon when the handle is gone. Native calls of different isolates
interleave; Close and HotRestart come between any two events.

`mixed` in `call` marks a transaction during which something else executed a
write, or a transaction statement, on the session. It is bookkeeping for one
property; no guard reads it.

`db_begin`, `db_commit` and `db_rollback` send a query of their own each and answer 0
whatever became of the statement. So in the model each BEGIN may span the queries
after it or begin nothing (the repository has measured the latter:
`agent-os/specs/2025-10-22-sdk-parity-issues-resolution/implementation/phase-1-transaction-rollback-fix.md`,
lines 35-75), a COMMIT may store the writes or lose them, and transaction() swallows a
CANCEL that fails (Abandon). A native call of the isolate that opened the
connection (Opener) ends; of others nothing is assumed.

### Records

One record: `exists`, its `field`s, how each was last written (`by`), and what
the application has last read (`copy`). Literal and Content are the two ways a
JSON value reaches the database: as a SurrealQL literal in `CREATE`/`UPDATE ...
SET`, where a string that begins like an ISO 8601 time becomes `d"..."`, and as
JSON text in `CONTENT` and `MERGE`, where it stays a string. ToJson is
`surreal_value_to_json`. A time is an instant with the spelling of its zone; a
text is a member of a set, some of whose members need escaping, and some of which
the log line of `db_update` can cut inside a character (Wide). EngineWrites is every
other writer, above all the text of `db_query`, and may store any value, a string
that begins like a time included. Left out: a string with a double quote after its
date, one that begins like a time and has a wide character among its last six
bytes (NativeCalls has that panic), numbers (the infinities come back as
texts, NaN as null), schemas, and the record's id: the
application is taken to remove it from what it read before it writes it back with
update(). Assumed of the engine: it prints a datetime with a Z.

### Schema and Migration

Schema keeps of a name or type only what happens to its text on the way through
the database: `object` is written as `any`; a type with a space in it is cut at
the space; a string default comes back with one more pair of quotes; of a vector
index everything after FIELDS is taken for the field. Introspect, Diff and
GenerateFromDiff are the three pure functions the engine is built from; Execute
is what SurrealDB does with a statement (external). A statement is its kind
("createField", "removeIndex", ...), its table, its field and the definition it
writes. GenerateFromDiff is the set of the statements generated; Phase is the
part of `generateFromDiff` that emits a statement, and IsNext says which ones may
be executed next: those of the earliest phase left, the code's list order inside
a phase being that of hash maps and sets of names.

| Variable of Migration | In the code |
|---|---|
| `schema` | tables, fields and indexes of the database |
| `historyTable`, `history` | how far `_migrations` is defined, and its records |
| `run` | the call: arguments, statements still to run, where it stands, outcome |

A step is one await of `executeMigration` or `rollbackMigration`. Each may fail
(ReadFails, TransactionFails, RecordFails, the swallowed failure inside
RecordFailure), and Crash may come between any two. `before` in `run` is the
only thing the code does not keep; two properties read it, and no action.

BEGIN, COMMIT and CANCEL are queries of their own here too, and Migration takes what
the repository has measured of them: they begin, commit and cancel nothing, and
a statement takes effect when it runs (`phase-1-transaction-rollback-fix.md:35-75`
for records; for a dry run whose tables stay
`agent-os/specs/2025-10-26-table-definition-generation/verification/phase-4-bug-fixes-verification.md:60-71`
and `.../implementation/4.2-bug-fixes-resolution.md:145`). So TransactionFails and
Crash leave the statements before them in force, CancelDryRun takes nothing back,
and whether COMMIT or CANCEL fails makes no difference to the schema.

Assumed of SurrealDB besides: INFO prints definitions in the order
`introspection.dart:410` expects; a SCHEMAFULL `_migrations` with fields missing
rejects records. The latest record is the one with the newest `applied_at`.

## 3. What is checked

### Passing runs

| Run | Instance | Shows |
|---|---|---|
| MCConnectionProtocol | 2 isolates, 3 objects, 1 directory and memory, 2 addresses | sharing, exact counts, no dangling use, no leak, one connection per directory, `register_connection` never replaces, lock-outs only by another isolate, verify disturbs nobody; implements SharedConnection; after the last close LOCK is released or somebody opens again, unless the closer was not the opener |
| MCProtocolRepair | 1 isolate, 2 objects, 2 directories, 3 addresses, repairs | the registry never names a freed connection; an accepted query uses an open one |
| MCDatabaseObject | 2 isolates, 2 objects, 1 directory and memory, 1 address | the class keeps the contract; nothing scheduled before close() runs on a handle after it; every close() gives its connection back, unless its isolate is stuck in an operation that needs another's thread |
| MCNativeCalls | 2 threads, all 30 functions on one and 3 on the other, 2 statements | boxes and strings are freed once; a failed statement throws; results keep their places; an exception has its own message; who leaves a message behind |
| MCSession | 2 isolates, 3 objects, 1 call each, a callback with 2 writes | whose vector a search uses; what stays in the session; transactions are all or nothing if undisturbed, whichever of their statements took effect, and are ended; calls of the opener's isolate end |
| MCRecords | 2 fields, every form of a string like a time, 2 texts | writing back what was read changes nothing, and is refused only for what other writers stored |
| MCMigration | 2 tables, 2 fields, 3 designs, 4 records | no loss without consent, also half-way; what failed half-way can be repeated without consent; a success is the whole design and is recorded with its schema; a rollback restores the fields of the right snapshot |

Bounds. Two isolates are enough for every pair of interleaved native calls,
because a step touches one registry entry and one call; the third object lets
an isolate hold a reference while another joins and leaves. MCProtocolRepair has
two directories, which tell "this path" from "another"; in MCConnectionProtocol an
address is reused while another is live, and in MCDatabaseObject every connection
gets the address of the one before, so that each stale pointer would pass for a
current one (a directory and an in-memory database are not open at once there; they
are in MCConnectionProtocol). MaxQueue bounds the event queue of each isolate: an operation and the
close() made after it. In MCNativeCalls the second thread has a function that
answers with a box, one that is refused, and one that leaves a message; two
statements give a failure before and after a success. In MCSession two calls
share an isolate and the third interleaves with them, each being a search, a
transaction or a write; a first write in a callback can succeed and a second
fail. MCRecords tells apart every branch of the conversions; one clock reading is
enough since no branch compares times. Four records of history are two
successes, a rollback and a rollback of the rollback. The three designs differ by
an added field, a dropped index, a field made required, a changed type, a changed
assertion and an added table, and are such as are read back as they were written
(`Settled`). The proofs of section 5 have none of these bounds, but
for MCProtocolRepair's one isolate.

CHECK_DEADLOCK is off in the ConnectionProtocol runs: when all objects are lost
to restarts nobody is left to act; and in MCSession, whose calls are made once.
A migrating application can always start a dry run; it may start others until
`MaxRecords` records are stored.

Fairness. FairSpec of ConnectionProtocol: a native call under way takes its next
step if it can, since `block_on` polls until its future is ready and the sleeps are
bounded. What it cannot do is written in the guards: a call that needs another
thread's runtime goes on only while that thread is in `block_on`, and nothing makes
it be. FairSpec of DatabaseObject: the event loop runs what is queued, under the
same guards. FairSpec of Session: so does the event loop of the isolate that opened
the connection; CallsEnd says nothing of other isolates, whose calls may wait for
ever (MCOperationsEnd). Nothing is assumed of applications: they need not call,
or close, or end a transaction.

Definitions named `Op_Fault` are variants with one slip in them, which no
action uses. In their place the property the slip is about fails.

### Runs that refute a statement of the repository

| Run | Refuted | What the code does |
|---|---|---|
| MCRepairDangling | no use of a freed handle | repair frees a connection under its holders, whose close() reads it |
| MCOperationsEnd | no deadlocks: an operation ends | the tasks of a connection run on its opener's thread only, which may be idle |
| MCMigrationAtomic | a failed migration changes nothing | the statements before a failure stay; and recording comes after COMMIT, inside the same `try` |
| MCRollbackIndexes | rollback restores the snapshot | indexes in the snapshot are dropped on conversion |
| MCMigrationSettles | migrating again is a no-op | four kinds of design never compare equal to what is read back; each of the four alone breaks the property |

Other hazards the models reach, for which no run states a property yet:

- Repair and verify look a directory up under the caller's string, which is
  spelled otherwise than the registry's key (section 4), and miss a connection
  that is still being opened: `DbRepair` with `exact` false.
- Validation is by address: after a repair, a new connection at a freed address
  makes an old pointer pass, on another directory.
- `rollbackMigration` reads ten records, failed ones included: nine failures
  hide the second success (`RecentLimit`).
- A `_migrations` table left half-made is taken for complete and never finished
  (`CreateHistoryTable`, `ReadFails`, then `HistoryTableFound`).

Other disagreements met while modelling, each plain from the two places:

- A dry run leaves what it executed (CancelDryRun), against
  `migration_engine.dart:67`; a callback that threw leaves what it wrote after a BEGIN
  that began nothing, against `database.dart:1690` (RollBack of Session).
- `query.rs:1950` and `lib.rs:109` expect a query on a `mem://` handle to be answered.
  `db_new` registers RocksDB connections only (`database.rs:61`), and every validated
  operation refuses a handle that is not registered (`query.rs:360`): RejectedOp.
- `database.rs:547-549` says the tasks of a dropped connection must complete before LOCK is
  released, and that is what the 500 ms are for. They complete only if the closing
  isolate is the opener (DrainRuntime, LeftToOpener).
- `database.rs:504` says the finalizer of a collected Dart object calls
  `db_close()`. `attachDatabaseFinalizer` is never called: what a hot restart
  abandons is never given back (HotRestart of ConnectionProtocol).
- `recovery.rs:134` says of verify that it "will close any existing connections
  to this path". It closes none (`recovery.rs:215` says why); DbVerify.
- `database.dart:2009` calls the parameter name of a search unique. It is so in
  one object; between isolates OwnVector and ParameterIsBound have to except
  objects that number alike (SharesName), and TLC finds such a search computed
  with another's vector if the exception is dropped.
- `test/README.md:26` says that errors come straight from the Rust FFI
  layer. A statement error stores no message, so its exception says whatever signup,
  verify or repair left on the thread, or nothing: MessageIsOwn is about refused
  calls only, and LeftoversKnown says what else can be there.
- `response_get_errors` is never called: a statement's error text is lost.
- `rollback_test.dart:24` expects a rollback that removes a field to succeed
  without `allowDestructiveMigrations`; the engine blocks it, as its own
  documentation says.

## 4. Where the parts meet

Registry keys are made by `extract_rocksdb_path` from the endpoint Dart builds
(`storage_backend.dart:63-79` adds a slash), while repair and verify look up the
path as the caller wrote it. A connection is shared with its session: namespace,
parameters and transaction state of one `Database` object are those of every
other object of the directory. `connect()` with `autoMigrate` runs the engine on
the new object and closes it if the migration fails; to DatabaseObject that is a
sequence of operations and a close().

Session takes over where ConnectionProtocol ends: it is about the time in which a
connection is held by all its objects, so that a handle is either current or
null. NativeCalls is about one native call of any of them, and is why the other
modules may treat a call that answers 0 as done and one that throws as refused;
the exceptions are FailedStatementsThrow's four functions, which Session models
by letting BEGIN and COMMIT do nothing.

## 5. What is proved

ConnectionProofs, for every finite set of objects and any isolates, directories and
addresses (ConstantsAssumption, HomeAssumption):

| Theorem | Property |
|---|---|
| Invariance | the inductive invariant IInv |
| TypeCorrect | TypeOK |
| HoldersShare | HoldersShareConnection |
| CountsAreExact | RefCountExact |
| NoDanglingDereference | DereferencesOnlyLive |
| DirectoriesOpenOnce | OneConnectionPerPath |
| RegistersOnce | RegisterNeverReplaces |
| ConnectionsAreGivenBack | NothingLeaks |
| HoldersAreAccepted | HolderNeverRejected |
| LockedOutByAnother | LockedOutOnlyByAnother |
| ImplementsSharedConnection | SharesConnections |
| RegistryIsLive | RegisteredIsLive, without repairs |

The properties are not inductive by themselves: nothing in them keeps two
`db_new` calls from registering the same directory. What does is not the
registry, which is unlocked in between, but LOCK. IInv therefore follows a
connection through its calls: a call that is registering, freeing or draining
owns its pointer and its directory alone (CallPointer, CallPath), holds LOCK, and
finds no entry; a call before a dereference works on its own object's pointer
(CallOwner), which is allocated at the object's endpoint (RefSound); an open
directory is locked (HeapLocked); in-memory databases are not shared
(MemExclusive), which is why their close may skip the registry. RefCountExact is
the cardinality of the holders, and each step adds or removes at most one.

The proof has one lemma per action, each with a step for every conjunct the
action can disturb. LOCK is not always given back: ConnectionsAreGivenBack and
LockedOutByAnother say that a LOCK nobody accounts for is one whose connection was
opened and closed by different isolates (LeftToOpener), so that one isolate alone
never locks itself out. LockedOutByAnother reads CallPath: the isolate that meets
LOCK has no reference to that directory itself. The refinement maps the
state of a directory to "open" if it has an entry, "opening" if a call is
registering it, "closing" while LOCK is still held otherwise (a call is freeing or
draining it, or it is left to its opener), and "closed" when it is not; IInv shows
that the cases exclude each other.

NativeCallsProofs, for any set of threads, any bound on statements and any
workload (NativeCallsAssumption, WorkloadAssumption): TypeCorrect,
BodiesFreeEverything (FreedExactlyOnce), FailuresAreReported
(FailedStatementsThrow), ResponsesAreComplete (ResponseIsComplete), MessagesAreOwn
(MessageIsOwn, whose message of a create or update may also be that of a panic in
the two string slices of `query.rs:48` and `:1057`), FewLeaveMessages
(LeftoversKnown). What a body must free is not determined by where it is, but by
what it has been given on the way: the inductive invariant says for each place of a
body what is on its heap and what its `finally` blocks still list, and that a place after a refusal has the body's own message in
the slot until it is taken. A step of one thread leaves the others' slot, heap
and body alone, which is where thread_local! is used.

SessionProofs, for any finite set of calls on any objects in any isolates
(SessionAssumption): VectorsAreOwn (OwnVector), ParametersAreBound
(ParameterIsBound), ParametersAreRemoved (ParametersRemoved), TransactionsAreAtomic
(AllOrNothing), TransactionsAreEnded (NothingLeftOpen). The invariant has a part
about searches: between binding and query the isolate is running this call
alone, so another search of the isolate is not there, and the parameter is its
own unless a search of another isolate has the same number (Rival). The part
about transactions follows the writes of an undisturbed one: together, in the open
transaction or in the database, while its callback runs; stored or lost together by
whatever ends it. Its strengthening is that the database and the
transaction hold only writes their callers know of, and that writes are numbered,
so that a new write is new. Neither part needs the queues: order between events
does not matter, only that one event is not interrupted by its own isolate.

RecordsProofs, for any fields, texts, clocks and zones (RecordsAssumption,
DraftsAssumption): TypeCorrect, WriteBackIsSafe (WriteBackKeeps), ReadsStayAcceptable
(ReadsAreAccepted). The invariant says which values each way of writing can leave in
a field: after a SET no string begins like a time. Other writers may store one, and then
ReadsAreAccepted does not cover the record: update() would turn it into a datetime
literal that need not parse.

RepairProofs, for RepairSpec with any objects, directories and addresses, and one
isolate (Alone): RegistrySurvivesRepair (RegisteredIsLive) and AcceptedAfterRepair
(AcceptedOpsUseLiveHandle). After a repair the holders' pointers dangle and may be
closed, so nothing can be said of who owns a pointer. What stays true is said of
the registry alone: an entry's pointer is allocated and open on the entry's
directory, and when a close has come to free a pointer, the path it read at that
address is out of the registry. Alone is needed, and not for the proof's sake: of
two isolates that close one dangling pointer, one can be past its look at the
registry when the other frees the address and connects again there; what it then
frees is registered. The code has no guard against that, and MCProtocolRepair runs
with one isolate for the same reason.

DatabaseObjectProofs, for any isolates, objects, directories, addresses and event
bounds: TypeCorrect (TypeOK), NothingAfterClose (NothingRunsAfterClose) and
KeepsTheContract (KeepsContract), the refinement of ConnectionProtocol. The
invariant ties together three things that the code keeps apart: what an object
holds in `_handle` and in the local variable of connect() or close() (ObjSound);
the native call an isolate is in, which is the one its event body has made, with
the pointer its object has (JobSound); and the events still in the queue, where an
object that is connecting has its connect event and nothing else, and at most one
close event waits, for a pointer nobody has freed (EventSound). In a refinement
step `ref` of the contract moves exactly when the native call does: every event
that makes no call is a stutter. ConnectionProofs is then instantiated with that
`ref`, and its theorems become theorems about the class: ObjectsUseLiveConnections,
ObjectsAreCounted, ObjectsShareConnections.

SchemaProofs is about Schema's operators, with no state. Applied(c, want, done) says
in closed form what the statements `done` of the difference between database c and
design `want` have made of c. StepApplies: executing one more statement that may
come next gives Applied of one more, so that no recursion over the list of
statements is needed. NothingDestroyed: if the difference does not say
"destructive", then of any first statements of it and any more of them, the latter
keep what is there after the former, a field with its type, and optional if it was.
RestIsHarmless: what is left of such a difference after any first statements is not
destructive either. AllApplied: if the design is of the kinds that are read back as
they were written (SettledDesign, which RestIsHarmless needs too), the difference is
empty afterwards.

MigrationProofs, for any tables, fields, designs and number of migrations: TypeCorrect
(TypeOK), NothingIsLost (NothingLostWithoutConsent), SuccessIsRecorded
(RecordedAsCurrent). The invariant says of a call that runs its statements that the
schema is Applied to the statements already taken (SchemaIsApplied), and that a
destructive difference is only worked on with consent (Consented). That makes every
single statement one of NothingDestroyed's, also of a call that fails later.
SuccessIsTheWhole (SuccessIsWhole), RetriesNeedNoConsent (RetryNeedsNoConsent) and
RollbackRestores (RollbackRestoresFields) have a hypothesis, SettledDesigns: every
design migrated to is a SettledDesign. It is what the passing run's designs are
(MCMigration, `Settled`), and it cannot be dropped: with the designs of
MCMigrationSettles, which are what it excludes, a committed design still differs
from what is read back, and the next run finds changes of its own making. The
further invariant keeps all schemas and snapshots settled (AllSettled), knows a
rollback's target in the history (Target), that between COMMIT and the record
nothing is left to do (CommittedIsWanted), and that wherever a call stopped the
difference left is harmless if it was at first (HarmlessLeft, from RestIsHarmless).

SessionProofs ends with TypeCorrect (TypeOK), whose invariant is about what the
other theorems do without: a call is in the queue of its own isolate, once,
exactly while an event of its own is to come (Queues), and an object's counter is
at most the number of its calls that have come to name a parameter (Bounds).

The inductive invariants of Session, Migration and DatabaseObject were also checked
by TLC, on the instances of section 3 (that of Migration with two records).

Only model-checked: the liveness properties (LastCloseReleasesLock, CloseGivesBack,
CallsEnd), which are out of the prover's reach, and the five runs that refute a
statement. Every safety property of a passing run is proved; SuccessIsWhole,
RetryNeedsNoConsent and RollbackRestoresFields under SettledDesigns, and those of
MCProtocolRepair under Alone.

## 6. Not modelled

Listed with their reasons in `PROJECT.json`. In short: live queries (the module
is commented out at `lib.rs:45` and Dart has no binding for it), users and tokens
(stubs in the embedded mode), the code generator (text at build time), vector
arithmetic, the parsers of value types, conditions and includes of the ORM, FFI
declarations. Of what is modelled, left out are wording and logging, namespace and
database of a session, what exports, imports, patches and functions do in the
engine, the migration hash, the destructive-change report, several clients
migrating at once, and clock order of `applied_at`.

## 7. Plan

1. ConnectionRegistry, ConnectionProtocol, SharedConnection, ConnectionProofs: done.
2. DatabaseObject: done and proved.
3. Schema and Migration: done for one client, and proved.
4. Session, NativeCalls, Records: done and proved.
5. RepairSpec: proved for one isolate. To state: exactly which step of two
   isolates breaks it, as an invariant with that step excepted.
6. VectorIndex: rebuild as two queries, with failure between them; two clients
   that migrate at once.
7. WhereCondition: pure operators against a reference definition over bounded
   inputs; recursive functions, checked only.
