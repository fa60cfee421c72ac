# Verification of xalwart.orm

TLA+ modules, TLC configurations and TLAPS proofs about xalwart.orm, the ORM of the
xalwart framework: a C++ library that maps structs to tables of SQLite and PostgreSQL,
pools connections, builds queries and runs schema migrations.

**Paths.** `PROJECT.json` gives paths from the directory above the repository, where
the repository is called `src`: `src/src/backend.cpp` is `src/backend.cpp` of the
repository. Comments in the modules use the bare file name, as in `backend.cpp:27`. In
the tables below a module is named without `.tla`.

## 1. The system

| Component | State it keeps | Operations | Code |
|---|---|---|---|
| Connection pool | queue of open connections, mutex, condition variable, size; two lazily made helpers | `create_pool`, `get_connection`, `release_connection`, `wrap_connection`, `schema_editor`, `sql_builder` | `backend.cpp`, `backend.h`, `interfaces.h` |
| Driver connections | a session of the engine and the flag `in_transaction` | `run_query` (two overloads), `begin_transaction`, `end_transaction`, `rollback_transaction` | `sqlite3/connection.*`, `postgresql/connection.*` |
| Repository, Transaction | a connection borrowed from the pool; a begun transaction | `wrap`, `transaction`, `free_connection`, `insert`, `select`, `update`, `delete_`, `commit`, `rollback`, moves, copies, destructors | `repository.*`, `transaction.h` |
| Query builders | the clauses of a Select, the rows of an Insert or Update, the keys and condition of a Delete | clause methods, `all`, `first`, `delete_`, aggregates, `commit_one`, `commit_batch`, `commit` | `queries/*`, `sql_builder.*` |
| Models | field values and the null mark | `from_map`, column metadata | `db/model.h`, `db/meta.h` |
| Migration operations, project state | the description of tables and columns | `update_state`, `forward`, `backward` of seven operations | `db/operations/*`, `db/states.h` |
| Schema editors | deferred statements of a migration | create, drop, rename table; add, drop, alter, rename column; SQLite's rebuild of a table | `db/schema_editor.*`, `sqlite3/schema_editor.*`, `postgresql/schema_editor.*` |
| Migration executor, recorder | the log table `xalwart_migrations`; the sorted migrations | `apply`, `rollback`, `ensure_schema`, `record_applied`, `record_rolled_back` | `db/executor.*`, `db/recorder.*`, `db/migration.*` |
| Backends, credentials, configuration | parameters | construction, `get_table_names` | `sqlite3/backend.cpp`, `postgresql/backend.cpp`, `config/*` |

**How they interact.** Threads share one backend, and through it the pool. A Repository
takes a connection from the pool on first use and returns it in `free_connection`, at
the end of `wrap`, or when it is destroyed. Query objects hold raw pointers to that
connection and to the backend's query builder. A Transaction begins in its constructor;
`Repository::transaction` rolls back after the body, as does the destructor, and relies
on a rollback without a transaction doing nothing. The flag in the driver decides
whether BEGIN, COMMIT and ROLLBACK reach the engine. The executor computes project
states by replaying `update_state`, and hands each operation the states on both sides;
SQLite's editor cannot alter a column, so it rebuilds the table *from the project
state*. Each migration runs in one transaction together with its row in the log. No lock
spans two migrations, or the reading of the log and the writing to it.

**What is hard.** Lost wake-ups and nested use of the pool. The flag and the engine
disagreeing after a failed statement. Statements that end a transaction they did not
begin. Two descriptions of the schema, one computed and one in the engine, that must not
drift apart over any sequence of operations. Crashes between statements, and a second
process working on the same database. Query objects that are reused, and relations that
run long after the model was read. `hazards` in `PROJECT.json` lists each of these at
its line with the properties that would catch it going wrong, or the reason none does.

**What makes each part correct.** *Pool*: a connection is in one place at a time, none
is lost, no wake-up is lost, every call returns. *Connections, transactions*: flag and
engine agree whenever the connection changes hands; what was reported as done stays
done, what was reported as undone leaves nothing; only `commit` commits. *Repository*:
each connection is in the queue, in one Repository or in one call; no raw pointer
outlives what it points to. *Operations*: computed state and engine's schema describe
the same tables; backward undoes forward; an accepted operation goes through, with any
rows whose values fit the types.
*Executor*: the log says exactly what the schema is, through failures, crashes and other
processes; a call stays within its target and has reached it when it returns. *Queries*:
an answer is what all the calls together ask for; a relation is that of the moment; what
a null-model holds is not written.

## 2. The modules

| Module | Models | Extends or uses |
|---|---|---|
| `ConnectionLease` | what a pool promises: each connection is free or leased to one thread | – |
| `ConnectionPool` | `DefaultSQLBackend`'s pool, step by step between the points where another thread can run | refines `ConnectionLease` |
| `ConnectionPoolProofs` | proofs: inductive invariant, safety, refinement, no lost wake-up | `ConnectionPool` |
| `DriverConnection` | both drivers' connections and the engines' sessions: each method as the set of its outcomes | – |
| `TransactionSessions` | successive users of one connection: single calls, migrations, `Repository::transaction` | `DriverConnection` |
| `RepositoryUse` | threads with Repository objects over the pool: nested wraps and transactions, moves, lazy relations, pointers | `DriverConnection` |
| `SchemaOperations` | project state, the engine's catalog, both editors, the seven operations | – |
| `SchemaLaws` | sequences of operations on state and catalog side by side | `SchemaOperations` |
| `MigrationHistory` | what migrations promise: log and schema move together, one migration at a time | `SchemaOperations` |
| `MigrationExecutor` | executor, recorder, migrations; processes, faults and crashes | `SchemaOperations`, refines `MigrationHistory` |
| `Queries` | a program that builds, runs and reuses queries | – |
| `DriverConnectionProofs` | lemmas: what each driver method does to a session | `DriverConnection` |
| `TransactionSessionsProofs` | proofs: flag and engine, writes kept and undone | `TransactionSessions`, `DriverConnectionProofs` |
| `RepositoryUseProofs` | proofs: types, query builder, every connection in one place, sessions and writes of programs with threads | `RepositoryUse`, `DriverConnectionProofs` |
| `SchemaOperationsProofs` | proofs: what each operation, forward and backward, does to state and catalog on each engine | `SchemaOperations` |
| `SchemaLawsProofs` | proofs: state and catalog agree, backward undoes, the engine takes what the state accepts | `SchemaLaws`, `SchemaOperationsProofs` |
| `MigrationExecutorProofs` | proofs: targets, order of the log, what a return means, the schema the log tells of, refinement | `MigrationExecutor`, `SchemaOperationsProofs` |
| `QueriesProofs` | proofs: what a SELECT, a relation and a statement that writes do, for any calls and any rows | `Queries` |
| `MC...` | values of the constants for TLC | the module of that name |

### Connection pool

`pc[t]` is where thread `t` stands. `CallGet` is the first use of a `ConnectionWrapper`,
`Lock` the acquisition of `_mutex` (also on waking), `Wait` and `Proceed` the two
outcomes of the wait predicate, `TakeFront` and `Pop` the two statements on the queue,
`Push` and `Notify` the two halves of `release_connection`; the notification comes after
the unlock, as in the code. `SpuriousWake` is the wake-up that C++ allows. `CreatePool`
fills the pool, in whole, or in part when a connection cannot be opened. `held[t]` are
the connections of the wrappers alive in thread `t`. `front` and `pop` are separate
steps on purpose: the model does not assume that the mutex protects them, a mutant that
drops the guard breaks `ExclusiveLease`.

### Connections and transactions

A session is `[dbms, flag, engine, work, db]`. Every driver method is the set of its
outcomes, `ok` or exception. The drivers differ in when they move the flag: SQLite's
before the statement runs, PostgreSQL's after. The engines differ in what an error does:
SQLite stays in the transaction (or, when the disk is full, ends it), PostgreSQL's
aborts the transaction until it is ended. `Faults[d]` says what engine `d` may do. What
engines do is external to the repository and comes from their documentation, as far as
the code relies on it.

`TransactionSessions` takes the connection from the pool and puts it back (`mode`), and
between makes plain calls or runs a body as `Repository::transaction` does: constructor,
calls, at most one commit, exception handler, both rollbacks. A user who leaves by an
exception and one who returns take the same two rollbacks in the same order as in the
code. `RunMigration` is one migration, the third way a connection is used.

### Repository

`RepositoryUse` has the pool as a queue whose get and release are one step each, which
is what the proofs about `ConnectionPool` allow; `session[c]` is the session of
connection `c`. `repo[r]` is a Repository variable: whether it is alive, whether it has
a backend (one that was moved from has none), the connection it holds. `Owner[r]` is the
thread whose stack it is on. `frames[t]` are the bodies thread `t` is in, innermost
last: `wrap` or `transaction`, the pointers of the Transaction, its pending writes, and
`moved` when the body has moved the Transaction to a variable of its own. A body that
throws sets `throwing`, and `LeaveBody` runs what the code runs on the way out: handler,
rollback, destructor, release.

A call goes through the stages of `task[t]`, between which other threads run: `Get`
takes a connection if the Repository has none and waits while there is none;
`TestBuilder` and `MakeBuilder` are the two halves of the lazily made query builder,
unguarded as in the code; then the call itself. `applied_migrations` gives its
connection back (`Unwrap`) before it reads (`ReadLog`), because its wrapper dies with
`migrations()`. `kept[t]` are the raw pointers in a model that was read with a lazy
relation, which `Relation` uses at any later time. `acked` and `undone` are what the
program was told about its writes.

Nothing in the ORM keeps a program from outliving a pointer. What a well-behaved program
does not do is a *habit*, a member of the constant `Habits`, and a guard of the action
it would be a step of; section 3 says what each breaks.

### Schema operations

`state` is `ProjectState`; `catalog` is what the engine has: columns with type, NULL,
default, unique, primary key and autoincrement; foreign keys; and the rows, with a value
in each column. A value is NULL, a default, a number from a counter, or one that the
application has stored, which is known by the narrowest type it can be cast to: that is
what the engines' answers to a statement depend on. `Holds` is what a column's NOT NULL,
UNIQUE and PRIMARY KEY ask of the rows, and is asked of every statement that changes
rows or definitions; `SqlSetType` goes through if PostgreSQL makes the cast unasked
(`Casts`), if every value fits (`Castable`), and if what is unique stays so. `Stored`
and `Described` are the two directions between a described column and a stored one. Each
operation has three operators, named after its methods, for instance `AddColumnState`,
`AddColumnForward` and `AddColumnBackward`. `RecreateTable` is SQLite's rebuild: it
takes the columns from the state, copies those that the old table has, and fails when
the copy violates a constraint. An operation on PostgreSQL is the sequence of statements
that `DefaultSQLSchemaEditor` executes, each with what the engine requires of it.

### Migration executor

`ex[p]` is the call process `p` is in: the log it has read (`seen`, `todo`), the project
state it has computed, and the operations left of the running migration. Reading the log
for the plan and reading it again for the initial state are two steps (`ReadToApply`,
`Reread`), because they are two queries. `RunForward` and `RunBackward` execute one
operation, `Record` the statement on the log, `Commit` the end of the transaction.
`Fail` is a statement that fails; `Crash` ends the process. The first statement that
writes takes the write lock of the database; a second writer's statement throws.

### Queries

`select` is the Select object with its clauses, `held` the model objects in the
program's hands, `db` two tables and the links between them. A statement is evaluated by
the operators of the engine: `Joined`, `Selected`, `Arranged`, `Pages`; where SQL leaves
the order open, any is possible. `OneToMany`, `ManyToOne` and `ManyToMany` are the
Selects that the lazy relations run, and `AskRelated` runs one of them at any later time.
`asked` records what the program has asked for, apart from the object that keeps it, and
the properties are stated against it. It follows what the comments of `select.h` promise
of a call, not what its body does: `first()` asks for one row *if no limit was set*
(`select.h:491`), `offset(0)` takes an offset back. The body of `first()` always sets the
limit, that of `offset()` passes 0 over (`select.h:465`), so `select` and `asked` part
when a program calls `first()` on a Select with another limit or `offset(0)` on one with
an offset. These are the two *habits* of this module, `limit_first` and `take_back`.

## 3. The runs

All runs finish; the numbers are distinct states.

| Run | Bounds | States | Shows |
|---|---|---|---|
| `pool` | 3 threads, one of which holds 2 connections at a time, 2 connections, 2 calls each, 2 spurious wake-ups | 96 k | `ExclusiveLease`, `NothingLost`, `NoSleeperLeftBehind`, refinement `LeaseSpec`, `EveryGetReturns`, no deadlock |
| `sessions` | 4 calls, both engines | 2.9 k | `CleanHandover`, `Durable`, `NoResidue`, `BodyInTransaction`, `NeverLost`, `OnlyCommitCommits` |
| `repository` | 2 threads, 3 Repositories, 2 connections, 3 calls, statements that fail, both engines | 599 k | `InOnePlace`, `CleanHandover`, `Durable`, `NoResidue`, `BuilderAlive`, no deadlock |
| `schema` | 2 tables, 3 columns, 5 operations, both engines, 2 rows in a table, 2 values that an application stores | 279 k | `StateIsCatalog`, `BackwardUndoes`, `AcceptedGoesThrough` |
| `executor` | 3 migrations, 6 operations, 4 calls to any target or an absent one, 2 faults, one process, both engines | 7.3 k | `SchemaMatchesLog`, refinement `HistorySpec`, `StaysWithinTarget`, `DoneMeansDone`, `ThrowsOnlyOnFaults` |
| `executor_two` | 2 processes of an old and a new build, 3 calls, 1 fault | 37 k | `SchemaMatchesLog`, `LogIsPrefix`, `WritesOnlyItsLog`, `DoneMeansDone`, `EveryCallEnds` |
| `queries` | 2 persons, 2 cars, 4 steps of building, editing and writing | 422 k | `AnswerIsAsked`, `RelatedAsOfNow`, `NullModelsStayOut`, `DeletesWhatItSelects` |
| `nested_batch` | violation | | `update().commit_batch()` in a body commits the body's transaction |
| `insert_pk` | violation | | a failed insert that asks for its key leaves a transaction open in the pool |
| `schema_mandatory` | violation | | a mandatory column without default is accepted, and refused by the engine |
| `table_names` | violation | | a connection that `get_table_names` took for itself is lost when its query fails |
| `many_to_many` | violation | | a many-to-many relation gives every row of the other table |

**Why the bounds are enough.** *Pool*: two connections and three threads make one thread
sleep while two release, so that a notification can meet a sleeper, nobody, or a thread
between; two calls each let a thread come back while others sleep. With one thread that
nests, two connections are one more than the threads can hold while they wait for
another, which is what `EveryGetReturns` needs; two nesting threads over two connections
wait for one another for ever, and TLC finds the deadlock. *Repository*: one thread with
two Repositories can move one over the other and nest two bodies, a second thread
competes for what the first has given back; three calls are an outer body, one inside
it, and a write in either. *Sessions*: four calls are a failed transaction, the next
user's transaction, and a call of each. *Schema*: two table names allow a rename on top
of another table, three columns a rename on top of another column; five operations are
create, three changes and a fourth that meets their leftovers; two rows can hold a NULL
beside a value, or the same value twice; of the two values one fits an int and one only
a bigint. *Executor*: three migrations have a first, a middle and a last target, which
are all called for, as are none and one that is not there; the third has three
operations in a chain of renames; four calls with two faults allow a fault during the
recovery from a fault. *Two processes*: the disks `{1,2}` and `{1,2,3}` make the log of
one a prefix of the other's. *Queries*: two rows are enough to be in the wrong order, on
the wrong side of a page or duplicated by a join; four steps set a condition, an order,
a limit and an offset.

**Deadlock.** `pool`, `repository` and `queries` check it. In the other runs the program
stops when its calls are used up.

**Fairness.** `pool` assumes weak fairness of each thread's steps inside the
backend and of `create_pool`, which is what an operating system's scheduler gives.
Taking a contended mutex is weakly fair too: it can be overtaken, but only finitely
often, because the calls of the run are bounded, so the assumption decides nothing about
starvation by endless traffic. No fairness of the program: nothing makes a thread call.
A thread that holds a connection and has no other call to make does give it back
(`~ConnectionWrapper`). `executor_two` assumes weak fairness of each process' own steps:
it has been started and goes on until it returns, throws or dies.

**What the cfgs leave out, and why.** *Pool* has no thread that comes before
`create_pool` (`EarlyGet`): it may sleep for good, because `create_pool` does not notify
(`backend.cpp:16-23`). *Sessions* gives each engine the calls that are sound there. An
insert that asks for its key on SQLite and a batch update in a body are the violation
runs `insert_pk` and `nested_batch`; on SQLite the former throws whenever it is made
inside a transaction, because the driver wraps it into BEGIN and COMMIT of its own, so a
program cannot use it there at all. A COMMIT refused with SQLITE_BUSY, a PostgreSQL
batch update whose COMMIT is refused, and a lost server break `CleanHandover` or
`NeverLost`; they are listed as hazards. *Schema* keeps operations off columns that are
foreign keys, leaves `null` set to yes or no in altered columns, makes no column unique
but the key, and gives PostgreSQL's columns one default and types that can be cast into
each other both ways: otherwise a property fails, for the reasons the hazards give. That
`bigint` cannot go back to `int` over a value that is too big is not left out: the
operations are in the run, the values too, and `BackwardUndoes` and
`AcceptedGoesThrough` say it (`ValuesFit`). *Queries* runs with neither habit, `Habits = {}`:
with `limit_first` TLC finds `AnswerIsAsked` and `DeletesWhatItSelects` violated
(`limit(0)`, then `first()`, which gives a row), with `take_back` `AnswerIsAsked`.
*Executor with two processes* only applies: with roll-backs `SchemaMatchesLog` fails,
because nothing is locked between the reading of the log and the roll-back
(`executor.cpp:141`).

*Repository* runs with no habit. Each was tried, and each breaks what it is about:

| Habit | The program | Breaks |
|---|---|---|
| `copy` | copies a Repository that holds a connection; both release it (`repository.h:155`) | `InOnePlace` |
| `assign` | assigns to a Repository that holds one; it is never released | `InOnePlace` |
| `reenter` | opens a transaction on, wraps, frees or moves a Repository in its own transaction (`repository.cpp:18`) | `CleanHandover`, `NoResidue`, `Durable` |
| `go_on` | uses a Transaction after its commit or after a failure (`repository.cpp:24`) | `NoResidue` |
| `late` | asks for a lazy relation when the connection is back in the pool (`select.h:203`) | `Durable` (4 calls, 1 connection) |
| `cold` | starts threads before the query builder has been made (`backend.cpp:48`) | `BuilderAlive` |
| `migrate` | reads the log of migrations while threads run (`recorder.h:104`) | `Durable` (4 calls, 1 connection) |
| `tables` | (not the program: the query of `get_table_names` fails) | `InOnePlace` (run `table_names`) |

## 4. Findings

Each is a run with one property that TLC violates, and quotes the line it contradicts in
`PROJECT.json`.

- `Transaction::update` makes an Update that does not know it is in a transaction: its
  `commit_batch` commits the caller's (`transaction.h:117`, against `update.h:79-80`). In
  the run the batch is the first call of the body, and its own rows are in the database
  when it returns, while the body goes on.
- SQLite's `run_query` with a key leaves its own transaction open when the insert fails
  (`sqlite3/connection.cpp:66`, against `sqlite3/connection.h:45-46`).
- `AddColumn` and `AlterColumn` ask whether `null` has a value instead of which
  (`add_column.h:36`, against the message in lines 39-42).
- `get_table_names` loses the connection it took when its query throws
  (`sqlite3/backend.cpp:59`, `postgresql/backend.cpp:60`, against `backend.h:61-64`).
- `many_to_many` joins without a condition on its model (`select.h:399`, against
  `select.h:330-331`).

Met while modelling, in the model, and not made runs of their own: rolling back while
another process applies leaves a row in the log for a migration whose column is gone
(`executor.cpp:116`, `executor.cpp:141`); an assignment to a Repository drops the
connection it held (`repository.h:152-164`); GROUP BY is written after ORDER BY and
LIMIT, so that a grouped Select with either is refused (`sql_builder.cpp:98`); a NULL
column is read as the initial value of its field, and written back as that
(`model.h:86`); `first()` always sets the limit, though its comment says "if it was not
already set" (`select.h:491`): this is the habit `limit_first`, kept out of the run
`queries`, so that what passes there is what code and comment agree on; PostgreSQL is
given the type name DOUBLE, which it does not have (`schema_editor.cpp:402`); a Delete
without models deletes nothing, though its comment says it deletes everything
(`delete.h:84-87`); the default that closes a column to NULL is never dropped
(`schema_editor.cpp:149`).

Met while reading, and not in the model: the aggregates cannot be instantiated, since
their row handler applies `operator[]` to a const map (`select.h:100-101`); the name of
a constraint is made of the names of columns without that of the table
(`schema_editor.h:249`); SQLite's destructor closes the handle only when there is none
(`sqlite3/connection.cpp:36`).

## 5. The proofs

All with TLAPS, for every value of the constants that the assumptions of the module
allow: any number of threads, connections, Repositories, processes, migrations, calls
and faults. TLC evaluates those assumptions in the runs. What a theorem assumes beyond
them is a definition that stands before the `=>` of its statement, and the constants of
the run that checks the same property satisfy it.

| Theorem | Assumes | States | Checked by |
|---|---|---|---|
| `ConnectionPoolProofs`: `TypeCorrect`, `Exclusive`, `Conservation`, `ImplementsLease` | – | types, `ExclusiveLease`, `NothingLost`, refinement | `pool` |
| `NoLostWakeUp` | nobody comes before `create_pool` | `NoSleeperLeftBehind` | `pool` |
| `TransactionSessionsProofs`: `Typed`, `HandedOverClean`, `DoneStaysDone`, `UndoneStaysUndone`, `BodiesInTransactions`, `ConnectionComesBack`, `CommitAloneCommits` | `Sound` | types, `CleanHandover`, `Durable`, `NoResidue`, `BodyInTransaction`, `NeverLost`, `OnlyCommitCommits` | `sessions` |
| `RepositoryUseProofs`: `ProgramsTyped` | – | types | `repository` |
| `BuilderStaysAlive` | no habit `cold` | `BuilderAlive` | `repository` |
| `OwnersDisjoint` | no habit `copy`, `assign` or `tables` | `InOnePlace` | `repository` |
| `HandedOverClean`, `AckedIsDurable`, `UndoneLeavesNothing` | `Disciplined` | `CleanHandover`, `Durable`, `NoResidue` | `repository` |
| `MigrationExecutorProofs`: `TypeCorrect`, `TargetsAreKept` | – | types, `StaysWithinTarget` | `executor` |
| `LogStaysInOrder`, `EachToItsLog`, `ReturnMeansReached` | `InStep` | `LogIsPrefix`, `WritesOnlyItsLog`, `DoneMeansDone` | `executor_two`, `executor` |
| `LogFollowsHistory` | `InStep` | the steps of the log are those of `MigrationHistory` | (part of `HistorySpec`) |
| `LogTellsTheSchema`, `ImplementsHistory` | `InStep`, `Lawful` | `SchemaMatchesLog`, refinement (`HistorySpec`) | `executor`, `executor_two` |
| `QueriesProofs`: `ModelsAreTyped`, `RelationsAreFresh`, `NullModelsAreRefused` | – | types, `RelatedAsOfNow`, `NullModelsStayOut` | `queries` |
| `QueriesAnswer`, `DeletesThePage` | no habits | `AnswerIsAsked`, `DeletesWhatItSelects` | `queries` |
| `SchemaOperationsProofs`: `ForwardIsExact`, `BackwardIsExact` | `Exact`, `Reversible` | what a forward and a backward that go through leave | (lemmas of the two modules below) |
| `SchemaLawsProofs`: `StateTellsTheCatalog` | `Traceable` | `StateIsCatalog` | `schema` |
| `UndoneByBackward`, `AcceptedIsTaken` | `Ordinary` | `BackwardUndoes`, `AcceptedGoesThrough` | `schema` |

**Safety of the pool** (`ConnectionPoolProofs`). `TypeOK`, `ExclusiveLease` and
`NothingLost` are not inductive. Between `front` and `pop` a thread has a copy of the
head in a local variable: that the copy still is the head when `pop` runs needs
`FrontSeen`, which needs `MutexOwned` (a thread at a critical statement owns the mutex).
Between `CallRelease` and `Push` the connection to be pushed must still be the thread's:
`ReleasesOwn`. That `create_pool` does not put a second copy in is `NothingYet`. `IInv`
is the conjunction. There is one lemma per action or group of actions, `NextKeepsIInv`
puts them together, and the theorems follow from `Invariance`.

**Refinement** (`ImplementsLease`). With `free <- ToSet(pool)` and `leased <- held`,
`CreatePool` is `Stock`, `Pop` is `Lease`, `Push` is `Return`, and every other step
stutters. The lemmas `TailOfDistinct` and `AppendIsUnion` say what the two statements on
the queue do to the set of its elements; the first needs `ExclusiveLease`.

**No lost wake-up** (`NoLostWakeUp`). The threads are finite in number. While
anyone sleeps, there are at least as many threads on their way to take a connection or
to wake a taker as there are connections in the queue. A push puts the thread on its way
to notify; a notify trades the notifier for the one it wakes; a pop takes one of each;
nobody goes to sleep but on an empty queue. `JoiningCounts` and `LeavingCounts` do the
arithmetic.

**Induction.** The library's induction theorems take an operator, which
the provers cannot instantiate. `InductionOnNat` speaks of a set of numbers instead: it
follows from the well-founded minimum of a set, which the library has without operators.
A proof applies it to `{n \in Nat : P(n)}`; `DriverConnectionProofs` and
`SchemaOperationsProofs` each have it. That is how scripts of any length and the
sorting of any finite set are dealt with.

**The drivers** (`DriverConnectionProofs`). A session is *clean* (no flag, no
transaction) or *inside a transaction* (flag and engine agree). From these, for each
driver, each method, a script of any length and every fault but the loss of the server,
one lemma says what the outcomes are: `BeginOutcome`, `QueryInTransaction`,
`ScriptAlone`, `LastRollbacks` and so on. The last, about the pair of rollbacks, is the
heart: a body that throws after PostgreSQL has refused its COMMIT leaves the flag set
over an engine with no transaction, and the pair must repair that, too. `ExecRead` was
wrong in the model until a lemma about it could not be proved: it gave back the work of
a transaction that SQLite ends when the disk is full.

**One connection, many users** (`TransactionSessionsProofs`). `IInv` says which state the
session is in at each point of a user's stay (`SessionFits`): in a body it is inside a
transaction, *and the work of the engine is what the program believes pending*. This
second half is what `Durable` and `NoResidue` need to be inductive, with `PendingIsOpen`
(what is pending is neither undone nor in the database) and `NothingFromLater` (every
write is of an earlier call, so a new call's writes are new). `Sound` excludes what the
violation runs and the hazards show to be unsound: SQLite's insert that asks for its
key, batches inside bodies, a SQLite busy at COMMIT, a lost server, and PostgreSQL's
batches where a COMMIT may be refused.

**Where connections are** (`RepositoryUseProofs`). `Fits` is the types with the shape of
calls and bodies, and needs no assumption on programs: `ProgramsTyped` holds with all
habits. `InOnePlace` is proved over one function, `holding`, from those who can hold a
connection (Repositories, calls of the backend) to what they hold. Every step of the
program puts one back, takes one, passes one on, or none of these, and the three moves
keep the connections apart and lose none (`MovedKeepsPlaced`). `OnLive` (who holds a
connection has not been destroyed) is what the destructor needs. The theorem excludes
the three habits that break `InOnePlace`, and leaves the five others in.

**What programs find in their sessions** (`Disciplined`). Placement alone
does not keep two threads off one session, because a Transaction has a raw pointer. `Own`
ties it down: an open transaction is on the connection its Repository still has, no body
further in is on that Repository, and a call past its first stage uses the connection of
a Repository of its own thread. Then each session is in the state its body says
(`SessionsFit`), a write is pending on one connection at most (`WritesApart`), and each
call has a write of its own (`OpsApart`). `Placement` and `Bookkeeping` are inductive
together. `Disciplined` excludes all habits but `cold`, a lost server and a SQLite that
is busy at COMMIT.

**The executor** (`MigrationExecutorProofs`). Two layers. `Inv` needs no assumption:
between its first statement and its commit a transaction has the write lock, and the log
it works on is the log there is (`Isolated`); what is left of a plan is on the right side
of the target (`OnTarget`). That gives `StaysWithinTarget` for any builds in each other's
way. The second layer is for programs that are `InStep`: a build adds migrations whose
names come after all earlier ones, and when there are several processes none rolls back.
`InOrder` says that the log is a beginning of the order of all migrations, and where in
that order the plan of each process begins: behind the log, or at a place the log has
overtaken, because another process has been faster (`Queued`). It stays true without a
lock between reading and writing because a process that has been overtaken is stopped by
the unique name (`RecordInOrder`), so that whoever commits is at the end of the log.
`Complete` says that what the target asks for is in the log or in the plan; hence
`DoneMeansDone`. `SortingExists` shows that the constructor's sort, a `CHOOSE`, exists.

**Queries** (`QueriesProofs`). The inductive invariant is `Typed`: the types of tables,
models and clauses, and `Tracks`, which says that the Select object is in step with what
some calls would ask for, and in a program without the two habits with what the calls on
it asked for, call by call (`ConditionFollows` to `RelateFollows`). Then
nothing of the history is left but one SELECT on one database, and `PageIsAsked` is about
that: whichever list the engine makes of equal rows, the page cut from it is one the
calls ask for. It is a proof by counting. The list has each wanted row as often as it has
a match (`ArrangedIs`), and so is as long as the set `Copies`, in which the copies of a
row are numbered (`SameParts` pairs two sets part by part); what the order would put
before a row of the page lies in the stretch that OFFSET leaves out (`LeftOutBefore`).
The relations are two such queries (`RelationIs`), and `delete_()` a third. For writes,
`Written` says that what is new in a table is that of a real model in the program's
hands. The proof found a mistake in the model: a `CASE` in `Value` had two guards that
can hold together, for a condition on the key of the joined table, where TLA+ leaves the
choice open and TLC takes the first.

**The schema operations** (`SchemaOperationsProofs`). State and catalog are functions of
tables; what the engine has, `Schema(catalog)`, is compared with what the state
describes, `Described(state)`. `Mirrors` says the same table by table and is what the
lemmas speak of; `IsState` and `IsCatalog` are the types of the two, down to the records
of the columns. There is a lemma per operation and direction, and two for SQLite's
rebuild and for PostgreSQL's sequence of statements. Not every operation is exact:
`Exact` asks that a dropped or renamed column is not in a foreign key and, where the
engine alters columns in place, that the change is one the default editor carries out
(`ExactAlter`). `Reversible` asks the same of the way back, and that a table is neither
created nor renamed over one that is there. These are the hazards at
`drop_column.h:36` and `schema_editor.cpp:149`, turned into the weakest hypotheses under
which the proofs go through.

**Any sequence of operations** (`SchemaLawsProofs`). A run has a set of operations, and
the theorems ask something of each of them alone, not of the states they meet:
`Traceable` (no foreign key on a column that another operation drops, adds or renames;
no change of definition that PostgreSQL's editor leaves out) and `Ordinary` (moreover,
every table keeps a column; a column that moves has no key, is not unique, says whether
it may be NULL and has a default if not; PostgreSQL is asked only for types it has and
for casts it makes unasked, both ways). `TracedInv` carries to every reachable state
that the foreign keys and the definitions of the columns are still among those the
operations name. `OrdinaryInv` adds what the undo of the last operation needs
(`LastFits`), which the application's rows must not disturb, and that every value fits
its column (`RowsFit`). What no such condition on operations gives is that a value still
fits a type that is taken back, which depends on what the application has stored:
`BackwardUndoes` and `AcceptedGoesThrough` have it as a hypothesis about the rows of the
moment, `ValuesFit`, for the one statement of PostgreSQL that casts. SQLite, which
rebuilds the table and casts nothing, needs none. `OperationsAssumption` in
`MCSchemaLaws` lets TLC evaluate `Ordinary` for the operations of the run `schema`.

**The schema the log tells of** (`LogTellsTheSchema`, `ImplementsHistory`). For programs
that are `InStep` and `Lawful`: where `update_state` takes an operation in the order of
all migrations, the operation is exact and reversible there. `SchemaInv` ties the schema
to the log at every point of a migration: outside a transaction the engine's schema is
that of the log; in a transaction that goes forward it is that of the log and of the
first operations of the migration, in one that goes back that of the log without the
last ones; the state the executor has computed is that of the plan's place in the order.
A plan that has been overtaken by another process computes on a stale state and may
leave anything in its transaction (only the lock is certain, `Isolated`), but its insert
into the log fails, and the rollback restores the schema: what `SchemaInv` says of a
plan it says only while the next migration of the plan is `Due`. Each step then maps to
a step of `MigrationHistory` or to a stutter. `ProgramAssumption` in
`MCMigrationExecutor` lets TLC evaluate both hypotheses for the programs of the runs.
`MigrateAll` and `UpdateAll` are recursive functions because the provers cannot see
through a fold.

**Only model-checked.**

- Liveness (`EveryGetReturns`, `EveryCallEnds`): the prover reasons neither about
  fairness nor about ENABLED.
- `ThrowsOnlyOnFaults`: that no call throws without a fault needs operations that never
  fail in a whole history of applying and rolling back, not only from the state they
  were written for.
- That several processes which also roll back keep the log in order is false, see the
  hazard at `executor.cpp:141`.

No module declares a RECURSIVE operator.

## 6. What is abstracted, what is left out

- Text: SQL, quoting, formatting of values, log messages. A condition is the set of
  values of a column that it lets through.
- CHECK clauses, lengths, names of constraints and deferred statements of the schema
  editors.
- Of a row of the schema modules: a value is known by its type and by being the same as
  another. A default fits the column it is given for; a cast that rounds makes two
  values equal, the worst it can do; SQLite takes any value in any column (type
  affinity); foreign keys, as constraints on rows, and the lengths of a varchar are not
  in it.
- The aggregates, which cannot be instantiated; conditions that compare two columns or
  join two columns by OR; grouping by anything but the key. The engine of `Queries` is
  SQLite where the two differ: PostgreSQL refuses `IN ()`.
- What a foreign key refers to: a foreign key is the column that has it.
- PostgreSQL's row and table locks, on which other writers wait: runs of the executor
  with PostgreSQL have one process.
- `RepositoryUse` has one kind of write and one of read; the kinds of query, and the
  faults other than a failing statement, are in `TransactionSessions`.
- Not modelled: the lazily made schema editor of the backend (made as the query builder
  is), `flush_records`, which nothing calls, column metadata, the construction of
  backends from credentials and YAML, opening and closing connections. `PROJECT.json`
  says so for each component.

## 7. Plan

Done, in this order, the most important behaviour first: the models of pool,
transactions, schema operations, executor, queries, Repository objects; proofs about the
pool, the drivers, transactions, Repository objects, the executor, the operations, the
schema and the queries. What would come next:

1. `SchemaOperations`: what a foreign key refers to, so that a renamed table and the
   next rebuild meet (`rename_table.h:50`); names of constraints and CHECK clauses.
2. An executor that uses the same operations in several calls (`rename_table.h:75`).
