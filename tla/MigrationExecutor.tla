-------------------------- MODULE MigrationExecutor --------------------------
(***************************************************************************)
(* MigrationExecutor, MigrationRecorder and Migration (src/db): processes  *)
(* that bring one database to the schema of the migrations they were built *)
(* with, or take it back.  An executor reads the log, decides which        *)
(* migrations to run, and runs each in a transaction of its own: the       *)
(* statements of its operations, then the insert into or the delete from   *)
(* the log.  Nothing is locked between reading the log and writing to it.  *)
(*                                                                         *)
(* A migration's name is a number: the executor's constructor sorts by     *)
(* name, and sorting is all it does with names.  A transaction works on a  *)
(* copy, `work', of the schema and the log; the first statement that       *)
(* writes takes the write lock of the database, and while it is taken      *)
(* another's write throws (SQLITE_BUSY; no busy handler is set).           *)
(* PostgreSQL locks tables and makes others wait instead: that is not      *)
(* modelled, so its runs have one process.  The tables hold no rows.       *)
(***************************************************************************)
EXTENDS SchemaOperations

CONSTANTS
    Engines,       \* the engines to choose from
    Processes,     \* the processes that run an executor
    Body,          \* Body[m]: the operations of migration m
    Disks,         \* the sets of migrations a process may be built with
    Calls,         \* the calls of apply and rollback, [direction, to]
    MaxCalls,      \* bound: calls in all
    MaxFaults,     \* bound: failed statements and crashes in all
    Nobody         \* the owner of the free write lock

Everything == 0    \* the empty target name

ASSUME ExecutorAssumption ==
    /\ Engines \subseteq {"sqlite", "postgresql"}
    /\ "postgresql" \in Engines => Cardinality(Processes) = 1
    /\ DOMAIN Body \subseteq Nat \ {Everything} /\ IsFiniteSet(DOMAIN Body)
    /\ Disks \subseteq SUBSET DOMAIN Body
    /\ Calls \subseteq [direction : {"apply", "rollback"}, to : Nat]
    /\ {MaxCalls, MaxFaults} \subseteq Nat
    /\ Nobody \notin Processes

VARIABLES
    catalog,       \* the schema the engine has
    log,           \* the rows of xalwart_migrations, in order of insertion
    meta,          \* does xalwart_migrations exist?
    writer,        \* whose transaction has the write lock
    work,          \* the writer's view: [catalog, log]
    ex,            \* ex[p]: the executor of process p, see Idle
    result,        \* result[p]: how p's last call ended
    calls, faults  \* calls and faults so far

database == <<dbms, catalog, log, meta>>
transaction == <<writer, work>>
counters == <<calls, faults>>
vars == <<database, transaction, ex, result, counters>>

(* An executor: where it stands, its sorted migrations, the call, the      *)
(* migrations it will run, the log it has read, the project state, and the *)
(* operations left of the migration that runs.                             *)
Idle ==
    [pc |-> "idle", names |-> <<>>, call |-> [direction |-> "apply", to |-> Everything],
     todo |-> <<>>, seen |-> <<>>, state |-> NoSchema, ops |-> <<>>]

NoWork == [catalog |-> NoSchema, log |-> <<>>]

SchemaOf(names) == MigrateAll(Body, names)

Init ==
    /\ dbms \in Engines
    /\ catalog = NoSchema
    /\ log = <<>>
    /\ meta = FALSE
    /\ writer = Nobody
    /\ work = NoWork
    /\ ex = [p \in Processes |-> Idle]
    /\ result = [p \in Processes |-> "none"]
    /\ calls = 0 /\ faults = 0

(* The constructor's sort. *)
Sorted(names) ==
    CHOOSE s \in [1 .. Cardinality(names) -> names] :
      \A i, j \in DOMAIN s : i < j => s[i] < s[j]

(* Where a migration stands in a sequence of them, and 0 if it does not. *)
Place(m, names) == IF Contains(names, m) THEN CHOOSE i \in DOMAIN names : names[i] = m ELSE 0

Goto(p, pc) == ex' = [ex EXCEPT ![p].pc = pc] /\ UNCHANGED result

(* The call ends; a transaction that is still open is rolled back. *)
End(p, how) ==
    /\ ex' = [ex EXCEPT ![p] = Idle]
    /\ result' = [result EXCEPT ![p] = how]
    /\ writer' = IF writer = p THEN Nobody ELSE writer
    /\ work' = IF writer = p THEN NoWork ELSE work

(* A process starts, makes an executor and calls apply or rollback. *)
Call(p, call, disk) ==
    /\ ex[p].pc = "idle"
    /\ calls < MaxCalls
    /\ calls' = calls + 1
    /\ ex' = [ex EXCEPT ![p].pc = "ensure", ![p].names = Sorted(disk), ![p].call = call]
    /\ UNCHANGED <<database, transaction, result, faults>>

(* ensure_schema looks for the table, then creates it.  It is called again *)
(* before each read and write of the log, and then always finds it.        *)
EnsureSchema(p) ==
    /\ ex[p].pc = "ensure"
    /\ Goto(p, IF meta THEN "read" ELSE "create")
    /\ UNCHANGED <<database, transaction, counters>>

(* Slip: no answer to a table that is there by now. *)
CreateMetaWaits(p) ==
    /\ ex[p].pc = "create"
    /\ ~meta /\ writer = Nobody
    /\ meta' = TRUE /\ Goto(p, "read")
    /\ UNCHANGED <<dbms, catalog, log, transaction, counters>>

CreateMeta(p) ==
    /\ ex[p].pc = "create"
    /\ IF meta \/ writer # Nobody
         THEN End(p, "thrown") /\ UNCHANGED database
         ELSE meta' = TRUE /\ Goto(p, "read") /\ UNCHANGED <<dbms, catalog, log, transaction>>
    /\ UNCHANGED counters

Agree(names, rows, n) == \A i \in 1 .. n : names[i] = rows[i]

(* The migrations not in the log, up to and with the target if it is there. *)
ToApply(names, rows, to) ==
    SubSeq(names, Len(rows) + 1, IF Contains(names, to) THEN Place(to, names) ELSE Len(names))

(* Slip: the target itself is left out. *)
ReadToApplyStopsShort(p) ==
    LET names == ex[p].names
        to == ex[p].call.to
    IN  /\ ex[p].pc = "read" /\ ex[p].call.direction = "apply"
        /\ Len(log) <= Len(names)
        /\ ex' = [ex EXCEPT ![p].pc = "reread",
                            ![p].todo = SelectSeq(ToApply(names, log, to), LAMBDA m : m # to)]
        /\ UNCHANGED <<database, transaction, result, counters>>

(* apply reads the log.  As many rows as migrations: nothing to apply, and *)
(* no name is looked at.  Otherwise the names are compared one by one, up  *)
(* to the target.                                                          *)
ReadToApply(p) ==
    LET names == ex[p].names
        to == ex[p].call.to
        found == \E i \in 1 .. Len(log) : Agree(names, log, i) /\ log[i] = to
    IN  /\ ex[p].pc = "read" /\ ex[p].call.direction = "apply"
        /\ \/ /\ Len(log) > Len(names)
              /\ End(p, "thrown")
           \/ /\ Len(log) = Len(names)
              /\ End(p, "done")
           \/ /\ Len(log) < Len(names) /\ found
              /\ End(p, "done")
           \/ /\ Len(log) < Len(names) /\ ~found /\ ~Agree(names, log, Len(log))
              /\ End(p, "thrown")
           \/ /\ Len(log) < Len(names) /\ ~found /\ Agree(names, log, Len(log))
              /\ ex' = [ex EXCEPT ![p].pc = "reread", ![p].todo = ToApply(names, log, to)]
              /\ UNCHANGED <<transaction, result>>
        /\ UNCHANGED <<database, counters>>

(* create_initial_state reads the log once more, for the project state. *)
Reread(p) ==
    LET names == ex[p].names
        state == SchemaOf(log)
    IN  /\ ex[p].pc = "reread"
        /\ IF Len(log) <= Len(names) /\ Agree(names, log, Len(log)) /\ state.ok
             THEN /\ ex' = [ex EXCEPT ![p].pc = "next", ![p].state = state.v]
                  /\ UNCHANGED <<transaction, result>>
             ELSE End(p, "thrown")
        /\ UNCHANGED <<database, counters>>

(* Slip: the target goes too. *)
ToRollBackWithTarget(names, rows, to) ==
    Reverse(SelectSeq(SubSeq(names, 1, Len(rows)), LAMBDA m : m >= to))

(* The migrations in the log that come after the target, last one first. *)
ToRollBack(names, rows, to) ==
    Reverse(SubSeq(names, Place(to, names) + 1, Len(rows)))

(* Slip: oldest first. *)
ReadToRollBackForwards(p) ==
    /\ ex[p].pc = "read" /\ ex[p].call.direction = "rollback"
    /\ ex' = [ex EXCEPT ![p].pc = "next", ![p].seen = log,
                        ![p].todo = Reverse(ToRollBack(ex[p].names, log, ex[p].call.to))]
    /\ UNCHANGED <<database, transaction, result, counters>>

ReadToRollBack(p) ==
    LET names == ex[p].names
        to == ex[p].call.to
    IN  /\ ex[p].pc = "read" /\ ex[p].call.direction = "rollback"
        /\ \/ /\ Len(log) > Len(names)
              /\ End(p, "thrown")
           \/ /\ Len(log) <= Len(names)
              /\ to # Everything /\ ~Contains(log, to)
              /\ End(p, "done")
           \/ /\ Len(log) <= Len(names)
              /\ to = Everything \/ Contains(log, to)
              /\ IF Agree(names, log, Len(log)) /\ SchemaOf(log).ok
                   THEN /\ ex' = [ex EXCEPT ![p].pc = "next", ![p].seen = log,
                                            ![p].todo = ToRollBack(names, log, to)]
                        /\ UNCHANGED <<transaction, result>>
                   ELSE End(p, "thrown")
        /\ UNCHANGED <<database, counters>>
-----------------------------------------------------------------------------
(* Slip: first operation first. *)
BackwardStepsForwards(m, seen) ==
    LET start == SchemaOf(SubSeq(seen, 1, Place(m, seen) - 1)).v
        before(i) == UpdateAll(SubSeq(Body[m], 1, i - 1), start).v
    IN  [i \in DOMAIN Body[m] |->
           [op |-> Body[m][i], from |-> before(i + 1), to |-> before(i)]]

(* What backward is given: each operation of m with the project states     *)
(* after and before it, last operation first.                              *)
BackwardSteps(m, seen) ==
    LET start == SchemaOf(SubSeq(seen, 1, Place(m, seen) - 1)).v
        before(i) == UpdateAll(SubSeq(Body[m], 1, i - 1), start).v
    IN  Reverse([i \in DOMAIN Body[m] |->
                   [op |-> Body[m][i], from |-> before(i + 1), to |-> before(i)]])

(* The loop over the migrations, and begin_transaction of the next one. *)
Begin(p) ==
    LET m == Head(ex[p].todo)
    IN  /\ ex[p].pc = "next"
        /\ IF ex[p].todo = <<>>
             THEN End(p, "done")
             ELSE /\ ex' = [ex EXCEPT ![p].pc = "ops",
                                      ![p].ops = IF ex[p].call.direction = "apply"
                                                   THEN Body[m]
                                                   ELSE BackwardSteps(m, ex[p].seen)]
                  /\ UNCHANGED <<transaction, result>>
        /\ UNCHANGED <<database, counters>>

View(p) == IF writer = p THEN work ELSE [catalog |-> catalog, log |-> log]

(* A statement that writes, inside the transaction of p. *)
Write(p, v) == writer' = p /\ work' = v

(* Slip: no lock. *)
CanWriteAlways(p) == p \in Processes
CanWrite(p) == writer \in {Nobody, p}

(* One operation of the loop of apply_unsafe. *)
RunForward(p) ==
    LET op == Head(ex[p].ops)
        updated == UpdateState(op, ex[p].state)
        run == Forward(op, ex[p].state, updated.v, View(p).catalog)
    IN  /\ ex[p].pc = "ops" /\ ex[p].call.direction = "apply" /\ ex[p].ops # <<>>
        /\ IF CanWrite(p) /\ updated.ok /\ run.ok
             THEN /\ Write(p, [View(p) EXCEPT !.catalog = run.v])
                  /\ ex' = [ex EXCEPT ![p].state = updated.v, ![p].ops = Tail(@)]
                  /\ UNCHANGED result
             ELSE End(p, "thrown")
        /\ UNCHANGED <<database, counters>>

(* One operation of the loop of rollback_unsafe. *)
RunBackward(p) ==
    LET step == Head(ex[p].ops)
        run == Backward(step.op, step.from, step.to, View(p).catalog)
    IN  /\ ex[p].pc = "ops" /\ ex[p].call.direction = "rollback" /\ ex[p].ops # <<>>
        /\ IF CanWrite(p) /\ run.ok
             THEN /\ Write(p, [View(p) EXCEPT !.catalog = run.v])
                  /\ ex' = [ex EXCEPT ![p].ops = Tail(@)]
                  /\ UNCHANGED result
             ELSE End(p, "thrown")
        /\ UNCHANGED <<database, counters>>

(* Slip: the log is written first and the transaction is over. *)
RecordAtOnce(p) ==
    LET m == Head(ex[p].todo)
    IN  /\ ex[p].pc = "ops" /\ ex[p].ops = <<>>
        /\ CanWrite(p)
        /\ log' = IF ex[p].call.direction = "apply"
                    THEN Append(log, m) ELSE SelectSeq(log, LAMBDA n : n # m)
        /\ Goto(p, "commit")
        /\ UNCHANGED <<dbms, catalog, meta, transaction, counters>>

(* Slip: the name has no unique constraint. *)
RecordTwice(p) ==
    LET m == Head(ex[p].todo)
        rows == View(p).log
    IN  /\ ex[p].pc = "ops" /\ ex[p].ops = <<>>
        /\ IF CanWrite(p)
             THEN /\ Write(p, [View(p) EXCEPT !.log =
                                 IF ex[p].call.direction = "apply"
                                   THEN Append(rows, m) ELSE SelectSeq(rows, LAMBDA n : n # m)])
                  /\ Goto(p, "commit")
             ELSE End(p, "thrown")
        /\ UNCHANGED <<database, counters>>

(* The row of m goes, if there is one: a name is in one row at most. *)
Delete(rows, m) == RemoveAt(rows, Place(m, rows))

(* success_callback: record_applied inserts the name, which is unique;     *)
(* record_rolled_back deletes it.                                          *)
Record(p) ==
    LET m == Head(ex[p].todo)
        rows == View(p).log
        applying == ex[p].call.direction = "apply"
    IN  /\ ex[p].pc = "ops" /\ ex[p].ops = <<>>
        /\ IF CanWrite(p) /\ (applying => ~Contains(rows, m))
             THEN /\ Write(p, [View(p) EXCEPT !.log =
                                 IF applying THEN Append(rows, m) ELSE Delete(rows, m)])
                  /\ Goto(p, "commit")
             ELSE End(p, "thrown")
        /\ UNCHANGED <<database, counters>>

(* Slip: the lock stays. *)
CommitKeepsLock(p) ==
    /\ ex[p].pc = "commit"
    /\ catalog' = work.catalog
    /\ log' = work.log
    /\ ex' = [ex EXCEPT ![p].pc = "next", ![p].todo = Tail(@)]
    /\ UNCHANGED <<dbms, meta, transaction, result, counters>>

(* end_transaction. *)
Commit(p) ==
    /\ ex[p].pc = "commit"
    /\ catalog' = work.catalog
    /\ log' = work.log
    /\ writer' = Nobody
    /\ work' = NoWork
    /\ ex' = [ex EXCEPT ![p].pc = "next", ![p].todo = Tail(@)]
    /\ UNCHANGED <<dbms, meta, result, counters>>

(* Slip: nothing is rolled back when a statement fails. *)
FailKeepsWork(p) ==
    /\ ex[p].pc \notin {"idle", "next"}
    /\ faults < MaxFaults
    /\ faults' = faults + 1
    /\ catalog' = View(p).catalog
    /\ log' = View(p).log
    /\ End(p, "thrown")
    /\ UNCHANGED <<dbms, meta, calls>>

(* A statement fails: the handler of Migration::apply or ::rollback rolls  *)
(* back and rethrows through the executor.                                 *)
Fail(p) ==
    /\ ex[p].pc \notin {"idle", "next"}
    /\ faults < MaxFaults
    /\ faults' = faults + 1
    /\ End(p, "thrown")
    /\ UNCHANGED <<database, calls>>

(* The process dies; the engine rolls back. *)
Crash(p) ==
    /\ ex[p].pc # "idle"
    /\ faults < MaxFaults
    /\ faults' = faults + 1
    /\ End(p, "crashed")
    /\ UNCHANGED <<database, calls>>

Step(p) ==
    \/ EnsureSchema(p) \/ CreateMeta(p) \/ ReadToApply(p) \/ Reread(p) \/ ReadToRollBack(p)
    \/ Begin(p) \/ RunForward(p) \/ RunBackward(p) \/ Record(p) \/ Commit(p)

Next ==
    \E p \in Processes :
        \/ \E call \in Calls, disk \in Disks : Call(p, call, disk)
        \/ Step(p) \/ Fail(p) \/ Crash(p)

Spec == Init /\ [][Next]_vars

(* A process that runs goes on. *)
FairSpec == Spec /\ \A p \in Processes : WF_vars(Step(p))
-----------------------------------------------------------------------------
PCs == {"idle", "ensure", "create", "read", "reread", "next", "ops", "commit"}
Names == DOMAIN Body

TypeOK ==
    /\ log \in Seq(Names) /\ work.log \in Seq(Names)
    /\ meta \in BOOLEAN
    /\ writer \in Processes \cup {Nobody}
    /\ writer # Nobody => ex[writer].pc \in {"ops", "commit"}
    /\ \A p \in Processes :
         /\ ex[p].pc \in PCs
         /\ {ex[p].names, ex[p].todo, ex[p].seen} \subseteq Seq(Names)
         /\ ex[p].call.to \in Nat
    /\ result \in [Processes -> {"none", "done", "thrown", "crashed"}]
    /\ calls \in 0 .. MaxCalls /\ faults \in 0 .. MaxFaults

(* Having a row in the log means the migration is applied, and only then:  *)
(* the schema of the engine is the one the logged migrations build, though *)
(* every migration is many statements and any of them may fail, or the     *)
(* process die before it (recorder.h:6-8).                                 *)
SchemaMatchesLog ==
    LET state == SchemaOf(log)
    IN  state.ok /\ Schema(catalog) = Described(state.v)

(* Processes of an old build and of one that adds migrations to it, all    *)
(* applying at the same time, leave no gap and no duplicate in the log     *)
(* (executor.cpp:55-81).                                                   *)
LogIsPrefix == IsPrefix(log, Sorted(UNION Disks))

(* Apply records nothing past its target, and rollback removes neither its *)
(* target nor anything before it.                                          *)
StaysWithinTarget ==
    [][ \A p \in Processes :
          LET to == ex[p].call.to
          IN  log' # log /\ ex'[p] # ex[p] =>
                IF ex[p].call.direction = "apply"
                  THEN to \in ToSet(ex[p].names) => \A m \in ToSet(log') \ ToSet(log) : m <= to
                  ELSE \A m \in ToSet(log) \ ToSet(log') : m > to ]_vars

(* What a call has achieved when it returns normally: the target and all   *)
(* before it are applied, or all after it are rolled back.                 *)
Achieved(names, call) ==
    IF call.direction = "apply"
      THEN \A m \in ToSet(names) :
             call.to = Everything \/ m <= call.to => m \in ToSet(log')
      ELSE \A m \in ToSet(log') :
             call.to = Everything \/ call.to \in ToSet(log') => m <= call.to

DoneMeansDone ==
    [][ \A p \in Processes :
          ex[p].pc # "idle" /\ ex'[p].pc = "idle" /\ result'[p] = "done" =>
            Achieved(ex[p].names, ex[p].call) ]_vars

(* A call throws only when a statement failed or another process was in    *)
(* its way: whatever calls have failed before it, a retry goes through.    *)
ThrowsOnlyOnFaults == [][ (\E p \in Processes : result'[p] = "thrown" /\ ex[p].pc # "idle"
                              /\ ex'[p].pc = "idle") => faults' > faults ]_vars

(* Every call ends. *)
EveryCallEnds == \A p \in Processes : ex[p].pc # "idle" ~> ex[p].pc = "idle"

(* Programs built with different migrations take turns: each writes to the *)
(* log only when it finds its own migrations in it.                        *)
WritesOnlyItsLog ==
    [][ \A p \in Processes :
          log' # log /\ ex'[p] # ex[p] =>
            IsPrefix(log, ex[p].names) /\ IsPrefix(log', ex[p].names) ]_vars

(* The database goes from one state of the history to the next, for        *)
(* processes that are all built with the same migrations.                  *)
History ==
    INSTANCE MigrationHistory WITH Order <- Sorted(UNION Disks), schema <- Schema(catalog)

HistorySpec == History!Spec
-----------------------------------------------------------------------------
(* The programs the theorems are about.                                    *)
Order == Sorted(UNION Disks)

(* A build adds migrations whose names come after all earlier ones, and    *)
(* when several processes work on one database, none of them rolls back.   *)
InStep ==
    /\ \A disk \in Disks : \A m \in disk, n \in UNION Disks : n < m => n \in disk
    /\ (\A call \in Calls : call.direction = "apply") \/ (\A p, q \in Processes : p = q)

(* The project state after the first k migrations of all, and after the    *)
(* first i operations of the next.                                         *)
StateAt(k) == SchemaOf(SubSeq(Order, 1, k))
Coming(k) == Body[Order[k + 1]]
After(k, i) == UpdateAll(SubSeq(Coming(k), 1, i), StateAt(k).v)

(* Where update_state takes it, every operation does and undoes to the     *)
(* engine's schema what it does to the project state: see Exact and        *)
(* Reversible for what the two engines ask.                                *)
Lawful ==
    /\ \A m \in DOMAIN Body : Body[m] \in Seq(ToSet(Body[m]))
    /\ \A k \in 0 .. Len(Order) - 1 : \A i \in 1 .. Len(Coming(k)) :
         LET op == Coming(k)[i]
             before == After(k, i - 1)
             rebuilds == "postgresql" \notin Engines
         IN  StateAt(k).ok /\ before.ok /\ UpdateState(op, before.v).ok =>
               Exact(op, before.v, rebuilds) /\ Reversible(op, before.v, rebuilds)
=============================================================================
