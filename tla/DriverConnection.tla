-------------------------- MODULE DriverConnection --------------------------
(***************************************************************************)
(* One database connection: the SQLite3Connection and PostgreSQLConnection *)
(* objects of the ORM, and the session of the engine behind them.  The ORM *)
(* keeps a flag `in_transaction'; the engine has its own idea of whether a *)
(* transaction is open.  The two drivers move the flag at different        *)
(* moments, and the two engines react differently to an error: what this   *)
(* module is about is when the flag and the engine part company.           *)
(*                                                                         *)
(* A session is a record [dbms, flag, engine, work, db]: the kind of the   *)
(* connection, the writes of the open transaction and those committed.  A  *)
(* driver method is the set of its outcomes [ok, s]; ~ok is an exception.  *)
(***************************************************************************)
EXTENDS Integers, SequencesExt

CONSTANTS
    Engines,       \* the engines: "sqlite", "postgresql"
    Faults         \* Faults[d]: what engine d may do to us, see below

ASSUME DriverAssumption ==
    /\ Engines \subseteq {"sqlite", "postgresql"}
    /\ Faults \in [Engines -> SUBSET {"statement", "full", "commit", "lost"}]

Sqlite(s) == s.dbms = "sqlite"

Done(s) == [ok |-> TRUE, s |-> s]
Failed(s) == [ok |-> FALSE, s |-> s]

(* F applied to every successful outcome; a failed one is passed through.  *)
AndThen(outs, F(_)) == UNION {IF o.ok THEN F(o.s) ELSE {o} : o \in outs}

Fresh(d) == [dbms |-> d, flag |-> FALSE, engine |-> "auto", work |-> {}, db |-> {}]
-----------------------------------------------------------------------------
(* The engines.  An engine is in autocommit mode, in an open transaction,  *)
(* in a transaction that has failed and refuses every statement until it   *)
(* is ended (PostgreSQL only), or lost: the server is gone.                *)
(*   "statement"  a statement fails: a constraint, a missing table         *)
(*   "full"       SQLite ends the transaction itself: disk full, I/O error *)
(*   "commit"     COMMIT fails: SQLITE_BUSY leaves the transaction open,   *)
(*                PostgreSQL rolls it back (deferred constraint)           *)
(*   "lost"       the PostgreSQL server goes away                          *)
If(fault, s, outs) == IF fault \in Faults[s.dbms] THEN outs ELSE {}

Discard(s) == [s EXCEPT !.engine = "auto", !.work = {}]
Keep(s) == [s EXCEPT !.engine = "auto", !.work = {}, !.db = @ \cup s.work]
Lose(s) == [s EXCEPT !.engine = "lost", !.work = {}]

ExecBegin(s) ==
    CASE s.engine = "auto" -> {Done([s EXCEPT !.engine = "open"])}
      [] s.engine = "open" /\ ~Sqlite(s) -> {Done(s)}
      [] OTHER -> {Failed(s)}

ExecCommit(s) ==
    CASE s.engine = "auto" -> {IF Sqlite(s) THEN Failed(s) ELSE Done(s)}
      [] s.engine = "open" ->
           {Done(Keep(s))}
             \cup If("commit", s, {Failed(IF Sqlite(s) THEN s ELSE Discard(s))})
             \cup If("full", s, {Failed(Discard(s))})
      [] s.engine = "aborted" -> {Done(Discard(s))}
      [] OTHER -> {Failed(s)}

ExecRollback(s) ==
    CASE s.engine = "auto" -> {IF Sqlite(s) THEN Failed(s) ELSE Done(s)}
      [] s.engine \in {"open", "aborted"} -> {Done(Discard(s))}
      [] OTHER -> {Failed(s)}

ExecWrite(w, s) ==
    CASE s.engine = "auto" ->
           {Done([s EXCEPT !.db = @ \cup {w}])} \cup If("statement", s, {Failed(s)})
      [] s.engine = "open" ->
           {Done([s EXCEPT !.work = @ \cup {w}])}
             \cup If("statement", s, {Failed(IF Sqlite(s) THEN s ELSE [s EXCEPT !.engine = "aborted"])})
             \cup If("full", s, {Failed(Discard(s))})
      [] OTHER -> {Failed(s)}

(* A read fails as a write does, and changes nothing when it does not.     *)
ExecRead(s) == {IF o.ok THEN Done(s) ELSE o : o \in ExecWrite(<<"SELECT">>, s)}

(* A statement is BEGIN, COMMIT, ROLLBACK, SELECT or a write <<op, row>>.  *)
(* When the server is lost during COMMIT, the commit may have been done.   *)
Exec(st, s) ==
    ( CASE st = <<"BEGIN">> -> ExecBegin(s)
        [] st = <<"COMMIT">> -> ExecCommit(s)
        [] st = <<"ROLLBACK">> -> ExecRollback(s)
        [] st = <<"SELECT">> -> ExecRead(s)
        [] OTHER -> ExecWrite(st, s) )
    \cup If("lost", s, {Failed(Lose(s))})
    \cup If("lost", s, IF st = <<"COMMIT">> /\ s.engine = "open" THEN {Failed(Lose(Keep(s)))} ELSE {})

(* One statement more; statements in order: nothing follows an error.      *)
Then(outs, st) == AndThen(outs, LAMBDA x : Exec(st, x))

InOrder(sts, s) ==
    LET after[n \in 0 .. Len(sts)] ==
          IF n = 0 THEN {Done(s)} ELSE Then(after[n - 1], sts[n])
    IN  after[Len(sts)]

(* Several statements in one call: sqlite3_exec runs them one by one and   *)
(* stops at the first error; PQexec makes one transaction of them unless   *)
(* one is open already.                                                    *)
ExecScript(sts, s) ==
    IF Sqlite(s) \/ s.engine # "auto"
      THEN InOrder(sts, s)
      ELSE { IF o.ok THEN Done(Keep(o.s))
             ELSE Failed(IF o.s.engine = "lost" THEN o.s ELSE Discard(o.s))
             : o \in InOrder(sts, [s EXCEPT !.engine = "open"]) }
-----------------------------------------------------------------------------
(* The drivers.  run_query_unsafe: any engine error is thrown.             *)
RunQueryUnsafe(sts, s) == ExecScript(sts, s)

(* Slip: the flag follows the statement in SQLite too. *)
SetFlagAfterwards(st, v, s) ==
    {IF o.ok THEN Done([o.s EXCEPT !.flag = v]) ELSE o : o \in Exec(st, s)}

(* SQLite sets the flag, then runs the statement, so the flag moves even   *)
(* when the statement throws; PostgreSQL runs the statement first.         *)
SetFlagAround(st, v, s) ==
    IF Sqlite(s)
      THEN Exec(st, [s EXCEPT !.flag = v])
      ELSE {IF o.ok THEN Done([o.s EXCEPT !.flag = v]) ELSE o : o \in Exec(st, s)}

(* Slips: the flag moves, but the statement is forgotten or is another's.  *)
BeginFlagOnly(s) == {Done([s EXCEPT !.flag = TRUE])}
EndFlagOnly(s) == {Done([s EXCEPT !.flag = FALSE])}
RollbackFlagOnly(s) == {Done([s EXCEPT !.flag = FALSE])}
RollbackCommits(s) ==
    IF s.flag THEN SetFlagAround(<<"COMMIT">>, FALSE, s) ELSE {Done(s)}

BeginTransaction(s) == IF s.flag THEN {Done(s)} ELSE SetFlagAround(<<"BEGIN">>, TRUE, s)

EndTransaction(s) == IF s.flag THEN SetFlagAround(<<"COMMIT">>, FALSE, s) ELSE {Done(s)}

RollbackTransaction(s) ==
    IF s.flag THEN SetFlagAround(<<"ROLLBACK">>, FALSE, s) ELSE {Done(s)}

(* The end of a Transaction: Repository::transaction rolls back when its   *)
(* body returns, or in its handler when the body, or that rollback, throws;*)
(* the destructor rolls back once more, and must not throw.                *)
BodyThrew(s) == UNION {RollbackTransaction(o.s) : o \in RollbackTransaction(s)}

BodyReturned(s) ==
    UNION {IF o.ok THEN RollbackTransaction(o.s) ELSE BodyThrew(o.s) : o \in RollbackTransaction(s)}

(* Slip: the error is passed on without a rollback. *)
RunQueryNoRollback(sts, s) == RunQueryUnsafe(sts, s)

(* An error rolls the transaction back and is thrown again; should the     *)
(* rollback throw, its exception takes the place of the first.             *)
RunQuery(sts, s) ==
    UNION { IF o.ok THEN {o} ELSE {Failed(r.s) : r \in RollbackTransaction(o.s)}
            : o \in RunQueryUnsafe(sts, s) }

(* Slip: the insert is committed wherever it is made. *)
RunQueryLastIdCommits(w, s) ==
    RunQuery(IF Sqlite(s) THEN <<<<"BEGIN">>, w, <<"COMMIT">>>> ELSE <<w, <<"COMMIT">>>>, s)

(* The overload that reports the last row id.  SQLite brackets the insert  *)
(* with its own BEGIN and COMMIT; PostgreSQL just runs it.                 *)
RunQueryLastId(w, s) ==
    RunQuery(IF Sqlite(s) THEN <<<<"BEGIN">>, w, <<"COMMIT">>>> ELSE <<w>>, s)
=============================================================================
