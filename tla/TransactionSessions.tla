------------------------ MODULE TransactionSessions ------------------------
(***************************************************************************)
(* What successive users of one pooled connection do with it: a user takes *)
(* it from the pool, runs queries either one by one or in the body of      *)
(* Repository::transaction, and puts it back.  Transaction begins in its   *)
(* constructor, commits on demand, and is rolled back by                   *)
(* Repository::transaction and once more by its destructor.                *)
(*                                                                         *)
(* The body is the program's: here it makes calls until one throws, may    *)
(* commit once, and makes no call after that.                              *)
(***************************************************************************)
EXTENDS DriverConnection

CONSTANTS
    PlainCalls,    \* PlainCalls[d]: the calls users make outside a transaction
    BodyCalls,     \* BodyCalls[d]: those they make in the body of one
    MaxOps         \* bound: calls made in all

ASSUME SessionsAssumption ==
    /\ PlainCalls \in [Engines -> SUBSET {"query", "insert_pk", "update_batch", "migration"}]
    /\ BodyCalls \in [Engines -> SUBSET {"query", "insert_pk", "update_batch"}]
    /\ MaxOps \in Nat

VARIABLES
    s,             \* the session of the connection
    mode,          \* who has it, see Modes
    pending,       \* writes of the body that have succeeded
    acked,         \* writes the program was told are committed
    undone,        \* writes the program was told did not happen
    ops            \* calls made so far

vars == <<s, mode, pending, acked, undone, ops>>

(* In the pool; with a user outside, or in the body of, a transaction; the *)
(* body has committed, or has thrown; the program was terminated; the      *)
(* connection was not returned.                                            *)
Modes == {"pool", "plain", "body", "committed", "thrown", "terminated", "leaked"}

Rows(call) == IF call \in {"update_batch", "migration"} THEN 1 .. 2 ELSE {1}
Writes(call, op) == {<<op, r>> : r \in Rows(call)}
AllWrites == (1 .. MaxOps) \X (1 .. 2)

Init ==
    /\ \E d \in Engines : s = Fresh(d)
    /\ mode = "pool"
    /\ pending = {} /\ acked = {} /\ undone = {}
    /\ ops = 0

(* Slip: the rows are counted from zero. *)
UpdateBatchFromZero(op, x) ==
    AndThen(AndThen(BeginTransaction(x),
                    LAMBDA y : RunQuery(<<<<op, 0>>, <<op, 1>>>>, y)),
            EndTransaction)

(* Update::commit_batch outside a transaction: one statement per row. *)
UpdateBatch(op, x) ==
    AndThen(AndThen(BeginTransaction(x),
                    LAMBDA y : RunQuery(<<<<op, 1>>, <<op, 2>>>>, y)),
            EndTransaction)

Outcomes(call, op, x) ==
    CASE call = "query" -> RunQuery(<<<<op, 1>>>>, x)
      [] call = "insert_pk" -> RunQueryLastId(<<op, 1>>, x)
      [] call = "update_batch" -> UpdateBatch(op, x)

LeasePlain ==
    /\ mode = "pool"
    /\ ops < MaxOps
    /\ mode' = "plain"
    /\ UNCHANGED <<s, pending, acked, undone, ops>>

(* The constructor of Transaction begins; if it throws, wrap returns the   *)
(* connection and no destructor runs.                                      *)
StartTransaction ==
    /\ mode = "pool"
    /\ ops < MaxOps
    /\ \E o \in BeginTransaction(s) :
         /\ s' = o.s
         /\ mode' = IF o.ok THEN "body" ELSE "pool"
    /\ UNCHANGED <<pending, acked, undone, ops>>

(* Outside a transaction each call stands alone; after a failed one the    *)
(* user goes on, or lets the exception out of Repository::wrap.            *)
PlainCall(call) ==
    /\ mode = "plain"
    /\ ops < MaxOps
    /\ ops' = ops + 1
    /\ \E o \in Outcomes(call, ops', s) :
         /\ s' = o.s
         /\ \/ /\ o.ok
               /\ acked' = acked \cup Writes(call, ops')
               /\ UNCHANGED <<undone, mode>>
            \/ /\ ~o.ok
               /\ undone' = undone \cup Writes(call, ops')
               /\ mode' \in {"plain", "pool"}
               /\ UNCHANGED acked
    /\ UNCHANGED pending

(* Migration::apply and Migration::rollback take a connection for one      *)
(* transaction: the statements of the operations, then the record.  The    *)
(* handler rolls back and releases; a rollback that throws skips the       *)
(* release.                                                                *)
MigrationUnsafe(op, x) ==
    AndThen(AndThen(AndThen(BeginTransaction(x),
                            LAMBDA y : RunQuery(<<<<op, 1>>>>, y)),
                    LAMBDA y : RunQuery(<<<<op, 2>>>>, y)),
            EndTransaction)

RunMigration ==
    /\ "migration" \in PlainCalls[s.dbms]
    /\ mode = "pool"
    /\ ops < MaxOps
    /\ ops' = ops + 1
    /\ \E o \in MigrationUnsafe(ops', s) :
         \/ /\ o.ok
            /\ s' = o.s
            /\ acked' = acked \cup Writes("migration", ops')
            /\ UNCHANGED <<undone, mode>>
         \/ /\ ~o.ok
            /\ \E r \in RollbackTransaction(o.s) :
                 s' = r.s /\ mode' = IF r.ok THEN "pool" ELSE "leaked"
            /\ undone' = undone \cup Writes("migration", ops')
            /\ UNCHANGED acked
    /\ UNCHANGED pending

ReleasePlain ==
    /\ mode = "plain"
    /\ mode' = "pool"
    /\ UNCHANGED <<s, pending, acked, undone, ops>>

BodyCall(call) ==
    /\ mode = "body"
    /\ ops < MaxOps
    /\ ops' = ops + 1
    /\ \E o \in Outcomes(call, ops', s) :
         /\ s' = o.s
         /\ \/ /\ o.ok
               /\ pending' = pending \cup Writes(call, ops')
               /\ UNCHANGED <<undone, mode>>
            \/ /\ ~o.ok
               /\ undone' = undone \cup pending \cup Writes(call, ops')
               /\ pending' = {}
               /\ mode' = "thrown"
    /\ UNCHANGED acked

(* Transaction::commit *)
Commit ==
    /\ mode = "body"
    /\ \E o \in EndTransaction(s) :
         /\ s' = o.s
         /\ \/ /\ o.ok
               /\ acked' = acked \cup pending
               /\ mode' = "committed"
               /\ UNCHANGED undone
            \/ /\ ~o.ok
               /\ undone' = undone \cup pending
               /\ mode' = "thrown"
               /\ UNCHANGED acked
    /\ pending' = {}
    /\ UNCHANGED ops

(* The program may throw from the body for reasons of its own. *)
BodyThrows ==
    /\ mode \in {"body", "committed"}
    /\ undone' = undone \cup pending
    /\ pending' = {}
    /\ mode' = "thrown"
    /\ UNCHANGED <<s, acked, ops>>

Leave(o) ==
    /\ s' = o.s
    /\ mode' = IF o.ok THEN "pool" ELSE "terminated"
    /\ undone' = undone \cup pending
    /\ pending' = {}
    /\ UNCHANGED <<acked, ops>>

Abandon == mode = "thrown" /\ \E o \in BodyThrew(s) : Leave(o)

Return == mode \in {"body", "committed"} /\ \E o \in BodyReturned(s) : Leave(o)

Next ==
    \/ LeasePlain \/ ReleasePlain \/ \E c \in PlainCalls[s.dbms] \ {"migration"} : PlainCall(c)
    \/ RunMigration
    \/ StartTransaction \/ \E c \in BodyCalls[s.dbms] : BodyCall(c)
    \/ Commit \/ BodyThrows \/ Abandon \/ Return

Spec == Init /\ [][Next]_vars
-----------------------------------------------------------------------------
TypeOK ==
    /\ s \in [dbms : Engines, flag : BOOLEAN, engine : {"auto", "open", "aborted", "lost"},
              work : SUBSET AllWrites, db : SUBSET AllWrites]
    /\ mode \in Modes
    /\ pending \subseteq AllWrites
    /\ acked \subseteq AllWrites
    /\ undone \subseteq AllWrites
    /\ ops \in 0 .. MaxOps

(* The next user of the connection finds no transaction on it: neither the *)
(* engine's nor the flag's.  A stale flag turns the next begin into a      *)
(* no-op, an open engine makes it fail.                                    *)
CleanHandover ==
    mode = "pool" => ~s.flag /\ s.engine = "auto"

(* Whatever a call or a commit reported as done stays done, also when a    *)
(* later user of the connection rolls back.                                *)
Durable == acked \subseteq s.db

(* Nothing a failed call, a throwing body or a body that never committed   *)
(* has written is in the database, then or later.                          *)
NoResidue == undone \cap s.db = {}

(* A body runs inside a transaction from its first call to its last: the   *)
(* engine and the flag agree that one is open.                             *)
BodyInTransaction == mode = "body" => s.flag /\ s.engine = "open"

(* Rolling back twice never throws out of Transaction's destructor, and    *)
(* the connection always comes back to the pool.                           *)
NeverLost == mode \notin {"terminated", "leaked"}

(* A call inside a body commits nothing: that is for Transaction::commit.  *)
OnlyCommitCommits == [][mode = "body" /\ ops' # ops => s'.db = s.db]_vars
=============================================================================
