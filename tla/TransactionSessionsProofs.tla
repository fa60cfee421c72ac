---------------------- MODULE TransactionSessionsProofs ----------------------
(***************************************************************************)
(* For any number of calls, in any order, through either driver, whatever  *)
(* statements and commits fail: a connection is handed over clean, what    *)
(* was reported as done stays, what was reported as undone leaves nothing, *)
(* a body runs in a transaction, and only commit commits.                  *)
(***************************************************************************)
EXTENDS TransactionSessions, DriverConnectionProofs

(* What the programs and the engines must keep to, each the subject of a   *)
(* violation run or a hazard: the server stays and SQLite is not busy at a *)
(* COMMIT; SQLite's insert that asks for its key, which brings its own     *)
(* BEGIN, is not used; no batch commits inside a body; and PostgreSQL's    *)
(* batches do not meet a COMMIT that is refused.                           *)
Sound ==
  \A d \in Engines :
    /\ Reliable(d)
    /\ "update_batch" \notin BodyCalls[d]
    /\ d = "sqlite" => /\ "commit" \notin Faults[d]
                       /\ "insert_pk" \notin PlainCalls[d] \cup BodyCalls[d]
    /\ d = "postgresql" /\ "update_batch" \in PlainCalls[d] => Faults[d] \cap {"commit", "full"} = {}

(* A body's session is in a transaction whose writes are those the body    *)
(* believes pending; outside of bodies it is clean.  When a body is left   *)
(* by an exception, the two rollbacks find a transaction to undo, nothing  *)
(* to do, or PostgreSQL's flag after a commit that was refused.            *)
SessionFits ==
  /\ mode \in {"pool", "plain", "committed"} => Clean(s)
  /\ mode = "body" => InsideTransaction(s) /\ s.work = pending
  /\ mode = "thrown" => Idle(s) \/ InsideTransaction(s)
  /\ mode # "body" => pending = {}

(* Every write there has been is of an earlier call. *)
NothingFromLater ==
  \A w \in s.work \cup s.db \cup pending \cup acked \cup undone : w[1] <= ops

(* What is pending is neither undone nor committed. *)
PendingIsOpen == pending \cap (undone \cup s.db) = {}

IInv ==
  /\ TypeOK
  /\ SessionFits
  /\ NothingFromLater
  /\ PendingIsOpen
  /\ Durable
  /\ NoResidue
  /\ NeverLost
-----------------------------------------------------------------------------
(* What the calls do to a session that fits.                               *)
LEMMA RowsOfCalls ==
  ASSUME NEW op \in Nat, NEW call
  PROVE  /\ Writes(call, op) \subseteq WriteStatements
         /\ \A w \in Writes(call, op) : w[1] = op
         /\ call \in {"query", "insert_pk"} => Writes(call, op) = {<<op, 1>>}
         /\ call \in {"update_batch", "migration"} => Writes(call, op) = {<<op, 1>>, <<op, 2>>}
<1>1. Rows(call) \in {{1}, 1 .. 2}
  BY DEF Rows
<1>2. 1 .. 2 = {1, 2}
  OBVIOUS
<1> QED  BY <1>1, <1>2 DEF Writes, Rows, WriteStatements

(* Scripts of one write and of two. *)
LEMMA ScriptsOfWrites ==
  ASSUME NEW v \in WriteStatements, NEW w \in WriteStatements
  PROVE  /\ <<w>> \in Seq(WriteStatements) /\ ToSet(<<w>>) = {w}
         /\ <<v, w>> \in Seq(WriteStatements) /\ ToSet(<<v, w>>) = {v, w}
<1>1. DOMAIN <<w>> = {1} /\ DOMAIN <<v, w>> = {1, 2}
  OBVIOUS
<1> QED  BY <1>1 DEF ToSet

(* A call in a body: its writes join the transaction, or the transaction   *)
(* is undone.                                                              *)
LEMMA BodyOutcome ==
  ASSUME Sound, NEW x \in Sessions, InsideTransaction(x), NEW op \in Nat,
         NEW call \in BodyCalls[x.dbms], NEW o \in Outcomes(call, op, x)
  PROVE  \/ o = Done([x EXCEPT !.work = @ \cup Writes(call, op)])
         \/ o = Failed(Undone(x))
<1>1. Reliable(x.dbms) /\ call \in {"query", "insert_pk"} /\ (call = "insert_pk" => ~Sqlite(x))
  BY SessionsAssumption DEF Sound, Sessions, Sqlite
<1>2. o \in RunQuery(<<<<op, 1>>>>, x)
  BY <1>1 DEF Outcomes, RunQueryLastId
<1>3. <<op, 1>> \in WriteStatements
  BY DEF WriteStatements
<1> QED  BY <1>1, <1>2, <1>3, QueryInTransaction, ScriptsOfWrites, RowsOfCalls DEF Wrote

(* BEGIN, and the session it leaves. *)
LEMMA Begun ==
  ASSUME NEW x \in Sessions, Clean(x), Reliable(x.dbms), NEW o \in BeginTransaction(x)
  PROVE  /\ o.ok /\ o.s \in Sessions /\ InsideTransaction(o.s)
         /\ o.s.dbms = x.dbms /\ o.s.work = {} /\ o.s.db = x.db
         /\ Undone(o.s) = x
<1>1. o = Done([x EXCEPT !.flag = TRUE, !.engine = "open"])
  BY BeginOutcome
<1>2. o.ok /\ o.s = [x EXCEPT !.flag = TRUE, !.engine = "open"]
  BY <1>1, OutcomeParts
<1> QED  BY <1>2 DEF Sessions, InsideTransaction, Clean, Undone

(* A batch outside of a transaction: all rows, or none. *)
LEMMA BatchOutcome ==
  ASSUME NEW x \in Sessions, Clean(x), Reliable(x.dbms), NEW op \in Nat,
         Sqlite(x) => "commit" \notin Faults[x.dbms],
         ~Sqlite(x) => Faults[x.dbms] \cap {"commit", "full"} = {},
         NEW o \in UpdateBatch(op, x)
  PROVE  \/ o = Done([x EXCEPT !.db = @ \cup {<<op, 1>>, <<op, 2>>}])
         \/ o = Failed(x)
<1> DEFINE v == <<op, 1>>
           w == <<op, 2>>
<1>1. PICK b \in AndThen(BeginTransaction(x), LAMBDA y : RunQuery(<<v, w>>, y)) :
        o \in (IF b.ok THEN EndTransaction(b.s) ELSE {b})
  BY DEF UpdateBatch, AndThen
<1>2. PICK a \in BeginTransaction(x) : b \in (IF a.ok THEN RunQuery(<<v, w>>, a.s) ELSE {a})
  BY <1>1 DEF AndThen
<1>3. /\ a.ok /\ a.s \in Sessions /\ InsideTransaction(a.s)
      /\ a.s.dbms = x.dbms /\ a.s.work = {} /\ a.s.db = x.db
      /\ Undone(a.s) = x
  BY <1>2, Begun
<1>4. v \in WriteStatements /\ w \in WriteStatements
  BY DEF WriteStatements
<1>5. b = Done(Wrote(a.s, <<v, w>>)) \/ b = Failed(Undone(a.s))
  BY <1>2, <1>3, <1>4, ScriptsOfWrites, QueryInTransaction
<1>6. CASE b = Failed(Undone(a.s))
  BY <1>1, <1>3, <1>6, OutcomeParts
<1>7. CASE b = Done(Wrote(a.s, <<v, w>>))
  <2> DEFINE sts == <<v, w>>
             y == Wrote(a.s, sts)
  <2>0. sts \in Seq(WriteStatements) /\ ToSet(sts) = {v, w}
    BY <1>4, ScriptsOfWrites
  <2>1. /\ y \in Sessions /\ InsideTransaction(y) /\ y.dbms = x.dbms
        /\ Undone(y) = x /\ y.work = {v, w} /\ y.db = x.db
    <3> HIDE DEF sts, v, w
    <3> QED  BY <1>3, <2>0, WroteParts DEF InsideTransaction
  <2>2. Kept(y) = [x EXCEPT !.db = @ \cup {v, w}]
    BY <2>1, KeptIsUndoneAndMore
  <2>3. o \in EndTransaction(y)
    BY <1>1, <1>7, OutcomeParts
  <2> HIDE DEF y
  <2>4. o = Done(Kept(y)) \/ o = Failed(Undone(y))
    BY <2>1, <2>3, EndOutcome DEF Sqlite
  <2> QED  BY <2>1, <2>2, <2>4
<1> QED  BY <1>5, <1>6, <1>7

(* A call outside of one: its writes are in the database, or the session   *)
(* is as before.                                                           *)
LEMMA PlainOutcome ==
  ASSUME Sound, NEW x \in Sessions, Clean(x), NEW op \in Nat,
         NEW call \in PlainCalls[x.dbms] \ {"migration"}, NEW o \in Outcomes(call, op, x)
  PROVE  \/ o = Done([x EXCEPT !.db = @ \cup Writes(call, op)])
         \/ o = Failed(x)
<1>1. /\ Reliable(x.dbms) /\ call \in {"query", "insert_pk", "update_batch"}
      /\ call = "insert_pk" => ~Sqlite(x)
      /\ Sqlite(x) => "commit" \notin Faults[x.dbms]
      /\ ~Sqlite(x) /\ call = "update_batch" => Faults[x.dbms] \cap {"commit", "full"} = {}
  <2>1. x.dbms \in Engines /\ x.dbms \in {"sqlite", "postgresql"}
    BY DriverAssumption DEF Sessions
  <2>2. PlainCalls[x.dbms] \in SUBSET {"query", "insert_pk", "update_batch", "migration"}
    BY <2>1, SessionsAssumption
  <2>3. /\ Reliable(x.dbms)
        /\ x.dbms = "sqlite" => "commit" \notin Faults[x.dbms] /\ "insert_pk" \notin PlainCalls[x.dbms]
        /\ x.dbms = "postgresql" /\ "update_batch" \in PlainCalls[x.dbms] =>
             Faults[x.dbms] \cap {"commit", "full"} = {}
    BY <2>1 DEF Sound
  <2> QED  BY <2>1, <2>2, <2>3 DEF Sqlite
<1>2. CASE call \in {"query", "insert_pk"}
  <2>1. o \in RunQuery(<<<<op, 1>>>>, x)
    BY <1>1, <1>2 DEF Outcomes, RunQueryLastId
  <2>2. <<op, 1>> \in WriteStatements
    BY DEF WriteStatements
  <2> QED  BY <1>1, <1>2, <2>1, <2>2, QueryAlone, RowsOfCalls
<1>3. CASE call = "update_batch"
  <2>1. o \in UpdateBatch(op, x)
    BY <1>3 DEF Outcomes
  <2> QED  BY <1>1, <1>3, <2>1, BatchOutcome, RowsOfCalls
<1> QED  BY <1>1, <1>2, <1>3

(* A migration, and the handler's rollback when it has failed. *)
LEMMA MigrationOutcome ==
  ASSUME Sound, NEW x \in Sessions, Clean(x), NEW op \in Nat, NEW o \in MigrationUnsafe(op, x)
  PROVE  \/ o = Done([x EXCEPT !.db = @ \cup Writes("migration", op)])
         \/ ~o.ok /\ \A r \in RollbackTransaction(o.s) : r = Done(x)
<1> DEFINE v == <<op, 1>>
           w == <<op, 2>>
<1>0. /\ Reliable(x.dbms)
      /\ Sqlite(x) => "commit" \notin Faults[x.dbms]
      /\ v \in WriteStatements /\ w \in WriteStatements
  BY DEF Sound, Sessions, Sqlite, WriteStatements
<1>1. PICK c \in AndThen(AndThen(BeginTransaction(x), LAMBDA y : RunQuery(<<v>>, y)), LAMBDA y : RunQuery(<<w>>, y)) :
        o \in (IF c.ok THEN EndTransaction(c.s) ELSE {c})
  BY DEF MigrationUnsafe, AndThen
<1>2. PICK b \in AndThen(BeginTransaction(x), LAMBDA y : RunQuery(<<v>>, y)) :
        c \in (IF b.ok THEN RunQuery(<<w>>, b.s) ELSE {b})
  BY <1>1 DEF AndThen
<1>3. PICK a \in BeginTransaction(x) : b \in (IF a.ok THEN RunQuery(<<v>>, a.s) ELSE {a})
  BY <1>2 DEF AndThen
<1>4. /\ a.ok /\ a.s \in Sessions /\ InsideTransaction(a.s)
      /\ a.s.dbms = x.dbms /\ a.s.work = {} /\ a.s.db = x.db
      /\ Undone(a.s) = x
  BY <1>0, <1>3, Begun
<1>5. ~o.ok /\ o.s = x => \A r \in RollbackTransaction(o.s) : r = Done(x)
  BY <1>0, RollbackOutcome DEF Clean
<1>6. b = Done(Wrote(a.s, <<v>>)) \/ b = Failed(x)
  BY <1>0, <1>3, <1>4, ScriptsOfWrites, QueryInTransaction
<1>7. CASE b = Failed(x)
  BY <1>1, <1>2, <1>5, <1>7, OutcomeParts
<1>8. CASE b = Done(Wrote(a.s, <<v>>))
  <2> DEFINE y == Wrote(a.s, <<v>>)
  <2>2. /\ y \in Sessions /\ InsideTransaction(y) /\ y.dbms = x.dbms
        /\ y.work = {v} /\ y.db = x.db /\ Undone(y) = x
    <3>1. <<v>> \in Seq(WriteStatements) /\ ToSet(<<v>>) = {v}
      BY <1>0, ScriptsOfWrites
    <3> HIDE DEF v
    <3> QED  BY <1>4, <3>1, WroteParts DEF InsideTransaction
  <2>3. c \in RunQuery(<<w>>, y)
    BY <1>2, <1>8, OutcomeParts
  <2> HIDE DEF y
  <2>4. c = Done(Wrote(y, <<w>>)) \/ c = Failed(x)
    BY <1>0, <2>2, <2>3, ScriptsOfWrites, QueryInTransaction
  <2>5. CASE c = Failed(x)
    BY <1>1, <1>5, <2>5, OutcomeParts
  <2>6. CASE c = Done(Wrote(y, <<w>>))
    <3> DEFINE sts == <<w>>
               z == Wrote(y, sts)
    <3>0. sts \in Seq(WriteStatements) /\ ToSet(sts) = {w}
      BY <1>0, ScriptsOfWrites
    <3>1. /\ z \in Sessions /\ InsideTransaction(z) /\ z.dbms = x.dbms
          /\ Undone(z) = x /\ z.work = {v, w} /\ z.db = x.db
      <4> HIDE DEF sts, v, w
      <4> QED  BY <2>2, <3>0, WroteParts DEF InsideTransaction
    <3>2. Kept(z) = [x EXCEPT !.db = @ \cup {v, w}]
      BY <3>1, KeptIsUndoneAndMore
    <3>3. o \in EndTransaction(z)
      BY <1>1, <2>6, OutcomeParts
    <3> HIDE DEF z
    <3>4. \/ o = Done(Kept(z))
          \/ o = Failed(Undone(z))
          \/ ~Sqlite(z) /\ o = Failed([Undone(z) EXCEPT !.flag = TRUE])
      BY <1>0, <3>1, <3>3, EndOutcome DEF Sqlite
    <3>5. CASE o = Done(Kept(z))
      BY <3>2, <3>5, RowsOfCalls
    <3>6. CASE o = Failed(Undone(z))
      BY <1>5, <3>1, <3>6, OutcomeParts
    <3>7. CASE ~Sqlite(z) /\ o = Failed([Undone(z) EXCEPT !.flag = TRUE])
      <4> DEFINE f == [x EXCEPT !.flag = TRUE]
      <4>1. /\ f \in Sessions /\ Reliable(f.dbms) /\ ~Sqlite(f) /\ f.flag /\ f.engine = "auto"
            /\ [f EXCEPT !.flag = FALSE] = x
        BY <1>0, <3>1, <3>7 DEF Sessions, Clean, Sqlite
      <4>2. o.s = f /\ ~o.ok
        BY <3>1, <3>7, OutcomeParts
      <4> HIDE DEF f
      <4> QED  BY <4>1, <4>2, RollbackOutcome
    <3> QED  BY <3>4, <3>5, <3>6, <3>7
  <2> QED  BY <2>4, <2>5, <2>6
<1> QED  BY <1>6, <1>7, <1>8
-----------------------------------------------------------------------------
(* The invariant, action by action.                                        *)
LEMMA SessionTyped == TypeOK => s \in Sessions /\ Undone(s) \in Sessions
<1>1. AllWrites \subseteq WriteStatements
  BY SessionsAssumption DEF AllWrites, WriteStatements
<1> QED  BY <1>1 DEF TypeOK, Sessions, Undone

(* A call's writes are new: no set there is holds any of them. *)
LEMMA CallsWrites ==
  ASSUME IInv, ops < MaxOps, NEW call
  PROVE  /\ ops + 1 \in 0 .. MaxOps
         /\ Writes(call, ops + 1) \subseteq AllWrites
         /\ Writes(call, ops + 1) \cap (s.work \cup s.db \cup pending \cup acked \cup undone) = {}
         /\ \A w \in Writes(call, ops + 1) : w[1] <= ops + 1
<1>1. ops \in 0 .. MaxOps /\ ops + 1 \in 1 .. MaxOps
  BY SessionsAssumption DEF IInv, TypeOK
<1>2. Rows(call) \subseteq 1 .. 2
  BY DEF Rows
<1>3. Writes(call, ops + 1) \subseteq AllWrites /\ \A w \in Writes(call, ops + 1) : w[1] = ops + 1
  BY <1>1, <1>2 DEF Writes, AllWrites
<1>4. \A w \in s.work \cup s.db \cup pending \cup acked \cup undone : w[1] <= ops
  BY DEF IInv, NothingFromLater
<1> QED  BY <1>1, <1>3, <1>4

(* A fresh connection fits. *)
LEMMA InitIInv == Init => IInv
<1> SUFFICES ASSUME Init PROVE IInv
  OBVIOUS
<1>1. PICK d \in Engines : s = Fresh(d)
  BY DEF Init
<1>2. TypeOK
  BY <1>1, SessionsAssumption DEF Init, TypeOK, Fresh, Modes
<1>3. SessionFits
  BY <1>1 DEF Init, SessionFits, Clean, Fresh
<1> QED
  BY <1>1, <1>2, <1>3
     DEF IInv, Init, NothingFromLater, PendingIsOpen, Durable, NoResidue, NeverLost, Fresh

(* The constructor of Transaction begins, because the session was clean. *)
LEMMA StartKeepsIInv == Sound /\ IInv /\ StartTransaction => IInv'
<1> SUFFICES ASSUME Sound, IInv, StartTransaction PROVE IInv'
  OBVIOUS
<1>1. s \in Sessions /\ Clean(s) /\ Reliable(s.dbms) /\ pending = {}
  BY SessionTyped DEF StartTransaction, IInv, SessionFits, Sound, Sessions
<1>2. PICK o \in BeginTransaction(s) : s' = o.s /\ mode' = IF o.ok THEN "body" ELSE "pool"
  BY DEF StartTransaction
<1>3. s' = [s EXCEPT !.flag = TRUE, !.engine = "open"] /\ mode' = "body"
  BY <1>1, <1>2, BeginOutcome, OutcomeParts
<1>4. pending' = pending /\ acked' = acked /\ undone' = undone /\ ops' = ops
  BY DEF StartTransaction
<1>5. s'.work = {} /\ s'.db = s.db /\ s.work = {} /\ InsideTransaction(s)'
  BY <1>1, <1>3 DEF Sessions, Clean, InsideTransaction
<1>6. TypeOK'
  BY <1>3, <1>4 DEF IInv, TypeOK, Modes
<1>7. SessionFits'
  BY <1>1, <1>3, <1>4, <1>5 DEF SessionFits
<1> QED
  BY <1>3, <1>4, <1>5, <1>6, <1>7 DEF IInv, NothingFromLater, PendingIsOpen, Durable, NoResidue, NeverLost

(* A call outside of bodies that does all its writes or none, and is       *)
(* reported as what it was.                                                *)
LEMMA AloneKeepsIInv ==
  ASSUME IInv, mode \in {"pool", "plain"}, ops < MaxOps, NEW call,
         ops' = ops + 1, pending' = pending, mode' \in {"pool", "plain"},
         \/ /\ s' = [s EXCEPT !.db = @ \cup Writes(call, ops + 1)]
            /\ acked' = acked \cup Writes(call, ops + 1) /\ undone' = undone
         \/ /\ s' = s
            /\ undone' = undone \cup Writes(call, ops + 1) /\ acked' = acked
  PROVE  IInv'
<1> DEFINE W == Writes(call, ops + 1)
<1>1. s \in Sessions /\ Clean(s) /\ pending = {}
  BY SessionTyped DEF IInv, SessionFits
<1>2. /\ ops + 1 \in 0 .. MaxOps /\ W \subseteq AllWrites
      /\ W \cap (s.work \cup s.db \cup pending \cup acked \cup undone) = {}
      /\ \A w \in W : w[1] <= ops + 1
  BY CallsWrites
<1>3. \A w \in s.work \cup s.db \cup pending \cup acked \cup undone : w[1] <= ops + 1
  <2>1. AllWrites \subseteq Nat \X Nat /\ ops \in Nat
    BY SessionsAssumption DEF IInv, TypeOK, AllWrites
  <2>2. s.work \cup s.db \cup pending \cup acked \cup undone \subseteq AllWrites
    BY DEF IInv, TypeOK
  <2> QED  BY <2>1, <2>2 DEF IInv, NothingFromLater
<1> HIDE DEF W
<1>4. CASE s' = [s EXCEPT !.db = @ \cup W] /\ acked' = acked \cup W /\ undone' = undone
  <2>1. s'.work = s.work /\ s'.db = s.db \cup W /\ Clean(s)'
    BY <1>1, <1>4 DEF Sessions, Clean
  <2>2. TypeOK'
    BY <1>2, <1>4 DEF IInv, TypeOK, Modes
  <2>3. SessionFits'
    BY <1>1, <2>1 DEF SessionFits
  <2>4. NothingFromLater'
    BY <1>2, <1>3, <1>4, <2>1 DEF NothingFromLater
  <2> QED
    BY <1>1, <1>2, <1>4, <2>1, <2>2, <2>3, <2>4 DEF IInv, PendingIsOpen, Durable, NoResidue, NeverLost
<1>5. CASE s' = s /\ undone' = undone \cup W /\ acked' = acked
  <2>1. TypeOK'
    BY <1>2, <1>5 DEF IInv, TypeOK, Modes
  <2>2. SessionFits'
    BY <1>1, <1>5 DEF SessionFits, Clean
  <2>3. NothingFromLater'
    BY <1>2, <1>3, <1>5 DEF NothingFromLater
  <2> QED
    BY <1>1, <1>2, <1>5, <2>1, <2>2, <2>3 DEF IInv, PendingIsOpen, Durable, NoResidue, NeverLost
<1> QED  BY <1>4, <1>5 DEF W

(* A call of a Repository with no transaction. *)
LEMMA PlainCallKeepsIInv ==
  ASSUME Sound, IInv, NEW call \in PlainCalls[s.dbms] \ {"migration"}, PlainCall(call)
  PROVE  IInv'
<1> DEFINE W == Writes(call, ops + 1)
<1>1. /\ s \in Sessions /\ Clean(s) /\ mode = "plain"
      /\ ops < MaxOps /\ ops' = ops + 1 /\ pending' = pending
  BY SessionTyped DEF PlainCall, IInv, SessionFits
<1>2. PICK o \in Outcomes(call, ops + 1, s) :
        /\ s' = o.s
        /\ \/ o.ok /\ acked' = acked \cup W /\ undone' = undone /\ mode' = mode
           \/ ~o.ok /\ undone' = undone \cup W /\ mode' \in {"plain", "pool"} /\ acked' = acked
  BY <1>1 DEF PlainCall
<1>3. o = Done([s EXCEPT !.db = @ \cup W]) \/ o = Failed(s)
  <2>1. ops + 1 \in Nat
    BY <1>1, CallsWrites
  <2> QED  BY <1>1, <2>1, PlainOutcome
<1> HIDE DEF W
<1>4. \/ s' = [s EXCEPT !.db = @ \cup W] /\ acked' = acked \cup W /\ undone' = undone /\ mode' = mode
      \/ s' = s /\ undone' = undone \cup W /\ mode' \in {"plain", "pool"} /\ acked' = acked
  BY <1>2, <1>3, OutcomeParts
<1> QED  BY <1>1, <1>4, AloneKeepsIInv DEF W

(* A migration, with its own transaction around two statements. *)
LEMMA MigrationKeepsIInv == Sound /\ IInv /\ RunMigration => IInv'
<1> SUFFICES ASSUME Sound, IInv, RunMigration PROVE IInv'
  OBVIOUS
<1> DEFINE W == Writes("migration", ops + 1)
<1>1. /\ s \in Sessions /\ Clean(s) /\ mode = "pool"
      /\ ops < MaxOps /\ ops' = ops + 1 /\ pending' = pending
  BY SessionTyped DEF RunMigration, IInv, SessionFits
<1>2. PICK o \in MigrationUnsafe(ops + 1, s) :
        \/ o.ok /\ s' = o.s /\ acked' = acked \cup W /\ undone' = undone /\ mode' = mode
        \/ /\ ~o.ok /\ undone' = undone \cup W /\ acked' = acked
           /\ \E r \in RollbackTransaction(o.s) : s' = r.s /\ mode' = IF r.ok THEN "pool" ELSE "leaked"
  BY <1>1 DEF RunMigration
<1>3. o = Done([s EXCEPT !.db = @ \cup W]) \/ (~o.ok /\ \A r \in RollbackTransaction(o.s) : r = Done(s))
  <2>1. ops + 1 \in Nat
    BY <1>1, CallsWrites
  <2> QED  BY <1>1, <2>1, MigrationOutcome
<1> HIDE DEF W
<1>4. /\ mode' = "pool"
      /\ \/ s' = [s EXCEPT !.db = @ \cup W] /\ acked' = acked \cup W /\ undone' = undone
         \/ s' = s /\ undone' = undone \cup W /\ acked' = acked
  BY <1>1, <1>2, <1>3, OutcomeParts
<1> QED  BY <1>1, <1>4, AloneKeepsIInv DEF W

(* In a body: the call's writes are pending, or the transaction is undone. *)
LEMMA BodyCallKeepsIInv ==
  ASSUME Sound, IInv, NEW call \in BodyCalls[s.dbms], BodyCall(call)
  PROVE  IInv' /\ s'.db = s.db
<1> DEFINE W == Writes(call, ops + 1)
<1>1. /\ s \in Sessions /\ InsideTransaction(s) /\ s.work = pending /\ mode = "body"
      /\ ops < MaxOps /\ ops' = ops + 1 /\ acked' = acked
  BY SessionTyped DEF BodyCall, IInv, SessionFits
<1>2. PICK o \in Outcomes(call, ops + 1, s) :
        /\ s' = o.s
        /\ \/ o.ok /\ pending' = pending \cup W /\ undone' = undone /\ mode' = mode
           \/ ~o.ok /\ undone' = undone \cup pending \cup W /\ pending' = {} /\ mode' = "thrown"
  BY <1>1 DEF BodyCall
<1>3. /\ ops + 1 \in 0 .. MaxOps /\ W \subseteq AllWrites
      /\ W \cap (s.work \cup s.db \cup pending \cup acked \cup undone) = {}
      /\ \A w \in W : w[1] <= ops + 1
  BY <1>1, CallsWrites
<1>4. \A w \in s.work \cup s.db \cup pending \cup acked \cup undone : w[1] <= ops + 1
  <2>1. AllWrites \subseteq Nat \X Nat /\ ops \in Nat
    BY SessionsAssumption DEF IInv, TypeOK, AllWrites
  <2>2. s.work \cup s.db \cup pending \cup acked \cup undone \subseteq AllWrites
    BY DEF IInv, TypeOK
  <2> QED  BY <2>1, <2>2 DEF IInv, NothingFromLater
<1>5. o = Done([s EXCEPT !.work = @ \cup W]) \/ o = Failed(Undone(s))
  <2>1. ops + 1 \in Nat
    BY <1>3
  <2> QED  BY <1>1, <2>1, BodyOutcome
<1> HIDE DEF W
<1>6. CASE o = Done([s EXCEPT !.work = @ \cup W])
  <2>1. s' = [s EXCEPT !.work = @ \cup W] /\ pending' = pending \cup W /\ undone' = undone /\ mode' = "body"
    BY <1>1, <1>2, <1>6, OutcomeParts
  <2>2. s'.work = s.work \cup W /\ s'.db = s.db /\ InsideTransaction(s)'
    BY <1>1, <2>1 DEF Sessions, InsideTransaction
  <2>3. TypeOK'
    BY <1>1, <1>3, <2>1 DEF IInv, TypeOK, Modes
  <2>4. SessionFits'
    BY <1>1, <2>1, <2>2 DEF SessionFits
  <2>5. NothingFromLater'
    BY <1>1, <1>3, <1>4, <2>1, <2>2 DEF NothingFromLater
  <2>6. PendingIsOpen' /\ Durable' /\ NoResidue' /\ NeverLost'
    BY <1>1, <1>3, <2>1, <2>2 DEF IInv, PendingIsOpen, Durable, NoResidue, NeverLost
  <2> QED  BY <2>2, <2>3, <2>4, <2>5, <2>6 DEF IInv
<1>7. CASE o = Failed(Undone(s))
  <2>1. s' = Undone(s) /\ pending' = {} /\ undone' = undone \cup pending \cup W /\ mode' = "thrown"
    BY <1>1, <1>2, <1>7, OutcomeParts
  <2>2. s'.work = {} /\ s'.db = s.db /\ Clean(s)'
    BY <1>1, <2>1 DEF Sessions, Clean, Undone
  <2>3. TypeOK'
    BY <1>1, <1>3, <2>1 DEF IInv, TypeOK, Modes, Undone
  <2>4. SessionFits'
    BY <2>1, <2>2 DEF SessionFits, Idle, Clean
  <2>5. NothingFromLater'
    BY <1>1, <1>3, <1>4, <2>1, <2>2 DEF NothingFromLater
  <2>6. PendingIsOpen' /\ Durable' /\ NoResidue' /\ NeverLost'
    BY <1>1, <1>3, <2>1, <2>2 DEF IInv, PendingIsOpen, Durable, NoResidue, NeverLost
  <2> QED  BY <2>2, <2>3, <2>4, <2>5, <2>6 DEF IInv
<1> QED  BY <1>5, <1>6, <1>7

(* Transaction::commit, done or refused. *)
LEMMA CommitKeepsIInv == Sound /\ IInv /\ Commit => IInv'
<1> SUFFICES ASSUME Sound, IInv, Commit PROVE IInv'
  OBVIOUS
<1>1. /\ s \in Sessions /\ InsideTransaction(s) /\ s.work = pending /\ mode = "body"
      /\ pending' = {} /\ ops' = ops
  BY SessionTyped DEF Commit, IInv, SessionFits
<1>2. PICK o \in EndTransaction(s) :
        /\ s' = o.s
        /\ \/ o.ok /\ acked' = acked \cup pending /\ mode' = "committed" /\ undone' = undone
           \/ ~o.ok /\ undone' = undone \cup pending /\ mode' = "thrown" /\ acked' = acked
  BY DEF Commit
<1>3. Reliable(s.dbms) /\ (Sqlite(s) => "commit" \notin Faults[s.dbms])
  BY <1>1 DEF Sound, Sessions, Sqlite
<1>4. \/ o = Done(Kept(s))
      \/ o = Failed(Undone(s))
      \/ ~Sqlite(s) /\ o = Failed([Undone(s) EXCEPT !.flag = TRUE])
  BY <1>1, <1>3, EndOutcome
<1>5. CASE o = Done(Kept(s))
  <2>1. s' = Kept(s) /\ acked' = acked \cup pending /\ mode' = "committed" /\ undone' = undone
    BY <1>2, <1>5, OutcomeParts
  <2>2. s'.work = {} /\ s'.db = s.db \cup pending /\ Clean(s)'
    BY <1>1, <2>1 DEF Sessions, Clean, Kept
  <2>3. TypeOK'
    BY <1>1, <2>1 DEF IInv, TypeOK, Modes, Kept
  <2>4. SessionFits'
    BY <1>1, <2>1, <2>2 DEF SessionFits
  <2> QED
    BY <1>1, <2>1, <2>2, <2>3, <2>4
       DEF IInv, NothingFromLater, PendingIsOpen, Durable, NoResidue, NeverLost
<1>6. CASE o = Failed(Undone(s))
  <2>1. s' = Undone(s) /\ acked' = acked /\ mode' = "thrown" /\ undone' = undone \cup pending
    BY <1>2, <1>6, OutcomeParts
  <2>2. s'.work = {} /\ s'.db = s.db /\ Clean(s)'
    BY <1>1, <2>1 DEF Sessions, Clean, Undone
  <2>3. TypeOK'
    BY <1>1, <2>1 DEF IInv, TypeOK, Modes, Undone
  <2>4. SessionFits'
    BY <1>1, <2>1, <2>2 DEF SessionFits, Idle, Clean
  <2> QED
    BY <1>1, <2>1, <2>2, <2>3, <2>4
       DEF IInv, NothingFromLater, PendingIsOpen, Durable, NoResidue, NeverLost
<1>7. CASE ~Sqlite(s) /\ o = Failed([Undone(s) EXCEPT !.flag = TRUE])
  <2>1. /\ s' = [Undone(s) EXCEPT !.flag = TRUE]
        /\ acked' = acked /\ mode' = "thrown" /\ undone' = undone \cup pending
    BY <1>2, <1>7, OutcomeParts
  <2>2. s'.work = {} /\ s'.db = s.db /\ s'.flag /\ s'.engine = "auto" /\ s'.dbms = s.dbms
    BY <1>1, <2>1 DEF Sessions, Undone
  <2>3. TypeOK'
    BY <1>1, <2>1 DEF IInv, TypeOK, Modes, Undone
  <2>4. SessionFits'
    BY <1>1, <1>7, <2>1, <2>2 DEF SessionFits, Idle, Sqlite
  <2> QED
    BY <1>1, <2>1, <2>2, <2>3, <2>4
       DEF IInv, NothingFromLater, PendingIsOpen, Durable, NoResidue, NeverLost
<1> QED  BY <1>4, <1>5, <1>6, <1>7

(* The end of a Transaction: the connection comes back clean.              *)
LEMMA LeaveKeepsIInv == Sound /\ IInv /\ (Abandon \/ Return) => IInv'
<1> SUFFICES ASSUME Sound, IInv, Abandon \/ Return PROVE IInv'
  OBVIOUS
<1>1. PICK o \in BodyThrew(s) \cup BodyReturned(s) : Leave(o)
  BY DEF Abandon, Return
<1>2. s \in Sessions /\ Reliable(s.dbms)
  BY SessionTyped DEF IInv, Sound, Sessions
<1>3. o = Done(Undone(s))
  BY <1>2, LastRollbacks DEF IInv, SessionFits, Idle, Clean, Abandon, Return
<1>4. /\ s' = Undone(s) /\ mode' = "pool" /\ undone' = undone \cup pending
      /\ pending' = {} /\ acked' = acked /\ ops' = ops
  BY <1>1, <1>3, OutcomeParts DEF Leave
<1>5. s'.work = {} /\ s'.db = s.db /\ Clean(s)'
  BY <1>2, <1>4 DEF Sessions, Clean, Undone
<1>6. TypeOK'
  BY <1>4 DEF IInv, TypeOK, Modes, Undone
<1>7. SessionFits'
  BY <1>4, <1>5 DEF SessionFits
<1> QED
  BY <1>4, <1>5, <1>6, <1>7
     DEF IInv, NothingFromLater, PendingIsOpen, Durable, NoResidue, NeverLost

(* The steps that do not touch the session. *)
LEMMA HandsKeepIInv == IInv /\ (LeasePlain \/ ReleasePlain \/ BodyThrows) => IInv'
<1> SUFFICES ASSUME IInv, LeasePlain \/ ReleasePlain \/ BodyThrows PROVE IInv'
  OBVIOUS
<1>1. s' = s /\ acked' = acked /\ ops' = ops
  BY DEF LeasePlain, ReleasePlain, BodyThrows
<1>2. \/ pending' = pending /\ undone' = undone
      \/ pending' = {} /\ undone' = undone \cup pending
  BY DEF LeasePlain, ReleasePlain, BodyThrows
<1>3. TypeOK' /\ NeverLost'
  BY <1>1, <1>2 DEF IInv, TypeOK, NeverLost, Modes, LeasePlain, ReleasePlain, BodyThrows
<1>4. SessionFits'
  BY <1>1 DEF IInv, SessionFits, Idle, LeasePlain, ReleasePlain, BodyThrows, Clean, InsideTransaction, Sqlite
<1> QED
  BY <1>1, <1>2, <1>3, <1>4 DEF IInv, NothingFromLater, PendingIsOpen, Durable, NoResidue

(* Every step keeps the invariant. *)
LEMMA NextKeepsIInv == Sound /\ IInv /\ [Next]_vars => IInv'
<1> SUFFICES ASSUME Sound, IInv, [Next]_vars PROVE IInv'
  OBVIOUS
<1>1. CASE Next
  BY <1>1, HandsKeepIInv, PlainCallKeepsIInv, MigrationKeepsIInv, StartKeepsIInv,
     BodyCallKeepsIInv, CommitKeepsIInv, LeaveKeepsIInv DEF Next
<1>2. CASE UNCHANGED vars
  BY <1>2 DEF vars, IInv, TypeOK, SessionFits, NothingFromLater, PendingIsOpen, Durable,
              NoResidue, NeverLost, Clean, InsideTransaction, Sqlite
<1> QED  BY <1>1, <1>2

(* Whatever the program does with its connection, within Sound.            *)
LEMMA Invariant == Sound => (Spec => []IInv)
<1> SUFFICES ASSUME Sound PROVE Spec => []IInv
  OBVIOUS
<1>1. Init => IInv
  BY InitIInv
<1>2. IInv /\ [Next]_vars => IInv'
  BY NextKeepsIInv
<1> QED  BY <1>1, <1>2, PTL DEF Spec
-----------------------------------------------------------------------------
(* Every variable has its type: sessions, sets of writes, the calls made.  *)
THEOREM Typed == Sound => (Spec => []TypeOK)
<1> SUFFICES ASSUME Sound PROVE Spec => []TypeOK
  OBVIOUS
<1>1. IInv => TypeOK
  BY DEF IInv
<1> QED  BY <1>1, Invariant, PTL

(* The next user finds no transaction on the connection, neither the       *)
(* engine's nor the flag's, whichever way the user before has left.        *)
THEOREM HandedOverClean == Sound => (Spec => []CleanHandover)
<1> SUFFICES ASSUME Sound PROVE Spec => []CleanHandover
  OBVIOUS
<1>1. IInv => CleanHandover
  BY DEF IInv, SessionFits, Clean, CleanHandover
<1> QED  BY <1>1, Invariant, PTL

(* What a call or a commit has reported as done is never undone by a later *)
(* user of the connection.                                                 *)
THEOREM DoneStaysDone == Sound => (Spec => []Durable)
<1> SUFFICES ASSUME Sound PROVE Spec => []Durable
  OBVIOUS
<1>1. IInv => Durable
  BY DEF IInv
<1> QED  BY <1>1, Invariant, PTL

(* What was reported as undone is not in the database, and does not get    *)
(* there with a later commit.                                              *)
THEOREM UndoneStaysUndone == Sound => (Spec => []NoResidue)
<1> SUFFICES ASSUME Sound PROVE Spec => []NoResidue
  OBVIOUS
<1>1. IInv => NoResidue
  BY DEF IInv
<1> QED  BY <1>1, Invariant, PTL

(* From its first call to its last a body is in a transaction, by the flag *)
(* and by the engine.                                                      *)
THEOREM BodiesInTransactions == Sound => (Spec => []BodyInTransaction)
<1> SUFFICES ASSUME Sound PROVE Spec => []BodyInTransaction
  OBVIOUS
<1>1. IInv => BodyInTransaction
  BY DEF IInv, SessionFits, InsideTransaction, BodyInTransaction
<1> QED  BY <1>1, Invariant, PTL

(* Transaction's destructor never throws, and the connection always comes  *)
(* back, through both rollbacks and the migration's handler.               *)
THEOREM ConnectionComesBack == Sound => (Spec => []NeverLost)
<1> SUFFICES ASSUME Sound PROVE Spec => []NeverLost
  OBVIOUS
<1>1. IInv => NeverLost
  BY DEF IInv
<1> QED  BY <1>1, Invariant, PTL

(* A call in a body leaves the database as it is: what it writes waits for *)
(* Transaction::commit.                                                    *)
THEOREM CommitAloneCommits == Sound => (Spec => OnlyCommitCommits)
<1> SUFFICES ASSUME Sound PROVE Spec => OnlyCommitCommits
  OBVIOUS
<1>1. IInv /\ [Next]_vars => [mode = "body" /\ ops' # ops => s'.db = s.db]_vars
  <2> SUFFICES ASSUME IInv, Next, mode = "body", ops' # ops PROVE s'.db = s.db
    BY DEF vars
  <2>1. PICK call \in BodyCalls[s.dbms] : BodyCall(call)
    BY DEF Next, LeasePlain, ReleasePlain, PlainCall, RunMigration, StartTransaction,
           Commit, BodyThrows, Abandon, Return, Leave
  <2> QED  BY <2>1, BodyCallKeepsIInv
<1> QED  BY <1>1, Invariant, PTL DEF Spec, OnlyCommitCommits
=============================================================================
