----------------------- MODULE DriverConnectionProofs -----------------------
(***************************************************************************)
(* What the methods of the drivers do to a session, for every engine and   *)
(* every fault but the loss of the server: lemmas for the proofs about the *)
(* modules that use connections.  A script of writes is treated at any     *)
(* length, by induction.                                                   *)
(***************************************************************************)
EXTENDS DriverConnection, WellFoundedInduction, TLAPS

(* Induction over the natural numbers, with a set of numbers in place of a *)
(* predicate.  What holds of 0, and of n + 1 when it holds of n, holds of  *)
(* all: there is no least number of which it does not hold.                *)
LEMMA InductionOnNat ==
  ASSUME NEW Q, 0 \in Q, \A n \in Nat : n \in Q => n + 1 \in Q
  PROVE  Nat \subseteq Q
<1> SUFFICES ASSUME Nat \ Q # {} PROVE FALSE
  OBVIOUS
<1> DEFINE R == {ss \in Nat \X Nat : ss[1] < ss[2]}
<1>1. IsWellFoundedOn(R, Nat)
  BY NatLessThanWellFounded DEF OpToRel
<1>2. PICK n \in Nat \ Q : \A m \in Nat \ Q : <<m, n>> \notin R
  BY <1>1, WFMin, Zenon
<1>3. n - 1 \in Nat \ Q
  OBVIOUS
<1>4. <<n - 1, n>> \in R
  BY <1>3
<1> QED  BY <1>2, <1>3, <1>4

(* f[n]: the outcomes after the first n statements of a script. *)
IsRun(sts, x, m, f) ==
  /\ f = [n \in 0 .. m |-> f[n]]
  /\ f[0] = {Done(x)}
  /\ \A n \in 0 .. m - 1 : f[n + 1] = Then(f[n], sts[n + 1])

(* There is such a function for every script. *)
LEMMA RunsExist ==
  ASSUME NEW sts, NEW x
  PROVE  \A m \in Nat : \E f : IsRun(sts, x, m, f)
<1> DEFINE Q == {m \in Nat : \E f : IsRun(sts, x, m, f)}
<1>1. 0 \in Q
  <2> DEFINE f == [n \in 0 .. 0 |-> {Done(x)}]
  <2>1. IsRun(sts, x, 0, f)
    BY DEF IsRun
  <2> QED BY <2>1
<1>2. ASSUME NEW m \in Nat, m \in Q PROVE m + 1 \in Q
  <2>1. PICK f : IsRun(sts, x, m, f)
    BY <1>2
  <2> DEFINE g == [n \in 0 .. m + 1 |-> IF n = m + 1 THEN Then(f[m], sts[m+1]) ELSE f[n]]
  <2>2. ASSUME NEW n \in 0 .. m PROVE g[n + 1] = Then(g[n], sts[n + 1])
    <3>1. CASE n = m
      BY <3>1
    <3>2. CASE n # m
      <4>1. n \in 0 .. m - 1
        BY <3>2
      <4>2. f[n + 1] = Then(f[n], sts[n + 1])
        BY <2>1, <4>1 DEF IsRun
      <4> QED BY <4>1, <4>2
    <3> QED BY <3>1, <3>2
  <2>3. g[0] = {Done(x)}
    BY <2>1 DEF IsRun
  <2>4. g = [n \in 0 .. m + 1 |-> g[n]] /\ (m + 1) - 1 = m
    OBVIOUS
  <2>5. IsRun(sts, x, m + 1, g)
    <3> HIDE DEF g
    <3> QED BY <2>2, <2>3, <2>4 DEF IsRun
  <2> QED BY <2>5
<1>3. Nat \subseteq Q
  <2> HIDE DEF Q
  <2> QED BY <1>1, <1>2, InductionOnNat
<1> QED BY <1>3

(* Two such functions agree as far as both go. *)
LEMMA RunsAgree ==
  ASSUME NEW sts, NEW x, NEW k \in Nat, NEW m \in Nat, NEW f, NEW g, 
         IsRun(sts, x, k, f), IsRun(sts, x, m, g)
  PROVE  \A n \in Nat : n <= k /\ n <= m => f[n] = g[n]
<1> DEFINE Q == {n \in Nat : n <= k /\ n <= m => f[n] = g[n]}
<1>1. 0 \in Q
  BY DEF IsRun
<1>2. ASSUME NEW n \in Nat, n \in Q PROVE n + 1 \in Q
  <2> SUFFICES ASSUME n + 1 <= k, n + 1 <= m PROVE f[n+1] = g[n+1]
    OBVIOUS
  <2>1. f[n] = g[n]
    BY <1>2
  <2>2. n \in 0 .. k - 1 /\ n \in 0 .. m - 1
    OBVIOUS
  <2>3. f[n+1] = Then(f[n], sts[n+1]) /\ g[n+1] = Then(g[n], sts[n+1])
    BY <2>2 DEF IsRun
  <2> QED BY <2>1, <2>3
<1>3. Nat \subseteq Q
  <2> HIDE DEF Q
  <2> QED BY <1>1, <1>2, InductionOnNat
<1> QED BY <1>3

(* InOrder is the last value of one. *)
LEMMA InOrderIsRun ==
  ASSUME NEW sts, NEW x, Len(sts) \in Nat
  PROVE  \E f : IsRun(sts, x, Len(sts), f) /\ InOrder(sts, x) = f[Len(sts)]
<1> DEFINE G(after) == [n \in 0 .. Len(sts) |-> IF n = 0 THEN {Done(x)} ELSE Then(after[n - 1], sts[n])]
           f == CHOOSE after : after = G(after)
<1>1. PICK g : IsRun(sts, x, Len(sts), g)
  BY RunsExist
<1>2. g = G(g)
  <2>1. ASSUME NEW n \in 0 .. Len(sts) PROVE g[n] = G(g)[n]
    <3>1. CASE n = 0
      BY <1>1, <3>1 DEF IsRun
    <3>2. CASE n # 0
      <4>1. n - 1 \in 0 .. Len(sts) - 1 /\ (n - 1) + 1 = n
        BY <3>2
      <4>2. g[(n - 1) + 1] = Then(g[n - 1], sts[(n - 1) + 1])
        BY <4>1, <1>1 DEF IsRun
      <4> QED BY <4>1, <4>2, <3>2
    <3> QED BY <3>1, <3>2
  <2>2. g = [n \in 0 .. Len(sts) |-> g[n]]
    BY <1>1 DEF IsRun
  <2>3. G(g) = [n \in 0 .. Len(sts) |-> G(g)[n]]
    OBVIOUS
  <2> HIDE DEF G
  <2> QED BY <2>1, <2>2, <2>3
<1>3. f = G(f)
  <2> HIDE DEF G
  <2> QED BY <1>2, Zenon
<1>4. InOrder(sts, x) = f[Len(sts)]
  BY DEF InOrder
<1> HIDE DEF f
<1>5. IsRun(sts, x, Len(sts), f)
  <2>1. f[0] = {Done(x)}
    BY <1>3
  <2>2. ASSUME NEW n \in 0 .. Len(sts) - 1 PROVE f[n + 1] = Then(f[n], sts[n + 1])
    <3>1. n + 1 \in 0 .. Len(sts) /\ n + 1 # 0 /\ (n + 1) - 1 = n
      OBVIOUS
    <3> QED BY <1>3, <3>1
  <2>3. f = [n \in 0 .. Len(sts) |-> f[n]]
    BY <1>3
  <2> QED BY <2>1, <2>2, <2>3 DEF IsRun
<1> QED BY <1>4, <1>5 DEF IsRun

(* What a script does: nothing, or what it does without its last statement, *)
(* and then the last one.                                                   *)
LEMMA InOrderEmpty == ASSUME NEW x PROVE InOrder(<<>>, x) = {Done(x)}
<1>1. PICK f : IsRun(<<>>, x, 0, f) /\ InOrder(<<>>, x) = f[0]
  BY InOrderIsRun
<1> QED BY <1>1 DEF IsRun

(* What a script does is what it does without its last statement, and then *)
(* the last one.                                                           *)
LEMMA InOrderAppend ==
  ASSUME NEW S, NEW sts \in Seq(S), NEW st \in S, NEW x
  PROVE  InOrder(Append(sts, st), x) = Then(InOrder(sts, x), st)
<1> DEFINE all == Append(sts, st)
<1>0. Len(sts) \in Nat /\ Len(all) = Len(sts) + 1 /\ all[Len(sts) + 1] = st
      /\ \A n \in 1 .. Len(sts) : all[n] = sts[n]
  OBVIOUS
<1> HIDE DEF all
<1>1. PICK f : IsRun(all, x, Len(all), f) /\ InOrder(all, x) = f[Len(all)]
  BY <1>0, InOrderIsRun
<1>2. PICK g : IsRun(sts, x, Len(sts), g) /\ InOrder(sts, x) = g[Len(sts)]
  BY <1>0, InOrderIsRun
<1>3. f[Len(all)] = Then(f[Len(sts)], st)
  <2>1. Len(sts) \in 0 .. Len(all) - 1
    BY <1>0
  <2> QED BY <1>0, <1>1, <2>1 DEF IsRun
<1>4. IsRun(all, x, Len(sts), g)
  BY <1>0, <1>2 DEF IsRun
<1>5. f[Len(sts)] = g[Len(sts)]
  BY <1>0, <1>1, <1>4, RunsAgree
<1> QED BY <1>1, <1>2, <1>3, <1>5 DEF all
-----------------------------------------------------------------------------
WriteStatements == Nat \X Nat
Sessions ==
  [dbms : Engines, flag : BOOLEAN, engine : {"auto", "open", "aborted", "lost"},
   work : SUBSET WriteStatements, db : SUBSET WriteStatements]

(* Between transactions, and in one, flag and engine agree.                *)
Clean(x) == ~x.flag /\ x.engine = "auto" /\ x.work = {}
InsideTransaction(x) == x.flag /\ x.engine = "open"

(* No transaction is open, but PostgreSQL's flag may have stayed up after  *)
(* a COMMIT that was refused.                                              *)
Idle(x) == x.engine = "auto" /\ x.work = {} /\ (x.flag => ~Sqlite(x))

(* What becomes of a session whose transaction is undone, or kept.         *)
Undone(x) == [x EXCEPT !.flag = FALSE, !.engine = "auto", !.work = {}]
Kept(x) == [x EXCEPT !.flag = FALSE, !.engine = "auto", !.work = {}, !.db = @ \cup x.work]

(* A commit leaves what a rollback leaves, and the writes. *)
LEMMA KeptIsUndoneAndMore ==
  ASSUME NEW x \in Sessions
  PROVE  Kept(x) = [Undone(x) EXCEPT !.db = x.db \cup x.work]
BY DEF Kept, Undone, Sessions

(* The server stays. *)
Reliable(d) == "lost" \notin Faults[d]

(* The fields of an outcome. *)
LEMMA OutcomeParts ==
  \A z : /\ Done(z).ok = TRUE /\ Done(z).s = z
         /\ Failed(z).ok = FALSE /\ Failed(z).s = z
BY DEF Done, Failed

(* No statement is taken for another, so Exec takes one branch of its      *)
(* CASE.                                                                   *)
LEMMA StatementsDiffer ==
  /\ <<"BEGIN">> # <<"COMMIT">> /\ <<"BEGIN">> # <<"ROLLBACK">> /\ <<"COMMIT">> # <<"ROLLBACK">>
  /\ <<"SELECT">> \notin {<<"BEGIN">>, <<"COMMIT">>, <<"ROLLBACK">>}
  /\ \A op, row : <<op, row>> \notin {<<"BEGIN">>, <<"COMMIT">>, <<"ROLLBACK">>, <<"SELECT">>}
OBVIOUS

(* What an engine that stays does with each kind of statement. *)
LEMMA ExecIs ==
  ASSUME NEW x, Reliable(x.dbms)
  PROVE  /\ Exec(<<"BEGIN">>, x) = ExecBegin(x)
         /\ Exec(<<"COMMIT">>, x) = ExecCommit(x)
         /\ Exec(<<"ROLLBACK">>, x) = ExecRollback(x)
         /\ Exec(<<"SELECT">>, x) = ExecRead(x)
         /\ \A w \in WriteStatements : Exec(w, x) = ExecWrite(w, x)
<1>1. \A w \in WriteStatements : w \notin {<<"BEGIN">>, <<"COMMIT">>, <<"ROLLBACK">>, <<"SELECT">>}
  BY StatementsDiffer DEF WriteStatements
<1> QED  BY <1>1, StatementsDiffer DEF Exec, If, Reliable

(* BEGIN from a clean session. *)
LEMMA BeginOutcome ==
  ASSUME NEW x \in Sessions, Clean(x), Reliable(x.dbms), NEW o \in BeginTransaction(x)
  PROVE  o = Done([x EXCEPT !.flag = TRUE, !.engine = "open"])
<1>1. o \in SetFlagAround(<<"BEGIN">>, TRUE, x)
  BY DEF BeginTransaction, Clean
<1>2. CASE Sqlite(x)
  <2> DEFINE y == [x EXCEPT !.flag = TRUE]
  <2>1. y.dbms = x.dbms /\ y.engine = "auto"
    BY DEF Clean, Sessions
  <2>2. o \in ExecBegin(y)
    BY <1>1, <1>2, <2>1, ExecIs DEF SetFlagAround
  <2> QED  BY <2>1, <2>2 DEF ExecBegin, Sessions
<1>3. CASE ~Sqlite(x)
  <2>1. PICK p \in ExecBegin(x) : o = IF p.ok THEN Done([p.s EXCEPT !.flag = TRUE]) ELSE p
    BY <1>1, <1>3, ExecIs DEF SetFlagAround
  <2>2. p = Done([x EXCEPT !.engine = "open"])
    BY <2>1 DEF ExecBegin, Clean
  <2> QED  BY <2>1, <2>2 DEF Done, Sessions
<1> QED  BY <1>2, <1>3

(* ROLLBACK of an open transaction undoes it; without the flag nothing     *)
(* happens.                                                                *)
LEMMA RollbackOutcome ==
  ASSUME NEW x \in Sessions, Reliable(x.dbms), NEW o \in RollbackTransaction(x)
  PROVE  /\ ~x.flag => o = Done(x)
         /\ x.flag /\ x.engine \in {"open", "aborted"} => o = Done(Undone(x))
         /\ x.flag /\ x.engine = "auto" => 
              o = IF Sqlite(x) THEN Failed([x EXCEPT !.flag = FALSE]) ELSE Done([x EXCEPT !.flag = FALSE])
<1>1. CASE ~x.flag
  BY <1>1 DEF RollbackTransaction, InsideTransaction
<1>2. CASE x.flag /\ Sqlite(x)
  <2> DEFINE y == [x EXCEPT !.flag = FALSE]
  <2>1. y.dbms = x.dbms /\ y.engine = x.engine /\ Sqlite(y)
    BY <1>2 DEF Sessions, Sqlite
  <2>2. o \in ExecRollback(y)
    BY <1>2, <2>1, ExecIs DEF RollbackTransaction, SetFlagAround
  <2>3. x.engine \in {"open", "aborted"} => o = Done(Discard(y))
    BY <2>1, <2>2 DEF ExecRollback
  <2>4. Discard(y) = Undone(x)
    BY DEF Discard, Undone, Sessions
  <2>5. x.engine = "auto" => o = Failed(y)
    BY <2>1, <2>2 DEF ExecRollback
  <2> QED  BY <1>2, <2>3, <2>4, <2>5 DEF InsideTransaction
<1>3. CASE x.flag /\ ~Sqlite(x)
  <2>1. PICK p \in ExecRollback(x) : o = IF p.ok THEN Done([p.s EXCEPT !.flag = FALSE]) ELSE p
    BY <1>3, ExecIs DEF RollbackTransaction, SetFlagAround
  <2>2. x.engine \in {"open", "aborted"} => p = Done(Discard(x))
    BY <2>1 DEF ExecRollback
  <2>3. x.engine = "auto" => p = Done(x)
    BY <2>1, <1>3 DEF ExecRollback
  <2>4. [Discard(x) EXCEPT !.flag = FALSE] = Undone(x)
    BY DEF Discard, Undone, Sessions
  <2>5. x.engine \in {"open", "aborted"} => o = Done(Undone(x))
    BY <2>1, <2>2, <2>4, OutcomeParts
  <2>6. x.engine = "auto" => o = Done([x EXCEPT !.flag = FALSE])
    BY <2>1, <2>3, OutcomeParts
  <2> QED  BY <1>3, <2>5, <2>6 DEF InsideTransaction
<1> QED  BY <1>1, <1>2, <1>3

(* COMMIT of an open transaction: done, or undone.  PostgreSQL's driver is *)
(* left with a flag that the next rollback takes back.                     *)
LEMMA EndOutcome ==
  ASSUME NEW x \in Sessions, InsideTransaction(x), Reliable(x.dbms),
         Sqlite(x) => "commit" \notin Faults[x.dbms],
         NEW o \in EndTransaction(x)
  PROVE  \/ o = Done(Kept(x))
         \/ Sqlite(x) /\ o = Failed(Undone(x))
         \/ /\ ~Sqlite(x) /\ Faults[x.dbms] \cap {"commit", "full"} # {}
            /\ o = Failed([Undone(x) EXCEPT !.flag = TRUE])
<1>1. o \in SetFlagAround(<<"COMMIT">>, FALSE, x)
  BY DEF EndTransaction, InsideTransaction
<1>2. CASE Sqlite(x)
  <2> DEFINE y == [x EXCEPT !.flag = FALSE]
  <2>1. y.dbms = x.dbms /\ y.engine = "open" /\ Sqlite(y) /\ y.work = x.work
    BY <1>2 DEF Sessions, Sqlite, InsideTransaction
  <2>2. o \in ExecCommit(y)
    BY <1>1, <1>2, <2>1, ExecIs DEF SetFlagAround
  <2>3. o \in {Done(Keep(y)), Failed(Discard(y))}
    BY <1>2, <2>1, <2>2 DEF ExecCommit, If
  <2>4. Keep(y) = Kept(x) /\ Discard(y) = Undone(x)
    BY DEF Keep, Kept, Discard, Undone, Sessions
  <2> QED  BY <1>2, <2>3, <2>4
<1>3. CASE ~Sqlite(x)
  <2>1. PICK p \in ExecCommit(x) : o = IF p.ok THEN Done([p.s EXCEPT !.flag = FALSE]) ELSE p
    BY <1>1, <1>3, ExecIs DEF SetFlagAround
  <2>2. \/ p = Done(Keep(x))
        \/ p = Failed(Discard(x)) /\ Faults[x.dbms] \cap {"commit", "full"} # {}
    BY <1>3, <2>1 DEF ExecCommit, If, InsideTransaction
  <2>3. [Keep(x) EXCEPT !.flag = FALSE] = Kept(x) /\ Discard(x) = [Undone(x) EXCEPT !.flag = TRUE]
    BY DEF Keep, Kept, Discard, Undone, Sessions, InsideTransaction
  <2>4. p = Done(Keep(x)) => o = Done(Kept(x))
    BY <2>1, <2>3, OutcomeParts
  <2>5. p = Failed(Discard(x)) => o = Failed([Undone(x) EXCEPT !.flag = TRUE])
    BY <2>1, <2>3, OutcomeParts
  <2> QED  BY <1>3, <2>2, <2>4, <2>5
<1> QED  BY <1>2, <1>3

(* A session in which a statement of a transaction has failed: open still, *)
(* refusing everything, or ended by the engine.  The flag has not moved.   *)
FailedIn(x, y) ==
  /\ y \in Sessions
  /\ y.dbms = x.dbms /\ y.flag = x.flag /\ y.db = x.db
  /\ y.engine \in {"open", "aborted"} \/ (y.engine = "auto" /\ y.work = {})

(* The rollback that follows a failed statement undoes the transaction,    *)
(* whatever the engine made of the failure.                                *)
LEMMA FailedInIsUndone ==
  ASSUME NEW x \in Sessions, x.flag, NEW y, FailedIn(x, y), Reliable(x.dbms), NEW o \in RollbackTransaction(y)
  PROVE  o.s = Undone(x)
<1>1. y \in Sessions /\ Reliable(y.dbms) /\ y.flag
  BY DEF FailedIn
<1>2. CASE y.engine \in {"open", "aborted"}
  <2>1. o = Done(Undone(y))
    BY <1>1, <1>2, RollbackOutcome
  <2>2. Undone(y) = Undone(x)
    BY DEF FailedIn, Undone, Sessions
  <2> QED  BY <2>1, <2>2, OutcomeParts
<1>3. CASE y.engine = "auto" /\ y.work = {}
  <2>1. o.s = [y EXCEPT !.flag = FALSE]
    BY <1>1, <1>3, RollbackOutcome, OutcomeParts
  <2>2. [y EXCEPT !.flag = FALSE] = Undone(x)
    BY <1>3 DEF FailedIn, Undone, Sessions
  <2> QED  BY <2>1, <2>2
<1> QED  BY <1>2, <1>3 DEF FailedIn

(* A write, in a transaction and outside of one. *)
LEMMA WriteOutcome ==
  ASSUME NEW x \in Sessions, NEW w \in WriteStatements, NEW o \in ExecWrite(w, x)
  PROVE  /\ x.engine = "open" =>
              \/ o = Done([x EXCEPT !.work = @ \cup {w}])
              \/ ~o.ok /\ FailedIn(x, o.s)
         /\ x.engine = "auto" =>
              \/ o = Done([x EXCEPT !.db = @ \cup {w}])
              \/ o = Failed(x)
<1>1. CASE x.engine = "open"
  <2>1. \/ o = Done([x EXCEPT !.work = @ \cup {w}])
        \/ o = Failed(x)
        \/ o = Failed([x EXCEPT !.engine = "aborted"])
        \/ o = Failed(Discard(x))
    BY <1>1 DEF ExecWrite, If
  <2>2. FailedIn(x, x) /\ FailedIn(x, [x EXCEPT !.engine = "aborted"]) /\ FailedIn(x, Discard(x))
    BY <1>1 DEF FailedIn, Discard, Sessions
  <2> QED  BY <1>1, <2>1, <2>2, OutcomeParts
<1>2. CASE x.engine = "auto"
  BY <1>2 DEF ExecWrite, If
<1> QED  BY <1>1, <1>2

(* A read, in a transaction and outside of one. *)
LEMMA ReadOutcome ==
  ASSUME NEW x \in Sessions, NEW o \in ExecRead(x)
  PROVE  /\ x.engine = "open" => o = Done(x) \/ (~o.ok /\ FailedIn(x, o.s))
         /\ x.engine = "auto" => o = Done(x) \/ o = Failed(x)
<1>1. PICK p \in ExecWrite(<<"SELECT">>, x) : o = IF p.ok THEN Done(x) ELSE p
  BY DEF ExecRead
<1>2. CASE x.engine = "open"
  <2>1. \/ p = Done([x EXCEPT !.work = @ \cup {<<"SELECT">>}])
        \/ p = Failed(x)
        \/ p = Failed([x EXCEPT !.engine = "aborted"])
        \/ p = Failed(Discard(x))
    BY <1>1, <1>2 DEF ExecWrite, If
  <2>2. FailedIn(x, x) /\ FailedIn(x, [x EXCEPT !.engine = "aborted"]) /\ FailedIn(x, Discard(x))
    BY <1>2 DEF FailedIn, Discard, Sessions
  <2> QED  BY <1>1, <1>2, <2>1, <2>2, OutcomeParts
<1>3. CASE x.engine = "auto"
  <2>1. \/ p = Done([x EXCEPT !.db = @ \cup {<<"SELECT">>}])
        \/ p = Failed(x)
    BY <1>1, <1>3 DEF ExecWrite, If
  <2> QED  BY <1>1, <1>3, <2>1, OutcomeParts
<1> QED  BY <1>2, <1>3

(* One statement from one session. *)
LEMMA ThenOfOne ==
  ASSUME NEW x, NEW st
  PROVE  Then({Done(x)}, st) = Exec(st, x) /\ Then({Failed(x)}, st) = {Failed(x)}
BY OutcomeParts DEF Then, AndThen

(* A script of one statement. *)
LEMMA InOrderSingle ==
  ASSUME NEW x, NEW st
  PROVE  InOrder(<<st>>, x) = Exec(st, x)
<1>1. <<st>> = Append(<<>>, st) /\ <<>> \in Seq({st})
  OBVIOUS
<1>2. InOrder(<<st>>, x) = Then(InOrder(<<>>, x), st)
  BY <1>1, InOrderAppend
<1> QED  BY <1>2, InOrderEmpty, ThenOfOne

(* Any number of writes in a transaction. *)
Wrote(x, sts) == [x EXCEPT !.work = @ \cup ToSet(sts)]

(* The fields of a session that has written. *)
LEMMA WroteParts ==
  ASSUME NEW x \in Sessions, NEW sts \in Seq(WriteStatements)
  PROVE  /\ Wrote(x, sts) \in Sessions
         /\ Wrote(x, sts).dbms = x.dbms /\ Wrote(x, sts).flag = x.flag
         /\ Wrote(x, sts).engine = x.engine /\ Wrote(x, sts).db = x.db
         /\ Wrote(x, sts).work = x.work \cup ToSet(sts)
         /\ Undone(Wrote(x, sts)) = Undone(x)
<1>1. ToSet(sts) \subseteq WriteStatements
  BY DEF ToSet
<1> QED  BY <1>1 DEF Wrote, Undone, Sessions

(* Any number of writes in a transaction: all are done, or one has failed. *)
LEMMA WritesInOrder ==
  ASSUME NEW x \in Sessions, x.engine = "open", Reliable(x.dbms), NEW sts \in Seq(WriteStatements),
         NEW o \in InOrder(sts, x)
  PROVE  o = Done(Wrote(x, sts)) \/ (~o.ok /\ FailedIn(x, o.s))
<1> DEFINE P(out, ss) == out = Done(Wrote(x, ss)) \/ (~out.ok /\ FailedIn(x, out.s))
           Q == {n \in Nat : \A ss \in Seq(WriteStatements) : Len(ss) = n => \A out \in InOrder(ss, x) : P(out, ss)}
<1>1. 0 \in Q
  <2> SUFFICES ASSUME NEW ss \in Seq(WriteStatements), Len(ss) = 0, NEW out \in InOrder(ss, x) PROVE P(out, ss)
    OBVIOUS
  <2>1. ss = <<>> /\ out = Done(x)
    BY InOrderEmpty
  <2>2. Wrote(x, <<>>) = x
    BY DEF Wrote, ToSet, Sessions
  <2> QED  BY <2>1, <2>2
<1>2. ASSUME NEW n \in Nat, n \in Q PROVE n + 1 \in Q
  <2> SUFFICES ASSUME NEW ss \in Seq(WriteStatements), Len(ss) = n + 1, NEW out \in InOrder(ss, x) PROVE P(out, ss)
    OBVIOUS
  <2> DEFINE most == SubSeq(ss, 1, n)
             last == ss[n + 1]
  <2>1. most \in Seq(WriteStatements) /\ Len(most) = n /\ last \in WriteStatements /\ ss = Append(most, last)
    OBVIOUS
  <2>2. ToSet(ss) = ToSet(most) \cup {last}
    <3>1. \A i \in 1 .. n : ss[i] = most[i]
      OBVIOUS
    <3>2. DOMAIN ss = (1 .. n) \cup {n + 1} /\ DOMAIN most = 1 .. n
      OBVIOUS
    <3> QED  BY <3>1, <3>2 DEF ToSet
  <2> HIDE DEF most, last
  <2>3. out \in Then(InOrder(most, x), last)
    BY <2>1, InOrderAppend
  <2>4. PICK p \in InOrder(most, x) : out \in (IF p.ok THEN Exec(last, p.s) ELSE {p})
    BY <2>3 DEF Then, AndThen
  <2>5. P(p, most)
    BY <1>2, <2>1, <2>4
  <2>6. CASE p = Done(Wrote(x, most))
    <3> DEFINE y == Wrote(x, most)
    <3>1. y \in Sessions /\ y.dbms = x.dbms /\ y.engine = "open"
      BY <2>1 DEF Wrote, Sessions, ToSet
    <3>2. out \in ExecWrite(last, y)
      BY <2>1, <2>4, <2>6, <3>1, ExecIs, OutcomeParts
    <3>3. [y EXCEPT !.work = @ \cup {last}] = Wrote(x, ss)
      BY <2>2 DEF Wrote, Sessions
    <3>4. \A z : FailedIn(y, z) => FailedIn(x, z)
      BY DEF FailedIn, Wrote, Sessions
    <3> HIDE DEF y
    <3> QED  BY <2>1, <3>1, <3>2, <3>3, <3>4, WriteOutcome
  <2>7. CASE ~p.ok /\ FailedIn(x, p.s)
    BY <2>4, <2>7
  <2> QED  BY <2>5, <2>6, <2>7
<1>3. Nat \subseteq Q
  <2> HIDE DEF Q
  <2> QED  BY <1>1, <1>2, InductionOnNat
<1> QED  BY <1>3

(* run_query in a transaction: all of it, or the transaction is undone. *)
LEMMA QueryInTransaction ==
  ASSUME NEW x \in Sessions, InsideTransaction(x), Reliable(x.dbms), NEW sts \in Seq(WriteStatements),
         NEW o \in RunQuery(sts, x)
  PROVE  o = Done(Wrote(x, sts)) \/ o = Failed(Undone(x))
<1>1. ExecScript(sts, x) = InOrder(sts, x)
  BY DEF ExecScript, InsideTransaction
<1>2. PICK p \in InOrder(sts, x) : o \in (IF p.ok THEN {p} ELSE {Failed(r.s) : r \in RollbackTransaction(p.s)})
  BY <1>1 DEF RunQuery, RunQueryUnsafe
<1>3. CASE p = Done(Wrote(x, sts))
  BY <1>2, <1>3, OutcomeParts
<1>4. CASE ~p.ok /\ FailedIn(x, p.s)
  BY <1>2, <1>4, FailedInIsUndone DEF InsideTransaction
<1> QED  BY <1>2, <1>3, <1>4, WritesInOrder DEF InsideTransaction

(* run_query of a SELECT in a transaction: nothing changes, or the         *)
(* transaction is undone.                                                  *)
LEMMA ReadInTransaction ==
  ASSUME NEW x \in Sessions, InsideTransaction(x), Reliable(x.dbms),
         NEW o \in RunQuery(<<<<"SELECT">>>>, x)
  PROVE  o = Done(x) \/ o = Failed(Undone(x))
<1>1. ExecScript(<<<<"SELECT">>>>, x) = ExecRead(x)
  BY InOrderSingle, ExecIs DEF ExecScript, InsideTransaction
<1>2. PICK p \in ExecRead(x) : o \in (IF p.ok THEN {p} ELSE {Failed(r.s) : r \in RollbackTransaction(p.s)})
  BY <1>1 DEF RunQuery, RunQueryUnsafe
<1>3. CASE p = Done(x)
  BY <1>2, <1>3, OutcomeParts
<1>4. CASE ~p.ok /\ FailedIn(x, p.s)
  BY <1>2, <1>4, FailedInIsUndone DEF InsideTransaction
<1> QED  BY <1>2, <1>3, <1>4, ReadOutcome DEF InsideTransaction

(* The rollbacks at the end of a Transaction: whatever was open is undone, *)
(* and the flag agrees with the engine again.                              *)
LEMMA LastRollbacks ==
  ASSUME NEW x \in Sessions, Reliable(x.dbms), Idle(x) \/ InsideTransaction(x)
  PROVE  /\ \A o \in RollbackTransaction(x) : o = Done(Undone(x))
         /\ \A o \in BodyThrew(x) \cup BodyReturned(x) : o = Done(Undone(x))
<1>1. \A o \in RollbackTransaction(x) : o = Done(Undone(x))
  <2>1. x.engine = "auto" /\ x.work = {} => [x EXCEPT !.flag = FALSE] = Undone(x)
    BY DEF Undone, Sessions
  <2>2. x.engine = "auto" /\ x.work = {} /\ ~x.flag => x = Undone(x)
    BY DEF Undone, Sessions
  <2> SUFFICES ASSUME NEW o \in RollbackTransaction(x) PROVE o = Done(Undone(x))
    OBVIOUS
  <2>3. /\ ~x.flag => o = Done(x)
        /\ x.flag /\ x.engine \in {"open", "aborted"} => o = Done(Undone(x))
        /\ x.flag /\ x.engine = "auto" =>
             o = IF Sqlite(x) THEN Failed([x EXCEPT !.flag = FALSE]) ELSE Done([x EXCEPT !.flag = FALSE])
    BY RollbackOutcome
  <2> QED  BY <2>1, <2>2, <2>3 DEF Idle, InsideTransaction
<1>2. \A o \in RollbackTransaction(Undone(x)) : o = Done(Undone(x))
  <2>1. Undone(x) \in Sessions /\ Reliable(Undone(x).dbms) /\ ~Undone(x).flag
    BY DEF Undone, Sessions
  <2> QED  BY <2>1, RollbackOutcome
<1> QED  BY <1>1, <1>2, OutcomeParts DEF BodyThrew, BodyReturned

(* A statement outside of a transaction, through either engine. *)
LEMMA ScriptAlone ==
  ASSUME NEW x \in Sessions, Idle(x), Reliable(x.dbms), NEW st, NEW p \in ExecScript(<<st>>, x)
  PROVE  /\ st \in WriteStatements => p = Done([x EXCEPT !.db = @ \cup {st}]) \/ p = Failed(x)
         /\ st = <<"SELECT">> => p = Done(x) \/ p = Failed(x)
<1>1. CASE Sqlite(x)
  <2>1. p \in Exec(st, x)
    BY <1>1, InOrderSingle DEF ExecScript
  <2>2. CASE st \in WriteStatements
    <3>1. p \in ExecWrite(st, x) /\ st # <<"SELECT">>
      BY <2>1, <2>2, ExecIs, StatementsDiffer DEF WriteStatements
    <3> QED  BY <2>2, <3>1, WriteOutcome DEF Idle
  <2>3. CASE st = <<"SELECT">>
    <3>1. p \in ExecRead(x) /\ st \notin WriteStatements
      BY <2>1, <2>3, ExecIs, StatementsDiffer DEF WriteStatements
    <3> QED  BY <2>3, <3>1, ReadOutcome DEF Idle
  <2> QED  BY <2>2, <2>3
<1>2. CASE ~Sqlite(x)
  <2> DEFINE y == [x EXCEPT !.engine = "open"]
  <2>1. PICK q \in Exec(st, y) :
          p = IF q.ok THEN Done(Keep(q.s))
              ELSE Failed(IF q.s.engine = "lost" THEN q.s ELSE Discard(q.s))
    BY <1>2, InOrderSingle DEF ExecScript, Idle
  <2>2. y \in Sessions /\ y.engine = "open" /\ Reliable(y.dbms)
    BY DEF Sessions
  <2>a. (st \in WriteStatements => Exec(st, y) = ExecWrite(st, y)) /\ Exec(<<"SELECT">>, y) = ExecRead(y)
    <3> HIDE DEF y
    <3> QED  BY <2>2, ExecIs
  <2>b. <<"SELECT">> \notin WriteStatements
    BY StatementsDiffer DEF WriteStatements
  <2>3. ~q.ok /\ FailedIn(y, q.s) => p = Failed(x)
    <3> SUFFICES ASSUME ~q.ok, FailedIn(y, q.s) PROVE p = Failed(x)
      OBVIOUS
    <3>1. q.s.engine # "lost" /\ Discard(q.s) = x
      BY DEF FailedIn, Discard, Sessions, Idle
    <3> QED  BY <2>1, <3>1
  <2>4. CASE st \in WriteStatements
    <3>1. q \in ExecWrite(st, y) /\ st # <<"SELECT">>
      BY <2>1, <2>a, <2>b, <2>4
    <3>2. Keep([y EXCEPT !.work = @ \cup {st}]) = [x EXCEPT !.db = @ \cup {st}]
      BY DEF Keep, Sessions, Idle
    <3>3. q = Done([y EXCEPT !.work = @ \cup {st}]) \/ (~q.ok /\ FailedIn(y, q.s))
      BY <2>2, <2>4, <3>1, WriteOutcome
    <3> HIDE DEF y
    <3> QED  BY <2>1, <2>3, <3>1, <3>2, <3>3, OutcomeParts
  <2>5. CASE st = <<"SELECT">>
    <3>1. q \in ExecRead(y) /\ st \notin WriteStatements
      BY <2>1, <2>a, <2>b, <2>5
    <3>2. Keep(y) = x
      BY DEF Keep, Sessions, Idle
    <3>3. q = Done(y) \/ (~q.ok /\ FailedIn(y, q.s))
      BY <2>2, <3>1, ReadOutcome
    <3> HIDE DEF y
    <3> QED  BY <2>1, <2>3, <3>1, <3>2, <3>3, OutcomeParts
  <2> QED  BY <2>4, <2>5
<1> QED  BY <1>1, <1>2

(* A failure takes back the flag, if it was up; nothing was done.          *)
LEMMA QueryIdle ==
  ASSUME NEW x \in Sessions, Idle(x), Reliable(x.dbms), NEW st, NEW o \in RunQuery(<<st>>, x)
  PROVE  /\ st \in WriteStatements => o = Done([x EXCEPT !.db = @ \cup {st}]) \/ o = Failed(Undone(x))
         /\ st = <<"SELECT">> => o = Done(x) \/ o = Failed(Undone(x))
<1>1. PICK p \in ExecScript(<<st>>, x) : o \in (IF p.ok THEN {p} ELSE {Failed(r.s) : r \in RollbackTransaction(p.s)})
  BY DEF RunQuery, RunQueryUnsafe
<1>2. p = Failed(x) => o = Failed(Undone(x))
  <2> SUFFICES ASSUME p = Failed(x) PROVE o = Failed(Undone(x))
    OBVIOUS
  <2>1. PICK r \in RollbackTransaction(x) : o = Failed(r.s)
    BY <1>1, OutcomeParts
  <2>2. r = Done(Undone(x))
    BY <2>1, LastRollbacks
  <2> QED  BY <2>1, <2>2, OutcomeParts
<1>3. \A z : p = Done(z) => o = Done(z)
  BY <1>1, OutcomeParts
<1> QED  BY <1>2, <1>3, ScriptAlone

(* run_query of one statement on a session with no transaction at all. *)
LEMMA QueryAlone ==
  ASSUME NEW x \in Sessions, Clean(x), Reliable(x.dbms), NEW st, NEW o \in RunQuery(<<st>>, x)
  PROVE  /\ st \in WriteStatements => o = Done([x EXCEPT !.db = @ \cup {st}]) \/ o = Failed(x)
         /\ st = <<"SELECT">> => o = Done(x) \/ o = Failed(x)
<1>1. Idle(x) /\ Undone(x) = x
  BY DEF Clean, Idle, Undone, Sessions
<1> QED  BY <1>1, QueryIdle
=============================================================================
