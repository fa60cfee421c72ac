----------------------- MODULE SchemaOperationsProofs -----------------------
(***************************************************************************)
(* What the operators of SchemaOperations return, for every state, catalog *)
(* and operation: the statements one by one, the operations in a row, and  *)
(* the two facts that migrations rest on.  Where an operation is Exact,    *)
(* forward does to the engine's schema what update_state does to the       *)
(* project state; where it is Reversible, backward takes that back.        *)
(***************************************************************************)
EXTENDS SchemaOperations, WellFoundedInduction, TLAPS

(* Induction over the natural numbers, with a set of numbers in place of a *)
(* predicate: {n \in Nat : P(n)} for a P that the caller has defined.      *)

(* A set of numbers that is not empty has a least one. *)
LEMMA LeastNumber ==
  ASSUME NEW T \in SUBSET Nat, T # {}
  PROVE  \E n \in T : \A m \in T : n <= m
<1> DEFINE R == {ss \in Nat \X Nat : ss[1] < ss[2]}
<1>1. IsWellFoundedOn(R, Nat)
  BY NatLessThanWellFounded DEF OpToRel
<1>2. PICK n \in T : \A m \in T : <<m, n>> \notin R
  BY <1>1, WFMin, Zenon
<1>3. ASSUME NEW m \in T PROVE n <= m
  <2>1. n \in Nat /\ m \in Nat
    OBVIOUS
  <2>2. m < n => <<m, n>> \in R
    BY <2>1
  <2> QED  BY <1>2, <2>1, <2>2
<1> QED  BY <1>3

(* What holds of 0, and of n + 1 when it holds of n, holds of all. *)
LEMMA InductionOnNat ==
  ASSUME NEW Q, 0 \in Q, \A n \in Nat : n \in Q => n + 1 \in Q
  PROVE  Nat \subseteq Q
<1> SUFFICES ASSUME Nat \ Q # {} PROVE FALSE
  OBVIOUS
<1>1. PICK n \in Nat \ Q : \A m \in Nat \ Q : n <= m
  BY LeastNumber
<1>2. n - 1 \in Nat \ Q
  OBVIOUS
<1> QED  BY <1>1, <1>2

(* The functions the states are built with, argument by argument.          *)
LEMMA WithIs ==
  ASSUME NEW f, NEW x, NEW v
  PROVE  /\ DOMAIN With(f, x, v) = DOMAIN f \cup {x}
         /\ With(f, x, v)[x] = v
         /\ \A y \in DOMAIN f \ {x} : With(f, x, v)[y] = f[y]
BY DEF With

(* The same for the function without an argument.                          *)
LEMMA WithoutIs ==
  ASSUME NEW f, NEW x
  PROVE  /\ DOMAIN Without(f, x) = DOMAIN f \ {x}
         /\ \A y \in DOMAIN f \ {x} : Without(f, x)[y] = f[y]
BY DEF Without, Restrict

(* The columns are stored one by one.                                      *)
LEMMA StoredWith ==
  ASSUME NEW cols, NEW c, NEW def
  PROVE  /\ StoredColumns(With(cols, c, def)) = With(StoredColumns(cols), c, Stored(def))
         /\ StoredColumns(Without(cols, c)) = Without(StoredColumns(cols), c)
         /\ DOMAIN StoredColumns(cols) = DOMAIN cols
BY DEF StoredColumns, With, Without, Restrict

-----------------------------------------------------------------------------
(* f[n]: what has come of the first n operations.                          *)
IsCourse(ops, st, m, f) ==
  /\ f = [n \in 0 .. m |-> f[n]]
  /\ f[0] = Returns(st)
  /\ \A n \in 0 .. m - 1 : f[n + 1] = Updated(f[n], ops[n + 1])

(* There is such a function for every sequence of operations.              *)
LEMMA CoursesExist ==
  ASSUME NEW ops, NEW st
  PROVE  \A m \in Nat : \E f : IsCourse(ops, st, m, f)
<1> DEFINE Q == {m \in Nat : \E f : IsCourse(ops, st, m, f)}
<1>1. 0 \in Q
  <2> DEFINE f == [n \in 0 .. 0 |-> Returns(st)]
  <2>1. IsCourse(ops, st, 0, f)
    BY DEF IsCourse
  <2> QED BY <2>1
<1>2. ASSUME NEW m \in Nat, m \in Q PROVE m + 1 \in Q
  <2>1. PICK f : IsCourse(ops, st, m, f)
    BY <1>2
  <2> DEFINE g == [n \in 0 .. m + 1 |-> IF n = m + 1 THEN Updated(f[m], ops[m+1]) ELSE f[n]]
  <2>2. ASSUME NEW n \in 0 .. m PROVE g[n + 1] = Updated(g[n], ops[n + 1])
    <3>1. CASE n = m
      BY <3>1
    <3>2. CASE n # m
      <4>1. n \in 0 .. m - 1
        BY <3>2
      <4>2. f[n + 1] = Updated(f[n], ops[n + 1])
        BY <2>1, <4>1 DEF IsCourse
      <4> QED BY <4>1, <4>2
    <3> QED BY <3>1, <3>2
  <2>3. g[0] = Returns(st)
    BY <2>1 DEF IsCourse
  <2>4. g = [n \in 0 .. m + 1 |-> g[n]] /\ (m + 1) - 1 = m
    OBVIOUS
  <2>5. IsCourse(ops, st, m + 1, g)
    <3> HIDE DEF g
    <3> QED BY <2>2, <2>3, <2>4 DEF IsCourse
  <2> QED BY <2>5
<1>3. Nat \subseteq Q
  <2> HIDE DEF Q
  <2> QED BY <1>1, <1>2, InductionOnNat
<1> QED BY <1>3

(* Two such functions agree as far as both go.                             *)
LEMMA CoursesAgree ==
  ASSUME NEW ops, NEW st, NEW k \in Nat, NEW m \in Nat, NEW f, NEW g, 
         IsCourse(ops, st, k, f), IsCourse(ops, st, m, g)
  PROVE  \A n \in Nat : n <= k /\ n <= m => f[n] = g[n]
<1> DEFINE Q == {n \in Nat : n <= k /\ n <= m => f[n] = g[n]}
<1>1. 0 \in Q
  BY DEF IsCourse
<1>2. ASSUME NEW n \in Nat, n \in Q PROVE n + 1 \in Q
  <2> SUFFICES ASSUME n + 1 <= k, n + 1 <= m PROVE f[n+1] = g[n+1]
    OBVIOUS
  <2>1. f[n] = g[n]
    BY <1>2
  <2>2. n \in 0 .. k - 1 /\ n \in 0 .. m - 1
    OBVIOUS
  <2>3. f[n+1] = Updated(f[n], ops[n+1]) /\ g[n+1] = Updated(g[n], ops[n+1])
    BY <2>2 DEF IsCourse
  <2> QED BY <2>1, <2>3
<1>3. Nat \subseteq Q
  <2> HIDE DEF Q
  <2> QED BY <1>1, <1>2, InductionOnNat
<1> QED BY <1>3

(* UpdateAll is the last value of one.                                     *)
LEMMA UpdateAllIsCourse ==
  ASSUME NEW ops, NEW st, Len(ops) \in Nat
  PROVE  \E f : IsCourse(ops, st, Len(ops), f) /\ UpdateAll(ops, st) = f[Len(ops)]
<1> DEFINE G(after) == [n \in 0 .. Len(ops) |->
                          IF n = 0 THEN Returns(st) ELSE Updated(after[n - 1], ops[n])]
           f == CHOOSE after : after = G(after)
<1>1. PICK g : IsCourse(ops, st, Len(ops), g)
  BY CoursesExist
<1>2. g = G(g)
  <2>1. ASSUME NEW n \in 0 .. Len(ops) PROVE g[n] = G(g)[n]
    <3>1. CASE n = 0
      BY <1>1, <3>1 DEF IsCourse
    <3>2. CASE n # 0
      <4>1. n - 1 \in 0 .. Len(ops) - 1 /\ (n - 1) + 1 = n
        BY <3>2
      <4>2. g[(n - 1) + 1] = Updated(g[n - 1], ops[(n - 1) + 1])
        BY <4>1, <1>1 DEF IsCourse
      <4> QED BY <4>1, <4>2, <3>2
    <3> QED BY <3>1, <3>2
  <2>2. g = [n \in 0 .. Len(ops) |-> g[n]]
    BY <1>1 DEF IsCourse
  <2>3. G(g) = [n \in 0 .. Len(ops) |-> G(g)[n]]
    OBVIOUS
  <2> HIDE DEF G
  <2> QED BY <2>1, <2>2, <2>3
<1>3. f = G(f)
  <2> HIDE DEF G
  <2> QED BY <1>2, Zenon
<1>4. UpdateAll(ops, st) = f[Len(ops)]
  BY DEF UpdateAll
<1> HIDE DEF f
<1>5. IsCourse(ops, st, Len(ops), f)
  <2>1. f[0] = Returns(st)
    BY <1>3
  <2>2. ASSUME NEW n \in 0 .. Len(ops) - 1 PROVE f[n + 1] = Updated(f[n], ops[n + 1])
    <3>1. n + 1 \in 0 .. Len(ops) /\ n + 1 # 0 /\ (n + 1) - 1 = n
      OBVIOUS
    <3> QED BY <1>3, <3>1
  <2>3. f = [n \in 0 .. Len(ops) |-> f[n]]
    BY <1>3
  <2> QED BY <2>1, <2>2, <2>3 DEF IsCourse
<1> QED BY <1>4, <1>5 DEF IsCourse

(* No operation changes nothing.                                           *)
LEMMA UpdateAllEmpty == ASSUME NEW st PROVE UpdateAll(<<>>, st) = Returns(st)
<1>1. PICK f : IsCourse(<<>>, st, 0, f) /\ UpdateAll(<<>>, st) = f[0]
  BY UpdateAllIsCourse
<1> QED BY <1>1 DEF IsCourse

(* One more operation does what it does to what has come of the others.    *)
LEMMA UpdateAllAppend ==
  ASSUME NEW S, NEW ops \in Seq(S), NEW op \in S, NEW st
  PROVE  UpdateAll(Append(ops, op), st) = Updated(UpdateAll(ops, st), op)
<1> DEFINE all == Append(ops, op)
<1>0. Len(ops) \in Nat /\ Len(all) = Len(ops) + 1 /\ all[Len(ops) + 1] = op
      /\ \A n \in 1 .. Len(ops) : all[n] = ops[n]
  OBVIOUS
<1> HIDE DEF all
<1>1. PICK f : IsCourse(all, st, Len(all), f) /\ UpdateAll(all, st) = f[Len(all)]
  BY <1>0, UpdateAllIsCourse
<1>2. PICK g : IsCourse(ops, st, Len(ops), g) /\ UpdateAll(ops, st) = g[Len(ops)]
  BY <1>0, UpdateAllIsCourse
<1>3. f[Len(all)] = Updated(f[Len(ops)], op)
  <2>1. Len(ops) \in 0 .. Len(all) - 1
    BY <1>0
  <2> QED BY <1>0, <1>1, <2>1 DEF IsCourse
<1>4. IsCourse(all, st, Len(ops), g)
  <2>1. ASSUME NEW n \in 0 .. Len(ops) - 1 PROVE g[n + 1] = Updated(g[n], all[n + 1])
    <3>1. n + 1 \in 1 .. Len(ops)
      BY <1>0
    <3>2. all[n + 1] = ops[n + 1]
      BY <1>0, <3>1
    <3> QED BY <1>2, <3>2 DEF IsCourse
  <2> QED BY <1>2, <2>1 DEF IsCourse
<1>5. f[Len(ops)] = g[Len(ops)]
  BY <1>0, <1>1, <1>4, CoursesAgree
<1> QED BY <1>1, <1>2, <1>3, <1>5 DEF all

(* f[n]: what has come of the first n migrations.                          *)
IsHistory(names, body, j, f) ==
  /\ f = [n \in 0 .. j |-> f[n]]
  /\ f[0] = Returns(NoSchema)
  /\ \A n \in 0 .. j - 1 : f[n + 1] = Migrated(f[n], body[names[n + 1]])

(* There is such a function for every sequence of migrations.              *)
LEMMA HistoriesExist ==
  ASSUME NEW names, NEW body
  PROVE  \A j \in Nat : \E f : IsHistory(names, body, j, f)
<1> DEFINE Q == {j \in Nat : \E f : IsHistory(names, body, j, f)}
<1>1. 0 \in Q
  <2> DEFINE f == [n \in 0 .. 0 |-> Returns(NoSchema)]
  <2>1. IsHistory(names, body, 0, f)
    BY DEF IsHistory
  <2> QED BY <2>1
<1>2. ASSUME NEW j \in Nat, j \in Q PROVE j + 1 \in Q
  <2>1. PICK f : IsHistory(names, body, j, f)
    BY <1>2
  <2> DEFINE g == [n \in 0 .. j + 1 |-> IF n = j + 1 THEN Migrated(f[j], body[names[j+1]]) ELSE f[n]]
  <2>2. ASSUME NEW n \in 0 .. j PROVE g[n + 1] = Migrated(g[n], body[names[n + 1]])
    <3>1. CASE n = j
      BY <3>1
    <3>2. CASE n # j
      <4>1. n \in 0 .. j - 1
        BY <3>2
      <4>2. f[n + 1] = Migrated(f[n], body[names[n + 1]])
        BY <2>1, <4>1 DEF IsHistory
      <4> QED BY <4>1, <4>2
    <3> QED BY <3>1, <3>2
  <2>3. g[0] = Returns(NoSchema)
    BY <2>1 DEF IsHistory
  <2>4. g = [n \in 0 .. j + 1 |-> g[n]] /\ (j + 1) - 1 = j
    OBVIOUS
  <2>5. IsHistory(names, body, j + 1, g)
    <3> HIDE DEF g
    <3> QED BY <2>2, <2>3, <2>4 DEF IsHistory
  <2> QED BY <2>5
<1>3. Nat \subseteq Q
  <2> HIDE DEF Q
  <2> QED BY <1>1, <1>2, InductionOnNat
<1> QED BY <1>3

(* Two such functions agree as far as both go.                             *)
LEMMA HistoriesAgree ==
  ASSUME NEW names, NEW body, NEW k \in Nat, NEW j \in Nat, NEW f, NEW g, 
         IsHistory(names, body, k, f), IsHistory(names, body, j, g)
  PROVE  \A n \in Nat : n <= k /\ n <= j => f[n] = g[n]
<1> DEFINE Q == {n \in Nat : n <= k /\ n <= j => f[n] = g[n]}
<1>1. 0 \in Q
  BY DEF IsHistory
<1>2. ASSUME NEW n \in Nat, n \in Q PROVE n + 1 \in Q
  <2> SUFFICES ASSUME n + 1 <= k, n + 1 <= j PROVE f[n+1] = g[n+1]
    OBVIOUS
  <2>1. f[n] = g[n]
    BY <1>2
  <2>2. n \in 0 .. k - 1 /\ n \in 0 .. j - 1
    OBVIOUS
  <2>3. f[n+1] = Migrated(f[n], body[names[n+1]]) /\ g[n+1] = Migrated(g[n], body[names[n+1]])
    BY <2>2 DEF IsHistory
  <2> QED BY <2>1, <2>3
<1>3. Nat \subseteq Q
  <2> HIDE DEF Q
  <2> QED BY <1>1, <1>2, InductionOnNat
<1> QED BY <1>3

(* MigrateAll is the last value of one.                                    *)
LEMMA MigrateAllIsHistory ==
  ASSUME NEW names, NEW body, Len(names) \in Nat
  PROVE  \E f : IsHistory(names, body, Len(names), f) /\ MigrateAll(body, names) = f[Len(names)]
<1> DEFINE G(after) == [n \in 0 .. Len(names) |->
                          IF n = 0 THEN Returns(NoSchema)
                                   ELSE Migrated(after[n - 1], body[names[n]])]
           f == CHOOSE after : after = G(after)
<1>1. PICK g : IsHistory(names, body, Len(names), g)
  BY HistoriesExist
<1>2. g = G(g)
  <2>1. ASSUME NEW n \in 0 .. Len(names) PROVE g[n] = G(g)[n]
    <3>1. CASE n = 0
      BY <1>1, <3>1 DEF IsHistory
    <3>2. CASE n # 0
      <4>1. n - 1 \in 0 .. Len(names) - 1 /\ (n - 1) + 1 = n
        BY <3>2
      <4>2. g[(n - 1) + 1] = Migrated(g[n - 1], body[names[(n - 1) + 1]])
        BY <4>1, <1>1 DEF IsHistory
      <4> QED BY <4>1, <4>2, <3>2
    <3> QED BY <3>1, <3>2
  <2>2. g = [n \in 0 .. Len(names) |-> g[n]]
    BY <1>1 DEF IsHistory
  <2>3. G(g) = [n \in 0 .. Len(names) |-> G(g)[n]]
    OBVIOUS
  <2> HIDE DEF G
  <2> QED BY <2>1, <2>2, <2>3
<1>3. f = G(f)
  <2> HIDE DEF G
  <2> QED BY <1>2, Zenon
<1>4. MigrateAll(body, names) = f[Len(names)]
  BY DEF MigrateAll
<1> HIDE DEF f
<1>5. IsHistory(names, body, Len(names), f)
  <2>1. f[0] = Returns(NoSchema)
    BY <1>3
  <2>2. ASSUME NEW n \in 0 .. Len(names) - 1 PROVE f[n + 1] = Migrated(f[n], body[names[n + 1]])
    <3>1. n + 1 \in 0 .. Len(names) /\ n + 1 # 0 /\ (n + 1) - 1 = n
      OBVIOUS
    <3> QED BY <1>3, <3>1
  <2>3. f = [n \in 0 .. Len(names) |-> f[n]]
    BY <1>3
  <2> QED BY <2>1, <2>2, <2>3 DEF IsHistory
<1> QED BY <1>4, <1>5 DEF IsHistory

(* No migration makes the empty schema.                                    *)
LEMMA MigrateAllEmpty == ASSUME NEW body PROVE MigrateAll(body, <<>>) = Returns(NoSchema)
<1>1. PICK f : IsHistory(<<>>, body, 0, f) /\ MigrateAll(body, <<>>) = f[0]
  BY MigrateAllIsHistory
<1> QED BY <1>1 DEF IsHistory

(* One more migration does what it does to what has come of the others.    *)
LEMMA MigrateAllAppend ==
  ASSUME NEW S, NEW names \in Seq(S), NEW m \in S, NEW body
  PROVE  MigrateAll(body, Append(names, m)) = Migrated(MigrateAll(body, names), body[m])
<1> DEFINE all == Append(names, m)
<1>0. Len(names) \in Nat /\ Len(all) = Len(names) + 1 /\ all[Len(names) + 1] = m
      /\ \A n \in 1 .. Len(names) : all[n] = names[n]
  OBVIOUS
<1> HIDE DEF all
<1>1. PICK f : IsHistory(all, body, Len(all), f) /\ MigrateAll(body, all) = f[Len(all)]
  BY <1>0, MigrateAllIsHistory
<1>2. PICK g : IsHistory(names, body, Len(names), g) /\ MigrateAll(body, names) = g[Len(names)]
  BY <1>0, MigrateAllIsHistory
<1>3. f[Len(all)] = Migrated(f[Len(names)], body[m])
  <2>1. Len(names) \in 0 .. Len(all) - 1
    BY <1>0
  <2> QED BY <1>0, <1>1, <2>1 DEF IsHistory
<1>4. IsHistory(all, body, Len(names), g)
  <2>1. ASSUME NEW n \in 0 .. Len(names) - 1 PROVE g[n + 1] = Migrated(g[n], body[all[n + 1]])
    <3>1. n + 1 \in 1 .. Len(names)
      BY <1>0
    <3>2. all[n + 1] = names[n + 1]
      BY <1>0, <3>1
    <3> QED BY <1>2, <3>2 DEF IsHistory
  <2> QED BY <1>2, <2>1 DEF IsHistory
<1>5. f[Len(names)] = g[Len(names)]
  BY <1>0, <1>1, <1>4, HistoriesAgree
<1> QED BY <1>1, <1>2, <1>3, <1>5 DEF all

-----------------------------------------------------------------------------
(* The first i operations are the first i - 1 and then the i-th.           *)
LEMMA UpdateAllStep ==
  ASSUME NEW S, NEW ops \in Seq(S), NEW st, NEW i \in 1 .. Len(ops)
  PROVE  UpdateAll(SubSeq(ops, 1, i), st) = Updated(UpdateAll(SubSeq(ops, 1, i - 1), st), ops[i])
<1>1. /\ i - 1 \in Nat /\ SubSeq(ops, 1, i - 1) \in Seq(S) /\ ops[i] \in S
      /\ SubSeq(ops, 1, i) = Append(SubSeq(ops, 1, i - 1), ops[i])
  OBVIOUS
<1> QED  BY <1>1, UpdateAllAppend

(* When all go through, so do the first ones.                              *)
LEMMA UpdateAllPrefixes ==
  ASSUME NEW S, NEW ops \in Seq(S), NEW st, UpdateAll(ops, st).ok
  PROVE  \A i \in 0 .. Len(ops) : UpdateAll(SubSeq(ops, 1, i), st).ok
<1> DEFINE Q == {k \in Nat : k <= Len(ops) => UpdateAll(SubSeq(ops, 1, Len(ops) - k), st).ok}
<1>1. 0 \in Q
  <2>1. SubSeq(ops, 1, Len(ops) - 0) = ops
    OBVIOUS
  <2> QED  BY <2>1
<1>2. ASSUME NEW k \in Nat, k \in Q PROVE k + 1 \in Q
  <2> SUFFICES ASSUME k + 1 <= Len(ops) PROVE UpdateAll(SubSeq(ops, 1, Len(ops) - (k + 1)), st).ok
    OBVIOUS
  <2> DEFINE i == Len(ops) - k
  <2>1. i \in 1 .. Len(ops) /\ i - 1 = Len(ops) - (k + 1)
    OBVIOUS
  <2>2. UpdateAll(SubSeq(ops, 1, i), st).ok
    BY <1>2
  <2> HIDE DEF i
  <2>3. UpdateAll(SubSeq(ops, 1, i), st) = Updated(UpdateAll(SubSeq(ops, 1, i - 1), st), ops[i])
    BY <2>1, UpdateAllStep
  <2>4. UpdateAll(SubSeq(ops, 1, i - 1), st).ok
    BY <2>2, <2>3 DEF Updated
  <2> QED  BY <2>1, <2>4
<1>3. Nat \subseteq Q
  <2> HIDE DEF Q
  <2> QED  BY <1>1, <1>2, InductionOnNat
<1> SUFFICES ASSUME NEW i \in 0 .. Len(ops) PROVE UpdateAll(SubSeq(ops, 1, i), st).ok
  OBVIOUS
<1>4. Len(ops) - i \in Q
  BY <1>3
<1>5. Len(ops) - (Len(ops) - i) = i /\ Len(ops) - i <= Len(ops)
  OBVIOUS
<1> QED  BY <1>4, <1>5

(* The first i migrations are the first i - 1 and then the i-th.           *)
LEMMA MigrateAllStep ==
  ASSUME NEW S, NEW names \in Seq(S), NEW body, NEW i \in 1 .. Len(names)
  PROVE  MigrateAll(body, SubSeq(names, 1, i))
           = Migrated(MigrateAll(body, SubSeq(names, 1, i - 1)), body[names[i]])
<1>1. /\ i - 1 \in Nat /\ SubSeq(names, 1, i - 1) \in Seq(S) /\ names[i] \in S
      /\ SubSeq(names, 1, i) = Append(SubSeq(names, 1, i - 1), names[i])
  OBVIOUS
<1> QED  BY <1>1, MigrateAllAppend

(* When all go through, so do the first ones.                              *)
LEMMA MigrateAllPrefixes ==
  ASSUME NEW S, NEW names \in Seq(S), NEW body, MigrateAll(body, names).ok
  PROVE  \A i \in 0 .. Len(names) : MigrateAll(body, SubSeq(names, 1, i)).ok
<1> DEFINE Q == {k \in Nat :
                   k <= Len(names) => MigrateAll(body, SubSeq(names, 1, Len(names) - k)).ok}
<1>1. 0 \in Q
  <2>1. SubSeq(names, 1, Len(names) - 0) = names
    OBVIOUS
  <2> QED  BY <2>1
<1>2. ASSUME NEW k \in Nat, k \in Q PROVE k + 1 \in Q
  <2> SUFFICES ASSUME k + 1 <= Len(names)
               PROVE  MigrateAll(body, SubSeq(names, 1, Len(names) - (k + 1))).ok
    OBVIOUS
  <2> DEFINE i == Len(names) - k
  <2>1. i \in 1 .. Len(names) /\ i - 1 = Len(names) - (k + 1)
    OBVIOUS
  <2>2. MigrateAll(body, SubSeq(names, 1, i)).ok
    BY <1>2
  <2> HIDE DEF i
  <2>3. MigrateAll(body, SubSeq(names, 1, i))
          = Migrated(MigrateAll(body, SubSeq(names, 1, i - 1)), body[names[i]])
    BY <2>1, MigrateAllStep
  <2>4. MigrateAll(body, SubSeq(names, 1, i - 1)).ok
    BY <2>2, <2>3 DEF Migrated
  <2> QED  BY <2>1, <2>4
<1>3. Nat \subseteq Q
  <2> HIDE DEF Q
  <2> QED  BY <1>1, <1>2, InductionOnNat
<1> SUFFICES ASSUME NEW i \in 0 .. Len(names) PROVE MigrateAll(body, SubSeq(names, 1, i)).ok
  OBVIOUS
<1>4. Len(names) - i \in Q
  BY <1>3
<1>5. Len(names) - (Len(names) - i) = i /\ Len(names) - i <= Len(names)
  OBVIOUS
<1> QED  BY <1>4, <1>5

-----------------------------------------------------------------------------
(* A table of the engine.                                                  *)
IsTable(table) == table = Table(table.cols, table.fks, table.rows)

(* What comes of a guarded statement.                                      *)
LEMMA Outcome ==
  ASSUME NEW guard, NEW v
  PROVE  /\ When(guard, v).ok <=> guard
         /\ When(guard, v).ok => When(guard, v).v = v
BY DEF When, Given, Returns, Throws

(* The statements: when the engine takes one, and what it makes of the     *)
(* catalog.                                                                *)
LEMMA SqlCreateTableIs ==
  ASSUME NEW t, NEW table, NEW cat
  PROVE  LET r == SqlCreateTable(t, table, cat)
         IN  /\ r.ok <=> ~HasTable(cat, t) /\ Creatable(table)
             /\ r.ok => r.v = With(cat, t, Table(StoredColumns(table.cols), table.fks, <<>>))
BY DEF SqlCreateTable, When, Given, Returns, Throws

(* DROP TABLE.                                                             *)
LEMMA SqlDropTableIs ==
  ASSUME NEW t, NEW cat
  PROVE  LET r == SqlDropTable(t, cat)
         IN  /\ r.ok <=> HasTable(cat, t)
             /\ r.ok => r.v = Without(cat, t)
BY DEF SqlDropTable, When, Given, Returns, Throws

(* ALTER TABLE ... RENAME TO.                                              *)
LEMMA SqlRenameTableIs ==
  ASSUME NEW old, NEW new, NEW cat
  PROVE  LET r == SqlRenameTable(old, new, cat)
         IN  /\ r.ok <=> HasTable(cat, old) /\ ~HasTable(cat, new)
             /\ r.ok => r.v = With(Without(cat, old), new, cat[old])
BY DEF SqlRenameTable, When, Given, Returns, Throws

(* ADD COLUMN.                                                             *)
LEMMA SqlAddColumnIs ==
  ASSUME NEW t, NEW c, NEW def, NEW cat
  PROVE  LET r == SqlAddColumn(t, c, def, cat)
             tab == cat[t]
             rows == AddedRows(tab.rows, c, Stored(def))
         IN  /\ r.ok <=> /\ Definable(def) /\ HasTable(cat, t) /\ ~HasColumn(cat, t, c)
                         /\ Addable(Stored(def), tab)
                         /\ Holds(rows, c, Stored(def))
             /\ r.ok => r.v = With(cat, t, Table(With(tab.cols, c, Stored(def)), tab.fks, rows))
BY DEF SqlAddColumn, When, Given, Returns, Throws

(* The rows without a column, and with a column under another name.        *)
RowsWithout(rows, c) == [i \in DOMAIN rows |-> Without(rows[i], c)]
RowsRelabelled(rows, old, new) == [i \in DOMAIN rows |-> Relabelled(rows[i], old, new)]

(* DROP COLUMN.                                                            *)
LEMMA SqlDropColumnIs ==
  ASSUME NEW t, NEW c, NEW cat
  PROVE  LET r == SqlDropColumn(t, c, cat)
             tab == cat[t]
         IN  /\ r.ok <=> HasColumn(cat, t, c)
             /\ r.ok => r.v = With(cat, t, Table(Without(tab.cols, c), tab.fks \ {c},
                                                 RowsWithout(tab.rows, c)))
BY DEF SqlDropColumn, RowsWithout, When, Given, Returns, Throws

(* RENAME COLUMN.                                                          *)
LEMMA SqlRenameColumnIs ==
  ASSUME NEW t, NEW old, NEW new, NEW cat
  PROVE  LET r == SqlRenameColumn(t, old, new, cat)
             tab == cat[t]
         IN  /\ r.ok <=> HasColumn(cat, t, old) /\ ~HasColumn(cat, t, new)
             /\ r.ok => r.v = With(cat, t,
                          Table(With(Without(tab.cols, old), new, tab.cols[old]),
                                Renamed(tab.fks, old, new),
                                RowsRelabelled(tab.rows, old, new)))
BY DEF SqlRenameColumn, RowsRelabelled, Relabelled, When, Given, Returns, Throws

(* ALTER COLUMN puts another definition in the column's place.             *)
LEMMA SetColumnIs ==
  ASSUME NEW t, NEW c, NEW cat, NEW column, IsTable(cat[t])
  PROVE  SetColumn(cat, t, c, column) =
           With(cat, t, Table(With(cat[t].cols, c, column), cat[t].fks, cat[t].rows))
<1>1. [cat[t] EXCEPT !.cols = With(@, c, column)]
        = Table(With(cat[t].cols, c, column), cat[t].fks, cat[t].rows)
  BY DEF IsTable, Table
<1> QED  BY <1>1 DEF SetColumn

(* A table is rebuilt as the state has it.                                 *)
LEMMA RecreateTableIs ==
  ASSUME NEW t, NEW table, NEW source, NEW coalesced, NEW cat
  PROVE  LET r == RecreateTable(t, table, source, coalesced, cat)
             cols == StoredColumns(table.cols)
             rows == CopiedRows(cat[t].rows, cols, source, coalesced)
         IN  /\ r.ok <=> /\ HasTable(cat, t) /\ Creatable(table)
                         /\ DOMAIN source \subseteq DOMAIN cols
                         /\ Range(source) \subseteq DOMAIN cat[t].cols
                         /\ \A c \in DOMAIN source : Holds(rows, c, cols[c])
             /\ r.ok => r.v = With(cat, t, Table(cols, table.fks, rows))
BY DEF RecreateTable, When, Given, Returns, Throws

-----------------------------------------------------------------------------
(* v has a table `tab' in the place of t, and the other tables of cat.     *)
Rebuilt(cat, v, t, tab) ==
    /\ DOMAIN v = DOMAIN cat
    /\ v[t] = tab
    /\ \A u \in DOMAIN cat \ {t} : v[u] = cat[u]

(* A table may be replaced more than once.                                 *)
LEMMA RebuiltWith ==
  ASSUME NEW cat, NEW t \in DOMAIN cat, NEW x, NEW tab, NEW other, Rebuilt(cat, x, t, tab)
  PROVE  Rebuilt(cat, With(x, t, other), t, other)
BY DEF Rebuilt, With

(* And at first.                                                           *)
LEMMA RebuiltIs ==
  ASSUME NEW cat, NEW t \in DOMAIN cat, NEW tab
  PROVE  Rebuilt(cat, With(cat, t, tab), t, tab)
BY DEF Rebuilt, With

(* The last definition of a column counts.                                 *)
LEMMA WithColumn ==
  ASSUME NEW rest, NEW new, NEW col, NEW other
  PROVE  /\ With(rest, new, col)[new] = col
         /\ new \in DOMAIN With(rest, new, col)
         /\ With(With(rest, new, col), new, other) = With(rest, new, other)
BY DEF With

(* One more statement on a column of a table that is being altered.        *)
LEMMA StageSet ==
  ASSUME NEW cat, NEW t \in DOMAIN cat, NEW x, NEW rest, NEW new, NEW col,
         NEW fks, NEW rows,
         Rebuilt(cat, x, t, Table(With(rest, new, col), fks, rows)), NEW other
  PROVE  /\ HasColumn(x, t, new) /\ x[t].cols[new] = col /\ x[t].rows = rows
         /\ Rebuilt(cat, SetColumn(x, t, new, other), t,
                    Table(With(rest, new, other), fks, rows))
<1>1. x[t] = Table(With(rest, new, col), fks, rows) /\ t \in DOMAIN x
  BY DEF Rebuilt
<1>2. HasColumn(x, t, new) /\ x[t].cols[new] = col /\ x[t].rows = rows
  BY <1>1, WithColumn DEF HasColumn, HasTable, Table
<1>3. SetColumn(x, t, new, other) = With(x, t, Table(With(rest, new, other), fks, rows))
  <2>1. IsTable(x[t])
    BY <1>1 DEF IsTable, Table
  <2>2. SetColumn(x, t, new, other) =
          With(x, t, Table(With(x[t].cols, new, other), x[t].fks, x[t].rows))
    BY <2>1, SetColumnIs
  <2>3. x[t].cols = With(rest, new, col) /\ x[t].fks = fks /\ x[t].rows = rows
    BY <1>1 DEF Table
  <2> QED  BY <2>2, <2>3, WithColumn
<1> QED  BY <1>2, <1>3, RebuiltWith

(* The cast of what the column holds.                                      *)
LEMMA StageType ==
  ASSUME NEW cat, NEW t \in DOMAIN cat, NEW x, NEW rest, NEW new, NEW col,
         NEW fks, NEW rows,
         Rebuilt(cat, x, t, Table(With(rest, new, col), fks, rows)), NEW type
  PROVE  LET r == SqlSetType(t, new, type, x)
             column == [col EXCEPT !.type = type]
             cast == CastRows(rows, new, col.type, type)
         IN  /\ r.ok <=> /\ type \notin Serial /\ Casts(col.type, type)
                         /\ Castable(rows, new, col.type, type)
                         /\ Holds(cast, new, column)
             /\ r.ok => Rebuilt(cat, r.v, t, Table(With(rest, new, column), fks, cast))
<1> DEFINE column == [col EXCEPT !.type = type]
           cast == CastRows(rows, new, col.type, type)
           guard == /\ type \notin Serial /\ Casts(col.type, type)
                    /\ Castable(rows, new, col.type, type)
                    /\ Holds(cast, new, column)
           v == With(x, t, Table(With(rest, new, column), fks, cast))
<1>1. /\ HasColumn(x, t, new) /\ x[t].cols[new] = col /\ x[t].rows = rows
      /\ x[t].cols = With(rest, new, col) /\ x[t].fks = fks
  BY StageSet DEF Rebuilt, Table
<1>2. With(x[t].cols, new, column) = With(rest, new, column)
  BY <1>1, WithColumn
<1>3. SqlSetType(t, new, type, x) = When(guard, v)
  <2> HIDE DEF column, cast
  <2> SUFFICES SqlSetType(t, new, type, x)
                 = When(/\ HasColumn(x, t, new)
                        /\ type \notin Serial /\ Casts(col.type, type)
                        /\ Castable(rows, new, col.type, type)
                        /\ Holds(cast, new, column), v)
    BY <1>1 DEF When
  <2> QED  BY <1>1, <1>2 DEF SqlSetType, column, cast
<1>4. Rebuilt(cat, v, t, Table(With(rest, new, column), fks, cast))
  BY RebuiltWith
<1> HIDE DEF guard, v
<1> QED  BY <1>3, <1>4, Outcome DEF guard

(* The UPDATE that puts the default in place of NULL.                      *)
LEMMA StageUpdate ==
  ASSUME NEW cat, NEW t \in DOMAIN cat, NEW x, NEW rest, NEW new, NEW col,
         NEW fks, NEW rows,
         Rebuilt(cat, x, t, Table(With(rest, new, col), fks, rows)), NEW default
  PROVE  LET r == SqlUpdateWithDefault(t, new, default, x)
             filled == FilledRows(rows, new, default)
         IN  /\ r.ok <=> Holds(filled, new, col)
             /\ r.ok => Rebuilt(cat, r.v, t, Table(With(rest, new, col), fks, filled))
<1> DEFINE filled == FilledRows(rows, new, default)
           guard == Holds(filled, new, col)
           v == With(x, t, Table(With(rest, new, col), fks, filled))
<1>1. /\ HasColumn(x, t, new) /\ x[t].cols[new] = col /\ x[t].rows = rows
      /\ x[t].cols = With(rest, new, col) /\ x[t].fks = fks
  BY StageSet DEF Rebuilt, Table
<1>2. SqlUpdateWithDefault(t, new, default, x) = When(HasColumn(x, t, new) /\ guard, v)
  BY <1>1 DEF SqlUpdateWithDefault
<1>3. Rebuilt(cat, v, t, Table(With(rest, new, col), fks, filled))
  BY RebuiltWith
<1> HIDE DEF guard, v
<1> QED  BY <1>1, <1>2, <1>3, Outcome DEF guard

-----------------------------------------------------------------------------
(* What ALTER COLUMN leaves of a column that was stored as `col' for the   *)
(* definition `was', and of the rows.                                      *)
SetsDefault(was, def) == Closes(was, def) /\ def.default \notin {was.default, NoDefault}
SetsUnique(was, def) == def.unique /\ (~was.unique \/ (was.primary /\ ~def.primary))
Fills(was, def) == Closes(was, def) /\ def.default # NoDefault

TypedColumn(col, was, def) ==
    IF was.type # def.type THEN [col EXCEPT !.type = def.type] ELSE col
DefaultedColumn(col, was, def) ==
    IF SetsDefault(was, def)
      THEN [TypedColumn(col, was, def) EXCEPT !.default = def.default]
      ELSE TypedColumn(col, was, def)
NulledColumn(col, was, def) ==
    IF was.null # def.null
      THEN [DefaultedColumn(col, was, def) EXCEPT !.notnull = (def.null # "yes")]
      ELSE DefaultedColumn(col, was, def)
AlteredColumn(col, was, def) ==
    IF SetsUnique(was, def)
      THEN [NulledColumn(col, was, def) EXCEPT !.unique = TRUE]
      ELSE NulledColumn(col, was, def)

RenamedRows(rows, old, new) == IF old = new THEN rows ELSE RowsRelabelled(rows, old, new)
TypedRows(rows, new, col, was, def) ==
    IF was.type # def.type THEN CastRows(rows, new, col.type, def.type) ELSE rows
AlteredRows(rows, new, col, was, def) ==
    LET typed == TypedRows(rows, new, col, was, def)
    IN  IF Fills(was, def) THEN FilledRows(typed, new, def.default) ELSE typed

(* What the engine must let pass: the cast, the default, the NULLs that    *)
(* are left, and what is to be unique.                                     *)
CanCast(rows, new, col, was, def) ==
    was.type # def.type =>
      /\ def.type \notin Serial /\ Casts(col.type, def.type)
      /\ Castable(rows, new, col.type, def.type)
      /\ Holds(CastRows(rows, new, col.type, def.type), new, [col EXCEPT !.type = def.type])
CanFill(rows, new, col, was, def) ==
    Fills(was, def) => Holds(rows, new, DefaultedColumn(col, was, def))
CanClose(rows, new, col, was, def) ==
    was.null # def.null =>
      IF def.null # "yes" THEN \A i \in DOMAIN rows : rows[i][new] # Null
                          ELSE ~DefaultedColumn(col, was, def).primary
CanBeUnique(rows, new, was, def) == SetsUnique(was, def) => ~Repeats(rows, new)

(* DefaultAlterColumn, one statement after the other.                      *)
LEMMA DefaultAlterColumnIs ==
  ASSUME NEW t, NEW table, NEW old, NEW new, NEW def, NEW cat,
         HasColumn(cat, t, old), IsTable(cat[t]),
         cat[t].cols = [c \in DOMAIN cat[t].cols |-> cat[t].cols[c]],
         old = new \/ ~HasColumn(cat, t, new)
  PROVE  LET r == DefaultAlterColumn(t, table, old, new, def, cat)
             was == table.cols[old]
             tab == cat[t]
             col == tab.cols[old]
             before == RenamedRows(tab.rows, old, new)
             after == AlteredRows(before, new, col, was, def)
         IN  /\ r.ok <=> /\ CanCast(before, new, col, was, def)
                         /\ CanFill(after, new, col, was, def)
                         /\ CanClose(after, new, col, was, def)
                         /\ CanBeUnique(after, new, was, def)
             /\ r.ok => Rebuilt(cat, r.v, t,
                          Table(With(Without(tab.cols, old), new, AlteredColumn(col, was, def)),
                                Renamed(tab.fks, old, new), after))
<1> DEFINE was == table.cols[old]
           tab == cat[t]
           col == tab.cols[old]
           rest == Without(tab.cols, old)
           fks == Renamed(tab.fks, old, new)
           before == RenamedRows(tab.rows, old, new)
           cast == TypedRows(before, new, col, was, def)
           after == AlteredRows(before, new, col, was, def)
           casts == CanCast(before, new, col, was, def)
           fills == CanFill(after, new, col, was, def)
           closes == CanClose(after, new, col, was, def)
           Is(x, c, n) == Rebuilt(cat, x, t, Table(With(rest, new, c), fks, n))
           renamed == Also(Returns(cat), old # new, LAMBDA x : SqlRenameColumn(t, old, new, x))
           typed == Also(renamed, was.type # def.type, LAMBDA x : SqlSetType(t, new, def.type, x))
           defaulted == Also(typed, Closes(was, def) /\ def.default \notin {was.default, NoDefault},
                             LAMBDA x : SqlSetDefault(t, new, def.default, x))
           updated == Also(defaulted, Closes(was, def) /\ def.default # NoDefault,
                           LAMBDA x : SqlUpdateWithDefault(t, new, def.default, x))
           nulled == Also(updated, was.null # def.null,
                          LAMBDA x : SqlSetNotNull(t, new, def.null # "yes", x))
           last == Also(nulled, def.unique /\ (~was.unique \/ (was.primary /\ ~def.primary)),
                        LAMBDA x : SqlCreateUnique(t, new, x))
<1>0. t \in DOMAIN cat /\ old \in DOMAIN tab.cols
  BY DEF HasColumn, HasTable
<1>1. renamed.ok /\ Is(renamed.v, col, before)
  <2>1. CASE old = new
    <3>1. renamed = Returns(cat)
      BY <2>1 DEF Also
    <3>2. fks = tab.fks /\ before = tab.rows
      BY <2>1 DEF Renamed, RenamedRows
    <3>3. With(rest, new, col) = tab.cols
      BY <1>0, <2>1 DEF With, Without, Restrict
    <3>4. tab = Table(With(rest, new, col), fks, before)
      BY <3>2, <3>3 DEF IsTable
    <3> HIDE DEF tab, rest, fks, before, col, renamed
    <3> QED  BY <3>1, <3>4 DEF Rebuilt, Returns, tab
  <2>2. CASE old # new
    <3>1. renamed = SqlRenameColumn(t, old, new, cat)
      BY <2>2 DEF Also, Returns
    <3>2. before = RowsRelabelled(tab.rows, old, new)
      BY <2>2 DEF RenamedRows
    <3>3. /\ renamed.ok
          /\ renamed.v = With(cat, t, Table(With(rest, new, col), fks, before))
      BY <2>2, <3>1, <3>2, SqlRenameColumnIs
    <3> HIDE DEF renamed, before
    <3> QED  BY <1>0, <3>3, RebuiltIs
  <2> QED  BY <2>1, <2>2
<1>2. /\ typed.ok <=> casts
      /\ typed.ok => Is(typed.v, TypedColumn(col, was, def), cast)
  <2> HIDE DEF renamed, was, tab, rest, fks, before, col
  <2>1. CASE was.type = def.type
    BY <1>1, <2>1 DEF Also, CanCast, TypedColumn, TypedRows
  <2>2. CASE was.type # def.type
    <3>1. typed = SqlSetType(t, new, def.type, renamed.v)
      BY <1>1, <2>2 DEF Also
    <3>2. /\ TypedColumn(col, was, def) = [col EXCEPT !.type = def.type]
          /\ cast = CastRows(before, new, col.type, def.type)
      BY <2>2 DEF TypedColumn, TypedRows
    <3> DEFINE r == SqlSetType(t, new, def.type, renamed.v)
               cast0 == CastRows(before, new, col.type, def.type)
               col0 == [col EXCEPT !.type = def.type]
    <3>3. /\ r.ok <=> /\ def.type \notin Serial /\ Casts(col.type, def.type)
                      /\ Castable(before, new, col.type, def.type)
                      /\ Holds(cast0, new, col0)
          /\ r.ok => Is(r.v, col0, cast0)
      <4> HIDE DEF renamed
      <4> QED  BY <1>0, <1>1, StageType
    <3>4. casts <=> r.ok
      <4> HIDE DEF r
      <4> QED  BY <2>2, <3>3 DEF CanCast
    <3> HIDE DEF r, typed, cast, Is, casts, cast0, col0
    <3> QED  BY <3>1, <3>2, <3>3, <3>4 DEF r, cast0, col0
  <2> QED  BY <2>1, <2>2
<1>3. /\ defaulted.ok <=> casts
      /\ defaulted.ok => Is(defaulted.v, DefaultedColumn(col, was, def), cast)
  <2> HIDE DEF typed, was, tab, rest, fks, before, cast, casts, col
  <2> DEFINE tcol == TypedColumn(col, was, def)
  <2>1. CASE ~(typed.ok /\ SetsDefault(was, def))
    BY <1>2, <2>1 DEF Also, DefaultedColumn, SetsDefault
  <2>2. CASE typed.ok /\ SetsDefault(was, def)
    <3>1. defaulted = SqlSetDefault(t, new, def.default, typed.v)
      BY <2>2 DEF Also, SetsDefault
    <3>2. HasColumn(typed.v, t, new) /\ typed.v[t].cols[new] = tcol
          /\ Is(SetColumn(typed.v, t, new, [tcol EXCEPT !.default = def.default]),
                [tcol EXCEPT !.default = def.default], cast)
      BY <1>0, <1>2, <2>2, StageSet
    <3>3. defaulted = Returns(SetColumn(typed.v, t, new, [tcol EXCEPT !.default = def.default]))
      BY <3>1, <3>2 DEF SqlSetDefault, When, Given
    <3>4. DefaultedColumn(col, was, def) = [tcol EXCEPT !.default = def.default]
      BY <2>2 DEF DefaultedColumn
    <3> HIDE DEF tcol, Is, defaulted
    <3> QED  BY <1>2, <2>2, <3>2, <3>3, <3>4 DEF Returns
  <2> QED  BY <2>1, <2>2
<1>4. /\ updated.ok <=> casts /\ fills
      /\ updated.ok => Is(updated.v, DefaultedColumn(col, was, def), after)
  <2> HIDE DEF defaulted, was, tab, rest, fks, before, col, casts
  <2> DEFINE dcol == DefaultedColumn(col, was, def)
  <2>1. CASE ~Fills(was, def)
    <3>1. updated = defaulted
      BY <2>1 DEF Also, Fills
    <3>2. after = cast /\ fills
      BY <2>1 DEF AlteredRows, CanFill
    <3> HIDE DEF updated, after, cast, fills, Is
    <3> QED  BY <1>3, <3>1, <3>2
  <2>2. CASE Fills(was, def) /\ ~defaulted.ok
    <3>1. updated = defaulted
      BY <2>2 DEF Also
    <3> HIDE DEF updated, after, cast, fills, Is
    <3> QED  BY <1>3, <2>2, <3>1
  <2>3. CASE Fills(was, def) /\ defaulted.ok
    <3>1. updated = SqlUpdateWithDefault(t, new, def.default, defaulted.v)
      BY <2>3 DEF Also, Fills
    <3>2. after = FilledRows(cast, new, def.default)
      BY <2>3 DEF AlteredRows
    <3>3. fills <=> Holds(after, new, dcol)
      BY <2>3 DEF CanFill
    <3> HIDE DEF after, cast, fills, dcol
    <3>4. Is(defaulted.v, dcol, cast)
      BY <1>3, <2>3 DEF dcol
    <3> HIDE DEF updated
    <3>5. /\ updated.ok <=> Holds(after, new, dcol)
          /\ updated.ok => Is(updated.v, dcol, after)
      BY <1>0, <3>1, <3>2, <3>4, StageUpdate
    <3> HIDE DEF Is
    <3> QED  BY <1>3, <2>3, <3>3, <3>5 DEF dcol
  <2> QED  BY <2>1, <2>2, <2>3
<1>5. /\ nulled.ok <=> casts /\ fills /\ closes
      /\ nulled.ok => Is(nulled.v, NulledColumn(col, was, def), after)
  <2> HIDE DEF updated, was, tab, rest, fks, after, col, casts, fills
  <2> DEFINE dcol == DefaultedColumn(col, was, def)
  <2>1. CASE ~(updated.ok /\ was.null # def.null)
    BY <1>4, <2>1 DEF Also, NulledColumn, CanClose
  <2>2. CASE updated.ok /\ was.null # def.null
    <3>1. nulled = SqlSetNotNull(t, new, def.null # "yes", updated.v)
      BY <2>2 DEF Also
    <3> DEFINE v == SetColumn(updated.v, t, new, [dcol EXCEPT !.notnull = (def.null # "yes")])
               guard == IF def.null # "yes" THEN \A i \in DOMAIN after : after[i][new] # Null
                                            ELSE ~dcol.primary
    <3>2. HasColumn(updated.v, t, new) /\ updated.v[t].cols[new] = dcol
          /\ updated.v[t].rows = after
          /\ Is(v, [dcol EXCEPT !.notnull = (def.null # "yes")], after)
      BY <1>0, <1>4, <2>2, StageSet
    <3>3. nulled = When(guard, v)
      <4> HIDE DEF dcol
      <4> QED  BY <3>1, <3>2 DEF SqlSetNotNull, When
    <3>4. closes <=> guard
      BY <2>2 DEF CanClose
    <3>5. NulledColumn(col, was, def) = [dcol EXCEPT !.notnull = (def.null # "yes")]
      BY <2>2 DEF NulledColumn
    <3> HIDE DEF guard, v, nulled, Is, dcol, closes
    <3>6. (nulled.ok <=> guard) /\ (nulled.ok => nulled.v = v)
      BY <3>3, Outcome
    <3> QED  BY <1>4, <2>2, <3>2, <3>4, <3>5, <3>6 DEF v
  <2> QED  BY <2>1, <2>2
<1>6. /\ last.ok <=> casts /\ fills /\ closes /\ CanBeUnique(after, new, was, def)
      /\ last.ok => Is(last.v, AlteredColumn(col, was, def), after)
  <2> HIDE DEF nulled, was, tab, rest, fks, after, col, casts, fills, closes
  <2> DEFINE ncol == NulledColumn(col, was, def)
  <2>1. CASE ~(nulled.ok /\ SetsUnique(was, def))
    BY <1>5, <2>1 DEF Also, AlteredColumn, SetsUnique, CanBeUnique
  <2>2. CASE nulled.ok /\ SetsUnique(was, def)
    <3>1. last = SqlCreateUnique(t, new, nulled.v)
      BY <2>2 DEF Also, SetsUnique
    <3> DEFINE v == SetColumn(nulled.v, t, new, [ncol EXCEPT !.unique = TRUE])
    <3>2. HasColumn(nulled.v, t, new) /\ nulled.v[t].cols[new] = ncol
          /\ nulled.v[t].rows = after
          /\ Is(v, [ncol EXCEPT !.unique = TRUE], after)
      BY <1>0, <1>5, <2>2, StageSet
    <3>3. last = When(~Repeats(after, new), v)
      BY <3>1, <3>2 DEF SqlCreateUnique, When
    <3>4. AlteredColumn(col, was, def) = [ncol EXCEPT !.unique = TRUE]
      BY <2>2 DEF AlteredColumn
    <3>5. CanBeUnique(after, new, was, def) <=> ~Repeats(after, new)
      BY <2>2 DEF CanBeUnique
    <3> HIDE DEF ncol, Is, last, v
    <3>6. (last.ok <=> ~Repeats(after, new)) /\ (last.ok => last.v = v)
      BY <3>3, Outcome
    <3> QED  BY <1>5, <2>2, <3>2, <3>4, <3>5, <3>6
  <2> QED  BY <2>1, <2>2
<1>7. DefaultAlterColumn(t, table, old, new, def, cat) = last
  BY Zenon DEF DefaultAlterColumn
<1> HIDE DEF last
<1> QED  BY <1>6, <1>7

-----------------------------------------------------------------------------
(* Project states and catalogs as the operations make them, and a catalog  *)
(* whose tables are those of a state.                                      *)
IsState(st) == \A t \in DOMAIN st : st[t] = [cols |-> st[t].cols, fks |-> st[t].fks]
IsCatalog(cat) == \A t \in DOMAIN cat : IsTable(cat[t])
Mirrors(cat, st) ==
    /\ DOMAIN cat = DOMAIN st
    /\ \A t \in DOMAIN st : cat[t].cols = StoredColumns(st[t].cols) /\ cat[t].fks = st[t].fks

(* That is what the two schemas being equal means.                         *)
LEMMA MirrorsIs ==
  ASSUME NEW cat, NEW st
  PROVE  Schema(cat) = Described(st) <=> Mirrors(cat, st)
<1>1. DOMAIN cat = DOMAIN Schema(cat) /\ DOMAIN st = DOMAIN Described(st)
  BY DEF Schema, Described
<1>2. \A t \in DOMAIN cat : Schema(cat)[t] = [cols |-> cat[t].cols, fks |-> cat[t].fks]
  BY DEF Schema
<1>3. \A t \in DOMAIN st :
        Described(st)[t] = [cols |-> StoredColumns(st[t].cols), fks |-> st[t].fks]
  BY DEF Described
<1>4. Schema(cat) = Described(st) => Mirrors(cat, st)
  BY <1>1, <1>2, <1>3 DEF Mirrors
<1>5. Mirrors(cat, st) => Schema(cat) = Described(st)
  BY DEF Mirrors, Schema, Described
<1> QED  BY <1>4, <1>5

(* The operations on one table.                                            *)
LEMMA MirrorsRebuilt ==
  ASSUME NEW cat, NEW st, NEW v, NEW u, NEW t \in DOMAIN st, NEW tab, NEW table,
         Mirrors(cat, st), IsState(st), IsCatalog(cat),
         Rebuilt(cat, v, t, tab), Rebuilt(st, u, t, table),
         tab.cols = StoredColumns(table.cols), tab.fks = table.fks,
         IsTable(tab), table = [cols |-> table.cols, fks |-> table.fks]
  PROVE  Mirrors(v, u) /\ IsState(u) /\ IsCatalog(v)
BY DEF Mirrors, IsState, IsCatalog, Rebuilt

(* A table of the state with other columns.                                *)
LEMMA StateRebuilt ==
  ASSUME NEW st, IsState(st), NEW t \in DOMAIN st, NEW cols
  PROVE  /\ [st[t] EXCEPT !.cols = cols] = [cols |-> cols, fks |-> st[t].fks]
         /\ Rebuilt(st, With(st, t, [st[t] EXCEPT !.cols = cols]), t,
                    [cols |-> cols, fks |-> st[t].fks])
<1>1. [st[t] EXCEPT !.cols = cols] = [cols |-> cols, fks |-> st[t].fks]
  BY DEF IsState
<1> QED  BY <1>1, RebuiltIs

(* A foreign key that is not on the column stays where it is.              *)
LEMMA RenamedIs ==
  ASSUME NEW fks, NEW old, NEW new, old = new \/ old \notin fks
  PROVE  Renamed(fks, old, new) = fks
BY DEF Renamed

(* What ALTER COLUMN is exact about.                                       *)
LEMMA AlteredIsStored ==
  ASSUME NEW was, NEW def, ~Sqlite, ExactAlter(was, def)
  PROVE  AlteredColumn(Stored(was), was, def) = Stored(def)
<1> DEFINE col == Stored(was)
           tcol == TypedColumn(col, was, def)
           dcol == DefaultedColumn(col, was, def)
           ncol == NulledColumn(col, was, def)
           Col(ty, nn, de, un) == [type |-> ty, notnull |-> nn, default |-> de,
                                   unique |-> un, primary |-> was.primary]
<1>1. col = Col(StoredType(was), was.null = "no", was.default, was.unique)
  BY DEF Stored
<1>2. tcol = Col(StoredType(def), was.null = "no", was.default, was.unique)
  <2>1. CASE was.type = def.type
    BY <1>1, <2>1 DEF TypedColumn, ExactAlter, StoredType
  <2>2. CASE was.type # def.type
    <3>1. StoredType(def) = def.type
      BY <2>2 DEF ExactAlter, StoredType
    <3> QED  BY <1>1, <2>2, <3>1 DEF TypedColumn
  <2> QED  BY <2>1, <2>2
<1>3. dcol = Col(StoredType(def), was.null = "no", def.default, was.unique)
  BY <1>2 DEF DefaultedColumn, SetsDefault, ExactAlter
<1>4. ncol = Col(StoredType(def), def.null = "no", def.default, was.unique)
  BY <1>3 DEF NulledColumn, ExactAlter
<1>5. AlteredColumn(col, was, def) = Col(StoredType(def), def.null = "no", def.default, def.unique)
  <2> HIDE DEF col
  <2>1. CASE def.unique = was.unique
    <3>1. ~SetsUnique(was, def)
      BY <2>1, Zenon DEF SetsUnique, ExactAlter
    <3> QED  BY <1>4, <2>1, <3>1 DEF AlteredColumn, ncol
  <2>2. CASE was.unique = FALSE /\ def.unique = TRUE
    <3>1. SetsUnique(was, def)
      BY <2>2, Zenon DEF SetsUnique
    <3>2. AlteredColumn(col, was, def) = [ncol EXCEPT !.unique = TRUE]
      BY <3>1 DEF AlteredColumn
    <3> HIDE DEF ncol
    <3> QED  BY <1>4, <2>2, <3>2
  <2> QED  BY <2>1, <2>2 DEF ExactAlter
<1> QED  BY <1>5 DEF Stored, ExactAlter

-----------------------------------------------------------------------------
(* The two editors, where they leave a foreign key alone.                  *)
LEMMA DropColumnIs ==
  ASSUME NEW cat, NEW st, Mirrors(cat, st), IsState(st), IsCatalog(cat),
         NEW t, NEW c, HasColumn(st, t, c), c \notin st[t].fks,
         DropColumn(t, st[t], c, cat).ok
  PROVE  \E rows :
           Rebuilt(cat, DropColumn(t, st[t], c, cat).v, t,
                   Table(StoredColumns(Without(st[t].cols, c)), st[t].fks, rows))
<1>0. t \in DOMAIN cat /\ cat[t].cols = StoredColumns(st[t].cols) /\ cat[t].fks = st[t].fks
      /\ st[t].fks \ {c} = st[t].fks
  BY DEF Mirrors, HasColumn, HasTable
<1>1. CASE Sqlite
  <2> DEFINE table == [cols |-> Without(st[t].cols, c), fks |-> st[t].fks \ {c}]
             source == Itself(DOMAIN st[t].cols \ {c})
             rows == CopiedRows(cat[t].rows, StoredColumns(table.cols), source, {})
  <2>1. DropColumn(t, st[t], c, cat) = RecreateTable(t, table, source, {}, cat)
    BY <1>1 DEF DropColumn, SqliteDropColumn
  <2>2. table.cols = Without(st[t].cols, c) /\ table.fks = st[t].fks
    BY <1>0
  <2> HIDE DEF table, source
  <2>3. RecreateTable(t, table, source, {}, cat).ok =>
          RecreateTable(t, table, source, {}, cat).v =
            With(cat, t, Table(StoredColumns(table.cols), table.fks, rows))
    BY RecreateTableIs
  <2> QED  BY <1>0, <2>1, <2>2, <2>3, RebuiltIs
<1>2. CASE ~Sqlite
  <2>1. DropColumn(t, st[t], c, cat) = SqlDropColumn(t, c, cat)
    BY <1>2 DEF DropColumn
  <2>2. DropColumn(t, st[t], c, cat).v =
          With(cat, t, Table(Without(cat[t].cols, c), cat[t].fks \ {c},
                             RowsWithout(cat[t].rows, c)))
    BY <2>1, SqlDropColumnIs
  <2>3. Without(cat[t].cols, c) = StoredColumns(Without(st[t].cols, c))
    BY <1>0, StoredWith
  <2> QED  BY <1>0, <2>1, <2>2, <2>3, RebuiltIs
<1> QED  BY <1>1, <1>2

(* ALTER COLUMN, with or without another name.                             *)
LEMMA AlterColumnIs ==
  ASSUME NEW cat, NEW st, Mirrors(cat, st), IsState(st), IsCatalog(cat),
         NEW t, NEW old, NEW new, NEW def, HasColumn(st, t, old),
         old = new \/ (~HasColumn(st, t, new) /\ old \notin st[t].fks),
         Sqlite \/ ExactAlter(st[t].cols[old], def),
         AlterColumn(t, st[t], old, new, def, cat).ok
  PROVE  \E rows :
           Rebuilt(cat, AlterColumn(t, st[t], old, new, def, cat).v, t,
                   Table(StoredColumns(With(Without(st[t].cols, old), new, def)),
                         st[t].fks, rows))
<1>0. /\ t \in DOMAIN cat /\ cat[t].cols = StoredColumns(st[t].cols) /\ cat[t].fks = st[t].fks
      /\ Renamed(st[t].fks, old, new) = st[t].fks
      /\ t \in DOMAIN st /\ old \in DOMAIN st[t].cols
  BY RenamedIs DEF Mirrors, HasColumn, HasTable
<1>1. CASE Sqlite
  <2> DEFINE table == [cols |-> With(Without(st[t].cols, old), new, def),
                       fks |-> Renamed(st[t].fks, old, new)]
             source == With(Itself(DOMAIN st[t].cols \ {old}), new, old)
             fill == IF Closes(st[t].cols[old], def) /\ def.default # NoDefault THEN {new} ELSE {}
             rows == CopiedRows(cat[t].rows, StoredColumns(table.cols), source, fill)
  <2>1. AlterColumn(t, st[t], old, new, def, cat) = RecreateTable(t, table, source, fill, cat)
    BY <1>1 DEF AlterColumn, SqliteAlterColumn
  <2>2. table.cols = With(Without(st[t].cols, old), new, def) /\ table.fks = st[t].fks
    BY <1>0
  <2> HIDE DEF table, source, fill
  <2>3. RecreateTable(t, table, source, fill, cat).ok =>
          RecreateTable(t, table, source, fill, cat).v =
            With(cat, t, Table(StoredColumns(table.cols), table.fks, rows))
    BY RecreateTableIs
  <2> QED  BY <1>0, <2>1, <2>2, <2>3, RebuiltIs
<1>2. CASE ~Sqlite
  <2> DEFINE was == st[t].cols[old]
             col == cat[t].cols[old]
             rows == AlteredRows(RenamedRows(cat[t].rows, old, new), new, col, was, def)
  <2>1. AlterColumn(t, st[t], old, new, def, cat) = DefaultAlterColumn(t, st[t], old, new, def, cat)
    BY <1>2 DEF AlterColumn
  <2>2. /\ HasColumn(cat, t, old) /\ (old = new \/ ~HasColumn(cat, t, new))
        /\ cat[t].cols = [c \in DOMAIN cat[t].cols |-> cat[t].cols[c]]
        /\ col = Stored(was) /\ IsTable(cat[t])
    BY <1>0 DEF Mirrors, HasColumn, HasTable, StoredColumns, IsCatalog
  <2>3. Rebuilt(cat, AlterColumn(t, st[t], old, new, def, cat).v, t,
          Table(With(Without(cat[t].cols, old), new, AlteredColumn(col, was, def)),
                Renamed(cat[t].fks, old, new), rows))
    BY <2>1, <2>2, DefaultAlterColumnIs
  <2>4. AlteredColumn(col, was, def) = Stored(def)
    BY <1>2, <2>2, AlteredIsStored
  <2>5. With(Without(cat[t].cols, old), new, Stored(def))
          = StoredColumns(With(Without(st[t].cols, old), new, def))
    <3>1. Without(StoredColumns(st[t].cols), old) = StoredColumns(Without(st[t].cols, old))
      BY StoredWith
    <3>2. StoredColumns(With(Without(st[t].cols, old), new, def))
            = With(StoredColumns(Without(st[t].cols, old)), new, Stored(def))
      BY StoredWith
    <3> QED  BY <1>0, <3>1, <3>2
  <2> QED  BY <1>0, <2>3, <2>4, <2>5
<1> QED  BY <1>1, <1>2

(* What the operations on a column do to the state.                        *)
LEMMA ColumnStateIs ==
  ASSUME NEW op, NEW st, IsState(st), op.kind \in Kinds,
         op.kind \notin {"create_table", "drop_table", "rename_table"},
         UpdateState(op, st).ok
  PROVE  LET t == op.table
             cols == st[t].cols
             now == CASE op.kind \in {"add_column", "alter_column"} -> With(cols, op.column, op.def)
                      [] op.kind = "drop_column" -> Without(cols, op.column)
                      [] op.kind = "rename_column" ->
                           With(Without(cols, op.column), op.new, cols[op.column])
         IN  /\ t \in DOMAIN st
             /\ op.column \in DOMAIN cols <=> op.kind # "add_column"
             /\ op.kind = "rename_column" => op.new \notin DOMAIN cols
             /\ Rebuilt(st, UpdateState(op, st).v, t, [cols |-> now, fks |-> st[t].fks])
<1> DEFINE t == op.table
           cols == st[t].cols
           u == UpdateState(op, st)
<1>1. CASE op.kind = "add_column"
  <2> DEFINE now == With(cols, op.column, op.def)
  <2>1. u = AddColumnState(op, st)
    BY <1>1 DEF UpdateState
  <2>2. t \in DOMAIN st /\ op.column \notin DOMAIN cols /\ u.v = SetColumn(st, t, op.column, op.def)
    BY <2>1 DEF AddColumnState, When, Given, Returns, Throws, HasColumn, HasTable
  <2> HIDE DEF u
  <2>3. u.v = With(st, t, [st[t] EXCEPT !.cols = now])
    BY <2>2 DEF SetColumn
  <2> HIDE DEF now
  <2>4. Rebuilt(st, u.v, t, [cols |-> now, fks |-> st[t].fks])
    BY <2>2, <2>3, StateRebuilt
  <2> QED  BY <1>1, <2>2, <2>4 DEF u, now
<1>2. CASE op.kind = "alter_column"
  <2> DEFINE now == With(cols, op.column, op.def)
  <2>1. u = AlterColumnState(op, st)
    BY <1>2 DEF UpdateState
  <2>2. t \in DOMAIN st /\ op.column \in DOMAIN cols /\ u.v = SetColumn(st, t, op.column, op.def)
    BY <2>1 DEF AlterColumnState, When, Given, Returns, Throws, HasColumn, HasTable
  <2> HIDE DEF u
  <2>3. u.v = With(st, t, [st[t] EXCEPT !.cols = now])
    BY <2>2 DEF SetColumn
  <2> HIDE DEF now
  <2>4. Rebuilt(st, u.v, t, [cols |-> now, fks |-> st[t].fks])
    BY <2>2, <2>3, StateRebuilt
  <2> QED  BY <1>2, <2>2, <2>4 DEF u, now
<1>3. CASE op.kind = "drop_column"
  <2> DEFINE now == Without(cols, op.column)
  <2>1. u = DropColumnState(op, st)
    BY <1>3 DEF UpdateState
  <2>2. t \in DOMAIN st /\ op.column \in DOMAIN cols /\ u.v = EraseColumn(st, t, op.column)
    BY <2>1 DEF DropColumnState, When, Given, Returns, Throws, HasColumn, HasTable
  <2> HIDE DEF u
  <2>3. u.v = With(st, t, [st[t] EXCEPT !.cols = now])
    BY <2>2 DEF EraseColumn
  <2> HIDE DEF now
  <2>4. Rebuilt(st, u.v, t, [cols |-> now, fks |-> st[t].fks])
    BY <2>2, <2>3, StateRebuilt
  <2> QED  BY <1>3, <2>2, <2>4 DEF u, now
<1>4. CASE op.kind = "rename_column"
  <2> DEFINE now == With(Without(cols, op.column), op.new, cols[op.column])
  <2>1. u = RenameColumnState(op, st)
    BY <1>4 DEF UpdateState
  <2>2. t \in DOMAIN st /\ op.column \in DOMAIN cols /\ op.new \notin DOMAIN cols
        /\ u.v = With(st, t, [st[t] EXCEPT !.cols = now])
    BY <2>1 DEF RenameColumnState, Relabelled, When, Given, Returns, Throws, HasColumn, HasTable
  <2> HIDE DEF u, now
  <2>3. Rebuilt(st, u.v, t, [cols |-> now, fks |-> st[t].fks])
    BY <2>2, StateRebuilt
  <2> QED  BY <1>4, <2>2, <2>3 DEF u, now
<1> QED  BY <1>1, <1>2, <1>3, <1>4 DEF Kinds

-----------------------------------------------------------------------------
(* The operations that make or drop a table.                               *)
LEMMA TablesIs ==
  ASSUME NEW cat, NEW st, Mirrors(cat, st), IsState(st), IsCatalog(cat), NEW t, NEW tab, NEW table,
         tab.cols = StoredColumns(table.cols), tab.fks = table.fks, IsTable(tab),
         table = [cols |-> table.cols, fks |-> table.fks]
  PROVE  /\ Mirrors(Without(cat, t), Without(st, t))
         /\ IsState(Without(st, t)) /\ IsCatalog(Without(cat, t))
         /\ Mirrors(With(cat, t, tab), With(st, t, table))
         /\ IsState(With(st, t, table)) /\ IsCatalog(With(cat, t, tab))
<1>1. /\ Mirrors(Without(cat, t), Without(st, t))
      /\ IsState(Without(st, t)) /\ IsCatalog(Without(cat, t))
  BY DEF Without, Restrict, Mirrors, IsState, IsCatalog
<1>2. /\ Mirrors(With(cat, t, tab), With(st, t, table))
      /\ IsState(With(st, t, table)) /\ IsCatalog(With(cat, t, tab))
  BY DEF With, Mirrors, IsState, IsCatalog
<1> QED  BY <1>1, <1>2

(* One operation does to the engine's schema what update_state does to the *)
(* project state.                                                          *)
LEMMA ForwardMirrors ==
  ASSUME NEW cat, NEW st, Mirrors(cat, st), IsState(st), IsCatalog(cat),
         NEW op, Exact(op, st, Sqlite), UpdateState(op, st).ok,
         Forward(op, st, UpdateState(op, st).v, cat).ok
  PROVE  LET u == UpdateState(op, st).v
             v == Forward(op, st, u, cat).v
         IN  Mirrors(v, u) /\ IsState(u) /\ IsCatalog(v)
<1> DEFINE u == UpdateState(op, st).v
           r == Forward(op, st, u, cat)
           t == op.table
<1>0. op.kind \in Kinds /\ r.ok
  BY DEF Exact
<1>1. CASE op.kind = "create_table"
  <2> DEFINE table == [cols |-> op.cols, fks |-> op.fks]
             tab == Table(StoredColumns(op.cols), op.fks, <<>>)
  <2>1. u = With(st, t, table)
    BY <1>1 DEF UpdateState, CreateTableState, Returns
  <2>2. u[t] = table
    BY <2>1 DEF With
  <2>3. r = Given(HasTable(u, t), SqlCreateTable(t, u[t], cat))
    BY <1>1 DEF Forward, CreateTableForward
  <2>4. r = SqlCreateTable(t, u[t], cat)
    BY <1>0, <2>3 DEF Given, Throws
  <2>5. r.v = With(cat, t, tab)
    <3>1. table.cols = op.cols /\ table.fks = op.fks
      OBVIOUS
    <3> HIDE DEF r, u, table
    <3>2. r.v = With(cat, t, Table(StoredColumns(table.cols), table.fks, <<>>))
      BY <1>0, <2>2, <2>4 DEF SqlCreateTable, When, Given, Returns, Throws
    <3> QED  BY <3>1, <3>2
  <2>6. IsTable(tab) /\ tab.cols = StoredColumns(table.cols) /\ tab.fks = table.fks
        /\ table = [cols |-> table.cols, fks |-> table.fks]
    BY DEF IsTable, Table
  <2> HIDE DEF r, u, tab, table
  <2> QED  BY <2>1, <2>5, <2>6, TablesIs DEF r, u
<1>2. CASE op.kind = "drop_table"
  <2>1. u = Without(st, t)
    BY <1>2 DEF UpdateState, DropTableState, Returns
  <2>2. r = Given(HasTable(st, t), SqlDropTable(t, cat))
    BY <1>2 DEF Forward, DropTableForward
  <2>3. r.v = Without(cat, t)
    <3> HIDE DEF r
    <3> QED  BY <1>0, <2>2, SqlDropTableIs DEF Given, Throws
  <2> HIDE DEF r, u
  <2>4. Mirrors(r.v, u) /\ IsState(u) /\ IsCatalog(r.v)
    BY <2>1, <2>3 DEF Without, Restrict, Mirrors, IsState, IsCatalog
  <2> QED  BY <2>4 DEF r, u
<1>3. CASE op.kind = "rename_table"
  <2>1. t \in DOMAIN st /\ u = With(Without(st, t), op.new, st[t])
    BY <1>3 DEF UpdateState, RenameTableState, When, Given, Returns, Throws, HasTable
  <2>2. r = Given(HasTable(u, op.new) /\ HasTable(st, t), RenameTable(t, op.new, cat))
    BY <1>3 DEF Forward, RenameTableForward
  <2>3. r = RenameTable(t, op.new, cat)
    BY <1>0, <2>2 DEF Given, Throws
  <2>4. Mirrors(r.v, u) /\ IsState(u) /\ IsCatalog(r.v)
    <3> HIDE DEF r, u
    <3>1. CASE t = op.new
      <4>1. r.v = cat
        BY <2>3, <3>1 DEF RenameTable, Returns
      <4>2. DOMAIN u = DOMAIN st /\ \A x \in DOMAIN st : u[x] = st[x]
        BY <2>1, <3>1 DEF With, Without, Restrict
      <4> QED  BY <4>1, <4>2 DEF Mirrors, IsState
    <3>2. CASE t # op.new
      <4>1. r.v = With(Without(cat, t), op.new, cat[t])
        BY <1>0, <2>3, <3>2, SqlRenameTableIs DEF RenameTable
      <4>2. /\ Mirrors(Without(cat, t), Without(st, t))
            /\ IsState(Without(st, t)) /\ IsCatalog(Without(cat, t))
        BY DEF Without, Restrict, Mirrors, IsState, IsCatalog
      <4>3. IsTable(cat[t]) /\ cat[t].cols = StoredColumns(st[t].cols) /\ cat[t].fks = st[t].fks
            /\ st[t] = [cols |-> st[t].cols, fks |-> st[t].fks]
        BY <2>1 DEF Mirrors, IsState, IsCatalog
      <4> QED  BY <2>1, <4>1, <4>2, <4>3, TablesIs
    <3> QED  BY <3>1, <3>2
  <2> QED  BY <2>4 DEF r, u
<1>4. CASE op.kind \notin {"create_table", "drop_table", "rename_table"}
  <2> DEFINE cols == st[t].cols
             c == op.column
             now == CASE op.kind \in {"add_column", "alter_column"} -> With(cols, c, op.def)
                      [] op.kind = "drop_column" -> Without(cols, c)
                      [] op.kind = "rename_column" -> With(Without(cols, c), op.new, cols[c])
             table == [cols |-> now, fks |-> st[t].fks]
  <2>1. /\ t \in DOMAIN st
        /\ c \in DOMAIN cols <=> op.kind # "add_column"
        /\ op.kind = "rename_column" => op.new \notin DOMAIN cols
        /\ Rebuilt(st, u, t, table)
    BY <1>0, <1>4, ColumnStateIs
  <2> HIDE DEF u, now
  <2>2. u[t].cols = now
    BY <2>1 DEF Rebuilt
  <2>3. cat[t].cols = StoredColumns(cols) /\ cat[t].fks = st[t].fks /\ t \in DOMAIN cat
    BY <2>1 DEF Mirrors
  <2>4. \E rows :
          Rebuilt(cat, r.v, t, Table(StoredColumns(now), st[t].fks, rows))
    <3>1. CASE op.kind = "add_column"
      <4>1. now = With(cols, c, op.def)
        BY <3>1 DEF now
      <4>2. r = AddColumnForward(op, st, u, cat)
        BY <3>1 DEF Forward
      <4>3. r = SqlAddColumn(t, c, op.def, cat)
        <5>1. u[t].cols[c] = op.def
          BY <4>1, <2>2 DEF With
        <5> HIDE DEF r
        <5> QED  BY <1>0, <4>2, <5>1 DEF AddColumnForward, Given, Throws
      <4> DEFINE rows == AddedRows(cat[t].rows, c, Stored(op.def))
      <4>4. r.v = With(cat, t, Table(With(cat[t].cols, c, Stored(op.def)), cat[t].fks,
                                     rows))
        <5> HIDE DEF r
        <5> QED  BY <1>0, <4>3, SqlAddColumnIs
      <4>5. StoredColumns(now) = With(cat[t].cols, c, Stored(op.def))
        BY <2>3, <4>1, StoredWith
      <4> HIDE DEF r, rows
      <4> QED  BY <2>3, <4>4, <4>5, RebuiltIs
    <3>2. CASE op.kind = "drop_column"
      <4>1. now = Without(cols, c)
        BY <3>2 DEF now
      <4>2. r = AddColumnBackward(op, st, u, cat)
        BY <3>2 DEF Forward, DropColumnForward
      <4>3. r = DropColumn(t, st[t], c, cat)
        <5> HIDE DEF r
        <5> QED  BY <1>0, <4>2 DEF AddColumnBackward, Given, Throws
      <4>4. HasColumn(st, t, c) /\ c \notin st[t].fks
        BY <2>1, <3>2 DEF HasColumn, HasTable, Exact
      <4> HIDE DEF r, cols
      <4> QED  BY <1>0, <4>1, <4>3, <4>4, DropColumnIs DEF cols
    <3>3. CASE op.kind = "alter_column"
      <4>1. now = With(cols, c, op.def)
        BY <3>3 DEF now
      <4>2. r = AlterColumnForward(op, st, u, cat)
        BY <3>3 DEF Forward
      <4>3. r = AlterColumn(t, st[t], c, c, op.def, cat)
        <5>1. u[t].cols[c] = op.def
          BY <4>1, <2>2 DEF With
        <5> HIDE DEF r
        <5> QED  BY <1>0, <4>2, <5>1 DEF AlterColumnForward, Given, Throws
      <4>4. HasColumn(st, t, c) /\ (Sqlite \/ ExactAlter(st[t].cols[c], op.def))
        BY <2>1, <3>3 DEF HasColumn, HasTable, Exact
      <4>5. With(Without(cols, c), c, op.def) = With(cols, c, op.def)
        BY DEF With, Without, Restrict
      <4> HIDE DEF r, cols
      <4> QED  BY <1>0, <4>1, <4>3, <4>4, <4>5, AlterColumnIs DEF cols
    <3>4. CASE op.kind = "rename_column"
      <4>1. now = With(Without(cols, c), op.new, cols[c])
        BY <3>4 DEF now
      <4>2. r = MoveColumn(t, c, op.new, st, u, cat)
        BY <3>4 DEF Forward, RenameColumnForward
      <4>3. r = AlterColumn(t, st[t], c, op.new, cols[c], cat)
        <5>1. u[t].cols[op.new] = cols[c]
          BY <4>1, <2>2 DEF With
        <5> HIDE DEF r
        <5> QED  BY <1>0, <4>2, <5>1 DEF MoveColumn, Given, Throws
      <4>4. HasColumn(st, t, c) /\ ~HasColumn(st, t, op.new) /\ c \notin st[t].fks
        BY <2>1, <3>4 DEF HasColumn, HasTable, Exact
      <4>5. ExactAlter(cols[c], cols[c])
        BY DEF ExactAlter
      <4> HIDE DEF r, cols
      <4> QED  BY <1>0, <4>1, <4>3, <4>4, <4>5, AlterColumnIs DEF cols
    <3> QED  BY <1>0, <1>4, <3>1, <3>2, <3>3, <3>4 DEF Kinds
  <2>5. PICK rows :
          Rebuilt(cat, r.v, t, Table(StoredColumns(now), st[t].fks, rows))
    BY <2>4
  <2> DEFINE tab == Table(StoredColumns(now), st[t].fks, rows)
  <2>6. IsTable(tab) /\ tab.cols = StoredColumns(table.cols) /\ tab.fks = table.fks
        /\ table = [cols |-> table.cols, fks |-> table.fks]
    BY DEF IsTable, Table
  <2> HIDE DEF r, tab, table
  <2>7. Mirrors(r.v, u) /\ IsState(u) /\ IsCatalog(r.v)
    BY <2>1, <2>5, <2>6, MirrorsRebuilt DEF tab
  <2> QED  BY <2>7 DEF r, u
<1> QED  BY <1>0, <1>1, <1>2, <1>3, <1>4

-----------------------------------------------------------------------------
(* update_state leaves a project state.                                    *)
LEMMA StatesStay ==
  ASSUME NEW st, IsState(st), NEW op, op.kind \in Kinds, UpdateState(op, st).ok
  PROVE  IsState(UpdateState(op, st).v)
<1> DEFINE u == UpdateState(op, st).v
<1>1. CASE op.kind = "create_table"
  <2>1. u = With(st, op.table, [cols |-> op.cols, fks |-> op.fks])
    BY <1>1 DEF UpdateState, CreateTableState, Returns
  <2> HIDE DEF u
  <2> QED  BY <2>1 DEF With, IsState, u
<1>2. CASE op.kind = "drop_table"
  <2>1. u = Without(st, op.table)
    BY <1>2 DEF UpdateState, DropTableState, Returns
  <2> HIDE DEF u
  <2> QED  BY <2>1 DEF Without, Restrict, IsState, u
<1>3. CASE op.kind = "rename_table"
  <2>1. op.table \in DOMAIN st /\ u = With(Without(st, op.table), op.new, st[op.table])
    BY <1>3 DEF UpdateState, RenameTableState, When, Given, Returns, Throws, HasTable
  <2> HIDE DEF u
  <2> QED  BY <2>1 DEF With, Without, Restrict, IsState, u
<1>4. CASE op.kind \notin {"create_table", "drop_table", "rename_table"}
  <2>1. \E now : Rebuilt(st, u, op.table, [cols |-> now, fks |-> st[op.table].fks])
    BY <1>4, ColumnStateIs
  <2> HIDE DEF u
  <2> QED  BY <2>1 DEF Rebuilt, IsState, u
<1> QED  BY <1>1, <1>2, <1>3, <1>4

(* Its backward takes it back.                                             *)
LEMMA BackwardMirrors ==
  ASSUME NEW st, IsState(st), NEW op, UpdateState(op, st).ok, Reversible(op, st, Sqlite),
         NEW cat, IsCatalog(cat), Mirrors(cat, UpdateState(op, st).v),
         Backward(op, UpdateState(op, st).v, st, cat).ok
  PROVE  LET v == Backward(op, UpdateState(op, st).v, st, cat).v
         IN  Mirrors(v, st) /\ IsCatalog(v)
<1> DEFINE u == UpdateState(op, st).v
           r == Backward(op, u, st, cat)
           t == op.table
<1>0. op.kind \in Kinds /\ r.ok /\ IsState(u)
  BY StatesStay DEF Reversible
<1>1. CASE op.kind = "create_table"
  <2>1. u = With(st, t, [cols |-> op.cols, fks |-> op.fks])
    BY <1>1 DEF UpdateState, CreateTableState, Returns
  <2>2. r = Given(HasTable(u, t), SqlDropTable(t, cat))
    BY <1>1 DEF Backward, CreateTableBackward
  <2>3. r.v = Without(cat, t)
    <3> HIDE DEF r
    <3> QED  BY <1>0, <2>2, SqlDropTableIs DEF Given, Throws
  <2>4. t \notin DOMAIN st
    BY <1>1 DEF Reversible, HasTable
  <2> HIDE DEF r, u
  <2>5. Mirrors(r.v, st) /\ IsCatalog(r.v)
    BY <2>1, <2>3, <2>4 DEF With, Without, Restrict, Mirrors, IsCatalog, u
  <2> QED  BY <2>5 DEF r, u
<1>2. CASE op.kind = "drop_table"
  <2>1. u = Without(st, t)
    BY <1>2 DEF UpdateState, DropTableState, Returns
  <2>2. r = Given(HasTable(st, t), SqlCreateTable(t, st[t], cat))
    BY <1>2 DEF Backward, DropTableBackward
  <2>3. t \in DOMAIN st /\ r = SqlCreateTable(t, st[t], cat)
    BY <1>0, <2>2 DEF Given, Throws, HasTable
  <2> DEFINE tab == Table(StoredColumns(st[t].cols), st[t].fks, <<>>)
  <2>4. r.v = With(cat, t, tab)
    <3> HIDE DEF r
    <3> QED  BY <1>0, <2>3 DEF SqlCreateTable, When, Given, Returns, Throws
  <2>5. IsTable(tab) /\ tab.cols = StoredColumns(st[t].cols) /\ tab.fks = st[t].fks
    BY DEF IsTable, Table
  <2> HIDE DEF r, u, tab
  <2>6. Mirrors(r.v, st) /\ IsCatalog(r.v)
    BY <2>1, <2>3, <2>4, <2>5 DEF With, Without, Restrict, Mirrors, IsCatalog, u
  <2> QED  BY <2>6 DEF r, u
<1>3. CASE op.kind = "rename_table"
  <2>1. t \in DOMAIN st /\ u = With(Without(st, t), op.new, st[t])
    BY <1>3 DEF UpdateState, RenameTableState, When, Given, Returns, Throws, HasTable
  <2>2. Swapped(op).table = op.new /\ Swapped(op).new = t
    BY <1>3 DEF Reversible, Swapped
  <2>3. r = RenameTableForward(Swapped(op), u, st, cat)
    BY <1>3 DEF Backward, RenameTableBackward
  <2>4. r = RenameTable(op.new, t, cat)
    <3> HIDE DEF r, u
    <3> QED  BY <1>0, <2>2, <2>3 DEF RenameTableForward, Given, Throws
  <2>5. Mirrors(r.v, st) /\ IsCatalog(r.v)
    <3> HIDE DEF r
    <3>1. CASE t = op.new
      <4>1. r.v = cat
        BY <2>4, <3>1 DEF RenameTable, Returns
      <4>2. DOMAIN u = DOMAIN st /\ \A x \in DOMAIN st : u[x] = st[x]
        <5> HIDE DEF u
        <5> QED  BY <2>1, <3>1 DEF With, Without, Restrict
      <4> QED  BY <4>1, <4>2 DEF Mirrors
    <3>2. CASE t # op.new
      <4>1. r.v = With(Without(cat, op.new), t, cat[op.new])
        BY <1>0, <2>4, <3>2, SqlRenameTableIs DEF RenameTable
      <4>2. op.new \notin DOMAIN st
        BY <1>3, <3>2 DEF Reversible, HasTable
      <4> HIDE DEF u
      <4>3. Mirrors(cat, u)
        BY DEF u
      <4>4. /\ DOMAIN u = (DOMAIN st \ {t}) \cup {op.new} /\ u[op.new] = st[t]
            /\ \A x \in DOMAIN st \ {t} : u[x] = st[x]
        BY <2>1, <3>2, <4>2 DEF With, Without, Restrict
      <4>5. /\ DOMAIN r.v = (DOMAIN cat \ {op.new}) \cup {t} /\ r.v[t] = cat[op.new]
            /\ \A x \in DOMAIN cat \ {op.new} : x # t => r.v[x] = cat[x]
        BY <4>1 DEF With, Without, Restrict
      <4>6. DOMAIN cat = DOMAIN u /\ cat[op.new].cols = StoredColumns(st[t].cols)
            /\ cat[op.new].fks = st[t].fks
        BY <4>3, <4>4 DEF Mirrors
      <4>7. DOMAIN r.v = DOMAIN st
        BY <2>1, <3>2, <4>2, <4>4, <4>5, <4>6
      <4>8. \A x \in DOMAIN st : r.v[x].cols = StoredColumns(st[x].cols) /\ r.v[x].fks = st[x].fks
        BY <2>1, <3>2, <4>2, <4>3, <4>4, <4>5, <4>6 DEF Mirrors
      <4>9. IsCatalog(r.v)
        BY <4>4, <4>5, <4>6 DEF IsCatalog
      <4> QED  BY <4>7, <4>8, <4>9 DEF Mirrors
    <3> QED  BY <3>1, <3>2
  <2> QED  BY <2>5 DEF r, u
<1>4. CASE op.kind \notin {"create_table", "drop_table", "rename_table"}
  <2> DEFINE cols == st[t].cols
             c == op.column
             now == CASE op.kind \in {"add_column", "alter_column"} -> With(cols, c, op.def)
                      [] op.kind = "drop_column" -> Without(cols, c)
                      [] op.kind = "rename_column" -> With(Without(cols, c), op.new, cols[c])
             table == [cols |-> now, fks |-> st[t].fks]
  <2>1. /\ t \in DOMAIN st
        /\ c \in DOMAIN cols <=> op.kind # "add_column"
        /\ op.kind = "rename_column" => op.new \notin DOMAIN cols
        /\ Rebuilt(st, u, t, table)
    BY <1>0, <1>4, ColumnStateIs
  <2> HIDE DEF u, now
  <2>2. u[t].cols = now /\ u[t].fks = st[t].fks /\ t \in DOMAIN u
    BY <2>1 DEF Rebuilt
  <2>3. /\ cat[t].cols = StoredColumns(now) /\ cat[t].fks = st[t].fks /\ t \in DOMAIN cat
        /\ Mirrors(cat, u)
    BY <2>2 DEF Mirrors, u
  <2>4. \E rows :
          Rebuilt(cat, r.v, t, Table(StoredColumns(cols), st[t].fks, rows))
    <3>1. CASE op.kind = "add_column"
      <4>1. now = With(cols, c, op.def)
        BY <3>1 DEF now
      <4>2. r = AddColumnBackward(op, u, st, cat)
        BY <3>1 DEF Backward
      <4>3. HasColumn(u, t, c) /\ r = DropColumn(t, u[t], c, cat)
        <5> HIDE DEF r
        <5> QED  BY <1>0, <4>2 DEF AddColumnBackward, Given, Throws
      <4>4. c \notin u[t].fks
        BY <2>1, <2>2, <3>1 DEF Reversible
      <4>5. StoredColumns(Without(now, c)) = StoredColumns(cols)
        BY <2>1, <3>1, <4>1 DEF StoredColumns, With, Without, Restrict
      <4> HIDE DEF r, cols
      <4>6. PICK rows :
              Rebuilt(cat, r.v, t,
                      Table(StoredColumns(Without(u[t].cols, c)), u[t].fks, rows))
        BY <1>0, <2>3, <4>3, <4>4, DropColumnIs
      <4> QED  BY <2>2, <4>5, <4>6
    <3>2. CASE op.kind = "drop_column"
      <4>1. now = Without(cols, c)
        BY <3>2 DEF now
      <4>2. r = DropColumnBackward(op, u, st, cat)
        BY <3>2 DEF Backward
      <4>3. r = SqlAddColumn(t, c, cols[c], cat)
        <5> HIDE DEF r
        <5> QED  BY <1>0, <4>2 DEF DropColumnBackward, Given, Throws
      <4> DEFINE rows == AddedRows(cat[t].rows, c, Stored(cols[c]))
      <4>4. r.v = With(cat, t, Table(With(cat[t].cols, c, Stored(cols[c])), cat[t].fks,
                                     rows))
        <5> HIDE DEF r
        <5> QED  BY <1>0, <4>3, SqlAddColumnIs
      <4>5. With(cat[t].cols, c, Stored(cols[c])) = StoredColumns(cols)
        BY <2>1, <2>3, <3>2, <4>1 DEF StoredColumns, With, Without, Restrict
      <4> HIDE DEF r, rows
      <4> QED  BY <2>3, <4>4, <4>5, RebuiltIs
    <3>3. CASE op.kind = "alter_column"
      <4>1. now = With(cols, c, op.def)
        BY <3>3 DEF now
      <4>2. r = AlterColumnForward(op, u, st, cat)
        BY <3>3 DEF Backward, AlterColumnBackward
      <4>3. r = AlterColumn(t, u[t], c, c, cols[c], cat)
        <5> HIDE DEF r
        <5> QED  BY <1>0, <4>2 DEF AlterColumnForward, Given, Throws
      <4>4. now[c] = op.def
        BY <4>1 DEF With
      <4>5. HasColumn(u, t, c) /\ (Sqlite \/ ExactAlter(u[t].cols[c], cols[c]))
        BY <2>1, <2>2, <3>3, <4>1, <4>4 DEF HasColumn, HasTable, Reversible, With
      <4>6. StoredColumns(With(Without(now, c), c, cols[c])) = StoredColumns(cols)
        BY <2>1, <3>3, <4>1 DEF StoredColumns, With, Without, Restrict
      <4> HIDE DEF r, cols
      <4>7. PICK rows :
              Rebuilt(cat, r.v, t,
                      Table(StoredColumns(With(Without(u[t].cols, c), c, cols[c])),
                            u[t].fks, rows))
        BY <1>0, <2>3, <4>3, <4>5, AlterColumnIs
      <4> QED  BY <2>2, <4>6, <4>7
    <3>4. CASE op.kind = "rename_column"
      <4>1. now = With(Without(cols, c), op.new, cols[c])
        BY <3>4 DEF now
      <4>2. r = MoveColumn(t, op.new, c, u, st, cat)
        BY <3>4 DEF Backward, RenameColumnBackward
      <4>3. r = AlterColumn(t, u[t], op.new, c, cols[c], cat)
        <5> HIDE DEF r
        <5> QED  BY <1>0, <4>2 DEF MoveColumn, Given, Throws
      <4>4. now[op.new] = cols[c] /\ op.new \in DOMAIN now /\ (c \notin DOMAIN now)
        BY <2>1, <3>4, <4>1 DEF With, Without, Restrict
      <4>5. HasColumn(u, t, op.new) /\ ~HasColumn(u, t, c) /\ op.new \notin u[t].fks
        BY <2>1, <2>2, <3>4, <4>4 DEF HasColumn, HasTable, Reversible
      <4>6. ExactAlter(u[t].cols[op.new], cols[c])
        BY <2>2, <4>4 DEF ExactAlter
      <4>7. StoredColumns(With(Without(now, op.new), c, cols[c])) = StoredColumns(cols)
        BY <2>1, <3>4, <4>1 DEF StoredColumns, With, Without, Restrict
      <4> HIDE DEF r, cols
      <4>8. PICK rows :
              Rebuilt(cat, r.v, t,
                      Table(StoredColumns(With(Without(u[t].cols, op.new), c, cols[c])),
                            u[t].fks, rows))
        BY <1>0, <2>3, <4>3, <4>5, <4>6, AlterColumnIs
      <4> QED  BY <2>2, <4>7, <4>8
    <3> QED  BY <1>0, <1>4, <3>1, <3>2, <3>3, <3>4 DEF Kinds
  <2>5. PICK rows :
          Rebuilt(cat, r.v, t, Table(StoredColumns(cols), st[t].fks, rows))
    BY <2>4
  <2> DEFINE tab == Table(StoredColumns(cols), st[t].fks, rows)
  <2>6. IsTable(tab) /\ tab.cols = StoredColumns(cols) /\ tab.fks = st[t].fks
    BY DEF IsTable, Table
  <2> HIDE DEF r, tab
  <2>7. Mirrors(r.v, st) /\ IsCatalog(r.v)
    BY <2>1, <2>3, <2>5, <2>6 DEF tab, Rebuilt, Mirrors, IsCatalog
  <2> QED  BY <2>7 DEF r, u
<1> QED  BY <1>0, <1>1, <1>2, <1>3, <1>4

-----------------------------------------------------------------------------
(* An operation that is exact, and goes through in the engine, leaves a    *)
(* schema that the new project state describes when the old one described  *)
(* the old one.                                                            *)
THEOREM ForwardIsExact ==
  ASSUME NEW cat, NEW st, IsState(st), IsCatalog(cat), Schema(cat) = Described(st),
         NEW op, Exact(op, st, Sqlite), UpdateState(op, st).ok,
         Forward(op, st, UpdateState(op, st).v, cat).ok
  PROVE  LET u == UpdateState(op, st).v
             v == Forward(op, st, u, cat).v
         IN  Schema(v) = Described(u) /\ IsState(u) /\ IsCatalog(v)
<1>1. Mirrors(cat, st)
  BY MirrorsIs
<1> QED  BY <1>1, ForwardMirrors, MirrorsIs

(* Its backward, if it goes through, restores what the old one describes.  *)
THEOREM BackwardIsExact ==
  ASSUME NEW st, IsState(st), NEW op, UpdateState(op, st).ok, Reversible(op, st, Sqlite),
         NEW cat, IsCatalog(cat), Schema(cat) = Described(UpdateState(op, st).v),
         Backward(op, UpdateState(op, st).v, st, cat).ok
  PROVE  LET v == Backward(op, UpdateState(op, st).v, st, cat).v
         IN  Schema(v) = Described(st) /\ IsCatalog(v)
<1>1. Mirrors(cat, UpdateState(op, st).v)
  BY MirrorsIs
<1> QED  BY <1>1, BackwardMirrors, MirrorsIs
=============================================================================
