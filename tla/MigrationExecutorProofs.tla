----------------------- MODULE MigrationExecutorProofs -----------------------
(***************************************************************************)
(* The migration executor, for any number of processes, migrations, calls, *)
(* failures and crashes: types; no call goes past its target; and, for     *)
(* builds that follow one another, the log grows by the next migration or  *)
(* shrinks by the last one, and a call that returns has reached its        *)
(* target, whatever the processes do to one another between reading the    *)
(* log and writing it.  With operations that are exact and reversible, the *)
(* engine's schema is the one the log tells of, and the executor           *)
(* implements MigrationHistory.                                            *)
(*                                                                         *)
(* Sequences are compared position by position: which migration a plan     *)
(* has next is a matter of where it stands in the order of all.            *)
(***************************************************************************)
EXTENDS MigrationExecutor, SchemaOperationsProofs, FiniteSetTheorems, SequenceTheorems

(* Names in order, each once.                                              *)
Increasing(s) == \A i, j \in DOMAIN s : i < j => s[i] < s[j]

(* Every finite set of numbers can be sorted.                              *)
LEMMA SortingExists ==
  ASSUME NEW S \in SUBSET Nat, IsFiniteSet(S)
  PROVE  \E s \in [1 .. Cardinality(S) -> S] : \A i, j \in DOMAIN s : i < j => s[i] < s[j]
<1> DEFINE Sortable(n) ==
             \A X \in SUBSET Nat : IsFiniteSet(X) /\ Cardinality(X) = n =>
               \E s \in [1 .. n -> X] : \A i, j \in 1 .. n : i < j => s[i] < s[j]
           Q == {n \in Nat : Sortable(n)}
<1>1. 0 \in Q
  <2> SUFFICES ASSUME NEW X \in SUBSET Nat
               PROVE  \E s \in [1 .. 0 -> X] : \A i, j \in 1 .. 0 : i < j => s[i] < s[j]
    OBVIOUS
  <2>1. 1 .. 0 = {}
    OBVIOUS
  <2>2. [i \in 1 .. 0 |-> 0] \in [1 .. 0 -> X]
    BY <2>1
  <2> QED  BY <2>1, <2>2
<1>2. ASSUME NEW n \in Nat, Sortable(n) PROVE Sortable(n + 1)
  <2> SUFFICES ASSUME NEW X \in SUBSET Nat, IsFiniteSet(X), Cardinality(X) = n + 1
               PROVE  \E s \in [1 .. n + 1 -> X] : \A i, j \in 1 .. n + 1 : i < j => s[i] < s[j]
    OBVIOUS
  <2>1. X # {}
    BY FS_EmptySet
  <2>2. PICK m \in X : \A k \in X : m <= k
    BY <2>1, LeastNumber
  <2>3. IsFiniteSet(X \ {m}) /\ Cardinality(X \ {m}) = n
    <3>1. IsFiniteSet(X \ {m}) /\ Cardinality(X \ {m}) = Cardinality(X) - 1
      BY FS_RemoveElement, Zenon
    <3> QED  BY <3>1
  <2>4. PICK r \in [1 .. n -> X \ {m}] : \A i, j \in 1 .. n : i < j => r[i] < r[j]
    <3>1. X \ {m} \in SUBSET Nat
      OBVIOUS
    <3> QED  BY <1>2, <2>3, <3>1
  <2> DEFINE s == [i \in 1 .. n + 1 |-> IF i = 1 THEN m ELSE r[i - 1]]
  <2>5. \A i \in 2 .. n + 1 : i - 1 \in 1 .. n
    OBVIOUS
  <2>6. s \in [1 .. n + 1 -> X]
    BY <2>4, <2>5
  <2>7. ASSUME NEW i \in 1 .. n + 1, NEW j \in 1 .. n + 1, i < j PROVE s[i] < s[j]
    <3>1. j - 1 \in 1 .. n /\ s[j] = r[j - 1] /\ r[j - 1] \in X \ {m} /\ m \in Nat /\ r[j - 1] \in Nat
      <4>1. j - 1 \in 1 .. n /\ j # 1
        BY <2>7
      <4>2. s[j] = r[j - 1]
        BY <4>1
      <4> HIDE DEF s
      <4> QED  BY <2>4, <4>1, <4>2
    <3>2. CASE i = 1
      BY <2>2, <3>1, <3>2
    <3>3. CASE i # 1
      BY <2>4, <2>7, <3>1, <3>3
    <3> QED  BY <3>2, <3>3
  <2> QED  BY <2>6, <2>7
<1>3. Nat \subseteq Q
  <2> HIDE DEF Sortable
  <2>1. \A n \in Nat : n \in Q => n + 1 \in Q
    BY <1>2
  <2> HIDE DEF Q
  <2> QED  BY <1>1, <2>1, InductionOnNat
<1>4. Cardinality(S) \in Nat
  BY FS_CardinalityType
<1>5. PICK s \in [1 .. Cardinality(S) -> S] :
        \A i, j \in 1 .. Cardinality(S) : i < j => s[i] < s[j]
  BY <1>3, <1>4
<1> QED  BY <1>5

(* Sorted lists every element of its set, in ascending order.              *)
LEMMA SortedListsAll ==
  ASSUME NEW S \in SUBSET Nat, IsFiniteSet(S)
  PROVE  /\ Sorted(S) \in Seq(S) /\ Increasing(Sorted(S))
         /\ Len(Sorted(S)) = Cardinality(S)
         /\ \A m \in S : \E i \in 1 .. Len(Sorted(S)) : Sorted(S)[i] = m
<1> DEFINE n == Cardinality(S)
           s == Sorted(S)
<1>1. n \in Nat
  BY FS_CardinalityType
<1>2. s \in [1 .. n -> S] /\ \A i, j \in DOMAIN s : i < j => s[i] < s[j]
  BY SortingExists DEF Sorted
<1>3. s \in Seq(S) /\ Len(s) = n
  BY <1>1, <1>2
<1>4. \A i, j \in 1 .. n : s[i] = s[j] => i = j
  <2>1. ASSUME NEW i \in 1 .. n, NEW j \in 1 .. n, i # j PROVE s[i] # s[j]
    <3>1. i < j \/ j < i
      <4> HIDE DEF n
      <4> QED  BY <1>1, <2>1
    <3>2. s[i] \in Nat /\ s[j] \in Nat
      BY <1>2
    <3> HIDE DEF s
    <3> QED  BY <1>2, <3>1, <3>2
  <2> QED  BY <2>1
<1>5. s \in Injection(1 .. n, S)
  <2> HIDE DEF s
  <2> QED  BY <1>2, <1>4 DEF Injection, IsInjective
<1>6. Cardinality(1 .. n) = n
  BY <1>1, FS_Interval
<1>7. s \in Surjection(1 .. n, S)
  <2> HIDE DEF s
  <2> QED  BY <1>5, <1>6, FS_Injection
<1>8. \A m \in S : \E i \in 1 .. n : s[i] = m
  <2> HIDE DEF s
  <2> QED  BY <1>7 DEF Surjection
<1> QED  BY <1>2, <1>3, <1>8 DEF Increasing

(* Place finds what is there, and says so when nothing is.                 *)
LEMMA PlaceIs ==
  ASSUME NEW S, NEW s \in Seq(S), NEW m
  PROVE  /\ Place(m, s) \in 0 .. Len(s)
         /\ Place(m, s) # 0 => s[Place(m, s)] = m
         /\ Contains(s, m) <=> Place(m, s) # 0
         /\ Contains(s, m) <=> m \in ToSet(s)
<1>1. DOMAIN s = 1 .. Len(s)
  OBVIOUS
<1>2. CASE Contains(s, m)
  <2>1. \E i \in DOMAIN s : s[i] = m
    BY <1>1, <1>2 DEF Contains
  <2>2. Place(m, s) = CHOOSE i \in DOMAIN s : s[i] = m
    BY <1>2 DEF Place
  <2>3. Place(m, s) \in DOMAIN s /\ s[Place(m, s)] = m
    BY <2>1, <2>2
  <2> QED  BY <1>1, <1>2, <2>1, <2>3 DEF ToSet
<1>3. CASE ~Contains(s, m)
  BY <1>1, <1>3 DEF Contains, Place, ToSet
<1> QED  BY <1>2, <1>3

(* Delete takes one migration out, and those after it move up.             *)
LEMMA DeleteIs ==
  ASSUME NEW S, NEW s \in Seq(S), NEW m
  PROVE  /\ Delete(s, m) \in Seq(S)
         /\ \A x \in ToSet(s) : x # m => x \in ToSet(Delete(s, m))
         /\ Place(m, s) # 0 =>
              /\ Len(Delete(s, m)) = Len(s) - 1
              /\ \A k \in 1 .. Len(s) - 1 :
                   Delete(s, m)[k] = IF k < Place(m, s) THEN s[k] ELSE s[k + 1]
<1> DEFINE i == Place(m, s)
           a == SubSeq(s, 1, i - 1)
           b == SubSeq(s, i + 1, Len(s))
<1>1. i \in 0 .. Len(s) /\ (i # 0 => s[i] = m)
  BY PlaceIs
<1>2. Delete(s, m) = a \o b
  BY DEF Delete, RemoveAt
<1>3. CASE i = 0
  <2>1. a = <<>> /\ b = s
    BY <1>3
  <2>2. Delete(s, m) = s
    <3> HIDE DEF a, b
    <3> QED  BY <1>2, <2>1, ConcatEmptySeq
  <2> QED  BY <1>3, <2>2
<1>4. CASE i # 0
  <2>0. i \in 1 .. Len(s) /\ s[i] = m
    BY <1>1, <1>4
  <2> HIDE DEF i
  <2>1. /\ a \in Seq(S) /\ Len(a) = i - 1 /\ \A k \in 1 .. i - 1 : a[k] = s[k]
        /\ b \in Seq(S) /\ Len(b) = Len(s) - i /\ \A k \in 1 .. Len(s) - i : b[k] = s[i + k]
    BY <2>0
  <2> HIDE DEF a, b
  <2>2. /\ a \o b \in Seq(S) /\ Len(a \o b) = Len(a) + Len(b)
        /\ \A k \in 1 .. Len(a) + Len(b) :
             (a \o b)[k] = IF k <= Len(a) THEN a[k] ELSE b[k - Len(a)]
    BY <2>1, ConcatProperties, Zenon
  <2> DEFINE d == a \o b
  <2>3. d \in Seq(S) /\ Len(d) = Len(s) - 1 /\ DOMAIN d = 1 .. Len(s) - 1
    <3> HIDE DEF d
    <3>1. d \in Seq(S) /\ Len(d) = Len(a) + Len(b)
      BY <2>2 DEF d
    <3> QED  BY <2>0, <2>1, <3>1
  <2>4. \A k \in 1 .. Len(s) - 1 : d[k] = IF k < i THEN s[k] ELSE s[k + 1]
    <3> SUFFICES ASSUME NEW k \in 1 .. Len(s) - 1
                 PROVE  d[k] = IF k < i THEN s[k] ELSE s[k + 1]
      OBVIOUS
    <3>1. k \in 1 .. Len(a) + Len(b)
      BY <2>0, <2>1
    <3>2. d[k] = IF k <= Len(a) THEN a[k] ELSE b[k - Len(a)]
      BY <2>2, <3>1
    <3> HIDE DEF d
    <3>3. CASE k < i
      BY <2>0, <2>1, <3>2, <3>3
    <3>4. CASE ~(k < i)
      <4>1. ~(k <= Len(a)) /\ k - Len(a) \in 1 .. Len(s) - i /\ i + (k - Len(a)) = k + 1
        BY <2>0, <2>1, <3>4
      <4> QED  BY <2>1, <3>2, <3>4, <4>1
    <3> QED  BY <3>3, <3>4
  <2> HIDE DEF d
  <2>5. ASSUME NEW x \in ToSet(s), x # m PROVE x \in ToSet(d)
    <3>1. PICK k \in 1 .. Len(s) : x = s[k]
      BY DEF ToSet
    <3>2. k # i
      BY <2>0, <2>5, <3>1
    <3>3. CASE k < i
      <4>1. k \in 1 .. Len(s) - 1 /\ d[k] = x
        BY <2>0, <2>4, <3>1, <3>3
      <4> QED  BY <2>3, <4>1 DEF ToSet
    <3>4. CASE k > i
      <4>1. k - 1 \in 1 .. Len(s) - 1 /\ ~(k - 1 < i) /\ (k - 1) + 1 = k
        BY <2>0, <3>4
      <4>2. d[k - 1] = x
        BY <2>4, <3>1, <4>1
      <4> QED  BY <2>3, <4>1, <4>2 DEF ToSet
    <3> QED  BY <2>0, <3>2, <3>3, <3>4
  <2>6. Delete(s, m) = d
    BY <1>2 DEF d
  <2> QED  BY <2>3, <2>4, <2>5, <2>6 DEF i
<1> QED  BY <1>3, <1>4

(* What is next in a plan is in it, and so is what is left afterwards.     *)
LEMMA HeadAndTail ==
  ASSUME NEW S, NEW s \in Seq(S), s # <<>>
  PROVE  /\ Head(s) \in S /\ Tail(s) \in Seq(S)
         /\ Head(s) \in ToSet(s) /\ ToSet(Tail(s)) \subseteq ToSet(s)
<1>1. /\ Head(s) = s[1] /\ 1 \in DOMAIN s /\ Tail(s) \in Seq(S) /\ Len(Tail(s)) = Len(s) - 1
      /\ \A k \in 1 .. Len(s) - 1 : Tail(s)[k] = s[k + 1]
  OBVIOUS
<1> QED  BY <1>1 DEF ToSet

(* The numbers and names the constants give.                               *)
LEMMA Disked ==
  ASSUME NEW disk \in Disks
  PROVE  /\ disk \in SUBSET Names /\ disk \in SUBSET Nat /\ IsFiniteSet(disk)
         /\ Sorted(disk) \in Seq(Names) /\ Increasing(Sorted(disk))
<1>1. disk \in SUBSET Names /\ disk \in SUBSET Nat
  BY ExecutorAssumption DEF Names
<1>2. IsFiniteSet(disk)
  BY <1>1, FS_Subset, ExecutorAssumption DEF Names
<1>3. Sorted(disk) \in Seq(disk) /\ Increasing(Sorted(disk))
  BY <1>1, <1>2, SortedListsAll
<1>4. Seq(disk) \subseteq Seq(Names)
  BY <1>1, SeqMonotonic
<1> QED  BY <1>1, <1>2, <1>3, <1>4

(* What apply is going to run: migrations after those that are logged, in  *)
(* order, none past the target if it is a migration of the build.          *)
LEMMA ToApplyIs ==
  ASSUME NEW names \in Seq(Names), Increasing(names), NEW rows \in Seq(Names), NEW to \in Nat,
         Len(rows) <= Len(names)
  PROVE  /\ ToApply(names, rows, to) \in Seq(Names)
         /\ to \in ToSet(names) => \A m \in ToSet(ToApply(names, rows, to)) : m <= to
         /\ Len(ToApply(names, rows, to)) + Len(rows) <= Len(names)
         /\ \A i \in 1 .. Len(ToApply(names, rows, to)) :
              ToApply(names, rows, to)[i] = names[Len(rows) + i]
<1> DEFINE k == Len(rows) + 1
           n == IF Contains(names, to) THEN Place(to, names) ELSE Len(names)
           s == ToApply(names, rows, to)
<1>1. Place(to, names) \in 0 .. Len(names) /\ (Place(to, names) # 0 => names[Place(to, names)] = to)
      /\ (Contains(names, to) <=> Place(to, names) # 0)
      /\ (Contains(names, to) <=> to \in ToSet(names))
  BY PlaceIs
<1>2. k \in Nat \ {0} /\ n \in 0 .. Len(names) /\ s = SubSeq(names, k, n)
  BY <1>1 DEF ToApply
<1>3. s \in Seq(Names) /\ Len(s) = (IF k <= n THEN n - k + 1 ELSE 0)
      /\ \A i \in 1 .. n - k + 1 : s[i] = names[k + i - 1]
  <2> HIDE DEF s, k, n
  <2> QED  BY <1>2
<1>4. ASSUME to \in ToSet(names), NEW m \in ToSet(s) PROVE m <= to
  <2>1. n = Place(to, names) /\ n # 0 /\ names[n] = to
    BY <1>1, <1>4
  <2> HIDE DEF s, k, n
  <2>2. PICK i \in 1 .. n - k + 1 : m = s[i]
    BY <1>2, <1>3, <1>4 DEF ToSet
  <2>3. k + i - 1 \in 1 .. n /\ m = names[k + i - 1]
    BY <1>2, <1>3, <2>2
  <2>4. names[k + i - 1] \in Nat /\ names[n] \in Nat
    <3>1. Names \subseteq Nat
      BY ExecutorAssumption DEF Names
    <3>2. k + i - 1 \in 1 .. Len(names) /\ n \in 1 .. Len(names)
      BY <1>2, <2>1, <2>3
    <3>3. names[k + i - 1] \in Names /\ names[n] \in Names
      BY <3>2
    <3> QED  BY <3>1, <3>3
  <2>5. k + i - 1 < n => names[k + i - 1] < names[n]
    BY <1>2, <2>1, <2>3 DEF Increasing
  <2> QED  BY <1>2, <2>1, <2>2, <2>3, <2>4, <2>5
<1>5. Len(s) + Len(rows) <= Len(names) /\ \A i \in 1 .. Len(s) : s[i] = names[Len(rows) + i]
  <2>1. k = Len(rows) + 1
    OBVIOUS
  <2> HIDE DEF s, k, n
  <2>2. Len(s) + Len(rows) <= Len(names)
    BY <1>2, <1>3, <2>1
  <2>3. ASSUME NEW i \in 1 .. Len(s) PROVE s[i] = names[Len(rows) + i]
    <3>1. i \in 1 .. n - k + 1 /\ k + i - 1 = Len(rows) + i
      BY <1>2, <1>3, <2>1
    <3> QED  BY <1>3, <3>1
  <2> QED  BY <2>2, <2>3
<1> QED  BY <1>3, <1>4, <1>5

(* A reversed sequence has the same elements, last one first.              *)
LEMMA ReverseIs ==
  ASSUME NEW S, NEW s \in Seq(S)
  PROVE  /\ Reverse(s) \in Seq(S) /\ Len(Reverse(s)) = Len(s)
         /\ \A i \in 1 .. Len(s) : Reverse(s)[i] = s[Len(s) - i + 1]
         /\ ToSet(Reverse(s)) = ToSet(s)
<1>1. \A i \in 1 .. Len(s) : Len(s) - i + 1 \in 1 .. Len(s) /\ Len(s) - (Len(s) - i + 1) + 1 = i
  OBVIOUS
<1>2. /\ Reverse(s) \in [1 .. Len(s) -> S]
      /\ \A i \in 1 .. Len(s) : Reverse(s)[i] = s[Len(s) - i + 1]
  BY <1>1 DEF Reverse
<1>3. Reverse(s) \in Seq(S) /\ Len(Reverse(s)) = Len(s) /\ DOMAIN Reverse(s) = 1 .. Len(s)
  BY <1>2
<1>4. ASSUME NEW x \in ToSet(s) PROVE x \in ToSet(Reverse(s))
  <2>1. PICK i \in 1 .. Len(s) : x = s[i]
    BY DEF ToSet
  <2>2. Reverse(s)[Len(s) - i + 1] = x
    BY <1>1, <1>2, <2>1
  <2> QED  BY <1>1, <1>3, <2>2 DEF ToSet
<1>5. ASSUME NEW x \in ToSet(Reverse(s)) PROVE x \in ToSet(s)
  <2>1. PICK i \in 1 .. Len(s) : x = Reverse(s)[i]
    BY <1>3 DEF ToSet
  <2>2. x = s[Len(s) - i + 1] /\ Len(s) - i + 1 \in DOMAIN s
    BY <1>1, <1>2, <2>1
  <2> QED  BY <2>2 DEF ToSet
<1> QED  BY <1>2, <1>3, <1>4, <1>5

(* What rollback is going to run: migrations that are logged, last one     *)
(* first, all past the target.                                             *)
LEMMA ToRollBackIs ==
  ASSUME NEW names \in Seq(Names), Increasing(names), NEW rows \in Seq(Names), NEW to \in Nat,
         Len(rows) <= Len(names), Agree(names, rows, Len(rows)),
         to = Everything \/ Contains(rows, to)
  PROVE  /\ ToRollBack(names, rows, to) \in Seq(Names)
         /\ \A m \in ToSet(ToRollBack(names, rows, to)) : m > to
         /\ Len(ToRollBack(names, rows, to)) <= Len(rows)
         /\ \A i \in 1 .. Len(ToRollBack(names, rows, to)) :
              ToRollBack(names, rows, to)[i] = names[Len(rows) - i + 1]
<1> DEFINE k == Place(to, names)
           n == Len(rows)
           s == SubSeq(names, k + 1, n)
<1>1. k \in 0 .. Len(names) /\ (k # 0 => names[k] = to) /\ (Contains(names, to) <=> k # 0)
  BY PlaceIs
<1>2. ToRollBack(names, rows, to) = Reverse(s) /\ n \in 0 .. Len(names)
  BY DEF ToRollBack
<1>3. s \in Seq(Names) /\ Len(s) = (IF k + 1 <= n THEN n - k ELSE 0)
      /\ \A i \in 1 .. n - k : s[i] = names[k + i]
  <2> HIDE DEF k, n
  <2> QED  BY <1>1, <1>2
<1>4. Names \subseteq Nat \ {0}
  BY ExecutorAssumption DEF Names, Everything
<1>5. to = 0 \/ k # 0
  <2>1. ASSUME Contains(rows, to) PROVE Contains(names, to)
    BY <1>2, <2>1 DEF Contains, Agree
  <2> QED  BY <1>1, <2>1 DEF Everything
<1>6. ASSUME NEW m \in ToSet(s) PROVE m > to
  <2> HIDE DEF s, k, n
  <2>1. PICK i \in 1 .. n - k : m = s[i]
    BY <1>1, <1>2, <1>3, <1>6 DEF ToSet
  <2>2. k + i \in 1 .. Len(names) /\ m = names[k + i] /\ k < k + i
    BY <1>1, <1>2, <1>3, <2>1
  <2>3. m \in Nat \ {0}
    <3>1. names[k + i] \in Names
      BY <2>2
    <3> QED  BY <1>4, <2>2, <3>1
  <2>4. k # 0 => names[k] < names[k + i]
    BY <1>1, <2>2 DEF Increasing
  <2>5. k # 0 => names[k] = to
    BY <1>1
  <2> QED  BY <1>5, <2>2, <2>3, <2>4, <2>5
<1>7. /\ ToSet(Reverse(s)) = ToSet(s) /\ Reverse(s) \in Seq(Names) /\ Len(Reverse(s)) = Len(s)
      /\ \A i \in 1 .. Len(s) : Reverse(s)[i] = s[Len(s) - i + 1]
  <2> HIDE DEF s
  <2> QED  BY <1>3, ReverseIs
<1>8. Len(s) <= n /\ \A i \in 1 .. Len(s) : Reverse(s)[i] = names[n - i + 1]
  <2> HIDE DEF s, k, n
  <2>1. Len(s) <= n
    BY <1>1, <1>2, <1>3
  <2>2. ASSUME NEW i \in 1 .. Len(s) PROVE Reverse(s)[i] = names[n - i + 1]
    <3>1. /\ Len(s) = n - k /\ Len(s) - i + 1 \in 1 .. n - k /\ k + (Len(s) - i + 1) = n - i + 1
      BY <1>1, <1>2, <1>3
    <3> QED  BY <1>3, <1>7, <3>1
  <2> QED  BY <2>1, <2>2
<1> QED  BY <1>2, <1>6, <1>7, <1>8

-----------------------------------------------------------------------------
(* An executor has the fields of Idle, works with the migrations of a      *)
(* disk, and a transaction has a schema and a log.                         *)
Fields == {"pc", "names", "call", "todo", "seen", "state", "ops"}
Shaped(f) == f = [p \in Processes |-> f[p]] /\ \A p \in Processes : DOMAIN f[p] = Fields

Executors ==
  /\ Shaped(ex)
  /\ DOMAIN work = {"catalog", "log"}
  /\ \A p \in Processes :
       /\ ex[p].call \in [direction : {"apply", "rollback"}, to : Nat]
       /\ ex[p].pc # "idle" => \E disk \in Disks : ex[p].names = Sorted(disk)

(* The log as the running migration of p is to leave it.                   *)
Applies(p) == ex[p].call.direction = "apply"
Recorded(p) ==
  IF Applies(p) THEN Append(log, Head(ex[p].todo)) ELSE Delete(log, Head(ex[p].todo))

(* Between its first statement and its commit a transaction has the write  *)
(* lock, so that the log it works on is the log there is.                  *)
Isolated ==
  \A p \in Processes :
    /\ ex[p].pc \in {"ops", "commit"} => ex[p].todo # <<>>
    /\ ex[p].pc = "commit" => writer = p /\ work.log = Recorded(p)
    /\ ex[p].pc = "ops" /\ writer = p => work.log = log

(* What is left of a plan is on the right side of the target.              *)
Planned(p) == ex[p].pc \in {"reread", "next", "ops", "commit"}

Within(p, names, to) ==
  IF Applies(p) THEN to \in ToSet(ex[p].names) => \A m \in ToSet(names) : m <= to
                ELSE \A m \in ToSet(names) : m > to

OnTarget == \A p \in Processes : Planned(p) => Within(p, ex[p].todo, ex[p].call.to)

Inv == TypeOK /\ Executors /\ Isolated /\ OnTarget
-----------------------------------------------------------------------------
(* A step of p that goes on with its call.                                 *)
Moves(p) ==
  /\ Shaped(ex')
  /\ \A q \in Processes : q # p => ex'[q] = ex[q]
  /\ ex'[p].names = ex[p].names /\ ex'[p].call = ex[p].call

(* The names of a running executor are in order.                           *)
LEMMA NamesOfRunning ==
  ASSUME Inv, NEW p \in Processes, ex[p].pc # "idle"
  PROVE  ex[p].names \in Seq(Names) /\ Increasing(ex[p].names)
BY Disked DEF Inv, Executors

(* The end of a call, by success, exception or crash.                      *)
LEMMA EndingKeeps ==
  ASSUME Inv, NEW p \in Processes, NEW how \in {"done", "thrown", "crashed"}, End(p, how),
         log' = log, meta' \in BOOLEAN, calls' \in 0 .. MaxCalls, faults' \in 0 .. MaxFaults
  PROVE  Inv'
<1>1. /\ Shaped(ex') /\ \A q \in Processes : q # p => ex'[q] = ex[q]
      /\ ex'[p] = Idle
  BY DEF Inv, Executors, Shaped, End, Idle, Fields
<1>2. /\ writer' \in {writer, Nobody} /\ writer' # p /\ work'.log \in Seq(Names)
      /\ DOMAIN work' = {"catalog", "log"} /\ (writer # p => writer' = writer /\ work' = work)
  <2>1. p # Nobody
    BY ExecutorAssumption
  <2> QED  BY <2>1 DEF Inv, TypeOK, Executors, End, NoWork
<1>3. result' \in [Processes -> {"none", "done", "thrown", "crashed"}]
  BY DEF Inv, TypeOK, End
<1>4. TypeOK'
  <2>1. /\ ex'[p].pc \in PCs /\ {ex'[p].names, ex'[p].todo, ex'[p].seen} \subseteq Seq(Names)
        /\ ex'[p].call.to \in Nat
    BY <1>1 DEF Idle, PCs, Everything
  <2>2. writer' # Nobody => ex'[writer'].pc \in {"ops", "commit"}
    BY <1>1, <1>2 DEF Inv, TypeOK
  <2>3. \A q \in Processes :
         /\ ex'[q].pc \in PCs
         /\ {ex'[q].names, ex'[q].todo, ex'[q].seen} \subseteq Seq(Names)
         /\ ex'[q].call.to \in Nat
    BY <1>1, <2>1 DEF Inv, TypeOK
  <2> QED  BY <1>2, <1>3, <2>2, <2>3 DEF Inv, TypeOK
<1>5. Executors'
  <2>1. ex'[p].call \in [direction : {"apply", "rollback"}, to : Nat] /\ ex'[p].pc = "idle"
    BY <1>1 DEF Idle, Everything
  <2> QED  BY <1>1, <1>2, <2>1 DEF Inv, Executors
<1>6. Isolated'
  <2> SUFFICES ASSUME NEW q \in Processes, q # p
               PROVE  /\ ex'[q].pc \in {"ops", "commit"} => ex'[q].todo # <<>>
                      /\ ex'[q].pc = "commit" => writer' = q /\ work'.log = Recorded(q)'
                      /\ ex'[q].pc = "ops" /\ writer' = q => work'.log = log'
    BY <1>1 DEF Isolated, Idle
  <2>1. ex'[q] = ex[q] /\ q # Nobody
    BY <1>1, ExecutorAssumption
  <2>2. Recorded(q)' = Recorded(q)
    BY <2>1 DEF Recorded, Applies
  <2> QED  BY <1>2, <2>1, <2>2 DEF Inv, Isolated
<1>7. OnTarget'
  BY <1>1 DEF Inv, OnTarget, Planned, Within, Applies, Idle
<1> QED  BY <1>4, <1>5, <1>6, <1>7 DEF Inv

(* Steps that leave log and lock alone.                                    *)
LEMMA PlanningKeeps ==
  ASSUME Inv, NEW p \in Processes, Moves(p), ex[p].pc \in PCs \ {"idle", "ops", "commit"},
         log' = log, writer' = writer, work' = work, meta' \in BOOLEAN,
         result' = result, calls' = calls, faults' = faults,
         ex'[p].pc \in PCs \ {"idle", "commit"}, ex'[p].todo \in Seq(Names), ex'[p].seen \in Seq(Names),
         ex'[p].pc = "ops" => ex'[p].todo # <<>>,
         Planned(p)' => Within(p, ex'[p].todo, ex[p].call.to)
  PROVE  Inv'
<1>1. writer # p
  BY ExecutorAssumption DEF Inv, TypeOK
<1>2. TypeOK'
  <2>1. ex'[p].call.to \in Nat /\ ex'[p].names \in Seq(Names)
    BY DEF Moves, Inv, TypeOK
  <2>2. writer # Nobody => ex'[writer].pc \in {"ops", "commit"}
    BY <1>1 DEF Moves, Inv, TypeOK
  <2> QED  BY <2>1, <2>2 DEF Moves, Inv, TypeOK
<1>3. Executors'
  BY DEF Inv, Executors, Moves
<1>4. Isolated'
  <2> SUFFICES ASSUME NEW q \in Processes
               PROVE  /\ ex'[q].pc \in {"ops", "commit"} => ex'[q].todo # <<>>
                      /\ ex'[q].pc = "commit" => writer' = q /\ work'.log = Recorded(q)'
                      /\ ex'[q].pc = "ops" /\ writer' = q => work'.log = log'
    BY DEF Isolated
  <2>1. CASE q = p
    BY <1>1, <2>1
  <2>2. CASE q # p
    <3>1. ex'[q] = ex[q]
      BY <2>2 DEF Moves
    <3>2. Recorded(q)' = Recorded(q)
      BY <3>1 DEF Recorded, Applies
    <3> QED  BY <3>1, <3>2 DEF Inv, Isolated
  <2> QED  BY <2>1, <2>2
<1>5. OnTarget'
  <2> SUFFICES ASSUME NEW q \in Processes, Planned(q)'
               PROVE  Within(q, ex[q].todo, ex[q].call.to)'
    BY DEF OnTarget
  <2>1. CASE q = p
    BY <2>1 DEF Within, Applies, Moves
  <2>2. CASE q # p
    <3>1. ex'[q] = ex[q]
      BY <2>2 DEF Moves
    <3> QED  BY <3>1 DEF Inv, OnTarget, Planned, Within, Applies
  <2> QED  BY <2>1, <2>2
<1> QED  BY <1>2, <1>3, <1>4, <1>5 DEF Inv

(* Steps inside the transaction of a migration.                            *)
LEMMA WritingKeeps ==
  ASSUME Inv, NEW p \in Processes, Moves(p), ex[p].pc = "ops",
         log' = log, meta' = meta, result' = result, calls' = calls, faults' = faults,
         CanWrite(p), writer' = p, DOMAIN work' = {"catalog", "log"},
         ex'[p].pc \in {"ops", "commit"}, ex'[p].todo = ex[p].todo, ex'[p].seen = ex[p].seen,
         ex'[p].pc = "ops" => work'.log = View(p).log,
         ex'[p].pc = "commit" => work'.log = Recorded(p)
  PROVE  Inv'
<1>1. View(p).log = log
  BY DEF Inv, Isolated, View
<1>2. ex[p].todo # <<>> /\ ex[p].todo \in Seq(Names) /\ log \in Seq(Names)
  BY DEF Inv, Isolated, TypeOK
<1>3. Recorded(p) \in Seq(Names)
  BY <1>2, HeadAndTail, DeleteIs DEF Recorded
<1>4. work'.log \in Seq(Names)
  BY <1>1, <1>2, <1>3
<1>5. \A q \in Processes : q # p => writer # q
  BY ExecutorAssumption DEF CanWrite
<1>6. TypeOK'
  <2>1. ex'[p].call.to \in Nat /\ ex'[p].names \in Seq(Names) /\ ex'[p].pc \in PCs
        /\ ex'[p].todo \in Seq(Names) /\ ex'[p].seen \in Seq(Names)
    BY DEF Moves, Inv, TypeOK, PCs
  <2>2. \A q \in Processes :
         /\ ex'[q].pc \in PCs
         /\ {ex'[q].names, ex'[q].todo, ex'[q].seen} \subseteq Seq(Names)
         /\ ex'[q].call.to \in Nat
    BY <2>1 DEF Moves, Inv, TypeOK
  <2> QED  BY <1>4, <2>2 DEF Inv, TypeOK
<1>7. Executors'
  BY DEF Inv, Executors, Moves
<1>8. Isolated'
  <2> SUFFICES ASSUME NEW q \in Processes
               PROVE  /\ ex'[q].pc \in {"ops", "commit"} => ex'[q].todo # <<>>
                      /\ ex'[q].pc = "commit" => writer' = q /\ work'.log = Recorded(q)'
                      /\ ex'[q].pc = "ops" /\ writer' = q => work'.log = log'
    BY DEF Isolated
  <2>1. CASE q = p
    <3>1. Recorded(p)' = Recorded(p)
      BY DEF Recorded, Applies, Moves
    <3> QED  BY <1>1, <1>2, <2>1, <3>1
  <2>2. CASE q # p
    <3>1. ex'[q] = ex[q]
      BY <2>2 DEF Moves
    <3> QED  BY <1>5, <2>2, <3>1 DEF Inv, Isolated
  <2> QED  BY <2>1, <2>2
<1>9. OnTarget'
  <2> SUFFICES ASSUME NEW q \in Processes, Planned(q)'
               PROVE  Within(q, ex[q].todo, ex[q].call.to)'
    BY DEF OnTarget
  <2>1. CASE q = p
    <3>1. Planned(p)
      BY DEF Planned
    <3> QED  BY <2>1, <3>1 DEF Inv, OnTarget, Within, Applies, Moves
  <2>2. CASE q # p
    <3>1. ex'[q] = ex[q]
      BY <2>2 DEF Moves
    <3> QED  BY <3>1 DEF Inv, OnTarget, Planned, Within, Applies
  <2> QED  BY <2>1, <2>2
<1> QED  BY <1>6, <1>7, <1>8, <1>9 DEF Inv

(* The commit of a migration: what is left of the plan is within the       *)
(* target, and the lock is free.                                           *)
LEMMA CommitKeeps ==
  ASSUME Inv, NEW p \in Processes, Commit(p)
  PROVE  Inv'
<1>1. /\ Moves(p) /\ ex'[p].pc = "next" /\ ex'[p].todo = Tail(ex[p].todo)
      /\ ex'[p].seen = ex[p].seen
  BY DEF Inv, Executors, Shaped, Moves, Fields, Commit
<1>2. /\ ex[p].pc = "commit" /\ log' = work.log /\ writer' = Nobody /\ work' = NoWork
      /\ meta' = meta /\ result' = result /\ calls' = calls /\ faults' = faults
  BY DEF Commit, database, counters
<1>3. writer = p /\ p # Nobody /\ ex[p].todo # <<>> /\ ex[p].todo \in Seq(Names)
  BY <1>2, ExecutorAssumption DEF Inv, Isolated, TypeOK
<1>4. Tail(ex[p].todo) \in Seq(Names) /\ ToSet(Tail(ex[p].todo)) \subseteq ToSet(ex[p].todo)
  BY <1>3, HeadAndTail
<1>5. TypeOK'
  <2>1. ex'[p].call.to \in Nat /\ ex'[p].names \in Seq(Names) /\ ex'[p].pc \in PCs
        /\ ex'[p].todo \in Seq(Names) /\ ex'[p].seen \in Seq(Names)
    BY <1>1, <1>4 DEF Moves, Inv, TypeOK, PCs
  <2>2. \A q \in Processes :
         /\ ex'[q].pc \in PCs
         /\ {ex'[q].names, ex'[q].todo, ex'[q].seen} \subseteq Seq(Names)
         /\ ex'[q].call.to \in Nat
    BY <1>1, <2>1 DEF Moves, Inv, TypeOK
  <2>3. log' \in Seq(Names) /\ work'.log \in Seq(Names)
    BY <1>2 DEF Inv, TypeOK, NoWork
  <2> QED  BY <1>2, <2>2, <2>3 DEF Inv, TypeOK
<1>6. Executors'
  BY <1>1, <1>2 DEF Inv, Executors, Moves, NoWork
<1>7. Isolated'
  <2> SUFFICES ASSUME NEW q \in Processes, q # p
               PROVE  ex[q].pc # "commit" /\ (ex[q].pc = "ops" => ex[q].todo # <<>>) /\ q # Nobody
    BY <1>1, <1>2 DEF Isolated, Moves
  <2> QED  BY <1>3, ExecutorAssumption DEF Inv, Isolated
<1>8. OnTarget'
  <2> SUFFICES ASSUME NEW q \in Processes, Planned(q)'
               PROVE  Within(q, ex[q].todo, ex[q].call.to)'
    BY DEF OnTarget
  <2>1. CASE q = p
    <3>1. Planned(p)
      BY <1>2 DEF Planned
    <3> QED  BY <1>1, <1>4, <2>1, <3>1 DEF Inv, OnTarget, Within, Applies, Moves
  <2>2. CASE q # p
    <3>1. ex'[q] = ex[q]
      BY <1>1, <2>2 DEF Moves
    <3> QED  BY <3>1 DEF Inv, OnTarget, Planned, Within, Applies
  <2> QED  BY <2>1, <2>2
<1> QED  BY <1>5, <1>6, <1>7, <1>8 DEF Inv

(* A new call, which has no plan yet.                                      *)
LEMMA CallKeeps ==
  ASSUME Inv, NEW p \in Processes, NEW call \in Calls, NEW disk \in Disks, Call(p, call, disk)
  PROVE  Inv'
<1>1. /\ Shaped(ex') /\ \A q \in Processes : q # p => ex'[q] = ex[q]
      /\ ex'[p].pc = "ensure" /\ ex'[p].names = Sorted(disk) /\ ex'[p].call = call
      /\ ex'[p].todo = ex[p].todo /\ ex'[p].seen = ex[p].seen
  BY DEF Inv, Executors, Shaped, Fields, Call
<1>2. /\ ex[p].pc = "idle" /\ log' = log /\ writer' = writer /\ work' = work /\ meta' = meta
      /\ result' = result /\ calls' \in 0 .. MaxCalls /\ faults' = faults
  BY ExecutorAssumption DEF Call, database, transaction, Inv, TypeOK
<1>3. call \in [direction : {"apply", "rollback"}, to : Nat] /\ Sorted(disk) \in Seq(Names)
  BY Disked, ExecutorAssumption
<1>4. writer # p
  BY <1>2, ExecutorAssumption DEF Inv, TypeOK
<1>5. TypeOK'
  <2>1. \A q \in Processes :
         /\ ex'[q].pc \in PCs
         /\ {ex'[q].names, ex'[q].todo, ex'[q].seen} \subseteq Seq(Names)
         /\ ex'[q].call.to \in Nat
    <3>1. /\ ex'[p].pc \in PCs /\ {ex'[p].names, ex'[p].todo, ex'[p].seen} \subseteq Seq(Names)
          /\ ex'[p].call.to \in Nat
      BY <1>1, <1>3 DEF Inv, TypeOK, PCs
    <3> QED  BY <1>1, <3>1 DEF Inv, TypeOK
  <2>2. writer # Nobody => ex'[writer].pc \in {"ops", "commit"}
    BY <1>1, <1>4 DEF Inv, TypeOK
  <2> QED  BY <1>2, <2>1, <2>2 DEF Inv, TypeOK
<1>6. Executors'
  BY <1>1, <1>2, <1>3 DEF Inv, Executors
<1>7. Isolated'
  <2> SUFFICES ASSUME NEW q \in Processes, q # p
               PROVE  /\ ex'[q].pc \in {"ops", "commit"} => ex'[q].todo # <<>>
                      /\ ex'[q].pc = "commit" => writer' = q /\ work'.log = Recorded(q)'
                      /\ ex'[q].pc = "ops" /\ writer' = q => work'.log = log'
    BY <1>1 DEF Isolated
  <2>1. ex'[q] = ex[q]
    BY <1>1
  <2>2. Recorded(q)' = Recorded(q)
    BY <1>2, <2>1 DEF Recorded, Applies
  <2> QED  BY <1>2, <2>1, <2>2 DEF Inv, Isolated
<1>8. OnTarget'
  BY <1>1 DEF Inv, OnTarget, Planned, Within, Applies
<1> QED  BY <1>5, <1>6, <1>7, <1>8 DEF Inv

(* The steps before a transaction.                                         *)
LEMMA EnsureKeeps ==
  ASSUME Inv, NEW p \in Processes, EnsureSchema(p)
  PROVE  Inv'
<1>1. /\ Moves(p) /\ ex'[p].pc \in {"read", "create"} /\ ex'[p].todo = ex[p].todo
      /\ ex'[p].seen = ex[p].seen
  BY DEF Inv, Executors, Shaped, Moves, Fields, EnsureSchema, Goto
<1>2. /\ ex[p].pc = "ensure" /\ log' = log /\ writer' = writer /\ work' = work /\ meta' \in BOOLEAN
      /\ result' = result /\ calls' = calls /\ faults' = faults
  BY DEF EnsureSchema, Goto, database, transaction, counters, Inv, TypeOK
<1>3. ex[p].todo \in Seq(Names) /\ ex[p].seen \in Seq(Names)
  BY DEF Inv, TypeOK
<1> QED  BY <1>1, <1>2, <1>3, PlanningKeeps DEF PCs, Planned

(* The bounds, and the flag of the log table.                              *)
LEMMA Counts == Inv => calls \in 0 .. MaxCalls /\ faults \in 0 .. MaxFaults /\ meta \in BOOLEAN
BY DEF Inv, TypeOK

(* The log table is made, or another process is in the way.                *)
LEMMA CreateKeeps ==
  ASSUME Inv, NEW p \in Processes, CreateMeta(p)
  PROVE  Inv'
<1>1. CASE meta \/ writer # Nobody
  <2>1. End(p, "thrown") /\ log' = log /\ meta' = meta /\ calls' = calls /\ faults' = faults
    BY <1>1 DEF CreateMeta, database, counters
  <2> QED  BY <2>1, EndingKeeps, Counts
<1>2. CASE ~(meta \/ writer # Nobody)
  <2>1. /\ Moves(p) /\ ex'[p].pc = "read" /\ ex'[p].todo = ex[p].todo /\ ex'[p].seen = ex[p].seen
    BY <1>2 DEF Inv, Executors, Shaped, Moves, Fields, CreateMeta, Goto
  <2>2. /\ ex[p].pc = "create" /\ log' = log /\ writer' = writer /\ work' = work /\ meta' \in BOOLEAN
        /\ result' = result /\ calls' = calls /\ faults' = faults
    BY <1>2 DEF CreateMeta, Goto, transaction, counters
  <2>3. ex[p].todo \in Seq(Names) /\ ex[p].seen \in Seq(Names)
    BY DEF Inv, TypeOK
  <2> QED  BY <2>1, <2>2, <2>3, PlanningKeeps DEF PCs, Planned
<1> QED  BY <1>1, <1>2

(* The plan of apply is within the target.                                 *)
LEMMA ReadToApplyKeeps ==
  ASSUME Inv, NEW p \in Processes, ReadToApply(p)
  PROVE  Inv'
<1> DEFINE names == ex[p].names
           to == ex[p].call.to
<1>1. ex[p].pc = "read" /\ Applies(p)
  BY DEF ReadToApply, Applies
<1>2. log' = log /\ meta' = meta /\ calls' = calls /\ faults' = faults
  BY DEF ReadToApply, database, counters
<1>3. CASE \E how \in {"done", "thrown"} : End(p, how)
  BY <1>2, <1>3, EndingKeeps, Counts
<1>4. CASE /\ Len(log) < Len(names)
           /\ ex' = [ex EXCEPT ![p].pc = "reread", ![p].todo = ToApply(names, log, to)]
           /\ UNCHANGED <<transaction, result>>
  <2>1. /\ Moves(p) /\ ex'[p].pc = "reread" /\ ex'[p].todo = ToApply(names, log, to)
        /\ ex'[p].seen = ex[p].seen
    BY <1>4 DEF Inv, Executors, Shaped, Moves, Fields
  <2>2. writer' = writer /\ work' = work /\ result' = result
    BY <1>4 DEF transaction
  <2>3. ex[p].seen \in Seq(Names) /\ log \in Seq(Names) /\ to \in Nat
    BY DEF Inv, TypeOK
  <2>4. names \in Seq(Names) /\ Increasing(names)
    BY <1>1, NamesOfRunning
  <2>5. /\ ToApply(names, log, to) \in Seq(Names)
        /\ to \in ToSet(names) => \A m \in ToSet(ToApply(names, log, to)) : m <= to
    <3>1. Len(log) <= Len(names)
      BY <1>4, <2>3, <2>4
    <3> HIDE DEF names, to
    <3> QED  BY <2>3, <2>4, <3>1, ToApplyIs
  <2>6. Within(p, ex'[p].todo, to)
    BY <1>1, <2>1, <2>5 DEF Within
  <2> QED  BY <1>1, <1>2, <2>1, <2>2, <2>3, <2>5, <2>6, Counts, PlanningKeeps DEF PCs
<1> QED  BY <1>3, <1>4 DEF ReadToApply

(* The second reading of the log leaves the plan as it is.                 *)
LEMMA RereadKeeps ==
  ASSUME Inv, NEW p \in Processes, Reread(p)
  PROVE  Inv'
<1>1. ex[p].pc = "reread" /\ log' = log /\ meta' = meta /\ calls' = calls /\ faults' = faults
  BY DEF Reread, database, counters
<1>2. CASE End(p, "thrown")
  BY <1>1, <1>2, EndingKeeps, Counts
<1>3. CASE ~End(p, "thrown")
  <2> DEFINE st == SchemaOf(log).v
  <2>1. ex' = [ex EXCEPT ![p].pc = "next", ![p].state = st] /\ UNCHANGED <<transaction, result>>
    BY <1>3 DEF Reread
  <2>2. /\ Moves(p) /\ ex'[p].pc = "next" /\ ex'[p].todo = ex[p].todo /\ ex'[p].seen = ex[p].seen
    <3> HIDE DEF st
    <3> QED  BY <2>1 DEF Inv, Executors, Shaped, Moves, Fields
  <2>3. writer' = writer /\ work' = work /\ result' = result
    BY <2>1 DEF transaction
  <2>4. ex[p].todo \in Seq(Names) /\ ex[p].seen \in Seq(Names)
    BY DEF Inv, TypeOK
  <2>5. Within(p, ex[p].todo, ex[p].call.to)
    BY <1>1 DEF Inv, OnTarget, Planned
  <2> QED  BY <1>1, <2>2, <2>3, <2>4, <2>5, Counts, PlanningKeeps DEF PCs
<1> QED  BY <1>2, <1>3

(* The plan of rollback is within the target.                              *)
LEMMA ReadToRollBackKeeps ==
  ASSUME Inv, NEW p \in Processes, ReadToRollBack(p)
  PROVE  Inv'
<1> DEFINE names == ex[p].names
           to == ex[p].call.to
<1>1. ex[p].pc = "read" /\ ~Applies(p)
  BY DEF ReadToRollBack, Applies
<1>2. log' = log /\ meta' = meta /\ calls' = calls /\ faults' = faults
  BY DEF ReadToRollBack, database, counters
<1>3. CASE \E how \in {"done", "thrown"} : End(p, how)
  BY <1>2, <1>3, EndingKeeps, Counts
<1>4. CASE /\ Len(log) <= Len(names) /\ (to = Everything \/ Contains(log, to))
           /\ Agree(names, log, Len(log))
           /\ ex' = [ex EXCEPT ![p].pc = "next", ![p].seen = log,
                               ![p].todo = ToRollBack(names, log, to)]
           /\ UNCHANGED <<transaction, result>>
  <2>1. /\ Moves(p) /\ ex'[p].pc = "next" /\ ex'[p].todo = ToRollBack(names, log, to)
        /\ ex'[p].seen = log
    BY <1>4 DEF Inv, Executors, Shaped, Moves, Fields
  <2>2. writer' = writer /\ work' = work /\ result' = result
    BY <1>4 DEF transaction
  <2>3. log \in Seq(Names) /\ to \in Nat
    BY DEF Inv, TypeOK
  <2>4. names \in Seq(Names) /\ Increasing(names)
    BY <1>1, NamesOfRunning
  <2>5. /\ ToRollBack(names, log, to) \in Seq(Names)
        /\ \A m \in ToSet(ToRollBack(names, log, to)) : m > to
    <3> HIDE DEF names, to
    <3> QED  BY <1>4, <2>3, <2>4, ToRollBackIs
  <2>6. Within(p, ex'[p].todo, to)
    BY <1>1, <2>1, <2>5 DEF Within
  <2> QED  BY <1>1, <1>2, <2>1, <2>2, <2>3, <2>5, <2>6, Counts, PlanningKeeps DEF PCs
<1> QED  BY <1>3, <1>4 DEF ReadToRollBack

(* The next migration of the plan, or the end of it.                       *)
LEMMA BeginKeeps ==
  ASSUME Inv, NEW p \in Processes, Begin(p)
  PROVE  Inv'
<1>1. ex[p].pc = "next" /\ log' = log /\ meta' = meta /\ calls' = calls /\ faults' = faults
  BY DEF Begin, database, counters
<1>2. CASE ex[p].todo = <<>>
  <2>1. End(p, "done")
    BY <1>2 DEF Begin
  <2> QED  BY <1>1, <2>1, EndingKeeps, Counts
<1>3. CASE ex[p].todo # <<>>
  <2> DEFINE m == Head(ex[p].todo)
             ops == IF ex[p].call.direction = "apply" THEN Body[m] ELSE BackwardSteps(m, ex[p].seen)
  <2>1. ex' = [ex EXCEPT ![p].pc = "ops", ![p].ops = ops] /\ UNCHANGED <<transaction, result>>
    BY <1>3 DEF Begin
  <2>2. /\ Moves(p) /\ ex'[p].pc = "ops" /\ ex'[p].todo = ex[p].todo /\ ex'[p].seen = ex[p].seen
    <3> HIDE DEF ops
    <3> QED  BY <2>1 DEF Inv, Executors, Shaped, Moves, Fields
  <2>3. writer' = writer /\ work' = work /\ result' = result
    BY <2>1 DEF transaction
  <2>4. ex[p].todo \in Seq(Names) /\ ex[p].seen \in Seq(Names)
    BY DEF Inv, TypeOK
  <2>5. Within(p, ex[p].todo, ex[p].call.to)
    BY <1>1 DEF Inv, OnTarget, Planned
  <2> QED  BY <1>1, <1>3, <2>2, <2>3, <2>4, <2>5, Counts, PlanningKeeps DEF PCs
<1> QED  BY <1>2, <1>3

(* What p writes its statements on.                                        *)
LEMMA ViewIs ==
  ASSUME Inv, NEW p \in Processes, NEW v
  PROVE  /\ DOMAIN [View(p) EXCEPT !.catalog = v] = {"catalog", "log"}
         /\ [View(p) EXCEPT !.catalog = v].log = View(p).log
         /\ DOMAIN [View(p) EXCEPT !.log = v] = {"catalog", "log"}
         /\ [View(p) EXCEPT !.log = v].log = v
<1>1. DOMAIN View(p) = {"catalog", "log"}
  BY DEF Inv, Executors, View
<1> QED  BY <1>1

(* An operation changes the schema of the transaction, not its log.        *)
LEMMA RunForwardKeeps ==
  ASSUME Inv, NEW p \in Processes, RunForward(p)
  PROVE  Inv'
<1>1. ex[p].pc = "ops" /\ log' = log /\ meta' = meta /\ calls' = calls /\ faults' = faults
  BY DEF RunForward, database, counters
<1>2. CASE End(p, "thrown")
  BY <1>1, <1>2, EndingKeeps, Counts
<1>3. CASE ~End(p, "thrown")
  <2> DEFINE st == UpdateState(Head(ex[p].ops), ex[p].state).v
             v == Forward(Head(ex[p].ops), ex[p].state, st, View(p).catalog).v
  <2>1. /\ CanWrite(p) /\ Write(p, [View(p) EXCEPT !.catalog = v])
        /\ ex' = [ex EXCEPT ![p].state = st, ![p].ops = Tail(@)] /\ UNCHANGED result
    BY <1>3 DEF RunForward
  <2> HIDE DEF st, v
  <2>2. /\ Moves(p) /\ ex'[p].pc = "ops" /\ ex'[p].todo = ex[p].todo /\ ex'[p].seen = ex[p].seen
    BY <1>1, <2>1 DEF Inv, Executors, Shaped, Moves, Fields
  <2>3. /\ writer' = p /\ DOMAIN work' = {"catalog", "log"} /\ work'.log = View(p).log
    BY <2>1, ViewIs DEF Write
  <2> QED  BY <1>1, <2>1, <2>2, <2>3, WritingKeeps
<1> QED  BY <1>2, <1>3

(* And so does its reverse.                                                *)
LEMMA RunBackwardKeeps ==
  ASSUME Inv, NEW p \in Processes, RunBackward(p)
  PROVE  Inv'
<1>1. ex[p].pc = "ops" /\ log' = log /\ meta' = meta /\ calls' = calls /\ faults' = faults
  BY DEF RunBackward, database, counters
<1>2. CASE End(p, "thrown")
  BY <1>1, <1>2, EndingKeeps, Counts
<1>3. CASE ~End(p, "thrown")
  <2> DEFINE step == Head(ex[p].ops)
             v == Backward(step.op, step.from, step.to, View(p).catalog).v
  <2>1. /\ CanWrite(p) /\ Write(p, [View(p) EXCEPT !.catalog = v])
        /\ ex' = [ex EXCEPT ![p].ops = Tail(@)] /\ UNCHANGED result
    BY <1>3 DEF RunBackward
  <2> HIDE DEF step, v
  <2>2. /\ Moves(p) /\ ex'[p].pc = "ops" /\ ex'[p].todo = ex[p].todo /\ ex'[p].seen = ex[p].seen
    BY <1>1, <2>1 DEF Inv, Executors, Shaped, Moves, Fields
  <2>3. /\ writer' = p /\ DOMAIN work' = {"catalog", "log"} /\ work'.log = View(p).log
    BY <2>1, ViewIs DEF Write
  <2> QED  BY <1>1, <2>1, <2>2, <2>3, WritingKeeps
<1> QED  BY <1>2, <1>3

(* The log of the transaction has the change that belongs to the migration. *)
LEMMA RecordKeeps ==
  ASSUME Inv, NEW p \in Processes, Record(p)
  PROVE  Inv'
<1>1. ex[p].pc = "ops" /\ log' = log /\ meta' = meta /\ calls' = calls /\ faults' = faults
  BY DEF Record, database, counters
<1>2. CASE End(p, "thrown")
  BY <1>1, <1>2, EndingKeeps, Counts
<1>3. CASE ~End(p, "thrown")
  <2>1. View(p).log = log
    BY <1>1 DEF Inv, Isolated, View
  <2>2. /\ CanWrite(p) /\ Write(p, [View(p) EXCEPT !.log = Recorded(p)])
        /\ ex' = [ex EXCEPT ![p].pc = "commit"] /\ result' = result
    BY <1>3, <2>1 DEF Record, Recorded, Applies, Goto
  <2>3. /\ Moves(p) /\ ex'[p].pc = "commit" /\ ex'[p].todo = ex[p].todo /\ ex'[p].seen = ex[p].seen
    BY <2>2 DEF Inv, Executors, Shaped, Moves, Fields
  <2>4. /\ writer' = p /\ DOMAIN work' = {"catalog", "log"} /\ work'.log = Recorded(p)
    BY <2>2, ViewIs DEF Write
  <2> QED  BY <1>1, <2>2, <2>3, <2>4, WritingKeeps
<1> QED  BY <1>2, <1>3

(* A failed statement or a crash ends the call.                            *)
LEMMA FaultKeeps ==
  ASSUME Inv, NEW p \in Processes, Fail(p) \/ Crash(p)
  PROVE  Inv'
<1>1. PICK how \in {"thrown", "crashed"} : End(p, how)
  BY DEF Fail, Crash
<1>2. log' = log /\ meta' = meta /\ calls' = calls /\ faults' \in 0 .. MaxFaults
  BY ExecutorAssumption, Counts DEF Fail, Crash, database
<1> QED  BY <1>1, <1>2, EndingKeeps, Counts

(* Before the first call everything is idle.                               *)
LEMMA InitHolds == Init => Inv
<1> SUFFICES ASSUME Init PROVE Inv
  OBVIOUS
<1>1. ex = [p \in Processes |-> Idle]
  BY DEF Init
<1>2. TypeOK
  <2>1. \A p \in Processes :
          ex[p].pc \in PCs /\ {ex[p].names, ex[p].todo, ex[p].seen} \subseteq Seq(Names)
                             /\ ex[p].call.to \in Nat
    <3>1. Idle.pc \in PCs /\ {Idle.names, Idle.todo, Idle.seen} \subseteq Seq(Names) /\ Idle.call.to \in Nat
      BY DEF Idle, PCs, Everything
    <3> HIDE DEF Idle
    <3> QED  BY <1>1, <3>1
  <2>2. calls \in 0 .. MaxCalls /\ faults \in 0 .. MaxFaults
    BY ExecutorAssumption DEF Init
  <2>3. log \in Seq(Names) /\ work.log \in Seq(Names)
    BY DEF Init, NoWork
  <2>4. result \in [Processes -> {"none", "done", "thrown", "crashed"}]
    BY DEF Init
  <2> QED  BY <2>1, <2>2, <2>3, <2>4 DEF Init, TypeOK
<1>3. Executors
  BY <1>1 DEF Init, Executors, Shaped, Fields, Idle, Everything, NoWork
<1>4. Isolated /\ OnTarget
  BY <1>1 DEF Isolated, OnTarget, Planned, Idle
<1> QED  BY <1>2, <1>3, <1>4 DEF Inv

(* Every step keeps the invariant.                                         *)
LEMMA NextKeeps == Inv /\ [Next]_vars => Inv'
<1> SUFFICES ASSUME Inv, [Next]_vars PROVE Inv'
  OBVIOUS
<1>1. CASE Next
  <2>1. PICK p \in Processes :
          \/ \E call \in Calls, disk \in Disks : Call(p, call, disk)
          \/ Step(p) \/ Fail(p) \/ Crash(p)
    BY <1>1 DEF Next
  <2>2. CASE \E call \in Calls, disk \in Disks : Call(p, call, disk)
    BY <2>2, CallKeeps
  <2>3. CASE Step(p)
    BY <2>3, EnsureKeeps, CreateKeeps, ReadToApplyKeeps, RereadKeeps, ReadToRollBackKeeps,
       BeginKeeps, RunForwardKeeps, RunBackwardKeeps, RecordKeeps, CommitKeeps DEF Step
  <2>4. CASE Fail(p) \/ Crash(p)
    BY <2>4, FaultKeeps
  <2> QED  BY <2>1, <2>2, <2>3, <2>4
<1>2. CASE UNCHANGED vars
  <2>1. /\ log' = log /\ meta' = meta /\ writer' = writer /\ work' = work /\ ex' = ex
        /\ result' = result /\ calls' = calls /\ faults' = faults
    BY <1>2 DEF vars, database, transaction, counters
  <2>2. TypeOK' /\ Executors'
    BY <2>1 DEF Inv, TypeOK, Executors, Shaped
  <2>3. Isolated' /\ OnTarget'
    BY <2>1 DEF Inv, Isolated, OnTarget, Planned, Within, Recorded, Applies
  <2> QED  BY <2>2, <2>3 DEF Inv
<1> QED  BY <1>1, <1>2

(* Inv holds in every state.                                               *)
LEMMA Invariance == Spec => []Inv
BY InitHolds, NextKeeps, PTL DEF Spec

(* The types hold, the lock is held only by a process in a transaction:    *)
(* TypeOK.                                                                 *)
THEOREM TypeCorrect == Spec => []TypeOK
<1>1. Inv => TypeOK
  BY DEF Inv
<1> QED  BY <1>1, Invariance, PTL

(* Only a commit changes the log.                                          *)
LEMMA OnlyCommitsLog ==
  ASSUME [Next]_vars, log' # log
  PROVE  \E p \in Processes : Commit(p)
<1>1. CASE Next
  BY <1>1 DEF Next, Step, Call, EnsureSchema, CreateMeta, ReadToApply, Reread, ReadToRollBack,
     Begin, RunForward, RunBackward, Record, Fail, Crash, database, Goto
<1>2. CASE UNCHANGED vars
  BY <1>2 DEF vars, database
<1> QED  BY <1>1, <1>2

(* A commit changes the log by one migration of the plan.                  *)
LEMMA CommitWithin ==
  ASSUME Inv, NEW p \in Processes, Commit(p)
  PROVE  LET to == ex[p].call.to
         IN  IF ex[p].call.direction = "apply"
               THEN to \in ToSet(ex[p].names) => \A m \in ToSet(log') \ ToSet(log) : m <= to
               ELSE \A m \in ToSet(log) \ ToSet(log') : m > to
<1> DEFINE h == Head(ex[p].todo)
           to == ex[p].call.to
<1>1. ex[p].pc = "commit" /\ log' = work.log
  BY DEF Commit
<1>2. log' = Recorded(p) /\ ex[p].todo # <<>>
  BY <1>1 DEF Inv, Isolated
<1>3. h \in ToSet(ex[p].todo) /\ h \in Names
  BY <1>2, HeadAndTail DEF Inv, TypeOK
<1>4. Within(p, ex[p].todo, to)
  BY <1>1 DEF Inv, OnTarget, Planned
<1>5. log \in Seq(Names)
  BY DEF Inv, TypeOK
<1> HIDE DEF h
<1>6. CASE Applies(p)
  <2>1. log' = Append(log, h)
    BY <1>2, <1>6 DEF Recorded, h
  <2>2. ASSUME NEW m \in ToSet(Append(log, h)) PROVE m = h \/ m \in ToSet(log)
    <3>1. PICK i \in 1 .. Len(log) + 1 : m = Append(log, h)[i]
      BY <1>3, <1>5 DEF ToSet
    <3> QED  BY <1>3, <1>5, <3>1 DEF ToSet
  <2>3. \A m \in ToSet(log') \ ToSet(log) : m = h
    BY <2>1, <2>2
  <2> QED  BY <1>3, <1>4, <1>6, <2>3 DEF Within, Applies
<1>7. CASE ~Applies(p)
  <2>1. log' = Delete(log, h)
    BY <1>2, <1>7 DEF Recorded, h
  <2>2. \A m \in ToSet(log) \ ToSet(log') : m = h
    BY <1>5, <2>1, DeleteIs
  <2> QED  BY <1>3, <1>4, <1>7, <2>2 DEF Within, Applies
<1> QED  BY <1>6, <1>7

(* Apply records nothing past its target, and rollback removes neither its *)
(* target nor anything before it, for any number of processes in each      *)
(* other's way (executor.cpp:106, executor.cpp:176): StaysWithinTarget.     *)
THEOREM TargetsAreKept == Spec => StaysWithinTarget
<1> DEFINE Step0 == \A p \in Processes :
             LET to == ex[p].call.to
             IN  log' # log /\ ex'[p] # ex[p] =>
                   IF ex[p].call.direction = "apply"
                     THEN to \in ToSet(ex[p].names) => \A m \in ToSet(log') \ ToSet(log) : m <= to
                     ELSE \A m \in ToSet(log) \ ToSet(log') : m > to
<1>1. Inv /\ [Next]_vars => Step0
  <2> SUFFICES ASSUME Inv, [Next]_vars, log' # log PROVE Step0
    OBVIOUS
  <2>1. PICK p \in Processes : Commit(p)
    BY OnlyCommitsLog
  <2>2. \A q \in Processes : q # p => ex'[q] = ex[q]
    BY <2>1 DEF Commit, Inv, Executors, Shaped
  <2> QED  BY <2>1, <2>2, CommitWithin
<1>2. Inv /\ [Next]_vars => [Step0]_vars
  BY <1>1
<1> QED  BY <1>2, Invariance, PTL DEF Spec, StaysWithinTarget

-----------------------------------------------------------------------------
(* The next migrations of a plan: to apply, those after the k-th, which is *)
(* in the log already; to roll back, the last ones of the log.             *)
Queued(p) ==
  IF Applies(p)
    THEN \E k \in 0 .. Len(log) :
           /\ Len(ex[p].todo) + k <= Len(ex[p].names)
           /\ \A i \in 1 .. Len(ex[p].todo) : ex[p].todo[i] = Order[k + i]
           /\ ex[p].pc = "commit" => k = Len(log)
    ELSE /\ Len(log) <= Len(ex[p].names)
         /\ Len(ex[p].todo) <= Len(log)
         /\ \A i \in 1 .. Len(ex[p].todo) : ex[p].todo[i] = Order[Len(log) - i + 1]

InOrder ==
  /\ Len(log) <= Len(Order) /\ \A i \in 1 .. Len(log) : log[i] = Order[i]
  /\ \A p \in Processes :
       /\ ex[p].pc # "idle" => ex[p].call \in Calls
       /\ Planned(p) => Queued(p)

(* The order of all migrations.                                            *)
LEMMA OrderIs ==
  /\ UNION Disks \in SUBSET Nat /\ IsFiniteSet(UNION Disks)
  /\ Order \in Seq(Names) /\ Increasing(Order)
  /\ \A i, j \in 1 .. Len(Order) : Order[i] = Order[j] => i = j
  /\ \A m \in UNION Disks : \E i \in 1 .. Len(Order) : Order[i] = m
  /\ \A i \in 1 .. Len(Order) : Order[i] \in UNION Disks
<1>1. UNION Disks \in SUBSET Names /\ UNION Disks \in SUBSET Nat
  BY ExecutorAssumption DEF Names
<1>2. IsFiniteSet(UNION Disks)
  BY <1>1, FS_Subset, ExecutorAssumption DEF Names
<1>3. /\ Order \in Seq(UNION Disks) /\ Increasing(Order)
      /\ \A m \in UNION Disks : \E i \in 1 .. Len(Order) : Order[i] = m
  BY <1>1, <1>2, SortedListsAll DEF Order
<1>4. Seq(UNION Disks) \subseteq Seq(Names)
  BY <1>1, SeqMonotonic
<1>5. \A i \in 1 .. Len(Order) : Order[i] \in UNION Disks /\ Order[i] \in Nat
  BY <1>1, <1>3
<1>6. ASSUME NEW i \in 1 .. Len(Order), NEW j \in 1 .. Len(Order), Order[i] = Order[j] PROVE i = j
  <2>1. DOMAIN Order = 1 .. Len(Order)
    BY <1>3
  <2>2. i < j => Order[i] < Order[j]
    BY <1>3, <2>1 DEF Increasing
  <2>3. j < i => Order[j] < Order[i]
    BY <1>3, <2>1 DEF Increasing
  <2>4. Order[i] \in Nat /\ Order[j] \in Nat
    BY <1>5
  <2> QED  BY <1>6, <2>2, <2>3, <2>4
<1> QED  BY <1>1, <1>2, <1>3, <1>4, <1>5, <1>6

(* The migrations of a build are the first ones of all.                    *)
LEMMA BuildIsPrefix ==
  ASSUME InStep, NEW disk \in Disks
  PROVE  /\ Len(Sorted(disk)) <= Len(Order)
         /\ \A i \in 1 .. Len(Sorted(disk)) : Sorted(disk)[i] = Order[i]
<1> DEFINE s == Sorted(disk)
           all == UNION Disks
<1>1. disk \in SUBSET all /\ disk \in SUBSET Nat /\ IsFiniteSet(disk)
  BY Disked
<1>2. /\ s \in Seq(disk) /\ Increasing(s) /\ Len(s) = Cardinality(disk) /\ DOMAIN s = 1 .. Len(s)
      /\ \A m \in disk : \E i \in 1 .. Len(s) : s[i] = m
  BY <1>1, SortedListsAll
<1>3. Len(Order) = Cardinality(all) /\ DOMAIN Order = 1 .. Len(Order) /\ Len(Order) \in Nat
  <2>1. Len(Order) = Cardinality(UNION Disks)
    BY OrderIs, SortedListsAll DEF Order
  <2>2. DOMAIN Order = 1 .. Len(Order) /\ Len(Order) \in Nat
    BY OrderIs
  <2> QED  BY <2>1, <2>2
<1>4. Len(s) <= Len(Order)
  BY <1>1, <1>2, <1>3, OrderIs, FS_Subset
<1> HIDE DEF s
<1>5. \A i \in 1 .. Len(s) : s[i] \in disk /\ s[i] \in Nat
  <2> SUFFICES ASSUME NEW i \in 1 .. Len(s) PROVE s[i] \in disk
    BY <1>1
  <2> QED  BY <1>2, ElementOfSeq
<1>6. \A i \in 1 .. Len(Order) : Order[i] \in all /\ Order[i] \in Nat
  BY OrderIs
<1> DEFINE Differ == {i \in Nat : i \in 1 .. Len(s) /\ s[i] # Order[i]}
<1>7. Differ = {}
  <2> SUFFICES ASSUME Differ # {} PROVE FALSE
    OBVIOUS
  <2>1. PICK i \in Differ : \A j \in Differ : i <= j
    BY LeastNumber
  <2>2. i \in 1 .. Len(s) /\ i \in 1 .. Len(Order) /\ s[i] # Order[i]
    BY <1>3, <1>4, <2>1
  <2>3. \A j \in 1 .. Len(s) : j < i => s[j] = Order[j]
    BY <2>1
  <2> HIDE DEF Differ
  <2>4. PICK j \in 1 .. Len(Order) : Order[j] = s[i]
    <3>1. s[i] \in all
      BY <1>1, <1>5, <2>2
    <3> QED  BY <3>1, OrderIs
  <2>5. ~(j < i)
    <3> SUFFICES ASSUME j < i PROVE FALSE
      OBVIOUS
    <3>1. j \in 1 .. Len(s) /\ s[j] = Order[j]
      BY <2>2, <2>3
    <3>2. s[j] < s[i]
      BY <1>2, <2>2, <3>1 DEF Increasing
    <3> QED  BY <1>5, <2>2, <2>4, <3>1, <3>2
  <2>6. i < j
    BY <2>2, <2>4, <2>5
  <2>7. Order[i] < s[i]
    BY <1>3, <2>2, <2>4, <2>6, OrderIs DEF Increasing
  <2>8. Order[i] \in disk
    BY <1>5, <1>6, <2>2, <2>7 DEF InStep
  <2>9. PICK k \in 1 .. Len(s) : s[k] = Order[i]
    BY <1>2, <2>8
  <2>10. ~(k < i)
    <3> SUFFICES ASSUME k < i PROVE FALSE
      OBVIOUS
    <3>1. s[k] = Order[k] /\ k \in 1 .. Len(Order)
      <4>1. k \in 1 .. Len(Order)
        BY <1>3, <1>4, <2>2, <2>9
      <4> QED  BY <2>3, <2>9, <4>1
    <3> QED  BY <2>2, <2>9, <3>1, OrderIs
  <2>11. ~(i < k)
    <3> SUFFICES ASSUME i < k PROVE FALSE
      OBVIOUS
    <3>1. s[i] < s[k]
      BY <1>2, <2>2 DEF Increasing
    <3> QED  BY <1>5, <2>2, <2>7, <2>9, <3>1
  <2>12. k = i
    BY <2>2, <2>10, <2>11
  <2> QED  BY <2>2, <2>9, <2>12
<1> QED  BY <1>4, <1>7 DEF s

(* What p works with.                                                      *)
LEMMA NamesArePrefix ==
  ASSUME InStep, Inv, NEW p \in Processes, ex[p].pc # "idle"
  PROVE  /\ ex[p].names \in Seq(Names) /\ Len(ex[p].names) <= Len(Order)
         /\ \A i \in 1 .. Len(ex[p].names) : ex[p].names[i] = Order[i]
BY NamesOfRunning, BuildIsPrefix DEF Inv, Executors

(* A step of p that leaves the log alone.                                  *)
LEMMA SameLog ==
  ASSUME InOrder, NEW p \in Processes, log' = log, \A q \in Processes : q # p => ex'[q] = ex[q],
         ex'[p].pc # "idle" => ex'[p].call \in Calls,
         Planned(p)' => Queued(p)'
  PROVE  InOrder'
<1> SUFFICES ASSUME NEW q \in Processes
             PROVE  /\ ex'[q].pc # "idle" => ex'[q].call \in Calls
                    /\ Planned(q)' => Queued(q)'
  BY DEF InOrder
<1>1. CASE q = p
  BY <1>1
<1>2. CASE q # p
  <2>1. ex'[q] = ex[q]
    BY <1>2
  <2> QED  BY <2>1 DEF InOrder, Planned, Queued, Applies
<1> QED  BY <1>1, <1>2

(* A call that ends leaves no plan.                                        *)
LEMMA EndingInOrder ==
  ASSUME Inv, InOrder, NEW p \in Processes, NEW how, End(p, how), log' = log
  PROVE  InOrder'
<1>1. \A q \in Processes : ex'[q] = IF q = p THEN Idle ELSE ex[q]
  BY DEF Inv, Executors, Shaped, End
<1>2. ex'[p].pc = "idle"
  BY <1>1 DEF Idle
<1> QED  BY <1>1, <1>2, SameLog DEF Planned

(* A step that takes the plan along.                                       *)
LEMMA MovingInOrder ==
  ASSUME Inv, InOrder, NEW p \in Processes, Moves(p), log' = log, ex[p].pc # "idle",
         Planned(p)' => Planned(p), ex'[p].todo = ex[p].todo, ex'[p].pc # "commit"
  PROVE  InOrder'
<1>1. \A q \in Processes : q # p => ex'[q] = ex[q]
  BY DEF Moves
<1>2. ex'[p].call \in Calls
  BY DEF Moves, InOrder
<1>3. ASSUME Planned(p) PROVE Queued(p)'
  <2>1. Queued(p)
    BY <1>3 DEF InOrder
  <2>2. Applies(p)' = Applies(p) /\ ex'[p].names = ex[p].names
    BY DEF Applies, Moves
  <2> QED  BY <2>1, <2>2 DEF Queued
<1> QED  BY <1>1, <1>2, <1>3, SameLog

(* The plan of apply begins behind the log.                                *)
LEMMA ReadToApplyInOrder ==
  ASSUME InStep, Inv, InOrder, NEW p \in Processes, ReadToApply(p)
  PROVE  InOrder'
<1> DEFINE names == ex[p].names
           to == ex[p].call.to
           todo == ToApply(names, log, to)
<1>1. ex[p].pc = "read" /\ Applies(p) /\ log' = log
  BY DEF ReadToApply, Applies, database
<1>2. CASE \E how \in {"done", "thrown"} : End(p, how)
  BY <1>1, <1>2, EndingInOrder
<1>3. CASE /\ Len(log) < Len(names)
           /\ ex' = [ex EXCEPT ![p].pc = "reread", ![p].todo = todo]
  <2>1. /\ Moves(p) /\ ex'[p].pc = "reread" /\ ex'[p].todo = todo
    <3> HIDE DEF todo
    <3> QED  BY <1>3 DEF Inv, Executors, Shaped, Moves, Fields
  <2>2. log \in Seq(Names) /\ to \in Nat
    BY DEF Inv, TypeOK
  <2>3. names \in Seq(Names) /\ Increasing(names) /\ Len(log) <= Len(names)
    BY <1>1, <1>3, <2>2, NamesOfRunning
  <2>4. /\ Len(todo) + Len(log) <= Len(names) /\ todo \in Seq(Names)
        /\ \A i \in 1 .. Len(todo) : todo[i] = names[Len(log) + i]
    <3> HIDE DEF names, to
    <3> QED  BY <2>2, <2>3, ToApplyIs
  <2>5. /\ Len(names) <= Len(Order) /\ \A i \in 1 .. Len(names) : names[i] = Order[i]
    BY <1>1, NamesArePrefix
  <2> HIDE DEF todo
  <2>6. ASSUME NEW i \in 1 .. Len(todo) PROVE todo[i] = Order[Len(log) + i]
    <3>1. Len(log) + i \in 1 .. Len(names)
      BY <2>2, <2>3, <2>4
    <3> QED  BY <2>4, <2>5, <3>1
  <2>7. Queued(p)'
    <3>1. Applies(p)' /\ ex'[p].names = names
      BY <1>1, <2>1 DEF Applies, Moves
    <3>2. Len(log) \in 0 .. Len(log)
      BY <2>2
    <3> QED  BY <1>1, <2>1, <2>4, <2>6, <3>1, <3>2 DEF Queued
  <2>8. ex'[p].call \in Calls
    BY <1>1, <2>1 DEF Moves, InOrder
  <2> QED  BY <1>1, <2>1, <2>7, <2>8, SameLog DEF Moves
<1> QED  BY <1>2, <1>3 DEF ReadToApply

(* The plan of rollback is the end of the log.                             *)
LEMMA ReadToRollBackInOrder ==
  ASSUME InStep, Inv, InOrder, NEW p \in Processes, ReadToRollBack(p)
  PROVE  InOrder'
<1> DEFINE names == ex[p].names
           to == ex[p].call.to
           todo == ToRollBack(names, log, to)
<1>1. ex[p].pc = "read" /\ ~Applies(p) /\ log' = log
  BY DEF ReadToRollBack, Applies, database
<1>2. CASE \E how \in {"done", "thrown"} : End(p, how)
  BY <1>1, <1>2, EndingInOrder
<1>3. CASE /\ Len(log) <= Len(names) /\ (to = Everything \/ Contains(log, to))
           /\ Agree(names, log, Len(log))
           /\ ex' = [ex EXCEPT ![p].pc = "next", ![p].seen = log, ![p].todo = todo]
  <2>1. /\ Moves(p) /\ ex'[p].pc = "next" /\ ex'[p].todo = todo
    <3> HIDE DEF todo
    <3> QED  BY <1>3 DEF Inv, Executors, Shaped, Moves, Fields
  <2>2. log \in Seq(Names) /\ to \in Nat
    BY DEF Inv, TypeOK
  <2>3. names \in Seq(Names) /\ Increasing(names)
    BY <1>1, NamesOfRunning
  <2>4. /\ Len(todo) <= Len(log) /\ todo \in Seq(Names)
        /\ \A i \in 1 .. Len(todo) : todo[i] = names[Len(log) - i + 1]
    <3> HIDE DEF names, to
    <3> QED  BY <1>3, <2>2, <2>3, ToRollBackIs
  <2>5. /\ Len(names) <= Len(Order) /\ \A i \in 1 .. Len(names) : names[i] = Order[i]
    BY <1>1, NamesArePrefix
  <2> HIDE DEF todo
  <2>6. ASSUME NEW i \in 1 .. Len(todo) PROVE todo[i] = Order[Len(log) - i + 1]
    <3>1. Len(log) - i + 1 \in 1 .. Len(names)
      BY <1>3, <2>2, <2>3, <2>4
    <3> QED  BY <2>4, <2>5, <3>1
  <2>7. Queued(p)'
    <3>1. ~Applies(p)' /\ ex'[p].names = names
      BY <1>1, <2>1 DEF Applies, Moves
    <3> QED  BY <1>1, <1>3, <2>1, <2>4, <2>6, <3>1 DEF Queued
  <2>8. ex'[p].call \in Calls
    BY <1>1, <2>1 DEF Moves, InOrder
  <2> QED  BY <1>1, <2>1, <2>7, <2>8, SameLog DEF Moves
<1> QED  BY <1>2, <1>3 DEF ReadToRollBack

(* A row that is inserted is the next one: those before are in the log,    *)
(* and a name that is there already is refused (its column is unique).     *)
LEMMA RecordInOrder ==
  ASSUME InStep, Inv, InOrder, NEW p \in Processes, Record(p)
  PROVE  InOrder'
<1> DEFINE todo == ex[p].todo
<1>1. ex[p].pc = "ops" /\ log' = log
  BY DEF Record, database
<1>2. CASE End(p, "thrown")
  BY <1>1, <1>2, EndingInOrder
<1>3. CASE ~End(p, "thrown")
  <2>1. View(p).log = log
    BY <1>1 DEF Inv, Isolated, View
  <2>2. ex' = [ex EXCEPT ![p].pc = "commit"] /\ (Applies(p) => ~Contains(log, Head(todo)))
    BY <1>3, <2>1 DEF Record, Applies, Goto
  <2>3. Moves(p) /\ ex'[p].pc = "commit" /\ ex'[p].todo = todo
    BY <2>2 DEF Inv, Executors, Shaped, Moves, Fields
  <2>4. Queued(p) /\ todo # <<>> /\ todo \in Seq(Names) /\ log \in Seq(Names)
    BY <1>1 DEF InOrder, Planned, Inv, Isolated, TypeOK
  <2>5. Len(todo) \in Nat /\ 1 \in 1 .. Len(todo) /\ Head(todo) = todo[1]
    BY <2>4
  <2>6. Applies(p)' = Applies(p) /\ ex'[p].names = ex[p].names
    BY <2>3 DEF Applies, Moves
  <2>7. Queued(p)'
    <3>1. CASE Applies(p)
      <4>1. PICK k \in 0 .. Len(log) :
              /\ Len(todo) + k <= Len(ex[p].names)
              /\ \A i \in 1 .. Len(todo) : todo[i] = Order[k + i]
        BY <2>4, <3>1 DEF Queued
      <4>2. k = Len(log)
        <5> SUFFICES ASSUME k # Len(log) PROVE FALSE
          OBVIOUS
        <5>1. k + 1 \in 1 .. Len(log)
          BY <2>4
        <5>2. log[k + 1] = Head(todo)
          BY <2>5, <4>1, <5>1 DEF InOrder
        <5> QED  BY <2>2, <3>1, <5>1, <5>2 DEF Contains
      <4> QED  BY <1>1, <2>3, <2>6, <3>1, <4>1, <4>2 DEF Queued
    <3>2. CASE ~Applies(p)
      BY <1>1, <2>3, <2>4, <2>6, <3>2 DEF Queued
    <3> QED  BY <3>1, <3>2
  <2>8. ex'[p].call \in Calls
    BY <1>1, <2>3 DEF Moves, InOrder
  <2> QED  BY <1>1, <2>3, <2>7, <2>8, SameLog DEF Moves
<1> QED  BY <1>2, <1>3

(* What a commit does to the log: the next migration comes, or the last    *)
(* one goes.                                                               *)
LEMMA CommitOneByOne ==
  ASSUME InStep, Inv, InOrder, NEW p \in Processes, Commit(p)
  PROVE  /\ ex[p].todo \in Seq(Names) /\ ex[p].todo # <<>> /\ log \in Seq(Names)
         /\ Applies(p) => /\ log' = Append(log, Order[Len(log) + 1])
                          /\ Len(log) + Len(ex[p].todo) <= Len(ex[p].names)
                          /\ \A i \in 1 .. Len(ex[p].todo) : ex[p].todo[i] = Order[Len(log) + i]
         /\ ~Applies(p) => /\ log' \in Seq(Names) /\ Len(log) # 0 /\ Len(log') = Len(log) - 1
                           /\ \A i \in 1 .. Len(log) - 1 : log'[i] = log[i]
<1> DEFINE todo == ex[p].todo
<1>1. ex[p].pc = "commit" /\ log' = work.log
  BY DEF Commit
<1>2. /\ log' = Recorded(p) /\ todo # <<>> /\ todo \in Seq(Names) /\ log \in Seq(Names)
      /\ Queued(p)
  BY <1>1 DEF Inv, Isolated, TypeOK, InOrder, Planned
<1>3. Len(todo) \in Nat /\ 1 \in 1 .. Len(todo) /\ Head(todo) = todo[1]
  BY <1>2
<1>4. CASE Applies(p)
  <2>1. /\ Len(todo) + Len(log) <= Len(ex[p].names)
        /\ \A i \in 1 .. Len(todo) : todo[i] = Order[Len(log) + i]
    BY <1>1, <1>2, <1>4 DEF Queued
  <2>2. log' = Append(log, Order[Len(log) + 1])
    BY <1>2, <1>3, <1>4, <2>1 DEF Recorded
  <2>3. Len(log) \in Nat /\ Len(ex[p].names) \in Nat
    BY <1>1, <1>2, NamesOfRunning
  <2> QED  BY <1>2, <1>3, <1>4, <2>1, <2>2, <2>3
<1>5. CASE ~Applies(p)
  <2>1. /\ Len(todo) <= Len(log) /\ todo[1] = Order[Len(log) - 1 + 1]
    BY <1>2, <1>3, <1>5 DEF Queued
  <2> DEFINE n == Len(log)
             h == Head(todo)
  <2>2. n \in Nat \ {0} /\ h = Order[n] /\ h = log[n] /\ n <= Len(Order)
    BY <1>2, <1>3, <2>1 DEF InOrder
  <2>3. log' = Delete(log, h)
    BY <1>2, <1>5 DEF Recorded
  <2> HIDE DEF h, n
  <2>4. Place(h, log) = n
    <3>1. Contains(log, h)
      BY <2>2 DEF Contains, n
    <3>2. Place(h, log) \in 1 .. n /\ log[Place(h, log)] = h
      BY <1>2, <3>1, PlaceIs DEF n
    <3>3. Order[Place(h, log)] = Order[n] /\ Place(h, log) \in 1 .. Len(Order) /\ n \in 1 .. Len(Order)
      BY <2>2, <3>2, OrderIs DEF InOrder, n
    <3> QED  BY <3>3, OrderIs
  <2>5. /\ Delete(log, h) \in Seq(Names) /\ Len(Delete(log, h)) = n - 1
        /\ \A i \in 1 .. n - 1 : Delete(log, h)[i] = IF i < n THEN log[i] ELSE log[i + 1]
    BY <1>2, <2>2, <2>4, DeleteIs DEF n
  <2>6. \A i \in 1 .. n - 1 : i < n
    BY <2>2
  <2> QED  BY <1>2, <1>5, <2>2, <2>3, <2>5, <2>6 DEF n
<1> QED  BY <1>4, <1>5

(* After a commit the log still is a beginning of the order, the plan goes *)
(* on behind it, and the plans of others are where they were or overtaken. *)
LEMMA CommitInOrder ==
  ASSUME InStep, Inv, InOrder, NEW p \in Processes, Commit(p)
  PROVE  InOrder'
<1> DEFINE todo == ex[p].todo
           names == ex[p].names
           n == Len(log)
<1>1. /\ Moves(p) /\ ex[p].pc = "commit" /\ ex'[p].pc = "next" /\ ex'[p].todo = Tail(todo)
  BY DEF Inv, Executors, Shaped, Moves, Fields, Commit
<1>2. /\ todo \in Seq(Names) /\ todo # <<>> /\ log \in Seq(Names) /\ n \in Nat
      /\ Len(Tail(todo)) = Len(todo) - 1 /\ Len(todo) \in Nat \ {0}
      /\ \A i \in 1 .. Len(todo) - 1 : Tail(todo)[i] = todo[i + 1]
  BY CommitOneByOne
<1>3. /\ names \in Seq(Names) /\ Len(names) <= Len(Order) /\ Len(names) \in Nat
  BY <1>1, NamesArePrefix
<1>4. /\ Applies(p)' = Applies(p) /\ ex'[p].names = names
  BY <1>1 DEF Applies, Moves
<1>5. ex'[p].call \in Calls /\ ex[p].call \in Calls
  BY <1>1 DEF Moves, InOrder
<1>6. ASSUME NEW q \in Processes, q # p PROVE ex'[q] = ex[q] /\ ex[q].pc # "commit"
  <2>1. writer = p
    BY <1>1 DEF Inv, Isolated
  <2> QED  BY <1>1, <1>6, <2>1 DEF Moves, Inv, Isolated
<1>7. CASE Applies(p)
  <2>1. /\ log' = Append(log, Order[n + 1])
        /\ n + Len(todo) <= Len(names)
        /\ \A i \in 1 .. Len(todo) : todo[i] = Order[n + i]
    BY <1>7, CommitOneByOne
  <2>2. /\ Len(log') = n + 1 /\ \A i \in 1 .. n : log'[i] = log[i]
        /\ log'[n + 1] = Order[n + 1]
    BY <1>2, <2>1
  <2>3. Len(log') <= Len(Order) /\ \A i \in 1 .. Len(log') : log'[i] = Order[i]
    <3>1. Len(log') <= Len(Order)
      BY <1>2, <1>3, <2>1, <2>2, OrderIs
    <3>2. ASSUME NEW i \in 1 .. Len(log') PROVE log'[i] = Order[i]
      <4>1. i \in 1 .. n \/ i = n + 1
        BY <1>2, <2>2
      <4> QED  BY <2>2, <4>1 DEF InOrder
    <3> QED  BY <3>1, <3>2
  <2>4. Queued(p)'
    <3> DEFINE k == Len(log')
    <3>1. k = n + 1 /\ k \in 0 .. Len(log')
      BY <1>2, <2>2
    <3>2. Len(Tail(todo)) + k <= Len(names)
      <4> DEFINE l == Len(todo)
                 l1 == Len(Tail(todo))
                 w == Len(names)
      <4>1. l1 = l - 1 /\ l \in Nat \ {0} /\ n + l <= w /\ k = n + 1 /\ n \in Nat /\ w \in Nat
        BY <1>2, <1>3, <2>1, <3>1
      <4> HIDE DEF n, k, l, l1, w
      <4>2. l1 + k <= w
        BY <4>1
      <4> QED  BY <4>2 DEF l1, w
    <3>3. ASSUME NEW i \in 1 .. Len(Tail(todo)) PROVE Tail(todo)[i] = Order[k + i]
      <4>1. i \in 1 .. Len(todo) - 1 /\ i + 1 \in 1 .. Len(todo) /\ n + (i + 1) = k + i
        BY <1>2, <3>1
      <4> QED  BY <1>2, <2>1, <4>1
    <3> HIDE DEF k
    <3> QED  BY <1>1, <1>4, <1>7, <3>1, <3>2, <3>3 DEF Queued, k
  <2>5. ASSUME NEW q \in Processes, q # p, Planned(q) PROVE Queued(q)'
    <3>1. Applies(q)
      <4>1. ~(\A a, b \in Processes : a = b)
        BY <2>5
      <4>2. ex[q].call \in Calls
        BY <2>5 DEF Planned, InOrder
      <4> QED  BY <4>1, <4>2 DEF InStep, Applies
    <3>2. PICK k \in 0 .. n :
            /\ Len(ex[q].todo) + k <= Len(ex[q].names)
            /\ \A i \in 1 .. Len(ex[q].todo) : ex[q].todo[i] = Order[k + i]
      BY <2>5, <3>1 DEF InOrder, Queued
    <3>3. k \in 0 .. Len(log')
      BY <1>2, <2>2
    <3> QED  BY <1>6, <2>5, <3>1, <3>2, <3>3 DEF Queued, Applies
  <2>6. \A q \in Processes : /\ ex'[q].pc # "idle" => ex'[q].call \in Calls
                             /\ Planned(q)' => Queued(q)'
    <3> SUFFICES ASSUME NEW q \in Processes, q # p
                 PROVE  /\ ex'[q].pc # "idle" => ex'[q].call \in Calls
                        /\ Planned(q)' => Queued(q)'
      BY <1>5, <2>4
    <3> QED  BY <1>6, <2>5 DEF InOrder, Planned
  <2> QED  BY <2>3, <2>6 DEF InOrder
<1>8. CASE ~Applies(p)
  <2>1. /\ log' \in Seq(Names) /\ n # 0 /\ Len(log') = n - 1
        /\ \A i \in 1 .. n - 1 : log'[i] = log[i]
    BY <1>8, CommitOneByOne
  <2>2. /\ n <= Len(names) /\ Len(todo) <= n
        /\ \A i \in 1 .. Len(todo) : todo[i] = Order[n - i + 1]
    BY <1>1, <1>8 DEF InOrder, Planned, Queued
  <2>3. Len(log') <= Len(Order) /\ \A i \in 1 .. Len(log') : log'[i] = Order[i]
    <3>1. n <= Len(Order) /\ Len(Order) \in Nat /\ \A i \in 1 .. n : log[i] = Order[i]
      BY OrderIs DEF InOrder
    <3> HIDE DEF n
    <3> QED  BY <1>2, <2>1, <3>1
  <2>4. \A q \in Processes : q = p
    BY <1>5, <1>8 DEF InStep, Applies
  <2>5. Queued(p)'
    <3>1. Len(log') <= Len(names) /\ Len(Tail(todo)) <= Len(log')
      BY <1>2, <1>3, <2>1, <2>2
    <3>2. ASSUME NEW i \in 1 .. Len(Tail(todo)) PROVE Tail(todo)[i] = Order[Len(log') - i + 1]
      <4>1. /\ i \in 1 .. Len(todo) - 1 /\ i + 1 \in 1 .. Len(todo)
            /\ n - (i + 1) + 1 = Len(log') - i + 1
        BY <1>2, <2>1
      <4> QED  BY <1>2, <2>2, <4>1
    <3> QED  BY <1>1, <1>4, <1>8, <3>1, <3>2 DEF Queued
  <2> QED  BY <1>5, <2>3, <2>4, <2>5 DEF InOrder
<1> QED  BY <1>7, <1>8

(* A step of p that takes the log, the call and the plan along.            *)
GoesOn(p) ==
  /\ log' = log /\ Moves(p) /\ ex[p].pc # "idle" /\ ex'[p].pc # "idle"
  /\ Planned(p)' => Planned(p)
  /\ ex'[p].todo = ex[p].todo

(* What a step of a call can be: the end of the call, going on with the    *)
(* plan as it is, making a plan, or a commit.                              *)
LEMMA StepShapes ==
  ASSUME Inv, NEW p \in Processes, Step(p)
  PROVE  \/ log' = log /\ \E how \in {"done", "thrown"} : End(p, how)
         \/ GoesOn(p) /\ (ex'[p].pc = "commit" => Record(p))
         \/ /\ ReadToApply(p) \/ ReadToRollBack(p)
            /\ \A how \in {"done", "thrown"} : ~End(p, how)
         \/ Commit(p)
<1>1. CASE EnsureSchema(p)
  <2>1. /\ Moves(p) /\ ex'[p].pc \in {"read", "create"} /\ ex'[p].todo = ex[p].todo
        /\ ex[p].pc = "ensure" /\ log' = log
    BY <1>1 DEF Inv, Executors, Shaped, Moves, Fields, EnsureSchema, Goto, database
  <2> QED  BY <2>1 DEF GoesOn, Planned
<1>2. CASE CreateMeta(p)
  <2>1. CASE End(p, "thrown") /\ UNCHANGED database
    BY <2>1 DEF database
  <2>2. CASE ~(End(p, "thrown") /\ UNCHANGED database)
    <3>1. /\ Moves(p) /\ ex'[p].pc = "read" /\ ex'[p].todo = ex[p].todo
          /\ ex[p].pc = "create" /\ log' = log
      BY <1>2, <2>2 DEF Inv, Executors, Shaped, Moves, Fields, CreateMeta, Goto
    <3> QED  BY <3>1 DEF GoesOn, Planned
  <2> QED  BY <2>1, <2>2
<1>3. CASE Reread(p)
  <2>1. ex[p].pc = "reread" /\ log' = log
    BY <1>3 DEF Reread, database
  <2>2. CASE ~End(p, "thrown")
    <3> DEFINE st == SchemaOf(log).v
    <3>1. ex' = [ex EXCEPT ![p].pc = "next", ![p].state = st]
      BY <1>3, <2>2 DEF Reread
    <3> HIDE DEF st
    <3>2. Moves(p) /\ ex'[p].pc = "next" /\ ex'[p].todo = ex[p].todo
      BY <3>1 DEF Inv, Executors, Shaped, Moves, Fields
    <3> QED  BY <2>1, <3>2 DEF GoesOn, Planned
  <2> QED  BY <2>1, <2>2
<1>4. CASE Begin(p)
  <2>1. ex[p].pc = "next" /\ log' = log
    BY <1>4 DEF Begin, database
  <2>2. CASE ~End(p, "done")
    <3>1. PICK ops : ex' = [ex EXCEPT ![p].pc = "ops", ![p].ops = ops]
      BY <1>4, <2>2 DEF Begin
    <3>2. Moves(p) /\ ex'[p].pc = "ops" /\ ex'[p].todo = ex[p].todo
      BY <3>1 DEF Inv, Executors, Shaped, Moves, Fields
    <3> QED  BY <2>1, <3>2 DEF GoesOn, Planned
  <2> QED  BY <2>1, <2>2
<1>5. CASE RunForward(p) \/ RunBackward(p)
  <2>1. ex[p].pc = "ops" /\ log' = log
    BY <1>5 DEF RunForward, RunBackward, database
  <2>2. CASE ~End(p, "thrown")
    <3>1. ASSUME RunForward(p) PROVE Moves(p) /\ ex'[p].pc = "ops" /\ ex'[p].todo = ex[p].todo
      <4>1. PICK st : ex' = [ex EXCEPT ![p].state = st, ![p].ops = Tail(@)]
        BY <2>2, <3>1 DEF RunForward
      <4> QED  BY <2>1, <4>1 DEF Inv, Executors, Shaped, Moves, Fields
    <3>2. ASSUME RunBackward(p) PROVE Moves(p) /\ ex'[p].pc = "ops" /\ ex'[p].todo = ex[p].todo
      <4>1. ex' = [ex EXCEPT ![p].ops = Tail(@)]
        BY <2>2, <3>2 DEF RunBackward
      <4> QED  BY <2>1, <4>1 DEF Inv, Executors, Shaped, Moves, Fields
    <3> QED  BY <1>5, <2>1, <3>1, <3>2 DEF GoesOn, Planned
  <2> QED  BY <2>1, <2>2
<1>6. CASE Record(p)
  <2>1. ex[p].pc = "ops" /\ log' = log
    BY <1>6 DEF Record, database
  <2>2. CASE ~End(p, "thrown")
    <3>1. ex' = [ex EXCEPT ![p].pc = "commit"]
      BY <1>6, <2>2 DEF Record, Goto
    <3>2. Moves(p) /\ ex'[p].pc = "commit" /\ ex'[p].todo = ex[p].todo
      BY <3>1 DEF Inv, Executors, Shaped, Moves, Fields
    <3> QED  BY <1>6, <2>1, <3>2 DEF GoesOn, Planned
  <2> QED  BY <2>1, <2>2
<1>7. CASE ReadToApply(p) \/ ReadToRollBack(p)
  <2>1. log' = log
    BY <1>7 DEF ReadToApply, ReadToRollBack, database
  <2> QED  BY <1>7, <2>1
<1> QED  BY <1>1, <1>2, <1>3, <1>4, <1>5, <1>6, <1>7 DEF Step

(* A call that makes a plan goes on.                                       *)
LEMMA PlanningGoesOn ==
  ASSUME Inv, NEW p \in Processes, ReadToApply(p) \/ ReadToRollBack(p),
         \A how \in {"done", "thrown"} : ~End(p, how)
  PROVE  ex'[p].pc # "idle" /\ \A q \in Processes : q # p => ex'[q] = ex[q]
<1>1. CASE ReadToApply(p)
  <2>1. PICK todo : ex' = [ex EXCEPT ![p].pc = "reread", ![p].todo = todo]
    BY <1>1 DEF ReadToApply
  <2> QED  BY <2>1 DEF Inv, Executors, Shaped, Fields
<1>2. CASE ReadToRollBack(p)
  <2>1. PICK todo : ex' = [ex EXCEPT ![p].pc = "next", ![p].seen = log, ![p].todo = todo]
    BY <1>2 DEF ReadToRollBack
  <2> QED  BY <2>1 DEF Inv, Executors, Shaped, Fields
<1> QED  BY <1>1, <1>2

(* A process works on its own variables.                                   *)
LEMMA StepOthers ==
  ASSUME Inv, NEW p \in Processes, Step(p), NEW q \in Processes, q # p
  PROVE  ex'[q] = ex[q]
<1>1. \A how : End(p, how) => ex'[q] = ex[q]
  BY DEF End, Inv, Executors, Shaped
<1>2. GoesOn(p) => ex'[q] = ex[q]
  BY DEF GoesOn, Moves
<1>3. Commit(p) => ex'[q] = ex[q]
  BY DEF Commit, Inv, Executors, Shaped
<1> QED  BY <1>1, <1>2, <1>3, StepShapes, PlanningGoesOn

(* The step with which a call returns.                                     *)
LEMMA StepEnds ==
  ASSUME Inv, NEW p \in Processes, Step(p), ex'[p].pc = "idle", result'[p] = "done"
  PROVE  End(p, "done") /\ log' = log
<1>1. ~End(p, "thrown")
  BY DEF End, Inv, TypeOK
<1>2. ~GoesOn(p)
  BY DEF GoesOn
<1>3. ~Commit(p)
  BY DEF Commit, Inv, Executors, Shaped, Fields
<1> QED  BY <1>1, <1>2, <1>3, StepShapes, PlanningGoesOn

(* Every step of a call.                                                   *)
LEMMA StepInOrder ==
  ASSUME InStep, Inv, InOrder, NEW p \in Processes, Step(p)
  PROVE  InOrder'
BY StepShapes, EndingInOrder, MovingInOrder, ReadToApplyInOrder, ReadToRollBackInOrder,
   RecordInOrder, CommitInOrder DEF GoesOn

(* Every step of the system.                                               *)
LEMMA InOrderIsInvariant == InStep /\ Inv /\ InOrder /\ [Next]_vars => InOrder'
<1> SUFFICES ASSUME InStep, Inv, InOrder, [Next]_vars PROVE InOrder'
  OBVIOUS
<1>1. ASSUME NEW p \in Processes, Step(p) PROVE InOrder'
  BY <1>1, StepInOrder
<1>2. ASSUME NEW p \in Processes, Fail(p) \/ Crash(p) PROVE InOrder'
  <2>1. log' = log /\ \E how \in {"thrown", "crashed"} : End(p, how)
    BY <1>2 DEF Fail, Crash, database
  <2> QED  BY <2>1, EndingInOrder
<1>3. ASSUME NEW p \in Processes, NEW call \in Calls, NEW disk \in Disks, Call(p, call, disk)
      PROVE  InOrder'
  <2>1. /\ \A q \in Processes : q # p => ex'[q] = ex[q]
        /\ ex'[p].pc = "ensure" /\ ex'[p].call = call /\ log' = log
    BY <1>3 DEF Inv, Executors, Shaped, Fields, Call, database
  <2> QED  BY <2>1, SameLog DEF Planned
<1>4. CASE UNCHANGED vars
  <2>1. log' = log /\ ex' = ex
    BY <1>4 DEF vars, database
  <2> QED  BY <2>1 DEF InOrder, Planned, Queued, Applies
<1> QED  BY <1>1, <1>2, <1>3, <1>4 DEF Next

(* The empty log.                                                          *)
LEMMA InitInOrder == InStep /\ Init => InOrder
<1> SUFFICES ASSUME Init PROVE InOrder
  OBVIOUS
<1>1. log = <<>> /\ \A p \in Processes : ex[p].pc = "idle"
  BY DEF Init, Idle
<1>2. Len(log) = 0 /\ Len(Order) \in Nat
  BY <1>1, OrderIs
<1> QED  BY <1>1, <1>2 DEF InOrder, Planned

(* A prefix, position by position.                                         *)
LEMMA PrefixIs ==
  ASSUME NEW S, NEW s \in Seq(S), NEW t \in Seq(S)
  PROVE  IsPrefix(s, t) <=> Len(s) <= Len(t) /\ \A i \in 1 .. Len(s) : s[i] = t[i]
<1>1. CASE ~(Len(s) <= Len(t))
  BY <1>1 DEF IsPrefix
<1>2. CASE Len(s) <= Len(t)
  <2> DEFINE a == SubSeq(s, 1, Len(s))
             b == SubSeq(t, 1, Len(s))
  <2>1. /\ a \in Seq(S) /\ Len(a) = Len(s) /\ \A i \in 1 .. Len(s) : a[i] = s[i]
        /\ b \in Seq(S) /\ Len(b) = Len(s) /\ \A i \in 1 .. Len(s) : b[i] = t[i]
    BY <1>2
  <2>2. IsPrefix(s, t) <=> a = b
    BY <1>2 DEF IsPrefix
  <2> HIDE DEF a, b
  <2>3. (\A i \in 1 .. Len(s) : s[i] = t[i]) => a = b
    BY <2>1, SeqEqual
  <2> QED  BY <1>2, <2>1, <2>2, <2>3
<1> QED  BY <1>1, <1>2

(* Inv and InOrder hold in every state of such programs.                   *)
LEMMA OrderInvariance == InStep => (Spec => [](Inv /\ InOrder))
<1> SUFFICES ASSUME InStep PROVE Spec => [](Inv /\ InOrder)
  OBVIOUS
<1>1. Init => InOrder
  BY InitInOrder
<1>2. Inv /\ InOrder /\ [Next]_vars => InOrder'
  BY InOrderIsInvariant
<1> QED  BY <1>1, <1>2, InitHolds, NextKeeps, PTL DEF Spec

(* Processes of builds that follow one another, all applying at the same   *)
(* time, or one that applies and rolls back, leave no gap and no duplicate *)
(* in the log, though nothing is locked between reading and writing it     *)
(* (executor.cpp:55-81): LogIsPrefix.                                      *)
THEOREM LogStaysInOrder == InStep => (Spec => []LogIsPrefix)
<1> SUFFICES ASSUME InStep PROVE Spec => []LogIsPrefix
  OBVIOUS
<1>1. Inv /\ InOrder => LogIsPrefix
  <2>1. Order \in Seq(Names)
    BY OrderIs
  <2> QED  BY <2>1, PrefixIs DEF Inv, TypeOK, InOrder, LogIsPrefix, Order
<1> QED  BY <1>1, OrderInvariance, PTL

(* A commit finds the log to be a beginning of its own migrations.         *)
LEMMA CommitToItsLog ==
  ASSUME InStep, Inv, InOrder, NEW p \in Processes, Commit(p)
  PROVE  IsPrefix(log, ex[p].names) /\ IsPrefix(log', ex[p].names)
<1> DEFINE names == ex[p].names
           n == Len(log)
<1>1. ex[p].pc = "commit"
  BY DEF Commit
<1>2. /\ names \in Seq(Names) /\ Len(names) <= Len(Order)
      /\ \A i \in 1 .. Len(names) : names[i] = Order[i]
  BY <1>1, NamesArePrefix
<1>3. /\ log \in Seq(Names) /\ log' \in Seq(Names) /\ n \in Nat
      /\ Len(ex[p].todo) \in Nat \ {0}
  <2>1. Inv'
    BY CommitKeeps
  <2> QED  BY <2>1, CommitOneByOne DEF Inv, TypeOK
<1>4. InOrder'
  BY CommitInOrder
<1>5. n <= Len(names) /\ Len(log') <= Len(names)
  <2>1. CASE Applies(p)
    BY <1>2, <1>3, <2>1, CommitOneByOne
  <2>2. CASE ~Applies(p)
    <3>1. n <= Len(names)
      BY <1>1, <2>2 DEF InOrder, Planned, Queued
    <3> QED  BY <1>2, <1>3, <2>2, <3>1, CommitOneByOne
  <2> QED  BY <2>1, <2>2
<1>6. \A i \in 1 .. n : log[i] = names[i]
  BY <1>2, <1>3, <1>5 DEF InOrder
<1>7. \A i \in 1 .. Len(log') : log'[i] = names[i]
  BY <1>2, <1>3, <1>4, <1>5 DEF InOrder
<1> QED  BY <1>2, <1>3, <1>5, <1>6, <1>7, PrefixIs

(* A process writes to the log only when it finds its own migrations in it *)
(* (executor.cpp:49, 66): WritesOnlyItsLog.                                *)
THEOREM EachToItsLog == InStep => (Spec => WritesOnlyItsLog)
<1> SUFFICES ASSUME InStep PROVE Spec => WritesOnlyItsLog
  OBVIOUS
<1> DEFINE Own == \A p \in Processes :
             log' # log /\ ex'[p] # ex[p] =>
               IsPrefix(log, ex[p].names) /\ IsPrefix(log', ex[p].names)
<1>1. Inv /\ InOrder /\ [Next]_vars => Own
  <2> SUFFICES ASSUME Inv, InOrder, [Next]_vars, log' # log PROVE Own
    OBVIOUS
  <2>1. PICK p \in Processes : Commit(p)
    BY OnlyCommitsLog
  <2>2. \A q \in Processes : q # p => ex'[q] = ex[q]
    BY <2>1 DEF Commit, Inv, Executors, Shaped
  <2> QED  BY <2>1, <2>2, CommitToItsLog
<1>2. Inv /\ InOrder /\ [Next]_vars => [Own]_vars
  BY <1>1
<1> QED  BY <1>2, OrderInvariance, PTL DEF Spec, WritesOnlyItsLog

(* A commit moves the log by one migration.                                *)
LEMMA CommitIsOne ==
  ASSUME InStep, Inv, InOrder, NEW p \in Processes, Commit(p)
  PROVE  \/ Len(log) < Len(Order) /\ log' = Append(log, Order[Len(log) + 1])
         \/ log # <<>> /\ log' = Front(log)
<1>1. ex[p].pc = "commit" /\ log \in Seq(Names) /\ Len(ex[p].todo) \in Nat \ {0}
  <2>1. log \in Seq(Names) /\ ex[p].todo \in Seq(Names) /\ ex[p].todo # <<>>
    BY CommitOneByOne
  <2>2. Len(ex[p].todo) \in Nat \ {0}
    BY <2>1
  <2> QED  BY <2>1, <2>2 DEF Commit
<1>2. CASE Applies(p)
  <2>1. ex[p].names \in Seq(Names) /\ Len(ex[p].names) <= Len(Order)
    BY <1>1, NamesArePrefix
  <2>2. Len(log) < Len(Order)
    BY <1>1, <1>2, <2>1, CommitOneByOne, OrderIs
  <2> QED  BY <1>2, <2>2, CommitOneByOne
<1>3. CASE ~Applies(p)
  <2>1. /\ log' \in Seq(Names) /\ Len(log) # 0 /\ Len(log') = Len(log) - 1
        /\ \A i \in 1 .. Len(log) - 1 : log'[i] = log[i]
    BY <1>3, CommitOneByOne
  <2>2. /\ Front(log) \in Seq(Names) /\ Len(Front(log)) = Len(log) - 1
        /\ \A i \in 1 .. Len(log) - 1 : Front(log)[i] = log[i]
    BY <1>1, <2>1 DEF Front
  <2>3. log' = Front(log)
    BY <2>1, <2>2, SeqEqual
  <2> QED  BY <1>1, <2>1, <2>3
<1> QED  BY <1>2, <1>3

(* The steps of the log in MigrationHistory.                               *)
LogHistory ==
  [][ \/ Len(log) < Len(Order) /\ log' = Append(log, Order[Len(log) + 1])
      \/ log # <<>> /\ log' = Front(log) ]_log

(* The log moves as in MigrationHistory, one migration at a time: the half *)
(* of the refinement that does not speak of the schema.                    *)
THEOREM LogFollowsHistory == InStep => (Spec => LogHistory)
<1> SUFFICES ASSUME InStep PROVE Spec => LogHistory
  OBVIOUS
<1> DEFINE One == \/ Len(log) < Len(Order) /\ log' = Append(log, Order[Len(log) + 1])
                  \/ log # <<>> /\ log' = Front(log)
<1>1. Inv /\ InOrder /\ [Next]_vars => [One]_log
  <2> SUFFICES ASSUME Inv, InOrder, [Next]_vars, log' # log PROVE One
    OBVIOUS
  <2>1. PICK p \in Processes : Commit(p)
    BY OnlyCommitsLog
  <2> QED  BY <2>1, CommitIsOne
<1> QED  BY <1>1, OrderInvariance, PTL DEF Spec, LogHistory
-----------------------------------------------------------------------------
(* What p has planned is enough: what the target asks for is in the log or *)
(* in the plan.                                                            *)
Reaches(p) ==
  IF Applies(p)
    THEN \A m \in ToSet(ex[p].names) :
           ex[p].call.to = Everything \/ m <= ex[p].call.to => m \in ToSet(log) \cup ToSet(ex[p].todo)
    ELSE \A m \in ToSet(log) : m > ex[p].call.to => m \in ToSet(ex[p].todo)

Complete == \A p \in Processes : Planned(p) => Reaches(p)

(* Names up to the target are those up to its place.                       *)
LEMMA UpToTarget ==
  ASSUME NEW names \in Seq(Names), Increasing(names), NEW to \in Nat, NEW i \in 1 .. Len(names),
         names[i] <= to, Contains(names, to)
  PROVE  i <= Place(to, names)
<1> DEFINE k == Place(to, names)
<1>1. k \in 1 .. Len(names) /\ names[k] = to
  BY PlaceIs
<1>2. names[i] \in Nat
  BY ElementOfSeq, ExecutorAssumption DEF Names
<1> HIDE DEF k
<1> SUFFICES ASSUME k < i PROVE FALSE
  BY <1>1 DEF k
<1>3. names[k] < names[i]
  BY <1>1 DEF Increasing
<1> QED  BY <1>1, <1>2, <1>3

(* The plan of apply is complete.                                          *)
LEMMA ToApplyReaches ==
  ASSUME NEW names \in Seq(Names), Increasing(names), NEW rows \in Seq(Names), NEW to \in Nat,
         Len(rows) <= Len(names), Agree(names, rows, Len(rows)),
         NEW m \in ToSet(names), to = Everything \/ m <= to
  PROVE  m \in ToSet(rows) \cup ToSet(ToApply(names, rows, to))
<1> DEFINE n == Len(rows)
           k == IF Contains(names, to) THEN Place(to, names) ELSE Len(names)
           todo == ToApply(names, rows, to)
<1>1. PICK i \in 1 .. Len(names) : m = names[i]
  BY DEF ToSet
<1>2. n \in Nat /\ n <= Len(names) /\ k \in 0 .. Len(names) /\ todo = SubSeq(names, n + 1, k)
  BY PlaceIs DEF ToApply
<1>3. i <= k
  <2>1. CASE Contains(names, to)
    <3>1. to \in Names
      BY <2>1, PlaceIs, ElementOfSeq
    <3>2. to # Everything
      BY <3>1, ExecutorAssumption DEF Names
    <3> QED  BY <1>1, <2>1, <3>2, UpToTarget
  <2>2. CASE ~Contains(names, to)
    BY <1>1, <2>2
  <2> QED  BY <2>1, <2>2
<1>4. CASE i <= n
  <2>1. i \in 1 .. Len(rows) /\ rows[i] = m
    BY <1>1, <1>4 DEF Agree
  <2> QED  BY <2>1 DEF ToSet
<1>5. CASE n < i
  <2> HIDE DEF k, n, todo
  <2>1. i - n \in 1 .. k - n /\ (n + 1) + (i - n) - 1 = i
    BY <1>1, <1>2, <1>3, <1>5
  <2>2. Len(todo) = k - n /\ todo \in Seq(Names)
    BY <1>1, <1>2, <1>3, <1>5
  <2>3. todo[i - n] = names[i]
    BY <1>1, <1>2, <1>3, <1>5, <2>1
  <2>4. i - n \in DOMAIN todo
    BY <2>1, <2>2
  <2> QED  BY <1>1, <2>3, <2>4 DEF ToSet, todo
<1> QED  BY <1>1, <1>2, <1>4, <1>5

(* The plan of rollback is complete.                                       *)
LEMMA ToRollBackReaches ==
  ASSUME NEW names \in Seq(Names), Increasing(names), NEW rows \in Seq(Names), NEW to \in Nat,
         Len(rows) <= Len(names), Agree(names, rows, Len(rows)),
         to = Everything \/ Contains(rows, to), NEW m \in ToSet(rows), m > to
  PROVE  m \in ToSet(ToRollBack(names, rows, to))
<1> DEFINE n == Len(rows)
           k == Place(to, names)
           s == SubSeq(names, k + 1, n)
<1>1. PICK i \in 1 .. n : m = rows[i]
  BY DEF ToSet
<1>2. m = names[i] /\ i \in 1 .. Len(names) /\ m \in Nat
  <2>1. m = names[i] /\ i \in 1 .. Len(names)
    BY <1>1 DEF Agree
  <2> QED  BY <2>1, ElementOfSeq, ExecutorAssumption DEF Names
<1>3. k \in 0 .. Len(names) /\ (k # 0 => names[k] = to)
  BY PlaceIs
<1> HIDE DEF k, n
<1>4. k < i
  <2> SUFFICES ASSUME i <= k PROVE FALSE
    BY <1>2, <1>3
  <2>1. k \in 1 .. Len(names) /\ names[k] = to
    BY <1>2, <1>3
  <2>2. i < k => names[i] < names[k]
    BY <1>2, <2>1 DEF Increasing
  <2> QED  BY <1>2, <1>3, <2>1, <2>2
<1>5. s \in Seq(Names) /\ i - k \in DOMAIN s /\ s[i - k] = names[i]
  BY <1>1, <1>2, <1>3, <1>4 DEF n
<1>6. m \in ToSet(s)
  BY <1>2, <1>5 DEF ToSet
<1>7. ToSet(Reverse(s)) = ToSet(s)
  BY <1>5, ReverseIs
<1> QED  BY <1>6, <1>7 DEF ToRollBack, n, k

(* A step of p that leaves the log alone.                                  *)
LEMMA SameLogComplete ==
  ASSUME Complete, NEW p \in Processes, log' = log, \A q \in Processes : q # p => ex'[q] = ex[q],
         Planned(p)' => Reaches(p)'
  PROVE  Complete'
<1> SUFFICES ASSUME NEW q \in Processes, q # p, Planned(q)' PROVE Reaches(q)'
  BY DEF Complete
<1>1. ex'[q] = ex[q]
  OBVIOUS
<1> QED  BY <1>1 DEF Complete, Planned, Reaches, Applies

(* A plan that has been made is complete.                                  *)
LEMMA PlanIsComplete ==
  ASSUME Inv, Complete, NEW p \in Processes, ReadToApply(p) \/ ReadToRollBack(p),
         \A how \in {"done", "thrown"} : ~End(p, how)
  PROVE  Complete'
<1> DEFINE names == ex[p].names
           to == ex[p].call.to
<1>1. log' = log /\ ex[p].pc = "read" /\ log \in Seq(Names) /\ to \in Nat
  BY DEF ReadToApply, ReadToRollBack, database, Inv, TypeOK
<1>2. names \in Seq(Names) /\ Increasing(names)
  BY <1>1, NamesOfRunning
<1>3. CASE ReadToApply(p)
  <2> DEFINE todo == ToApply(names, log, to)
  <2>1. /\ Applies(p) /\ Len(log) <= Len(names) /\ Agree(names, log, Len(log))
        /\ ex' = [ex EXCEPT ![p].pc = "reread", ![p].todo = todo]
    BY <1>1, <1>2, <1>3 DEF ReadToApply, Applies
  <2> HIDE DEF todo
  <2>2. /\ Applies(p)' /\ ex'[p].todo = todo /\ ex'[p].names = names /\ ex'[p].call = ex[p].call
        /\ \A q \in Processes : q # p => ex'[q] = ex[q]
    BY <2>1 DEF Inv, Executors, Shaped, Fields, Applies
  <2>3. \A m \in ToSet(names) : to = Everything \/ m <= to => m \in ToSet(log) \cup ToSet(todo)
    BY <1>1, <1>2, <2>1, ToApplyReaches DEF todo
  <2>4. Reaches(p)'
    BY <1>1, <2>2, <2>3 DEF Reaches
  <2> QED  BY <1>1, <2>2, <2>4, SameLogComplete
<1>4. CASE ReadToRollBack(p)
  <2> DEFINE todo == ToRollBack(names, log, to)
  <2>1. /\ ~Applies(p) /\ Len(log) <= Len(names) /\ Agree(names, log, Len(log))
        /\ to = Everything \/ Contains(log, to)
        /\ ex' = [ex EXCEPT ![p].pc = "next", ![p].seen = log, ![p].todo = todo]
    BY <1>1, <1>2, <1>4 DEF ReadToRollBack, Applies
  <2> HIDE DEF todo
  <2>2. /\ ~Applies(p)' /\ ex'[p].todo = todo /\ ex'[p].call = ex[p].call
        /\ \A q \in Processes : q # p => ex'[q] = ex[q]
    BY <2>1 DEF Inv, Executors, Shaped, Fields, Applies
  <2>3. \A m \in ToSet(log) : m > to => m \in ToSet(todo)
    BY <1>1, <1>2, <2>1, ToRollBackReaches DEF todo
  <2>4. Reaches(p)'
    BY <1>1, <2>2, <2>3 DEF Reaches
  <2> QED  BY <1>1, <2>2, <2>4, SameLogComplete
<1> QED  BY <1>3, <1>4

(* What a commit takes off the plan it puts into the log, or takes out.    *)
LEMMA CommitComplete ==
  ASSUME InStep, Inv, InOrder, Complete, NEW p \in Processes, Commit(p)
  PROVE  Complete'
<1> DEFINE todo == ex[p].todo
           n == Len(log)
           h == Head(todo)
<1>1. /\ ex[p].pc = "commit" /\ ex'[p].todo = Tail(todo) /\ ex'[p].names = ex[p].names
      /\ ex'[p].call = ex[p].call /\ \A q \in Processes : q # p => ex'[q] = ex[q]
      /\ ex[p].call \in Calls
  BY DEF Inv, Executors, Shaped, Fields, Commit, InOrder
<1>2. /\ todo \in Seq(Names) /\ todo # <<>> /\ log \in Seq(Names) /\ n \in Nat /\ h = todo[1]
  BY CommitOneByOne
<1>3. \A m \in ToSet(todo) : m = h \/ m \in ToSet(Tail(todo))
  <2> SUFFICES ASSUME NEW i \in 1 .. Len(todo), i # 1 PROVE todo[i] \in ToSet(Tail(todo))
    BY <1>2 DEF ToSet
  <2>1. i - 1 \in DOMAIN Tail(todo) /\ Tail(todo)[i - 1] = todo[i]
    BY <1>2
  <2> QED  BY <2>1 DEF ToSet
<1>4. Reaches(p) /\ Applies(p)' = Applies(p)
  BY <1>1 DEF Complete, Planned, Applies
<1> HIDE DEF h
<1>5. CASE Applies(p)
  <2>1. log' = Append(log, h)
    BY <1>2, <1>5, CommitOneByOne DEF h
  <2>2. h \in ToSet(log') /\ ToSet(log) \subseteq ToSet(log')
    <3>1. /\ DOMAIN log' = 1 .. n + 1 /\ log'[n + 1] = h /\ \A i \in 1 .. n : log'[i] = log[i]
          /\ DOMAIN log = 1 .. n
      BY <1>2, <2>1, HeadAndTail DEF h
    <3> QED  BY <1>2, <3>1 DEF ToSet
  <2>3. Reaches(p)'
    BY <1>1, <1>3, <1>4, <1>5, <2>2 DEF Reaches
  <2>4. ASSUME NEW q \in Processes, q # p, Planned(q)' PROVE Reaches(q)'
    <3>1. ex'[q] = ex[q] /\ Planned(q) /\ Reaches(q)
      BY <1>1, <2>4 DEF Complete, Planned
    <3>2. Applies(q)
      <4>1. ~(\A a, b \in Processes : a = b)
        BY <2>4
      <4>2. ex[q].call \in Calls
        BY <3>1 DEF Planned, InOrder
      <4> QED  BY <4>1, <4>2 DEF InStep, Applies
    <3> QED  BY <2>2, <3>1, <3>2 DEF Reaches, Applies
  <2> QED  BY <2>3, <2>4 DEF Complete
<1>6. CASE ~Applies(p)
  <2>1. /\ DOMAIN log' = 1 .. n - 1 /\ n # 0 /\ DOMAIN log = 1 .. n
        /\ \A i \in 1 .. n - 1 : log'[i] = log[i]
    BY <1>2, <1>6, CommitOneByOne
  <2>2. h = Order[n - 1 + 1] /\ n <= Len(Order) /\ \A i \in 1 .. n : log[i] = Order[i]
    BY <1>1, <1>2, <1>6 DEF InOrder, Planned, Queued, h
  <2>3. ASSUME NEW m \in ToSet(log') PROVE m \in ToSet(log) /\ m # h
    <3>1. PICK i \in 1 .. n - 1 : m = log[i]
      BY <2>1 DEF ToSet
    <3>2. i \in 1 .. n /\ m = Order[i] /\ h = Order[n] /\ i \in 1 .. Len(Order) /\ n \in 1 .. Len(Order)
      BY <1>2, <2>1, <2>2, <3>1, OrderIs
    <3>3. i # n
      BY <1>2, <3>1
    <3> HIDE DEF n
    <3> QED  BY <2>1, <3>1, <3>2, <3>3, OrderIs DEF ToSet
  <2>4. Reaches(p)'
    BY <1>1, <1>3, <1>4, <1>6, <2>3 DEF Reaches
  <2>5. \A q \in Processes : q = p
    BY <1>1, <1>6 DEF InStep, Applies
  <2> QED  BY <2>4, <2>5 DEF Complete
<1> QED  BY <1>5, <1>6

(* Every step keeps the plans complete.                                    *)
LEMMA CompleteIsInvariant == InStep /\ Inv /\ InOrder /\ Complete /\ [Next]_vars => Complete'
<1> SUFFICES ASSUME InStep, Inv, InOrder, Complete, [Next]_vars PROVE Complete'
  OBVIOUS
<1>1. ASSUME NEW p \in Processes, NEW how, End(p, how), log' = log PROVE Complete'
  <2>1. \A q \in Processes : ex'[q] = IF q = p THEN Idle ELSE ex[q]
    BY <1>1 DEF Inv, Executors, Shaped, End
  <2>2. ~Planned(p)'
    BY <2>1 DEF Idle, Planned
  <2> QED  BY <1>1, <2>1, <2>2, SameLogComplete
<1>2. ASSUME NEW p \in Processes, GoesOn(p) PROVE Complete'
  <2>1. \A q \in Processes : q # p => ex'[q] = ex[q]
    BY <1>2 DEF GoesOn, Moves
  <2>2. Planned(p)' => Reaches(p)'
    BY <1>2 DEF GoesOn, Moves, Complete, Reaches, Applies
  <2> QED  BY <1>2, <2>1, <2>2, SameLogComplete DEF GoesOn
<1>3. ASSUME NEW p \in Processes, Step(p) PROVE Complete'
  <2>1. ReadToApply(p) \/ ReadToRollBack(p) => log' = log
    BY DEF ReadToApply, ReadToRollBack, database
  <2> QED  BY <1>1, <1>2, <1>3, <2>1, StepShapes, PlanIsComplete, CommitComplete
<1>4. ASSUME NEW p \in Processes, Fail(p) \/ Crash(p) PROVE Complete'
  <2>1. log' = log /\ \E how \in {"thrown", "crashed"} : End(p, how)
    BY <1>4 DEF Fail, Crash, database
  <2> QED  BY <2>1, <1>1
<1>5. ASSUME NEW p \in Processes, NEW call \in Calls, NEW disk \in Disks, Call(p, call, disk)
      PROVE  Complete'
  <2>1. /\ \A q \in Processes : q # p => ex'[q] = ex[q]
        /\ ex'[p].pc = "ensure" /\ log' = log
    BY <1>5 DEF Inv, Executors, Shaped, Fields, Call, database
  <2> QED  BY <2>1, SameLogComplete DEF Planned
<1>6. CASE UNCHANGED vars
  <2>1. log' = log /\ ex' = ex
    BY <1>6 DEF vars, database
  <2> QED  BY <2>1 DEF Complete, Planned, Reaches, Applies
<1> QED  BY <1>3, <1>4, <1>5, <1>6 DEF Next

(* A call that returns has nothing left to do.                             *)
LEMMA DoneAchieves ==
  ASSUME InStep, Inv, InOrder, Complete, NEW p \in Processes, Step(p), End(p, "done"), log' = log,
         ex[p].pc # "idle"
  PROVE  Achieved(ex[p].names, ex[p].call)
<1> DEFINE names == ex[p].names
           to == ex[p].call.to
<1>0. result'[p] = "done" /\ ex'[p].pc = "idle" /\ ~End(p, "thrown")
  BY DEF End, Inv, TypeOK, Executors, Shaped, Idle
<1>1. log \in Seq(Names) /\ to \in Nat /\ names \in Seq(Names) /\ Increasing(names)
  BY NamesOfRunning DEF Inv, TypeOK
<1>2. CASE Begin(p) /\ ex[p].todo = <<>>
  <2>1. Reaches(p) /\ ToSet(ex[p].todo) = {}
    BY <1>2 DEF Begin, Complete, Planned, ToSet
  <2>2. CASE Applies(p)
    BY <2>1, <2>2 DEF Reaches, Applies, Achieved
  <2>3. CASE ~Applies(p)
    <3>1. \A m \in ToSet(log) : ~(m > to) /\ m \in Nat
      <4>1. \A m \in ToSet(log) : m \in Nat
        BY <1>1, ExecutorAssumption DEF ToSet, Names
      <4> QED  BY <2>1, <2>3, <4>1 DEF Reaches
    <3> QED  BY <1>1, <2>3, <3>1 DEF Applies, Achieved
  <2> QED  BY <2>2, <2>3
<1>3. CASE ReadToApply(p)
  <2>1. /\ ex[p].call.direction = "apply"
        /\ \/ Len(log) = Len(names)
           \/ \E i \in 1 .. Len(log) : Agree(names, log, i) /\ log[i] = to /\ Len(log) < Len(names)
    <3>1. \A todo : ex' # [ex EXCEPT ![p].pc = "reread", ![p].todo = todo]
      BY <1>0 DEF Inv, Executors, Shaped, Fields
    <3> QED  BY <1>0, <1>3, <3>1 DEF ReadToApply
  <2>2. \A i \in 1 .. Len(names) : i <= Len(log) => log[i] = names[i]
    BY <1>1, NamesArePrefix DEF InOrder
  <2> SUFFICES ASSUME NEW i \in 1 .. Len(names), to = Everything \/ names[i] <= to
               PROVE  names[i] \in ToSet(log)
    BY <1>1, <2>1 DEF Achieved, ToSet
  <2>3. i <= Len(log)
    <3>1. CASE Len(log) = Len(names)
      BY <1>1, <3>1
    <3>2. ASSUME NEW j \in 1 .. Len(log), log[j] = to, Len(log) < Len(names) PROVE i <= Len(log)
      <4>1. names[j] = to /\ j \in 1 .. Len(names) /\ to \in Names
        BY <1>1, <2>2, <3>2, ElementOfSeq
      <4>2. to # Everything /\ names[i] \in Nat
        BY <1>1, <4>1, ElementOfSeq, ExecutorAssumption DEF Names
      <4>3. ~(j < i)
        BY <1>1, <4>1, <4>2 DEF Increasing
      <4> QED  BY <1>1, <3>2, <4>3
    <3> QED  BY <2>1, <3>1, <3>2
  <2>4. i \in DOMAIN log /\ log[i] = names[i]
    BY <1>1, <2>2, <2>3
  <2> QED  BY <2>4 DEF ToSet
<1>4. CASE ReadToRollBack(p)
  <2>1. ex[p].call.direction = "rollback" /\ to # Everything /\ ~Contains(log, to)
    <3>1. \A todo : ex' # [ex EXCEPT ![p].pc = "next", ![p].seen = log, ![p].todo = todo]
      BY <1>0 DEF Inv, Executors, Shaped, Fields
    <3> QED  BY <1>0, <1>4, <3>1 DEF ReadToRollBack
  <2>2. to \notin ToSet(log)
    BY <1>1, <2>1, PlaceIs
  <2> QED  BY <2>1, <2>2 DEF Achieved
<1>5. \/ Begin(p) /\ ex[p].todo = <<>>
      \/ ReadToApply(p) \/ ReadToRollBack(p)
  <2>1. result'[p] = "done" /\ ex'[p] = Idle
    BY DEF End, Inv, TypeOK, Executors, Shaped
  <2>2. ~EnsureSchema(p) /\ ~Commit(p)
    BY <2>1 DEF EnsureSchema, Commit, Goto, Inv, Executors, Shaped, Fields, Idle
  <2>3. ~CreateMeta(p)
    BY <2>1 DEF CreateMeta, End, Goto, Inv, TypeOK, Executors, Shaped, Fields, Idle
  <2>4. ~Reread(p)
    BY <2>1 DEF Reread, End, Inv, TypeOK, Executors, Shaped, Fields, Idle
  <2>5. ~RunForward(p) /\ ~RunBackward(p)
    BY <2>1 DEF RunForward, RunBackward, End, Inv, TypeOK, Executors, Shaped, Fields, Idle
  <2>6. ~Record(p)
    BY <2>1 DEF Record, End, Goto, Inv, TypeOK, Executors, Shaped, Fields, Idle
  <2>7. Begin(p) => ex[p].todo = <<>>
    BY <2>1 DEF Begin, Inv, Executors, Shaped, Fields, Idle
  <2> QED  BY <2>2, <2>3, <2>4, <2>5, <2>6, <2>7 DEF Step
<1> QED  BY <1>2, <1>3, <1>4, <1>5

(* A call that returns normally has reached its target: all up to it are   *)
(* in the log, or none after it is, though others apply at the same time   *)
(* (executor.cpp:33-110, 113-200): DoneMeansDone.                          *)
THEOREM ReturnMeansReached == InStep => (Spec => DoneMeansDone)
<1> SUFFICES ASSUME InStep PROVE Spec => DoneMeansDone
  OBVIOUS
<1> DEFINE Reached == \A p \in Processes :
             ex[p].pc # "idle" /\ ex'[p].pc = "idle" /\ result'[p] = "done" =>
               Achieved(ex[p].names, ex[p].call)
<1>1. Inv /\ InOrder /\ Complete /\ [Next]_vars => Reached
  <2> SUFFICES ASSUME Inv, InOrder, Complete, [Next]_vars, NEW p \in Processes,
                      ex[p].pc # "idle", ex'[p].pc = "idle", result'[p] = "done"
               PROVE  Achieved(ex[p].names, ex[p].call)
    OBVIOUS
  <2>1. Step(p)
    <3>1. PICK q \in Processes : \/ \E call \in Calls, disk \in Disks : Call(q, call, disk)
                                 \/ Step(q) \/ Fail(q) \/ Crash(q)
      BY DEF Next, vars
    <3>2. ~(\E call \in Calls, disk \in Disks : Call(q, call, disk))
      BY DEF Call, Inv, Executors, Shaped, Fields
    <3>3. q = p
      <4>1. q # p => ex'[p] = ex[p]
        BY <3>1, <3>2, StepShapes, StepOthers DEF Fail, Crash, End, Inv, Executors, Shaped
      <4> QED  BY <4>1
    <3>4. ~Fail(p) /\ ~Crash(p)
      BY DEF Fail, Crash, End, Inv, TypeOK
    <3> QED  BY <3>1, <3>2, <3>3, <3>4
  <2>2. End(p, "done") /\ log' = log
    BY <2>1, StepEnds
  <2> QED  BY <2>1, <2>2, DoneAchieves
<1>2. Init => Complete
  BY DEF Init, Idle, Complete, Planned
<1>3. Inv /\ InOrder /\ Complete /\ [Next]_vars => Complete' /\ [Reached]_vars
  BY <1>1, CompleteIsInvariant
<1> QED  BY <1>2, <1>3, OrderInvariance, PTL DEF Spec, DoneMeansDone
-----------------------------------------------------------------------------
(* A catalog that has the schema a project state describes.                *)
CatalogFits(cat, r) == r.ok /\ IsState(r.v) /\ IsCatalog(cat) /\ Schema(cat) = Described(r.v)

(* Project states along the order of all migrations.                       *)
LEMMA CourseIs ==
  ASSUME Lawful, NEW k \in 0 .. Len(Order) - 1, StateAt(k).ok
  PROVE  /\ Len(Coming(k)) \in Nat
         /\ After(k, 0) = Returns(StateAt(k).v)
         /\ \A i \in 1 .. Len(Coming(k)) : After(k, i) = Updated(After(k, i - 1), Coming(k)[i])
         /\ After(k, Len(Coming(k))) = StateAt(k + 1)
<1> DEFINE ops == Coming(k)
           st == StateAt(k).v
           S == ToSet(ops)
<1>1. /\ Order \in Seq(Names) /\ Len(Order) \in Nat /\ k \in Nat /\ k + 1 \in 1 .. Len(Order)
      /\ Order[k + 1] \in Names
  <2>1. Order \in Seq(Names)
    BY OrderIs
  <2> QED  BY <2>1
<1>2. ops \in Seq(S)
  BY <1>1 DEF Lawful, Coming, Names
<1>3. Len(ops) \in Nat /\ SubSeq(ops, 1, 0) = <<>> /\ SubSeq(ops, 1, Len(ops)) = ops
  BY <1>2
<1>4. After(k, 0) = Returns(st)
  BY <1>3, UpdateAllEmpty DEF After
<1>5. \A i \in 1 .. Len(ops) : After(k, i) = Updated(After(k, i - 1), ops[i])
  <2> HIDE DEF ops, st, S
  <2> QED  BY <1>2, UpdateAllStep DEF After, ops, st
<1>6. After(k, Len(ops)) = StateAt(k + 1)
  <2>1. MigrateAll(Body, SubSeq(Order, 1, k + 1))
          = Migrated(MigrateAll(Body, SubSeq(Order, 1, k + 1 - 1)), Body[Order[k + 1]])
    BY <1>1, MigrateAllStep
  <2>2. k + 1 - 1 = k
    BY <1>1
  <2>3. StateAt(k + 1) = UpdateAll(ops, st)
    BY <2>1, <2>2 DEF StateAt, SchemaOf, Migrated, Coming
  <2> QED  BY <1>3, <2>3 DEF After
<1> QED  BY <1>3, <1>4, <1>5, <1>6

(* A migration that goes through does so operation by operation.           *)
LEMMA CourseIsOk ==
  ASSUME Lawful, NEW k \in 0 .. Len(Order) - 1, StateAt(k + 1).ok
  PROVE  StateAt(k).ok /\ \A i \in 0 .. Len(Coming(k)) : After(k, i).ok
<1> DEFINE ops == Coming(k)
           st == StateAt(k).v
           S == ToSet(ops)
<1>1. /\ Order \in Seq(Names) /\ Len(Order) \in Nat /\ k \in Nat /\ k + 1 \in 1 .. Len(Order)
      /\ Order[k + 1] \in Names
  <2>1. Order \in Seq(Names)
    BY OrderIs
  <2> QED  BY <2>1
<1>2. ops \in Seq(S)
  BY <1>1 DEF Lawful, Coming, Names
<1>3. StateAt(k).ok
  <2>1. MigrateAll(Body, SubSeq(Order, 1, k + 1))
          = Migrated(MigrateAll(Body, SubSeq(Order, 1, k + 1 - 1)), Body[Order[k + 1]])
    BY <1>1, MigrateAllStep
  <2>2. k + 1 - 1 = k
    BY <1>1
  <2> QED  BY <2>1, <2>2 DEF StateAt, SchemaOf, Migrated
<1>4. UpdateAll(ops, st).ok
  <2>1. After(k, Len(ops)).ok
    BY <1>3, CourseIs
  <2>2. SubSeq(ops, 1, Len(ops)) = ops
    BY <1>2
  <2> QED  BY <2>1, <2>2 DEF After
<1>5. \A i \in 0 .. Len(ops) : UpdateAll(SubSeq(ops, 1, i), st).ok
  <2> HIDE DEF ops, st, S
  <2> QED  BY <1>2, <1>4, UpdateAllPrefixes
<1> QED  BY <1>3, <1>5 DEF After

(* What the engines of a program ask is what this engine asks.             *)
LEMMA LawfulHere ==
  ASSUME Lawful, dbms \in Engines, NEW k \in 0 .. Len(Order) - 1, NEW i \in 1 .. Len(Coming(k)),
         StateAt(k).ok, After(k, i - 1).ok, UpdateState(Coming(k)[i], After(k, i - 1).v).ok
  PROVE  /\ Exact(Coming(k)[i], After(k, i - 1).v, Sqlite)
         /\ Reversible(Coming(k)[i], After(k, i - 1).v, Sqlite)
<1> DEFINE op == Coming(k)[i]
           before == After(k, i - 1)
           rebuilds == "postgresql" \notin Engines
<1>1. Exact(op, before.v, rebuilds) /\ Reversible(op, before.v, rebuilds)
  BY Zenon DEF Lawful
<1>2. rebuilds => Sqlite
  BY ExecutorAssumption DEF Sqlite
<1> HIDE DEF op, before, rebuilds
<1>3. Exact(op, before.v, Sqlite)
  BY <1>1, <1>2 DEF Exact
<1>4. Reversible(op, before.v, Sqlite)
  BY <1>1, <1>2 DEF Reversible
<1> QED  BY <1>3, <1>4 DEF op, before

(* The next operation of a migration.                                      *)
LEMMA ForwardFits ==
  ASSUME Lawful, dbms \in Engines, NEW k \in 0 .. Len(Order) - 1, StateAt(k).ok,
         NEW i \in 1 .. Len(Coming(k)), NEW cat, CatalogFits(cat, After(k, i - 1)),
         UpdateState(Coming(k)[i], After(k, i - 1).v).ok,
         Forward(Coming(k)[i], After(k, i - 1).v,
                 UpdateState(Coming(k)[i], After(k, i - 1).v).v, cat).ok
  PROVE  /\ After(k, i).v = UpdateState(Coming(k)[i], After(k, i - 1).v).v
         /\ CatalogFits(Forward(Coming(k)[i], After(k, i - 1).v,
                         UpdateState(Coming(k)[i], After(k, i - 1).v).v, cat).v,
                 After(k, i))
<1> DEFINE op == Coming(k)[i]
           before == After(k, i - 1)
           u == UpdateState(op, before.v).v
           v == Forward(op, before.v, u, cat).v
<1>1. Exact(op, before.v, Sqlite)
  BY LawfulHere DEF CatalogFits
<1>2. Schema(v) = Described(u) /\ IsState(u) /\ IsCatalog(v)
  <2> HIDE DEF op, before
  <2> QED  BY <1>1, ForwardIsExact DEF CatalogFits, op, before
<1>3. After(k, i) = UpdateState(op, before.v)
  BY CourseIs DEF Updated, CatalogFits
<1> HIDE DEF v
<1> QED  BY <1>2, <1>3 DEF CatalogFits, v

(* Its backward.                                                           *)
LEMMA BackwardFits ==
  ASSUME Lawful, dbms \in Engines, NEW k \in 0 .. Len(Order) - 1, StateAt(k + 1).ok,
         NEW i \in 1 .. Len(Coming(k)), NEW cat, CatalogFits(cat, After(k, i)), IsState(After(k, i - 1).v),
         Backward(Coming(k)[i], After(k, i).v, After(k, i - 1).v, cat).ok
  PROVE  CatalogFits(Backward(Coming(k)[i], After(k, i).v, After(k, i - 1).v, cat).v, After(k, i - 1))
<1> DEFINE op == Coming(k)[i]
           before == After(k, i - 1)
           v == Backward(op, After(k, i).v, before.v, cat).v
<1>1. StateAt(k).ok /\ before.ok /\ After(k, i).ok
  <2>1. i - 1 \in 0 .. Len(Coming(k)) /\ i \in 0 .. Len(Coming(k))
    <3>1. Len(Coming(k)) \in Nat
      BY CourseIs, CourseIsOk
    <3> QED  BY <3>1
  <2> QED  BY <2>1, CourseIsOk
<1>2. After(k, i) = UpdateState(op, before.v)
  BY <1>1, CourseIs DEF Updated
<1>3. Reversible(op, before.v, Sqlite)
  BY <1>1, <1>2, LawfulHere
<1> HIDE DEF op, before
<1>4. Schema(v) = Described(before.v) /\ IsCatalog(v)
  BY <1>1, <1>2, <1>3, BackwardIsExact DEF CatalogFits, op, before
<1> HIDE DEF v
<1> QED  BY <1>1, <1>4 DEF CatalogFits, v, op, before

(* The operations of a migration are operations.                           *)
LEMMA KindsAre ==
  ASSUME Lawful, NEW k \in 0 .. Len(Order) - 1, NEW i \in 1 .. Len(Coming(k)),
         StateAt(k).ok, After(k, i - 1).ok, UpdateState(Coming(k)[i], After(k, i - 1).v).ok
  PROVE  Coming(k)[i].kind \in Kinds
<1> DEFINE op == Coming(k)[i]
           before == After(k, i - 1)
           rebuilds == "postgresql" \notin Engines
<1>1. Exact(op, before.v, rebuilds) /\ Reversible(op, before.v, rebuilds)
  BY Zenon DEF Lawful
<1> QED  BY <1>1 DEF Exact

(* The states between the operations of a migration are those of           *)
(* UpdateAll.                                                              *)
LEMMA CourseOfStates ==
  ASSUME Lawful, NEW k \in 0 .. Len(Order) - 1, StateAt(k).ok, IsState(StateAt(k).v)
  PROVE  \A i \in 0 .. Len(Coming(k)) : After(k, i).ok => IsState(After(k, i).v)
<1> DEFINE n == Len(Coming(k))
           Q == {i \in Nat : i <= n /\ After(k, i).ok => IsState(After(k, i).v)}
<1>0. n \in Nat
  BY CourseIs
<1>1. 0 \in Q
  BY CourseIs DEF Returns
<1>2. ASSUME NEW i \in Nat, i \in Q PROVE i + 1 \in Q
  <2> SUFFICES ASSUME i + 1 <= n, After(k, i + 1).ok PROVE IsState(After(k, i + 1).v)
    OBVIOUS
  <2>1. i + 1 \in 1 .. n /\ i + 1 - 1 = i /\ i <= n
    BY <1>0
  <2>2. After(k, i + 1) = Updated(After(k, i), Coming(k)[i + 1])
    BY <2>1, CourseIs
  <2>3. /\ After(k, i).ok /\ IsState(After(k, i).v)
        /\ After(k, i + 1) = UpdateState(Coming(k)[i + 1], After(k, i).v)
    BY <1>2, <2>1, <2>2 DEF Updated
  <2>4. Coming(k)[i + 1].kind \in Kinds
    <3>1. After(k, i + 1 - 1) = After(k, i)
      BY <2>1
    <3> QED  BY <2>1, <2>3, <3>1, KindsAre
  <2> QED  BY <2>3, <2>4, StatesStay
<1>3. Nat \subseteq Q
  <2> HIDE DEF Q
  <2> QED  BY <1>1, <1>2, InductionOnNat
<1> QED  BY <1>0, <1>3

(* All of them are project states.                                         *)
LEMMA StatesAreStates ==
  ASSUME Lawful
  PROVE  \A k \in 0 .. Len(Order) : StateAt(k).ok => IsState(StateAt(k).v)
<1> DEFINE Q == {k \in Nat : k <= Len(Order) /\ StateAt(k).ok => IsState(StateAt(k).v)}
<1>0. Order \in Seq(Names) /\ Len(Order) \in Nat
  <2>1. Order \in Seq(Names)
    BY OrderIs
  <2> QED  BY <2>1
<1>1. 0 \in Q
  <2>1. SubSeq(Order, 1, 0) = <<>>
    BY <1>0
  <2>2. StateAt(0) = Returns(NoSchema)
    BY <2>1, MigrateAllEmpty DEF StateAt, SchemaOf
  <2> QED  BY <2>2 DEF Returns, NoSchema, IsState
<1>2. ASSUME NEW k \in Nat, k \in Q PROVE k + 1 \in Q
  <2> SUFFICES ASSUME k + 1 <= Len(Order), StateAt(k + 1).ok PROVE IsState(StateAt(k + 1).v)
    OBVIOUS
  <2>1. k \in 0 .. Len(Order) - 1
    BY <1>0
  <2>2. StateAt(k).ok /\ IsState(StateAt(k).v)
    BY <1>0, <1>2, <2>1, CourseIsOk
  <2>3. Len(Coming(k)) \in Nat /\ After(k, Len(Coming(k))) = StateAt(k + 1)
    BY <2>1, <2>2, CourseIs
  <2> QED  BY <2>1, <2>2, <2>3, CourseOfStates
<1>3. Nat \subseteq Q
  <2> HIDE DEF Q
  <2> QED  BY <1>1, <1>2, InductionOnNat
<1> QED  BY <1>0, <1>3

(* The states a rollback goes back to are states.                          *)
LEMMA StatesBefore ==
  ASSUME Lawful, NEW k \in 0 .. Len(Order) - 1, StateAt(k + 1).ok
  PROVE  \A i \in 0 .. Len(Coming(k)) : After(k, i).ok /\ IsState(After(k, i).v)
<1>1. StateAt(k).ok /\ \A i \in 0 .. Len(Coming(k)) : After(k, i).ok
  BY CourseIsOk
<1>2. IsState(StateAt(k).v)
  <2>1. k \in 0 .. Len(Order)
    <3>1. Len(Order) \in Nat
      BY OrderIs
    <3> QED  BY <3>1
  <2> QED  BY <1>1, <2>1, StatesAreStates
<1> QED  BY <1>1, <1>2, CourseOfStates
-----------------------------------------------------------------------------
(* The migration p runs, or is about to run, is the next one.              *)
Due(p) ==
  /\ Applies(p) /\ ex[p].todo # <<>> /\ Len(log) < Len(Order)
  /\ Head(ex[p].todo) = Order[Len(log) + 1]

(* The step that undoes the i-th operation of the migration after the k-th. *)
Undo(k, i) == [op |-> Coming(k)[i], from |-> After(k, i).v, to |-> After(k, i - 1).v]

(* In the middle of a migration the schema of the transaction is that of   *)
(* the operations done so far.  A plan made from an old log has a          *)
(* migration next that is in the log by now: nothing is known of its state *)
(* and its schema, and nothing needs to be, for its insert will fail.      *)
Forwards(p, k) ==
  \E i \in 0 .. Len(Coming(k)) :
    /\ ex[p].ops = SubSeq(Coming(k), i + 1, Len(Coming(k)))
    /\ ex[p].state = After(k, i).v
    /\ CatalogFits(View(p).catalog, After(k, i))

Backwards(p, k) ==
  \E n \in 0 .. Len(Coming(k)) :
    /\ ex[p].ops = [j \in 1 .. n |-> Undo(k, n - j + 1)]
    /\ CatalogFits(View(p).catalog, After(k, n))

ApplyingFits(p) ==
  Due(p) =>
    /\ ex[p].pc = "next" => ex[p].state = StateAt(Len(log)).v
    /\ ex[p].pc = "ops" => Forwards(p, Len(log))

RollingBackFits(p) ==
  ~Applies(p) /\ ex[p].pc \in {"next", "ops", "commit"} =>
    /\ Len(log) <= Len(ex[p].seen) /\ Len(ex[p].seen) <= Len(Order)
    /\ \A i \in 1 .. Len(ex[p].seen) : ex[p].seen[i] = Order[i]
    /\ ex[p].pc = "ops" => Backwards(p, Len(log) - 1)

CommitFits(p) ==
  ex[p].pc = "commit" =>
    /\ CatalogFits(work.catalog, StateAt(Len(work.log)))
    /\ Applies(p) => ex[p].state = StateAt(Len(work.log)).v

PartFits(p) ==
  /\ ApplyingFits(p) /\ RollingBackFits(p) /\ CommitFits(p)
  /\ ex[p].pc = "reread" => Applies(p)

SchemaInv ==
  /\ dbms \in Engines
  /\ CatalogFits(catalog, StateAt(Len(log)))
  /\ \A p \in Processes : PartFits(p)

(* No step changes the engine, so a description stays one.                 *)
LEMMA FitsPrime ==
  ASSUME dbms' = dbms
  PROVE  \A cat, r : CatalogFits(cat, r)' <=> CatalogFits(cat, r)
BY DEF CatalogFits, Described, StoredColumns, Stored, StoredType, Sqlite

(* A process that does nothing, while log and schema stay.                 *)
LEMMA StaysFit ==
  ASSUME NEW q \in Processes, PartFits(q), dbms' = dbms, log' = log, ex'[q] = ex[q],
         View(q)' = View(q), ex[q].pc = "commit" => work' = work
  PROVE  PartFits(q)'
<1>1. ApplyingFits(q)'
  <2>1. Due(q)' => Due(q)
    BY DEF Due, Applies
  <2>2. Forwards(q, Len(log)) => Forwards(q, Len(log))'
    BY FitsPrime DEF Forwards
  <2> QED  BY <2>1, <2>2 DEF PartFits, ApplyingFits
<1>2. RollingBackFits(q)'
  <2>2. Backwards(q, Len(log) - 1) => Backwards(q, Len(log) - 1)'
    BY FitsPrime DEF Backwards
  <2> QED  BY <2>2 DEF PartFits, RollingBackFits, Applies
<1>3. CommitFits(q)'
  BY FitsPrime DEF PartFits, CommitFits, Applies
<1> QED  BY <1>1, <1>2, <1>3 DEF PartFits, Applies

(* A process that is not in the middle of a plan.                          *)
LEMMA OutsideFits ==
  ASSUME NEW p \in Processes, ex'[p].pc \in {"idle", "ensure", "create", "read"}
  PROVE  PartFits(p)'
BY DEF PartFits, ApplyingFits, RollingBackFits, CommitFits

(* Whose step it is: the others see what they saw.                         *)
LEMMA OthersFit ==
  ASSUME Inv, SchemaInv, dbms' = dbms, log' = log, catalog' = catalog,
         NEW p \in Processes, \A q \in Processes : q # p => ex'[q] = ex[q],
         \/ writer' = writer /\ work' = work
         \/ writer' \in {p, Nobody} /\ writer \in {p, Nobody},
         PartFits(p)'
  PROVE  SchemaInv'
<1>1. CatalogFits(catalog, StateAt(Len(log)))'
  BY FitsPrime DEF SchemaInv
<1>2. ASSUME NEW q \in Processes, q # p PROVE PartFits(q)'
  <2>1. q # Nobody
    BY ExecutorAssumption
  <2>2. View(q)' = View(q)
    BY <1>2, <2>1 DEF View
  <2>3. ex[q].pc = "commit" => work' = work
    BY <1>2, <2>1 DEF Inv, Isolated
  <2> QED  BY <1>2, <2>2, <2>3, StaysFit DEF SchemaInv
<1> QED  BY <1>1, <1>2 DEF SchemaInv

(* The end of a call.                                                      *)
LEMMA EndingFits ==
  ASSUME Inv, SchemaInv, NEW p \in Processes, NEW how, End(p, how),
         dbms' = dbms, log' = log, catalog' = catalog
  PROVE  SchemaInv'
<1>1. /\ \A q \in Processes : q # p => ex'[q] = ex[q]
      /\ ex'[p] = Idle
  BY DEF Inv, Executors, Shaped, End
<1>2. PartFits(p)'
  BY <1>1, OutsideFits DEF Idle
<1>3. \/ writer' = writer /\ work' = work
      \/ writer' \in {p, Nobody} /\ writer \in {p, Nobody}
  BY DEF End
<1> QED  BY <1>1, <1>2, <1>3, OthersFit

(* The log is a beginning of the order.                                    *)
LEMMA LogIs ==
  ASSUME Inv, InOrder
  PROVE  /\ log = SubSeq(Order, 1, Len(log)) /\ SchemaOf(log) = StateAt(Len(log))
         /\ Len(log) \in 0 .. Len(Order) /\ Len(Order) \in Nat
<1>1. /\ Order \in Seq(Names) /\ log \in Seq(Names)
      /\ Len(log) <= Len(Order) /\ \A i \in 1 .. Len(log) : log[i] = Order[i]
  BY OrderIs DEF Inv, TypeOK, InOrder
<1>2. /\ SubSeq(Order, 1, Len(log)) \in Seq(Names) /\ Len(SubSeq(Order, 1, Len(log))) = Len(log)
      /\ \A i \in 1 .. Len(log) : SubSeq(Order, 1, Len(log))[i] = Order[i]
  BY <1>1
<1>3. log = SubSeq(Order, 1, Len(log))
  BY <1>1, <1>2, SeqEqual
<1>4. SchemaOf(log) = StateAt(Len(log))
  <2>1. StateAt(Len(log)) = SchemaOf(SubSeq(Order, 1, Len(log)))
    BY DEF StateAt
  <2> QED  BY <1>3, <2>1, Zenon
<1>5. Len(log) \in 0 .. Len(Order) /\ Len(Order) \in Nat
  BY <1>1
<1> QED  BY <1>3, <1>4, <1>5

(* Steps on the way to a plan, and the making of one.                      *)
LEMMA PlanningFits ==
  ASSUME Inv, InOrder, SchemaInv, NEW p \in Processes,
         dbms' = dbms, log' = log, catalog' = catalog, UNCHANGED transaction,
         \A q \in Processes : q # p => ex'[q] = ex[q],
         \/ ex'[p].pc \in {"ensure", "create", "read"}
         \/ ex'[p].pc = "reread" /\ Applies(p)'
         \/ ex'[p].pc = "next" /\ Applies(p)' /\ ex'[p].state = SchemaOf(log).v
         \/ ex'[p].pc = "next" /\ ~Applies(p)' /\ ex'[p].seen = log
  PROVE  SchemaInv'
<1>1. CASE ex'[p].pc \in {"ensure", "create", "read"}
  <2>1. PartFits(p)'
    BY <1>1, OutsideFits
  <2> QED  BY <2>1, OthersFit DEF transaction
<1>2. CASE ex'[p].pc = "reread" /\ Applies(p)'
  <2>1. PartFits(p)'
    BY <1>2 DEF PartFits, ApplyingFits, RollingBackFits, CommitFits
  <2> QED  BY <2>1, OthersFit DEF transaction
<1>3. CASE ex'[p].pc = "next" /\ Applies(p)' /\ ex'[p].state = SchemaOf(log).v
  <2>1. PartFits(p)'
    BY <1>3, LogIs DEF PartFits, ApplyingFits, RollingBackFits, CommitFits
  <2> QED  BY <2>1, OthersFit DEF transaction
<1>4. CASE ex'[p].pc = "next" /\ ~Applies(p)' /\ ex'[p].seen = log
  <2>1. PartFits(p)'
    BY <1>4, LogIs DEF PartFits, ApplyingFits, RollingBackFits, CommitFits, Due, InOrder
  <2> QED  BY <2>1, OthersFit DEF transaction
<1> QED  BY <1>1, <1>2, <1>3, <1>4

(* The steps before a transaction, and those that end one, leave what fits *)
(* as it is.                                                               *)
LEMMA EarlyFits ==
  ASSUME Inv, InOrder, SchemaInv, NEW p \in Processes,
         \/ EnsureSchema(p) \/ CreateMeta(p) \/ ReadToApply(p) \/ Reread(p) \/ ReadToRollBack(p)
         \/ \E call \in Calls, disk \in Disks : Call(p, call, disk)
  PROVE  SchemaInv'
<1>1. CASE EnsureSchema(p)
  <2>1. /\ \A q \in Processes : q # p => ex'[q] = ex[q]
        /\ ex'[p].pc \in {"create", "read"}
    BY <1>1 DEF Inv, Executors, Shaped, Fields, EnsureSchema, Goto
  <2> QED  BY <1>1, <2>1, PlanningFits DEF EnsureSchema, database
<1>2. CASE CreateMeta(p)
  <2>1. CASE End(p, "thrown") /\ UNCHANGED database
    BY <2>1, EndingFits DEF database
  <2>2. CASE ~(End(p, "thrown") /\ UNCHANGED database)
    <3>1. /\ \A q \in Processes : q # p => ex'[q] = ex[q]
          /\ ex'[p].pc = "read"
      BY <1>2, <2>2 DEF Inv, Executors, Shaped, Fields, CreateMeta, Goto
    <3>2. UNCHANGED <<dbms, catalog, log, transaction>>
      BY <1>2, <2>2 DEF CreateMeta
    <3> QED  BY <3>1, <3>2, PlanningFits
  <2> QED  BY <2>1, <2>2
<1>3. CASE ReadToApply(p)
  <2>0. UNCHANGED database
    BY <1>3 DEF ReadToApply
  <2>1. CASE \E how : End(p, how)
    BY <2>0, <2>1, EndingFits DEF database
  <2>2. CASE ~\E how : End(p, how)
    <3>1. /\ \E todo : ex' = [ex EXCEPT ![p].pc = "reread", ![p].todo = todo]
          /\ UNCHANGED transaction /\ Applies(p)
      BY <1>3, <2>2 DEF ReadToApply, Applies
    <3>2. /\ \A q \in Processes : q # p => ex'[q] = ex[q]
          /\ ex'[p].pc = "reread" /\ Applies(p)'
      BY <3>1 DEF Inv, Executors, Shaped, Fields, Applies
    <3> QED  BY <2>0, <3>1, <3>2, PlanningFits DEF database
  <2> QED  BY <2>1, <2>2
<1>4. CASE Reread(p)
  <2>0. UNCHANGED database /\ Applies(p)
    BY <1>4 DEF Reread, SchemaInv, PartFits
  <2>1. CASE \E how : End(p, how)
    BY <2>0, <2>1, EndingFits DEF database
  <2>2. CASE ~\E how : End(p, how)
    <3> DEFINE st == SchemaOf(log).v
    <3>1. /\ ex' = [ex EXCEPT ![p].pc = "next", ![p].state = st]
          /\ UNCHANGED transaction
      BY <1>4, <2>2 DEF Reread
    <3> HIDE DEF st
    <3>2. /\ \A q \in Processes : q # p => ex'[q] = ex[q]
          /\ ex'[p].pc = "next" /\ Applies(p)' /\ ex'[p].state = st
      BY <2>0, <3>1 DEF Inv, Executors, Shaped, Fields, Applies
    <3> QED  BY <2>0, <3>1, <3>2, PlanningFits DEF database, st
  <2> QED  BY <2>1, <2>2
<1>5. CASE ReadToRollBack(p)
  <2>0. UNCHANGED database
    BY <1>5 DEF ReadToRollBack
  <2>1. CASE \E how : End(p, how)
    BY <2>0, <2>1, EndingFits DEF database
  <2>2. CASE ~\E how : End(p, how)
    <3>1. /\ \E todo : ex' = [ex EXCEPT ![p].pc = "next", ![p].seen = log, ![p].todo = todo]
          /\ UNCHANGED transaction /\ ~Applies(p)
      BY <1>5, <2>2 DEF ReadToRollBack, Applies
    <3>2. /\ \A q \in Processes : q # p => ex'[q] = ex[q]
          /\ ex'[p].pc = "next" /\ ~Applies(p)' /\ ex'[p].seen = log
      BY <3>1 DEF Inv, Executors, Shaped, Fields, Applies
    <3> QED  BY <2>0, <3>1, <3>2, PlanningFits DEF database
  <2> QED  BY <2>1, <2>2
<1>6. ASSUME NEW call \in Calls, NEW disk \in Disks, Call(p, call, disk) PROVE SchemaInv'
  <2>1. /\ \A q \in Processes : q # p => ex'[q] = ex[q]
        /\ ex'[p].pc = "ensure"
    BY <1>6 DEF Inv, Executors, Shaped, Fields, Call
  <2> QED  BY <1>6, <2>1, PlanningFits DEF Call, database
<1> QED  BY <1>1, <1>2, <1>3, <1>4, <1>5, <1>6

(* What runs next.                                                         *)
LEMMA NextIs ==
  ASSUME InStep, Inv, InOrder, NEW p \in Processes, ex[p].pc \in {"next", "ops"}, ex[p].todo # <<>>
  PROVE  /\ Due(p) => Body[Head(ex[p].todo)] = Coming(Len(log))
         /\ Applies(p) /\ ~Contains(log, Head(ex[p].todo)) => Due(p)
         /\ ~Applies(p) => /\ Len(log) - 1 \in 0 .. Len(Order) - 1
                           /\ Head(ex[p].todo) = Order[Len(log)]
                           /\ Body[Head(ex[p].todo)] = Coming(Len(log) - 1)
                           /\ Place(Head(ex[p].todo), log) = Len(log)
<1> DEFINE todo == ex[p].todo
           n == Len(log)
<1>0. /\ todo \in Seq(Names) /\ Len(todo) \in Nat \ {0} /\ Head(todo) = todo[1] /\ 1 \in 1 .. Len(todo)
      /\ log \in Seq(Names) /\ n \in 0 .. Len(Order) /\ Len(Order) \in Nat /\ Queued(p)
  <2>1. todo \in Seq(Names) /\ log \in Seq(Names) /\ Queued(p)
    BY DEF Inv, TypeOK, InOrder, Planned
  <2>2. Len(todo) \in Nat \ {0} /\ Head(todo) = todo[1] /\ 1 \in 1 .. Len(todo)
    BY <2>1
  <2> QED  BY <2>1, <2>2, LogIs
<1>1. Due(p) => Body[Head(todo)] = Coming(n)
  BY DEF Due, Coming
<1>2. ASSUME Applies(p), ~Contains(log, Head(todo)) PROVE Due(p)
  <2>1. PICK k \in 0 .. n : Len(todo) + k <= Len(ex[p].names) /\ todo[1] = Order[k + 1]
    BY <1>0, <1>2 DEF Queued
  <2>2. ex[p].names \in Seq(Names) /\ Len(ex[p].names) <= Len(Order) /\ Len(ex[p].names) \in Nat
    <3>1. ex[p].names \in Seq(Names) /\ Len(ex[p].names) <= Len(Order)
      BY NamesArePrefix
    <3> QED  BY <3>1
  <2>3. k = n
    <3> SUFFICES ASSUME k < n PROVE FALSE
      BY <1>0, <2>1
    <3>1. k + 1 \in 1 .. n /\ log[k + 1] = Order[k + 1]
      BY <1>0 DEF InOrder
    <3> QED  BY <1>0, <1>2, <2>1, <3>1 DEF Contains
  <2> QED  BY <1>0, <1>2, <2>1, <2>2, <2>3 DEF Due
<1>3. ASSUME ~Applies(p)
      PROVE  /\ n - 1 \in 0 .. Len(Order) - 1 /\ Head(todo) = Order[n]
             /\ Body[Head(todo)] = Coming(n - 1) /\ Place(Head(todo), log) = n
  <2>1. Len(todo) <= n /\ todo[1] = Order[n - 1 + 1]
    BY <1>0, <1>3 DEF Queued
  <2>2. n - 1 \in 0 .. Len(Order) - 1 /\ n - 1 + 1 = n /\ n \in 1 .. Len(Order) /\ log[n] = Order[n]
    BY <1>0, <2>1 DEF InOrder
  <2>3. Head(todo) = Order[n]
    BY <1>0, <2>1, <2>2
  <2>4. Contains(log, Order[n])
    BY <1>0, <2>2 DEF Contains
  <2>5. Place(Order[n], log) \in 1 .. n /\ log[Place(Order[n], log)] = Order[n]
    BY <1>0, <2>4, PlaceIs
  <2>6. Order[Place(Order[n], log)] = Order[n] /\ Place(Order[n], log) \in 1 .. Len(Order)
    BY <1>0, <2>5 DEF InOrder
  <2>7. Place(Order[n], log) = n
    BY <2>2, <2>6, OrderIs
  <2> QED  BY <2>2, <2>3, <2>7 DEF Coming
<1> QED  BY <1>1, <1>2, <1>3

(* The steps of a rollback, last operation first.                          *)
LEMMA BackwardStepsAre ==
  ASSUME InStep, Lawful, Inv, InOrder, SchemaInv, NEW p \in Processes, ex[p].pc = "next",
         ex[p].todo # <<>>, ~Applies(p)
  PROVE  LET k == Len(log) - 1
             n == Len(Coming(k))
         IN  BackwardSteps(Head(ex[p].todo), ex[p].seen) = [j \in 1 .. n |-> Undo(k, n - j + 1)]
<1> DEFINE k == Len(log) - 1
           ops == Coming(k)
           n == Len(ops)
           m == Head(ex[p].todo)
           seen == ex[p].seen
<1>1. k \in 0 .. Len(Order) - 1 /\ m = Order[k + 1] /\ Body[m] = ops /\ Len(Order) \in Nat
      /\ Len(log) = k + 1
  <2>1. Len(log) \in Nat /\ Len(Order) \in Nat
    BY LogIs
  <2>2. k + 1 = Len(log)
    BY <2>1
  <2> QED  BY <2>1, <2>2, NextIs
<1>2. /\ seen \in Seq(Names) /\ k + 1 <= Len(seen) /\ Len(seen) <= Len(Order)
      /\ \A i \in 1 .. Len(seen) : seen[i] = Order[i]
  BY <1>1 DEF Inv, TypeOK, SchemaInv, PartFits, RollingBackFits
<1>3. Place(m, seen) = k + 1
  <2>1. k + 1 \in 1 .. Len(seen) /\ k + 1 \in 1 .. Len(Order) /\ seen[k + 1] = m
    BY <1>1, <1>2
  <2>2. Contains(seen, m)
    BY <2>1 DEF Contains
  <2>3. Place(m, seen) \in 1 .. Len(seen) /\ seen[Place(m, seen)] = m
    BY <1>2, <2>2, PlaceIs
  <2>4. Order[Place(m, seen)] = Order[k + 1] /\ Place(m, seen) \in 1 .. Len(Order)
    BY <1>1, <1>2, <2>3
  <2> QED  BY <2>1, <2>4, OrderIs
<1>4. SubSeq(seen, 1, k) = SubSeq(Order, 1, k)
  <2>1. Order \in Seq(Names)
    BY OrderIs
  <2>2. /\ SubSeq(seen, 1, k) \in Seq(Names) /\ Len(SubSeq(seen, 1, k)) = k
        /\ \A i \in 1 .. k : SubSeq(seen, 1, k)[i] = seen[i]
    BY <1>1, <1>2
  <2>3. /\ SubSeq(Order, 1, k) \in Seq(Names) /\ Len(SubSeq(Order, 1, k)) = k
        /\ \A i \in 1 .. k : SubSeq(Order, 1, k)[i] = Order[i]
    BY <1>1, <2>1
  <2>4. \A i \in 1 .. k : seen[i] = Order[i]
    BY <1>1, <1>2
  <2> QED  BY <2>2, <2>3, <2>4, SeqEqual
<1>5. SchemaOf(SubSeq(seen, 1, Place(m, seen) - 1)).v = StateAt(k).v
  <2>1. Place(m, seen) - 1 = k
    BY <1>1, <1>3
  <2> QED  BY <1>4, <2>1 DEF StateAt
<1>6. ops \in Seq(ToSet(ops)) /\ n \in Nat /\ DOMAIN ops = 1 .. n
  <2>1. Order[k + 1] \in Names
    <3>1. Order \in Seq(Names) /\ k + 1 \in 1 .. Len(Order)
      BY <1>1, OrderIs
    <3> QED  BY <3>1
  <2>2. ops \in Seq(ToSet(ops))
    BY <2>1 DEF Lawful, Coming, Names
  <2> QED  BY <2>2
<1> DEFINE st == StateAt(k).v
           before(i) == UpdateAll(SubSeq(ops, 1, i - 1), st).v
           steps == [i \in 1 .. n |-> [op |-> ops[i], from |-> before(i + 1), to |-> before(i)]]
<1>7. BackwardSteps(m, seen) = Reverse(steps)
  BY <1>1, <1>5, <1>6, Zenon DEF BackwardSteps
<1>8. \A i \in 1 .. n : steps[i] = Undo(k, i)
  <2> SUFFICES ASSUME NEW i \in 1 .. n PROVE steps[i] = Undo(k, i)
    OBVIOUS
  <2>1. i + 1 - 1 = i
    OBVIOUS
  <2>2. before(i + 1) = After(k, i).v /\ before(i) = After(k, i - 1).v
    BY <2>1 DEF After
  <2> HIDE DEF before, ops, k
  <2> QED  BY <2>2 DEF Undo, ops
<1>9. Reverse(steps) = [j \in 1 .. n |-> Undo(k, n - j + 1)]
  <2>1. steps \in Seq({steps[i] : i \in 1 .. n}) /\ Len(steps) = n
    <3> HIDE DEF before, ops, k, n, st
    <3> QED  BY <1>6, SeqDef
  <2> HIDE DEF steps
  <2>2. Reverse(steps) = [j \in 1 .. n |-> steps[(n - j) + 1]]
    BY <2>1 DEF Reverse
  <2>3. \A j \in 1 .. n : steps[(n - j) + 1] = Undo(k, n - j + 1)
    <3>1. \A j \in 1 .. n : (n - j) + 1 \in 1 .. n
      BY <1>6
    <3> QED  BY <1>8, <3>1
  <2> HIDE DEF k, n
  <2> QED  BY <2>2, <2>3
<1> HIDE DEF steps
<1> QED  BY <1>7, <1>9

(* Before its first statement a transaction sees the database.             *)
LEMMA BeginFits ==
  ASSUME InStep, Lawful, Inv, InOrder, SchemaInv, NEW p \in Processes, Begin(p)
  PROVE  SchemaInv'
<1> DEFINE n == Len(log)
<1>0. ex[p].pc = "next" /\ UNCHANGED database /\ n \in 0 .. Len(Order) /\ Len(Order) \in Nat
  BY LogIs DEF Begin
<1>1. CASE End(p, "done")
  BY <1>0, <1>1, EndingFits DEF database
<1>2. CASE ~End(p, "done")
  <2> DEFINE ops == IF Applies(p) THEN Body[Head(ex[p].todo)]
                                  ELSE BackwardSteps(Head(ex[p].todo), ex[p].seen)
  <2>1. /\ ex[p].todo # <<>> /\ ex' = [ex EXCEPT ![p].pc = "ops", ![p].ops = ops]
        /\ UNCHANGED transaction
    BY <1>2 DEF Begin, Applies
  <2> HIDE DEF ops
  <2>2. /\ \A q \in Processes : q # p => ex'[q] = ex[q]
        /\ ex'[p].pc = "ops" /\ ex'[p].ops = ops
        /\ ex'[p].todo = ex[p].todo /\ ex'[p].call = ex[p].call /\ ex'[p].seen = ex[p].seen
        /\ ex'[p].state = ex[p].state
    BY <2>1 DEF Inv, Executors, Shaped, Fields
  <2>3. writer # p /\ View(p).catalog = catalog /\ View(p)'.catalog = catalog
    <3>1. writer # p
      BY <1>0, ExecutorAssumption DEF Inv, TypeOK
    <3> QED  BY <1>0, <2>1, <3>1 DEF View, transaction, database
  <2>4. dbms' = dbms /\ log' = log /\ catalog' = catalog /\ (Due(p)' => Due(p))
        /\ (Applies(p)' <=> Applies(p))
    BY <1>0, <2>2 DEF database, Due, Applies
  <2>5. ApplyingFits(p)'
    <3> SUFFICES ASSUME Due(p) PROVE Forwards(p, n)'
      BY <2>2, <2>4 DEF ApplyingFits
    <3>1. n \in 0 .. Len(Order) - 1 /\ Applies(p)
      BY <1>0 DEF Due
    <3>2. StateAt(n).ok /\ ex[p].state = StateAt(n).v /\ CatalogFits(catalog, StateAt(n))
      BY <1>0 DEF SchemaInv, PartFits, ApplyingFits, CatalogFits
    <3>3. Len(Coming(n)) \in Nat /\ After(n, 0) = Returns(StateAt(n).v)
      BY <3>1, <3>2, CourseIs
    <3>4. ops = Coming(n)
      BY <1>0, <2>1, <3>1, NextIs DEF ops
    <3>5. Coming(n) = SubSeq(Coming(n), 0 + 1, Len(Coming(n)))
      <4>1. Coming(n) \in Seq(ToSet(Coming(n)))
        <5>1. Order \in Seq(Names) /\ n + 1 \in 1 .. Len(Order)
          BY <1>0, <3>1, OrderIs
        <5>2. Order[n + 1] \in Names
          BY <5>1
        <5> QED  BY <5>2 DEF Lawful, Coming, Names
      <4> QED  BY <4>1
    <3>6. CatalogFits(catalog, After(n, 0)) /\ ex[p].state = After(n, 0).v /\ 0 \in 0 .. Len(Coming(n))
      BY <3>2, <3>3 DEF CatalogFits, Returns
    <3> HIDE DEF n
    <3>7. n' = n
      BY <2>4 DEF n
    <3> QED  BY <2>2, <2>3, <2>4, <3>4, <3>5, <3>6, <3>7, FitsPrime DEF Forwards
  <2>6. RollingBackFits(p)'
    <3> SUFFICES ASSUME ~Applies(p) PROVE Backwards(p, n - 1)' /\ RollingBackFits(p)
      BY <1>0, <2>2, <2>4 DEF RollingBackFits
    <3>1. n - 1 \in 0 .. Len(Order) - 1 /\ n - 1 + 1 = n
      BY <1>0, <2>1, NextIs
    <3>2. CatalogFits(catalog, StateAt(n))
      BY DEF SchemaInv
    <3>3. Len(Coming(n - 1)) \in Nat /\ After(n - 1, Len(Coming(n - 1))) = StateAt(n)
      BY <3>1, <3>2, CourseIs, CourseIsOk DEF CatalogFits
    <3>4. ops = [j \in 1 .. Len(Coming(n - 1)) |-> Undo(n - 1, Len(Coming(n - 1)) - j + 1)]
      BY <1>0, <2>1, BackwardStepsAre DEF ops
    <3>5. Len(Coming(n - 1)) \in 0 .. Len(Coming(n - 1))
      BY <3>3
    <3> HIDE DEF n
    <3>6. n' = n
      BY <2>4 DEF n
    <3>7. Backwards(p, n - 1)'
      BY <2>2, <2>3, <2>4, <3>2, <3>3, <3>4, <3>5, <3>6, FitsPrime DEF Backwards
    <3> QED  BY <3>7 DEF SchemaInv, PartFits
  <2>7. PartFits(p)'
    BY <2>2, <2>5, <2>6 DEF PartFits, CommitFits
  <2> QED  BY <2>1, <2>2, <2>4, <2>7, OthersFit DEF transaction
<1> QED  BY <1>1, <1>2

(* A write of the running transaction.                                     *)
LEMMA WritingFits ==
  ASSUME Inv, SchemaInv, NEW p \in Processes, CanWrite(p), writer' = p,
         dbms' = dbms, log' = log, catalog' = catalog,
         \A q \in Processes : q # p => ex'[q] = ex[q], PartFits(p)'
  PROVE  SchemaInv'
BY OthersFit DEF CanWrite

(* An operation of a migration that is being applied takes the schema from *)
(* one state of the migration to the next.                                 *)
LEMMA RunForwardFits ==
  ASSUME InStep, Lawful, Inv, InOrder, SchemaInv, NEW p \in Processes, RunForward(p)
  PROVE  SchemaInv'
<1> DEFINE n == Len(log)
<1>0. /\ ex[p].pc = "ops" /\ Applies(p) /\ ex[p].ops # <<>> /\ UNCHANGED database
      /\ n \in 0 .. Len(Order) /\ Len(Order) \in Nat
  BY LogIs DEF RunForward, Applies
<1>1. CASE End(p, "thrown")
  BY <1>0, <1>1, EndingFits DEF database
<1>2. CASE ~End(p, "thrown")
  <2> DEFINE op == Head(ex[p].ops)
             u == UpdateState(op, ex[p].state)
             r == Forward(op, ex[p].state, u.v, View(p).catalog)
             rv == r.v
             uv == u.v
  <2>1. /\ CanWrite(p) /\ u.ok /\ r.ok /\ Write(p, [View(p) EXCEPT !.catalog = rv])
        /\ ex' = [ex EXCEPT ![p].state = uv, ![p].ops = Tail(@)]
    BY <1>2 DEF RunForward
  <2> HIDE DEF rv, uv
  <2>2. /\ \A q \in Processes : q # p => ex'[q] = ex[q]
        /\ ex'[p].pc = "ops" /\ ex'[p].ops = Tail(ex[p].ops) /\ ex'[p].state = uv
        /\ ex'[p].todo = ex[p].todo /\ ex'[p].call = ex[p].call
    BY <1>0, <2>1 DEF Inv, Executors, Shaped, Fields
  <2>3. writer' = p /\ View(p)'.catalog = rv
    <3>1. writer' = p /\ work' = [View(p) EXCEPT !.catalog = rv]
      BY <2>1 DEF Write
    <3>2. DOMAIN View(p) = {"catalog", "log"}
      BY DEF Inv, Executors, View
    <3> QED  BY <3>1, <3>2 DEF View
  <2>4. dbms' = dbms /\ log' = log /\ catalog' = catalog /\ (Due(p)' => Due(p))
        /\ Applies(p)'
    BY <1>0, <2>2 DEF database, Due, Applies
  <2>5. ApplyingFits(p)'
    <3> SUFFICES ASSUME Due(p) PROVE Forwards(p, n)'
      BY <2>2, <2>4 DEF ApplyingFits
    <3>1. n \in 0 .. Len(Order) - 1
      BY <1>0 DEF Due
    <3>2. StateAt(n).ok
      BY DEF SchemaInv, CatalogFits
    <3> DEFINE ops == Coming(n)
               m == Len(ops)
    <3>3. m \in Nat /\ ops \in Seq(ToSet(ops))
      <4>1. Order \in Seq(Names) /\ n + 1 \in 1 .. Len(Order)
        BY <1>0, <3>1, OrderIs
      <4>2. Order[n + 1] \in Names
        BY <4>1
      <4>3. ops \in Seq(ToSet(ops))
        BY <4>2 DEF Lawful, Coming, Names
      <4> QED  BY <4>3
    <3>4. PICK i \in 0 .. m : /\ ex[p].ops = SubSeq(ops, i + 1, m)
                              /\ ex[p].state = After(n, i).v
                              /\ CatalogFits(View(p).catalog, After(n, i))
      BY <1>0 DEF SchemaInv, PartFits, ApplyingFits, Forwards
    <3>5. i + 1 \in 1 .. m /\ op = ops[i + 1] /\ Tail(ex[p].ops) = SubSeq(ops, i + 1 + 1, m)
          /\ i + 1 - 1 = i
      <4> HIDE DEF ops, m
      <4>1. i < m
        BY <1>0, <3>3, <3>4 DEF m
      <4> QED  BY <3>3, <3>4, <4>1 DEF m
    <3>6. /\ After(n, i + 1).v = uv /\ CatalogFits(rv, After(n, i + 1))
      <4> DEFINE j == i + 1
                 before == After(n, j - 1)
      <4>1. /\ StateAt(n).ok /\ CatalogFits(View(p).catalog, before) /\ ex[p].state = before.v
            /\ op = Coming(n)[j] /\ j \in 1 .. Len(Coming(n)) /\ dbms \in Engines
        BY <3>2, <3>4, <3>5 DEF SchemaInv
      <4>2. UpdateState(op, before.v).ok /\ Forward(op, before.v, UpdateState(op, before.v).v,
                                                    View(p).catalog).ok
        BY <2>1, <4>1
      <4>3. /\ uv = UpdateState(op, before.v).v
            /\ rv = Forward(op, before.v, UpdateState(op, before.v).v, View(p).catalog).v
        BY <4>1 DEF rv, uv
      <4> HIDE DEF n, op, j
      <4>4. After(n, j).v = uv /\ CatalogFits(rv, After(n, j))
        BY <3>1, <4>1, <4>2, <4>3, ForwardFits
      <4> QED  BY <4>4 DEF j
    <3>7. n' = n
      BY <2>4
    <3>8. /\ i + 1 \in 0 .. m /\ ex'[p].ops = SubSeq(ops, (i + 1) + 1, m)
          /\ ex'[p].state = After(n, i + 1).v /\ CatalogFits(View(p)'.catalog, After(n, i + 1))
      <4>1. i + 1 \in 0 .. m
        <5> HIDE DEF m
        <5> QED  BY <3>3, <3>5
      <4> HIDE DEF n, op, m, ops
      <4>2. ex'[p].ops = SubSeq(ops, (i + 1) + 1, m)
        BY <2>2, <3>5, Zenon
      <4>3. ex'[p].state = After(n, i + 1).v
        BY <2>2, <3>6, Zenon
      <4>4. CatalogFits(View(p)'.catalog, After(n, i + 1))
        BY <2>3, <3>6, Zenon
      <4> QED  BY <4>1, <4>2, <4>3, <4>4
    <3> HIDE DEF n, op
    <3> QED  BY <2>4, <3>7, <3>8, FitsPrime DEF Forwards
  <2>7. PartFits(p)'
    BY <2>2, <2>4, <2>5 DEF PartFits, CommitFits, RollingBackFits
  <2> QED  BY <2>1, <2>2, <2>3, <2>4, <2>7, WritingFits
<1> QED  BY <1>1, <1>2

(* One of a migration that is being rolled back takes it to the state      *)
(* before.                                                                 *)
LEMMA RunBackwardFits ==
  ASSUME InStep, Lawful, Inv, InOrder, SchemaInv, NEW p \in Processes, RunBackward(p)
  PROVE  SchemaInv'
<1> DEFINE n == Len(log) - 1
<1>0. /\ ex[p].pc = "ops" /\ ~Applies(p) /\ ex[p].ops # <<>> /\ UNCHANGED database
      /\ ex[p].todo # <<>>
  BY DEF RunBackward, Applies, Inv, Isolated
<1>1. CASE End(p, "thrown")
  BY <1>0, <1>1, EndingFits DEF database
<1>2. CASE ~End(p, "thrown")
  <2> DEFINE step == Head(ex[p].ops)
             r == Backward(step.op, step.from, step.to, View(p).catalog)
             rv == r.v
  <2>1. /\ CanWrite(p) /\ r.ok /\ Write(p, [View(p) EXCEPT !.catalog = rv])
        /\ ex' = [ex EXCEPT ![p].ops = Tail(@)]
    BY <1>2 DEF RunBackward
  <2> HIDE DEF rv
  <2>2. /\ \A q \in Processes : q # p => ex'[q] = ex[q]
        /\ ex'[p].pc = "ops" /\ ex'[p].ops = Tail(ex[p].ops)
        /\ ex'[p].todo = ex[p].todo /\ ex'[p].call = ex[p].call /\ ex'[p].seen = ex[p].seen
    BY <1>0, <2>1 DEF Inv, Executors, Shaped, Fields
  <2>3. writer' = p /\ View(p)'.catalog = rv
    <3>1. writer' = p /\ work' = [View(p) EXCEPT !.catalog = rv]
      BY <2>1 DEF Write
    <3>2. DOMAIN View(p) = {"catalog", "log"}
      BY DEF Inv, Executors, View
    <3> QED  BY <3>1, <3>2 DEF View
  <2>4. dbms' = dbms /\ log' = log /\ catalog' = catalog /\ ~Applies(p)'
    BY <1>0, <2>2 DEF database, Applies
  <2>5. Backwards(p, n)'
    <3>1. n \in 0 .. Len(Order) - 1 /\ n + 1 = Len(log)
      <4>1. Len(log) \in Nat
        BY LogIs
      <4> QED  BY <1>0, <4>1, NextIs
    <3>2. StateAt(n + 1).ok
      BY <3>1 DEF SchemaInv, CatalogFits
    <3> DEFINE m == Len(Coming(n))
    <3>3. m \in Nat
      BY <3>1, <3>2, CourseIs, CourseIsOk
    <3>4. PICK i \in 0 .. m : /\ ex[p].ops = [j \in 1 .. i |-> Undo(n, i - j + 1)]
                              /\ CatalogFits(View(p).catalog, After(n, i))
      BY <1>0 DEF SchemaInv, PartFits, RollingBackFits, Backwards
    <3>5. i \in 1 .. m /\ step = Undo(n, i) /\ i - 1 \in 0 .. m
          /\ Tail(ex[p].ops) = [j \in 1 .. i - 1 |-> Undo(n, i - 1 - j + 1)]
      <4> DEFINE ops == [j \in 1 .. i |-> Undo(n, i - j + 1)]
                 S == {ops[j] : j \in 1 .. i}
      <4> HIDE DEF n, m
      <4>1. ops \in Seq(S) /\ Len(ops) = i /\ i \in Nat /\ ops # <<>>
        <5>1. i \in Nat /\ ops \in [1 .. i -> S]
          BY <3>3
        <5>2. ops # <<>>
          BY <1>0, <3>4
        <5> HIDE DEF ops, S
        <5> QED  BY <5>1, <5>2
      <4>2. \A j \in 1 .. i : ops[j] = Undo(n, i - j + 1)
        OBVIOUS
      <4> HIDE DEF ops, S
      <4>3. i # 0
        BY <4>1
      <4>4. Head(ops) = ops[1] /\ 1 \in 1 .. i /\ i - 1 + 1 = i
        BY <4>1, <4>3
      <4>5. Tail(ops) = [j \in 1 .. i - 1 |-> ops[j + 1]]
        <5>1. /\ Tail(ops) \in Seq(S) /\ Len(Tail(ops)) = i - 1
              /\ \A j \in 1 .. i - 1 : Tail(ops)[j] = ops[j + 1]
          BY <4>1, <4>3
        <5> DEFINE rest == [j \in 1 .. i - 1 |-> ops[j + 1]]
        <5>2. rest \in Seq(S) /\ Len(rest) = i - 1 /\ \A j \in 1 .. i - 1 : rest[j] = ops[j + 1]
          <6>1. rest \in [1 .. i - 1 -> S]
            <7>1. \A j \in 1 .. i : ops[j] \in S
              BY DEF ops, S
            <7> QED  BY <4>1, <7>1
          <6> QED  BY <4>1, <4>3, <6>1
        <5> HIDE DEF rest
        <5> QED  BY <5>1, <5>2, SeqEqual DEF rest
      <4>6. \A j \in 1 .. i - 1 : ops[j + 1] = Undo(n, i - 1 - j + 1)
        <5> SUFFICES ASSUME NEW j \in 1 .. i - 1 PROVE ops[j + 1] = Undo(n, i - 1 - j + 1)
          OBVIOUS
        <5>1. j + 1 \in 1 .. i /\ i - (j + 1) + 1 = i - 1 - j + 1
          BY <4>1
        <5>2. ops[j + 1] = Undo(n, i - (j + 1) + 1)
          BY <4>2, <5>1
        <5> QED  BY <5>1, <5>2
      <4>7. Tail(ops) = [j \in 1 .. i - 1 |-> Undo(n, i - 1 - j + 1)]
        BY <4>5, <4>6
      <4>8. ops[1] = Undo(n, i)
        BY <4>2, <4>4
      <4> QED  BY <3>3, <3>4, <4>1, <4>3, <4>4, <4>7, <4>8 DEF ops
    <3>6. CatalogFits(rv, After(n, i - 1))
      <4>1. IsState(After(n, i - 1).v)
        BY <3>1, <3>2, <3>5, StatesBefore
      <4>2. step.op = Coming(n)[i] /\ step.from = After(n, i).v /\ step.to = After(n, i - 1).v
        BY <3>5 DEF Undo
      <4>3. dbms \in Engines /\ i \in 1 .. Len(Coming(n))
        BY <3>5 DEF SchemaInv
      <4> HIDE DEF step, n, m
      <4> QED  BY <2>1, <3>1, <3>2, <3>4, <4>1, <4>2, <4>3, BackwardFits DEF rv
    <3>7. n' = n
      BY <2>4
    <3> HIDE DEF n, step
    <3> QED  BY <2>2, <2>3, <2>4, <3>3, <3>5, <3>6, <3>7, FitsPrime DEF Backwards
  <2>6. RollingBackFits(p)'
    BY <1>0, <2>2, <2>4, <2>5 DEF SchemaInv, PartFits, RollingBackFits
  <2>7. PartFits(p)'
    BY <2>2, <2>4, <2>6 DEF PartFits, CommitFits, ApplyingFits, Due
  <2> QED  BY <2>1, <2>2, <2>3, <2>4, <2>7, WritingFits
<1> QED  BY <1>1, <1>2

(* The row of a migration is written when all its operations have run: the *)
(* transaction then has the log and the schema of one more, or one less.   *)
LEMMA RecordFits ==
  ASSUME InStep, Lawful, Inv, InOrder, SchemaInv, NEW p \in Processes, Record(p)
  PROVE  SchemaInv'
<1> DEFINE n == Len(log)
<1>0. /\ ex[p].pc = "ops" /\ ex[p].ops = <<>> /\ UNCHANGED database /\ ex[p].todo # <<>>
      /\ n \in 0 .. Len(Order) /\ Len(Order) \in Nat /\ log \in Seq(Names)
  BY LogIs DEF Record, Inv, Isolated, TypeOK
<1>1. CASE End(p, "thrown")
  BY <1>0, <1>1, EndingFits DEF database
<1>2. CASE ~End(p, "thrown")
  <2>1. View(p).log = log
    BY <1>0 DEF Inv, Isolated, View
  <2>2. /\ CanWrite(p) /\ Write(p, [View(p) EXCEPT !.log = Recorded(p)])
        /\ ex' = [ex EXCEPT ![p].pc = "commit"]
        /\ Applies(p) => ~Contains(log, Head(ex[p].todo))
    BY <1>2, <2>1 DEF Record, Recorded, Applies, Goto
  <2>3. /\ \A q \in Processes : q # p => ex'[q] = ex[q]
        /\ ex'[p].pc = "commit" /\ ex'[p].state = ex[p].state
        /\ ex'[p].call = ex[p].call /\ ex'[p].seen = ex[p].seen
    BY <2>2 DEF Inv, Executors, Shaped, Fields
  <2>4. writer' = p /\ work'.catalog = View(p).catalog /\ work'.log = Recorded(p)
    <3>1. DOMAIN View(p) = {"catalog", "log"}
      BY DEF Inv, Executors, View
    <3> QED  BY <2>2, <3>1 DEF Write
  <2>5. dbms' = dbms /\ log' = log /\ catalog' = catalog /\ (Applies(p)' <=> Applies(p))
    BY <1>0, <2>3 DEF database, Applies
  <2>6. /\ CatalogFits(work'.catalog, StateAt(Len(work'.log)))
        /\ Applies(p) => ex[p].state = StateAt(Len(work'.log)).v
    <3>1. CASE Applies(p)
      <4>1. Due(p) /\ n \in 0 .. Len(Order) - 1
        <5>1. Due(p)
          BY <1>0, <2>2, <3>1, NextIs
        <5> QED  BY <1>0, <5>1 DEF Due
      <4>2. StateAt(n).ok
        BY DEF SchemaInv, CatalogFits
      <4>3. Len(Coming(n)) \in Nat /\ After(n, Len(Coming(n))) = StateAt(n + 1)
        BY <4>1, <4>2, CourseIs
      <4>4. Coming(n) \in Seq(ToSet(Coming(n)))
        <5>1. Order \in Seq(Names) /\ n + 1 \in 1 .. Len(Order)
          BY <1>0, <4>1, OrderIs
        <5>2. Order[n + 1] \in Names
          BY <5>1
        <5> QED  BY <5>2 DEF Lawful, Coming, Names
      <4>5. PICK i \in 0 .. Len(Coming(n)) :
              /\ ex[p].ops = SubSeq(Coming(n), i + 1, Len(Coming(n)))
              /\ ex[p].state = After(n, i).v
              /\ CatalogFits(View(p).catalog, After(n, i))
        BY <1>0, <4>1 DEF SchemaInv, PartFits, ApplyingFits, Forwards
      <4>6. i = Len(Coming(n))
        <5> DEFINE ops == Coming(n)
        <5> HIDE DEF ops, n
        <5>1. Len(SubSeq(ops, i + 1, Len(ops))) = Len(ops) - i
          BY <4>3, <4>4, <4>5 DEF ops
        <5>2. Len(<<>>) = 0
          OBVIOUS
        <5> QED  BY <1>0, <4>3, <4>5, <5>1, <5>2 DEF ops
      <4>7. Len(work'.log) = n + 1
        BY <1>0, <2>4, <3>1 DEF Recorded
      <4> QED  BY <2>4, <4>3, <4>5, <4>6, <4>7
    <3>2. CASE ~Applies(p)
      <4>1. /\ n - 1 \in 0 .. Len(Order) - 1 /\ Place(Head(ex[p].todo), log) = n
            /\ n - 1 + 1 = n
        BY <1>0, <3>2, NextIs
      <4>2. StateAt(n).ok
        BY DEF SchemaInv, CatalogFits
      <4>3. Len(Coming(n - 1)) \in Nat /\ After(n - 1, 0) = Returns(StateAt(n - 1).v)
            /\ StateAt(n - 1).ok
        BY <4>1, <4>2, CourseIs, CourseIsOk
      <4>4. PICK i \in 0 .. Len(Coming(n - 1)) :
              /\ ex[p].ops = [j \in 1 .. i |-> Undo(n - 1, i - j + 1)]
              /\ CatalogFits(View(p).catalog, After(n - 1, i))
        BY <1>0, <3>2 DEF SchemaInv, PartFits, RollingBackFits, Backwards
      <4>5. i = 0
        <5>1. i \in Nat
          BY <4>3
        <5> DEFINE f == [j \in 1 .. i |-> Undo(n - 1, i - j + 1)]
        <5>2. DOMAIN f = 1 .. i
          OBVIOUS
        <5>3. f = <<>>
          BY <1>0, <4>4
        <5>4. DOMAIN f = {}
          <6> HIDE DEF f
          <6> QED  BY <5>3
        <5> HIDE DEF f
        <5> QED  BY <5>1, <5>2, <5>4
      <4>6. CatalogFits(View(p).catalog, StateAt(n - 1))
        BY <4>3, <4>4, <4>5 DEF CatalogFits, Returns
      <4>7. Len(work'.log) = n - 1
        <5>1. n # 0
          BY <4>1
        <5> QED  BY <1>0, <2>4, <3>2, <4>1, <5>1, DeleteIs DEF Recorded
      <4> QED  BY <2>4, <3>2, <4>6, <4>7
    <3> QED  BY <3>1, <3>2
  <2>7. CommitFits(p)'
    BY <2>3, <2>5, <2>6, FitsPrime DEF CommitFits
  <2>8. RollingBackFits(p)'
    BY <1>0, <2>3, <2>5 DEF SchemaInv, PartFits, RollingBackFits
  <2>9. PartFits(p)'
    BY <2>3, <2>7, <2>8 DEF PartFits, ApplyingFits
  <2> QED  BY <2>2, <2>3, <2>4, <2>5, <2>9, WritingFits
<1> QED  BY <1>1, <1>2

(* A commit takes the schema along with the log.  A plan that is overtaken *)
(* has a migration next that is in the log now.                            *)
LEMMA CommittingFits ==
  ASSUME InStep, Lawful, Inv, InOrder, SchemaInv, NEW p \in Processes, Commit(p)
  PROVE  SchemaInv'
<1> DEFINE n == Len(log)
<1>1. /\ ex[p].pc = "commit" /\ catalog' = work.catalog /\ log' = work.log /\ dbms' = dbms
      /\ writer = p /\ n \in 0 .. Len(Order) /\ Len(Order) \in Nat /\ log \in Seq(Names)
  BY LogIs DEF Commit, Inv, Isolated, TypeOK
<1>2. /\ \A q \in Processes : q # p => ex'[q] = ex[q]
      /\ ex'[p].pc = "next" /\ ex'[p].state = ex[p].state /\ ex'[p].seen = ex[p].seen
      /\ ex'[p].call = ex[p].call
  BY DEF Inv, Executors, Shaped, Fields, Commit
<1>3. CatalogFits(catalog, StateAt(Len(log)))'
  BY <1>1, FitsPrime DEF SchemaInv, PartFits, CommitFits
<1>4. PartFits(p)'
  <2>1. ApplyingFits(p)'
    BY <1>1, <1>2 DEF SchemaInv, PartFits, CommitFits, ApplyingFits, Due, Applies
  <2>2. RollingBackFits(p)'
    <3> SUFFICES ASSUME ~Applies(p)
                 PROVE  /\ Len(log') <= Len(ex[p].seen) /\ Len(ex[p].seen) <= Len(Order)
                        /\ \A i \in 1 .. Len(ex[p].seen) : ex[p].seen[i] = Order[i]
      BY <1>2 DEF RollingBackFits, Applies
    <3>1. /\ Len(log) <= Len(ex[p].seen) /\ Len(ex[p].seen) <= Len(Order)
          /\ \A i \in 1 .. Len(ex[p].seen) : ex[p].seen[i] = Order[i]
      BY <1>1 DEF SchemaInv, PartFits, RollingBackFits
    <3>2. Len(log') = n - 1 /\ Len(ex[p].seen) \in Nat
      BY CommitOneByOne DEF Inv, TypeOK
    <3> QED  BY <1>1, <3>1, <3>2
  <2> QED  BY <1>2, <2>1, <2>2 DEF PartFits, CommitFits
<1>5. ASSUME NEW q \in Processes, q # p PROVE PartFits(q)'
  <2>0. ex'[q] = ex[q] /\ ex[q].pc # "commit"
    BY <1>1, <1>2, <1>5 DEF Inv, Isolated
  <2>1. CASE ~Planned(q)
    <3>1. ex[q].pc \in {"idle", "ensure", "create", "read"}
      BY <2>1 DEF Inv, TypeOK, PCs, Planned
    <3> QED  BY <2>0, <3>1, OutsideFits
  <2>2. CASE Planned(q)
    <3>1. Applies(q) /\ Applies(p)
      <4>1. ~(\A a, b \in Processes : a = b)
        BY <1>5
      <4>2. ex[q].call \in Calls /\ ex[p].call \in Calls
        BY <1>1, <2>2 DEF Planned, InOrder
      <4> QED  BY <4>1, <4>2 DEF InStep, Applies
    <3>2. ~Due(q)'
      <4> SUFFICES ASSUME ex[q].todo # <<>>, Len(log') < Len(Order),
                          Head(ex[q].todo) = Order[Len(log') + 1]
                   PROVE  FALSE
        BY <2>0 DEF Due
      <4>1. Len(log') = n + 1
        BY <1>1, <3>1, CommitOneByOne
      <4>2. ex[q].todo \in Seq(Names)
        BY DEF Inv, TypeOK
      <4>3. Len(ex[q].todo) \in Nat \ {0} /\ Head(ex[q].todo) = ex[q].todo[1]
            /\ 1 \in 1 .. Len(ex[q].todo)
        BY <4>2
      <4>4. PICK k \in 0 .. n : ex[q].todo[1] = Order[k + 1]
        BY <2>2, <3>1, <4>3 DEF InOrder, Queued
      <4>5. k + 1 \in 1 .. Len(Order) /\ Len(log') + 1 \in 1 .. Len(Order)
            /\ k + 1 # Len(log') + 1
        BY <1>1, <4>1
      <4> QED  BY <4>3, <4>4, <4>5, OrderIs
    <3>3. Applies(q)'
      BY <2>0, <3>1 DEF Applies
    <3> QED  BY <2>0, <3>2, <3>3 DEF PartFits, ApplyingFits, RollingBackFits, CommitFits
  <2> QED  BY <2>1, <2>2
<1> QED  BY <1>1, <1>3, <1>4, <1>5 DEF SchemaInv

(* Before the first call there is no schema.                               *)
LEMMA InitFits ==
  ASSUME Init
  PROVE  SchemaInv
<1>1. log = <<>> /\ catalog = NoSchema /\ dbms \in Engines /\ \A p \in Processes : ex[p].pc = "idle"
  BY DEF Init, Idle
<1>2. Len(log) = 0
  BY <1>1
<1>3. StateAt(0) = Returns(NoSchema)
  <2>1. Order \in Seq(Names)
    BY OrderIs
  <2>2. SubSeq(Order, 1, 0) = <<>>
    BY <2>1
  <2> QED  BY <2>2, MigrateAllEmpty DEF StateAt, SchemaOf
<1>4. CatalogFits(NoSchema, Returns(NoSchema))
  <2>1. DOMAIN NoSchema = {}
    BY DEF NoSchema
  <2>2. IsState(NoSchema) /\ IsCatalog(NoSchema)
    BY <2>1 DEF IsState, IsCatalog
  <2>3. Schema(NoSchema) = Described(NoSchema)
    BY <2>1 DEF Schema, Described
  <2> QED  BY <2>2, <2>3 DEF CatalogFits, Returns
<1>5. \A p \in Processes : PartFits(p)
  BY <1>1 DEF PartFits, ApplyingFits, RollingBackFits, CommitFits
<1> QED  BY <1>1, <1>2, <1>3, <1>4, <1>5 DEF SchemaInv

(* Every step of the system.                                               *)
LEMMA SchemaInvIsInvariant ==
  InStep /\ Lawful /\ Inv /\ InOrder /\ SchemaInv /\ [Next]_vars => SchemaInv'
<1> SUFFICES ASSUME InStep, Lawful, Inv, InOrder, SchemaInv, [Next]_vars PROVE SchemaInv'
  OBVIOUS
<1>1. ASSUME NEW p \in Processes, Step(p) PROVE SchemaInv'
  BY <1>1, EarlyFits, BeginFits, RunForwardFits, RunBackwardFits, RecordFits, CommittingFits
     DEF Step
<1>2. ASSUME NEW p \in Processes, Fail(p) \/ Crash(p) PROVE SchemaInv'
  <2>1. UNCHANGED database /\ \E how \in {"thrown", "crashed"} : End(p, how)
    BY <1>2 DEF Fail, Crash
  <2> QED  BY <2>1, EndingFits DEF database
<1>3. ASSUME NEW p \in Processes, NEW call \in Calls, NEW disk \in Disks, Call(p, call, disk)
      PROVE  SchemaInv'
  BY <1>3, EarlyFits
<1>4. CASE UNCHANGED vars
  <2>1. dbms' = dbms /\ log' = log /\ catalog' = catalog /\ ex' = ex /\ work' = work
        /\ writer' = writer
    BY <1>4 DEF vars, database, transaction
  <2>2. \A q \in Processes : PartFits(q)'
    <3> SUFFICES ASSUME NEW q \in Processes PROVE PartFits(q)'
      OBVIOUS
    <3>1. View(q)' = View(q)
      BY <2>1 DEF View
    <3> QED  BY <2>1, <3>1, StaysFit DEF SchemaInv
  <2> QED  BY <2>1, <2>2, FitsPrime DEF SchemaInv
<1> QED  BY <1>1, <1>2, <1>3, <1>4 DEF Next

(* It holds with the two invariants it rests on.                           *)
LEMMA SchemaInvariance == InStep /\ Lawful => (Spec => [](Inv /\ InOrder /\ SchemaInv))
<1> SUFFICES ASSUME InStep, Lawful PROVE Spec => [](Inv /\ InOrder /\ SchemaInv)
  OBVIOUS
<1>1. Init => SchemaInv
  BY InitFits
<1>2. Inv /\ InOrder /\ SchemaInv /\ [Next]_vars => SchemaInv'
  BY SchemaInvIsInvariant
<1>3. Spec => [](Inv /\ InOrder)
  BY OrderInvariance
<1> QED  BY <1>1, <1>2, <1>3, PTL DEF Spec

(* Having a row in the log means the migration is applied, and only then,  *)
(* though every migration is many statements, any of them may fail, and    *)
(* another process may work at the same time (recorder.h:6-8):             *)
(* SchemaMatchesLog.                                                       *)
THEOREM LogTellsTheSchema == InStep /\ Lawful => (Spec => []SchemaMatchesLog)
<1> SUFFICES ASSUME InStep, Lawful PROVE Spec => []SchemaMatchesLog
  OBVIOUS
<1>1. Inv /\ InOrder /\ SchemaInv => SchemaMatchesLog
  BY LogIs DEF SchemaMatchesLog, SchemaInv, CatalogFits
<1> QED  BY <1>1, SchemaInvariance, PTL

(* Only a commit changes the schema of the database.                       *)
LEMMA OnlyCommitsCatalog ==
  ASSUME [Next]_vars, \A p \in Processes : ~Commit(p)
  PROVE  catalog' = catalog /\ log' = log
<1>1. CASE Next
  BY <1>1 DEF Next, Step, Call, EnsureSchema, CreateMeta, ReadToApply, Reread, ReadToRollBack,
     Begin, RunForward, RunBackward, Record, Fail, Crash, database, Goto
<1>2. CASE UNCHANGED vars
  BY <1>2 DEF vars, database
<1> QED  BY <1>1, <1>2

(* No step changes the engine.                                             *)
LEMMA EngineStays == [Next]_vars => dbms' = dbms
BY DEF Next, Step, Call, EnsureSchema, CreateMeta, ReadToApply, Reread, ReadToRollBack,
   Begin, RunForward, RunBackward, Record, Commit, Fail, Crash, vars, database, Goto

(* The abstract specification has the same project states.                 *)
LEMMA SameStates ==
  ASSUME NEW names
  PROVE  History!SchemaOf(names) = SchemaOf(names)
BY DEF History!UpdateState, UpdateState, History!CreateTableState, CreateTableState,
   History!DropTableState, DropTableState, History!RenameTableState, RenameTableState,
   History!AddColumnState, AddColumnState, History!DropColumnState, DropColumnState,
   History!AlterColumnState, AlterColumnState, History!RenameColumnState, RenameColumnState,
   History!With, With, History!Without, Without, History!When, When, History!Given, Given,
   History!Returns, Returns, History!Throws, Throws, History!HasTable, HasTable,
   History!HasColumn, HasColumn, History!SetColumn, SetColumn, History!EraseColumn, EraseColumn,
   History!SchemaOf, SchemaOf, History!MigrateAll, MigrateAll, History!Migrated, Migrated,
   History!UpdateAll, UpdateAll, History!Updated, Updated, History!NoSchema, NoSchema

(* And describes a project state by the same schema.                       *)
LEMMA SameDescriptions ==
  ASSUME NEW st
  PROVE  History!Described(st) = Described(st)
BY DEF History!Described, Described, History!StoredColumns, StoredColumns, History!Stored, Stored,
   History!StoredType, StoredType, History!Sqlite, Sqlite, History!Serial, Serial

(* The database goes from one state of the migrations' history to the      *)
(* next, log and schema in one step, though the code takes a step for each *)
(* statement and a commit: HistorySpec.                                    *)
THEOREM ImplementsHistory == InStep /\ Lawful => (Spec => HistorySpec)
<1> SUFFICES ASSUME InStep, Lawful PROVE Spec => HistorySpec
  OBVIOUS
<1>1. Init => History!Init
  <2> SUFFICES ASSUME Init PROVE History!Init
    OBVIOUS
  <2>1. catalog = NoSchema /\ log = <<>>
    BY DEF Init
  <2>2. DOMAIN NoSchema = {}
    BY DEF NoSchema
  <2>3. Schema(NoSchema) = NoSchema
    BY <2>2 DEF Schema, NoSchema
  <2> QED  BY <2>1, <2>3 DEF History!Init, History!NoSchema, NoSchema
<1>2. Inv /\ InOrder /\ SchemaMatchesLog' /\ [Next]_vars => [History!Next]_(History!vars)
  <2> SUFFICES ASSUME Inv, InOrder, SchemaMatchesLog', [Next]_vars
               PROVE  [History!Next]_(History!vars)
    OBVIOUS
  <2>1. dbms' = dbms
    BY EngineStays
  <2>2. CASE \A p \in Processes : ~Commit(p)
    <3>1. catalog' = catalog /\ log' = log
      BY <2>2, OnlyCommitsCatalog
    <3>2. Schema(catalog)' = Schema(catalog)
      BY <3>1
    <3> QED  BY <2>1, <3>1, <3>2 DEF History!vars
  <2>3. ASSUME NEW p \in Processes, Commit(p) PROVE History!Next
    <3>1. SchemaOf(log').ok /\ Schema(catalog)' = Described(SchemaOf(log').v)
      BY <2>1 DEF SchemaMatchesLog, Described, StoredColumns, Stored, StoredType, Sqlite
    <3>2. History!Extend \/ History!Retract
      BY <2>3, CommitIsOne DEF History!Extend, History!Retract, History!Front, Front, Order
    <3> QED  BY <2>1, <3>1, <3>2, SameStates, SameDescriptions DEF History!Next
  <2> QED  BY <2>2, <2>3
<1>3. Spec => [](Inv /\ InOrder) /\ []SchemaMatchesLog
  BY OrderInvariance, LogTellsTheSchema
<1> QED  BY <1>1, <1>2, <1>3, PTL DEF Spec, HistorySpec, History!Spec
=============================================================================
