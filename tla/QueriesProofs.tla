---------------------------- MODULE QueriesProofs ----------------------------
(***************************************************************************)
(* The queries of a program, for every database, every sequence of calls   *)
(* and any number of rows: what SELECT gives is a page of the rows the     *)
(* calls ask for; a relation gives what is related; a null-model is never  *)
(* written; delete_() deletes such a page.                                 *)
(*                                                                         *)
(* A page is counted, not computed.  The engine's list has each wanted row *)
(* as often as it has a match (ArrangedIs), so it is as long as the set    *)
(* Copies, in which the copies of a row are numbered; what LIMIT and       *)
(* OFFSET cut from the list is then as long as what they leave of that     *)
(* set, and what the order puts before it lies within the offset           *)
(* (LeftOutBefore).                                                        *)
(***************************************************************************)
EXTENDS Queries, FiniteSetTheorems, FunctionTheorems, SequenceTheorems, TLAPS

(* The greater and the lesser of two numbers.                              *)
LEMMA MaxOfTwo ==
  ASSUME NEW a \in Int, NEW b \in Int
  PROVE  Max({a, b}) = IF a >= b THEN a ELSE b
<1>1. \A x \in {a, b} : (\A y \in {a, b} : x >= y) => x = IF a >= b THEN a ELSE b
  OBVIOUS
<1>2. \E x \in {a, b} : \A y \in {a, b} : x >= y
  OBVIOUS
<1> QED  BY <1>1, <1>2 DEF Max

LEMMA MinOfTwo ==
  ASSUME NEW a \in Int, NEW b \in Int
  PROVE  Min({a, b}) = IF a <= b THEN a ELSE b
<1>1. \A x \in {a, b} : (\A y \in {a, b} : x <= y) => x = IF a <= b THEN a ELSE b
  OBVIOUS
<1>2. \E x \in {a, b} : \A y \in {a, b} : x <= y
  OBVIOUS
<1> QED  BY <1>1, <1>2 DEF Min

(* A list of a finite set has each element once.                           *)
LEMMA ListingIs ==
  ASSUME NEW S, IsFiniteSet(S), NEW q \in SetToSeqs(S)
  PROVE  /\ Cardinality(S) \in Nat
         /\ q \in Bijection(1 .. Cardinality(S), S)
<1> DEFINE n == Cardinality(S)
<1>1. n \in Nat /\ IsFiniteSet(1 .. n) /\ Cardinality(1 .. n) = n
  BY FS_CardinalityType, FS_Interval
<1>2. q \in [1 .. n -> S] /\ \A i, j \in 1 .. n : i # j => q[i] # q[j]
  BY DEF SetToSeqs
<1>3. q \in Injection(1 .. n, S)
  BY <1>2, Fun_IsInj
<1>4. q \in Surjection(1 .. n, S)
  BY <1>1, <1>3, FS_Injection
<1> QED  BY <1>1, <1>3, <1>4 DEF Bijection

(* The places of P where g is i; the elements of C that begin with i.      *)
At(g, P, i) == {p \in P : g[p] = i}
WithFirst(C, i) == {c \in C : c[1] = i}

(* Two sets, of which g and the first component make parts of equal size,  *)
(* are of equal size.                                                      *)
LEMMA SameParts ==
  ASSUME NEW P, IsFiniteSet(P), NEW g, NEW C, NEW I,
         \A p \in P : g[p] \in I,
         \A c \in C : c[1] \in I,
         \A i \in I : /\ IsFiniteSet(WithFirst(C, i))
                      /\ Cardinality(At(g, P, i)) = Cardinality(WithFirst(C, i))
  PROVE  IsFiniteSet(C) /\ Cardinality(C) = Cardinality(P)
<1> DEFINE F(i) == {p \in P : g[p] = i}
           G(i) == {c \in C : c[1] = i}
           b == [i \in I |-> CHOOSE f : f \in Bijection(F(i), G(i))]
           h == [p \in P |-> b[g[p]][p]]
<1>1. ASSUME NEW i \in I PROVE b[i] \in Bijection(F(i), G(i))
  <2>1. IsFiniteSet(F(i)) /\ IsFiniteSet(G(i)) /\ Cardinality(F(i)) = Cardinality(G(i))
    BY FS_Subset DEF At, WithFirst
  <2>2. Bijection(F(i), G(i)) # {}
    BY <2>1, FS_SameCardinalityBij, Fun_ExistsBij
  <2> QED  BY <2>2
<1>2. ASSUME NEW i \in I
      PROVE  /\ \A p \in F(i) : b[i][p] \in C /\ b[i][p][1] = i
             /\ \A p, r \in F(i) : b[i][p] = b[i][r] => p = r
             /\ \A c \in G(i) : \E p \in F(i) : b[i][p] = c
  <2>1. /\ b[i] \in [F(i) -> G(i)]
        /\ \A p, r \in F(i) : b[i][p] = b[i][r] => p = r
        /\ \A c \in G(i) : \E p \in F(i) : b[i][p] = c
    <3> HIDE DEF F, G, b
    <3> QED  BY <1>1, Fun_BijectionProperties
  <2> QED  BY <2>1
<1>3. \A p \in P : h[p] = b[g[p]][p] /\ h[p] \in C /\ h[p][1] = g[p]
  BY <1>2
<1>4. \A p, r \in P : h[p] = h[r] => p = r
  <2> SUFFICES ASSUME NEW p \in P, NEW r \in P, h[p] = h[r] PROVE p = r
    OBVIOUS
  <2>1. g[p] = g[r] /\ g[p] \in I
    BY <1>3
  <2>2. b[g[p]][p] = b[g[p]][r] /\ p \in F(g[p]) /\ r \in F(g[p])
    BY <1>3, <2>1
  <2> QED  BY <1>2, <2>1, <2>2
<1>5. \A c \in C : \E p \in P : h[p] = c
  <2> SUFFICES ASSUME NEW c \in C PROVE \E p \in P : h[p] = c
    OBVIOUS
  <2>1. c[1] \in I /\ c \in G(c[1])
    OBVIOUS
  <2>2. PICK p \in F(c[1]) : b[c[1]][p] = c
    <3> HIDE DEF F, G, b
    <3> QED  BY <1>2, <2>1
  <2> QED  BY <1>3, <2>2
<1>6. h \in [P -> C]
  BY <1>3
<1> HIDE DEF h
<1>7. h \in Bijection(P, C)
  BY <1>4, <1>5, <1>6, Fun_IsBij
<1>8. ExistsBijection(P, C)
  BY <1>7, Fun_ExistsBij
<1> QED  BY <1>8, FS_Bijection
(* A bijection keeps the size of a part.                                   *)
LEMMA PartOfBijection ==
  ASSUME NEW P, NEW R, IsFiniteSet(P), NEW v \in Bijection(P, R), NEW T \in SUBSET R
  PROVE  IsFiniteSet(T) /\ Cardinality({p \in P : v[p] \in T}) = Cardinality(T)
<1> DEFINE U == {p \in P : v[p] \in T}
           f == [p \in U |-> v[p]]
<1>1. /\ v \in [P -> R] /\ (\A a, b \in P : v[a] = v[b] => a = b)
      /\ \A t \in R : \E p \in P : v[p] = t
  BY Fun_BijectionProperties
<1>2. f \in [U -> T] /\ (\A a, b \in U : f[a] = f[b] => a = b) /\ \A t \in T : \E p \in U : f[p] = t
  BY <1>1
<1>3. IsFiniteSet(U)
  BY FS_Subset
<1> HIDE DEF f, U
<1>4. f \in Bijection(U, T)
  BY <1>2, Fun_IsBij
<1>5. ExistsBijection(U, T)
  BY <1>4, Fun_ExistsBij
<1>6. IsFiniteSet(T) /\ Cardinality(U) = Cardinality(T)
  BY <1>3, <1>5, FS_Bijection
<1> QED  BY <1>6 DEF U

(* The pairs of one thing with the numbers from a to b.                    *)
Pairs(i, a, b) == {<<i, n>> : n \in a .. b}

(* A row with the numbers from a to b.                                     *)
LEMMA PairsCount ==
  ASSUME NEW i, NEW a \in Int, NEW b \in Int, a <= b + 1
  PROVE  IsFiniteSet(Pairs(i, a, b)) /\ Cardinality(Pairs(i, a, b)) = b - a + 1
<1> DEFINE U == a .. b
           T == Pairs(i, a, b)
           f == [n \in U |-> <<i, n>>]
<1>1. f \in [U -> T] /\ (\A x, y \in U : f[x] = f[y] => x = y) /\ \A t \in T : \E n \in U : f[n] = t
  BY DEF Pairs
<1>2. IsFiniteSet(U) /\ Cardinality(U) = b - a + 1
  BY FS_Interval
<1> HIDE DEF f, U, T
<1>3. f \in Bijection(U, T)
  BY <1>1, Fun_IsBij
<1>4. ExistsBijection(U, T)
  BY <1>3, Fun_ExistsBij
<1>5. IsFiniteSet(T) /\ Cardinality(T) = Cardinality(U)
  BY <1>2, <1>4, FS_Bijection
<1> QED  BY <1>2, <1>5 DEF U, T
-----------------------------------------------------------------------------
(* The tables, with what a program may have written into them.             *)
Data == Names \cup Ids \cup {Null, NoValue}

Tabled(d) ==
  /\ d = [persons |-> d.persons, cars |-> d.cars, links |-> d.links]
  /\ \A t \in Tables : IsTable(d[t], Data)
  /\ d.links \subseteq [persons : Ids, cars : Ids]

(* What is in a table can be compared, and there are finitely many keys.   *)
LEMMA DataAreNumbers == Data \subseteq Int /\ Ids \subseteq Nat /\ IsFiniteSet(Ids)
BY QueriesAssumption DEF Data, Null, NoValue

(* A table of the database has finitely many rows.                         *)
LEMMA TableIs ==
  ASSUME NEW d, Tabled(d), NEW t \in Tables
  PROVE  /\ DOMAIN d[t] \subseteq Ids /\ IsFiniteSet(DOMAIN d[t])
         /\ \A i \in DOMAIN d[t] : d[t][i] \in Data /\ d[t][i] \in Int
<1>1. DOMAIN d[t] \subseteq Ids /\ \A i \in DOMAIN d[t] : d[t][i] \in Data
  BY DEF Tabled, IsTable
<1> QED  BY <1>1, DataAreNumbers, FS_Subset

(* The Select is what the calls on it asked for.                           *)
Tracks(s, a) ==
  /\ s.table \in Tables
  /\ a.conditions = s.where \cup s.having
  /\ \A c \in a.conditions : c.table = s.table
  /\ s.order \in Seq({"asc", "desc"})
  /\ a.order = IF s.order = <<>> THEN "any" ELSE Head(s.order)
  /\ s.limit \in Int /\ s.limit >= -1 /\ a.limit = s.limit
  /\ a.offset \in Nat /\ s.offset = IF a.offset = 0 THEN -1 ELSE a.offset
  /\ s.distinct \in BOOLEAN /\ a.distinct = s.distinct
  /\ s.group \in BOOLEAN /\ a.group = s.group
  /\ a.join \in BOOLEAN
  /\ s.joins = IF a.join THEN {Join("cars", "persons")} ELSE {}

(* The row i of a table with what it is joined with.                       *)
Matches(d, s, i) == UNION {LeftOn(d, j, i) : j \in s.joins}
JoinedWith(i, m) == IF m = {} THEN {[id |-> i, with |-> Null]} ELSE [id : {i}, with : m]

(* The rows of a join, row by row of the table.                            *)
LEMMA JoinedIs ==
  ASSUME NEW d, NEW s
  PROVE  Joined(d, s) = UNION {JoinedWith(i, Matches(d, s, i)) : i \in DOMAIN d[s.table]}
BY DEF Joined, JoinedWith, Matches

(* There is a row for each match, and one if there is no match.            *)
LEMMA JoinedCount ==
  ASSUME NEW i, NEW m, IsFiniteSet(m)
  PROVE  /\ \A r \in JoinedWith(i, m) : r.id = i
         /\ JoinedWith(i, m) # {} /\ IsFiniteSet(JoinedWith(i, m))
         /\ Cardinality(JoinedWith(i, m)) = Max({1, Cardinality(m)})
<1>1. CASE m = {}
  <2>1. JoinedWith(i, m) = {[id |-> i, with |-> Null]} /\ Cardinality(m) = 0
    BY <1>1, FS_EmptySet DEF JoinedWith
  <2>2. Max({1, 0}) = 1
    BY MaxOfTwo
  <2> DEFINE r == [id |-> i, with |-> Null]
  <2>3. r.id = i
    OBVIOUS
  <2> HIDE DEF r
  <2>4. IsFiniteSet({r}) /\ Cardinality({r}) = 1
    BY FS_Singleton
  <2>5. \A x \in {r} : x.id = i
    BY <2>3
  <2> QED  BY <2>1, <2>2, <2>4, <2>5 DEF r
<1>2. CASE m # {}
  <2> DEFINE T == JoinedWith(i, m)
             f == [x \in m |-> [id |-> i, with |-> x]]
  <2>1. T = [id : {i}, with : m]
    BY <1>2 DEF JoinedWith
  <2>2. /\ f \in [m -> T] /\ (\A x, y \in m : f[x] = f[y] => x = y)
        /\ \A r \in T : \E x \in m : f[x] = r
    <3>1. ASSUME NEW x \in m, NEW y \in m, f[x] = f[y] PROVE x = y
      <4>1. f[x].with = x /\ f[y].with = y
        OBVIOUS
      <4> QED  BY <3>1, <4>1
    <3>2. ASSUME NEW r \in T PROVE \E x \in m : f[x] = r
      <4>1. r.with \in m /\ r = [id |-> i, with |-> r.with]
        BY <2>1
      <4> QED  BY <4>1
    <3> QED  BY <2>1, <3>1, <3>2
  <2>3. (\A r \in T : r.id = i) /\ T # {}
    <3>1. PICK x : x \in m
      BY <1>2
    <3>2. f[x] \in T
      BY <2>2, <3>1
    <3>3. \A r \in T : r.id \in {i}
      BY <2>1
    <3> QED  BY <3>2, <3>3
  <2> HIDE DEF f, T
  <2>4. f \in Bijection(m, T)
    BY <2>2, Fun_IsBij
  <2>5. IsFiniteSet(T) /\ Cardinality(T) = Cardinality(m)
    BY <2>4, Fun_ExistsBij, FS_Bijection
  <2>6. Cardinality(m) \in Nat /\ Cardinality(m) # 0
    BY <1>2, FS_CardinalityType, FS_EmptySet
  <2>7. Max({1, Cardinality(m)}) = Cardinality(m)
    BY <2>6, MaxOfTwo
  <2> QED  BY <2>3, <2>5, <2>7 DEF T
<1> QED  BY <1>1, <1>2

(* What a Select finds: the wanted rows with their matches.                *)
LEMMA SelectedIs ==
  ASSUME NEW d, Tabled(d), NEW s, NEW a, Tracks(s, a)
  PROVE  LET W == Wanted(d, a, s.table)
         IN  /\ Selected(d, s) = UNION {JoinedWith(i, Matches(d, s, i)) : i \in W}
             /\ W \subseteq DOMAIN d[s.table] /\ W \subseteq Ids /\ IsFiniteSet(W)
             /\ \A i \in W : IsFiniteSet(Matches(d, s, i))
             /\ \A i \in W : {r \in Selected(d, s) : r.id = i} = JoinedWith(i, Matches(d, s, i))
<1> DEFINE W == Wanted(d, a, s.table)
<1>0. s.table \in Tables /\ "cars" \in Tables
  BY DEF Tracks, Tables
<1>1. W \subseteq DOMAIN d[s.table] /\ W \subseteq Ids /\ IsFiniteSet(W)
  <2>1. W \subseteq DOMAIN d[s.table]
    BY DEF Wanted
  <2>2. DOMAIN d[s.table] \subseteq Ids /\ IsFiniteSet(DOMAIN d[s.table])
    BY <1>0, TableIs
  <2> QED  BY <2>1, <2>2, FS_Subset
<1>2. ASSUME NEW i PROVE IsFiniteSet(Matches(d, s, i))
  <2>1. Matches(d, s, i) \subseteq DOMAIN d.cars
    BY DEF Matches, LeftOn, Tracks, Join
  <2>2. IsFiniteSet(DOMAIN d.cars)
    <3>1. IsFiniteSet(DOMAIN d["cars"])
      BY <1>0, TableIs
    <3> QED  BY <3>1
  <2> QED  BY <2>1, <2>2, FS_Subset
<1>3. \A i : \A r \in JoinedWith(i, Matches(d, s, i)) : r.id = i
  BY <1>2, JoinedCount
<1>4. ASSUME NEW r, NEW i \in DOMAIN d[s.table], r \in JoinedWith(i, Matches(d, s, i))
      PROVE  (\A c \in s.where \cup s.having : Value(d, s, r, c) \in c.values) <=> i \in W
  <2>1. r.id = i
    BY <1>3, <1>4
  <2>2. \A c \in s.where \cup s.having :
          Value(d, s, r, c) = IF c.column = "id" THEN i ELSE d[s.table][i]
    BY <2>1 DEF Tracks, Value
  <2> QED  BY <2>2 DEF Wanted, Tracks
<1>5. Selected(d, s) = UNION {JoinedWith(i, Matches(d, s, i)) : i \in W}
  BY <1>1, <1>4, JoinedIs DEF Selected
<1>6. ASSUME NEW i \in W
      PROVE  {r \in Selected(d, s) : r.id = i} = JoinedWith(i, Matches(d, s, i))
  BY <1>3, <1>5
<1> QED  BY <1>1, <1>2, <1>5, <1>6

(* The rows of the answer before it is cut into pages: as many of each key *)
(* as are asked for.                                                       *)
LEMMA SelectedCount ==
  ASSUME NEW d, Tabled(d), NEW s, NEW a, Tracks(s, a)
  PROVE  LET W == Wanted(d, a, s.table)
         IN  /\ IsFiniteSet(Selected(d, s))
             /\ \A r \in Selected(d, s) : r.id \in W
             /\ {r.id : r \in Selected(d, s)} = W
             /\ \A i \in W : ~a.distinct /\ ~a.group =>
                  Cardinality({r \in Selected(d, s) : r.id = i}) = Times(d, a, i)
<1> DEFINE W == Wanted(d, a, s.table)
           R(i) == JoinedWith(i, Matches(d, s, i))
<1>1. /\ Selected(d, s) = UNION {R(i) : i \in W} /\ IsFiniteSet(W)
      /\ \A i \in W : IsFiniteSet(Matches(d, s, i))
      /\ \A i \in W : {r \in Selected(d, s) : r.id = i} = R(i)
  BY SelectedIs
<1>2. \A i \in W : (\A r \in R(i) : r.id = i) /\ R(i) # {} /\ IsFiniteSet(R(i))
  BY <1>1, JoinedCount
<1>3. IsFiniteSet(Selected(d, s))
  <2> DEFINE S == {R(i) : i \in W}
  <2>1. IsFiniteSet(S)
    <3> DEFINE f == [i \in W |-> R(i)]
    <3>1. f \in [W -> S] /\ \A T \in S : \E i \in W : f[i] = T
      OBVIOUS
    <3> HIDE DEF f, S, W
    <3>2. f \in Surjection(W, S)
      BY <3>1, Fun_IsSurj
    <3> QED  BY <1>1, <3>2, FS_Surjection
  <2>2. \A T \in S : IsFiniteSet(T)
    BY <1>2
  <2> HIDE DEF S
  <2>3. IsFiniteSet(UNION S)
    BY <2>1, <2>2, FS_UNION
  <2> QED  BY <1>1, <2>3 DEF S
<1>4. (\A r \in Selected(d, s) : r.id \in W) /\ {r.id : r \in Selected(d, s)} = W
  BY <1>1, <1>2
<1>5. ASSUME NEW i \in W, ~a.distinct, ~a.group
      PROVE  Cardinality({r \in Selected(d, s) : r.id = i}) = Times(d, a, i)
  <2>1. Cardinality(R(i)) = Max({1, Cardinality(Matches(d, s, i))})
    BY <1>1, JoinedCount
  <2>2. CASE a.join
    <3>1. Matches(d, s, i) = {c \in DOMAIN d.cars : d.cars[c] = i}
      BY <2>2 DEF Matches, LeftOn, Tracks, Join
    <3> QED  BY <1>1, <1>5, <2>1, <2>2, <3>1 DEF Times
  <2>3. CASE ~a.join
    <3>1. Matches(d, s, i) = {}
      BY <2>3 DEF Matches, Tracks
    <3>2. Max({1, 0}) = 1
      BY MaxOfTwo
    <3> QED  BY <1>1, <2>1, <2>3, <3>1, <3>2, FS_EmptySet DEF Times
  <2>4. a.join \in BOOLEAN
    BY DEF Tracks
  <2> QED  BY <2>2, <2>3, <2>4
<1> QED  BY <1>3, <1>4, <1>5
-----------------------------------------------------------------------------
(* The numbers of a key's rows.                                            *)
LEMMA CopiesOf ==
  ASSUME NEW d, Tabled(d), NEW s, NEW a, Tracks(s, a), NEW i \in Wanted(d, a, s.table)
  PROVE  LET C == WithFirst(Copies(d, a, s.table), i)
         IN  /\ Times(d, a, i) \in Nat \ {0}
             /\ C = Pairs(i, 1, Times(d, a, i))
             /\ IsFiniteSet(C) /\ Cardinality(C) = Times(d, a, i)
<1> DEFINE C == WithFirst(Copies(d, a, s.table), i)
<1>1. Times(d, a, i) \in Nat \ {0}
  <2> DEFINE M == {c \in DOMAIN d.cars : d.cars[c] = i}
  <2>1. IsFiniteSet(DOMAIN d.cars)
    <3>1. IsFiniteSet(DOMAIN d["cars"])
      BY TableIs DEF Tables
    <3> QED  BY <3>1
  <2>2. Cardinality(M) \in Nat
    BY <2>1, FS_Subset, FS_CardinalityType
  <2> HIDE DEF M
  <2>3. Max({1, Cardinality(M)}) \in Nat \ {0}
    BY <2>2, MaxOfTwo
  <2> QED  BY <2>3 DEF Times, M
<1>2. C = Pairs(i, 1, Times(d, a, i))
  BY DEF Copies, WithFirst, Pairs
<1>3. IsFiniteSet(C) /\ Cardinality(C) = Times(d, a, i)
  <2> DEFINE T == Times(d, a, i)
  <2>1. T \in Int /\ 1 <= T + 1 /\ T - 1 + 1 = T /\ C = Pairs(i, 1, T)
    BY <1>1, <1>2
  <2> HIDE DEF C, T
  <2>2. IsFiniteSet(C) /\ Cardinality(C) = T
    BY <2>1, PairsCount
  <2> QED  BY <2>2 DEF T
<1> QED  BY <1>1, <1>2, <1>3

(* The whole answer: each wanted row as often as it is asked for.          *)
LEMMA ArrangedIs ==
  ASSUME NEW d, Tabled(d), NEW s, NEW a, Tracks(s, a), NEW w \in Arranged(d, s)
  PROVE  LET W == Wanted(d, a, s.table)
             n == Cardinality(Copies(d, a, s.table))
         IN  /\ n \in Nat /\ w \in [1 .. n -> W]
             /\ \A i \in W : Cardinality({k \in 1 .. n : w[k] = i}) = Times(d, a, i)
             /\ IsFiniteSet(Copies(d, a, s.table))
<1> DEFINE W == Wanted(d, a, s.table)
           C == Copies(d, a, s.table)
           S == Selected(d, s)
           R(i) == {r \in S : r.id = i}
<1>1. /\ IsFiniteSet(S) /\ (\A r \in S : r.id \in W) /\ {r.id : r \in S} = W
      /\ \A i \in W : ~a.distinct /\ ~a.group => Cardinality(R(i)) = Times(d, a, i)
  BY SelectedCount
<1>2. \E m \in Nat : /\ w \in [1 .. m -> W]
                     /\ \A i \in W : Cardinality({k \in 1 .. m : w[k] = i}) = Times(d, a, i)
  <2>1. CASE s.distinct \/ s.group
    <3> DEFINE m == Cardinality(W)
    <3>1. IsFiniteSet(W)
      BY SelectedIs
    <3>2. w \in SetToSeqs(W)
      BY <1>1, <2>1 DEF Arranged
    <3>3. m \in Nat /\ w \in Bijection(1 .. m, W)
      BY <3>1, <3>2, ListingIs
    <3>4. IsFiniteSet(1 .. m) /\ w \in [1 .. m -> W]
      BY <3>3, FS_Interval, Fun_BijectionProperties
    <3>5. ASSUME NEW i \in W PROVE Cardinality({k \in 1 .. m : w[k] = i}) = Times(d, a, i)
      <4>1. Cardinality({k \in 1 .. m : w[k] \in {i}}) = Cardinality({i})
        BY <3>3, <3>4, PartOfBijection
      <4>2. Cardinality({i}) = 1
        BY FS_Singleton
      <4>3. {k \in 1 .. m : w[k] \in {i}} = {k \in 1 .. m : w[k] = i}
        OBVIOUS
      <4>4. Times(d, a, i) = 1
        BY <2>1 DEF Times, Tracks
      <4> QED  BY <4>1, <4>2, <4>3, <4>4
    <3> QED  BY <3>3, <3>4, <3>5
  <2>2. CASE ~(s.distinct \/ s.group)
    <3> DEFINE m == Cardinality(S)
    <3>1. PICK v \in SetToSeqs(S) : w = [k \in DOMAIN v |-> v[k].id]
      BY <2>2 DEF Arranged
    <3>2. m \in Nat /\ v \in Bijection(1 .. m, S)
      BY <1>1, ListingIs
    <3>3. IsFiniteSet(1 .. m) /\ v \in [1 .. m -> S]
      BY <3>2, FS_Interval, Fun_BijectionProperties
    <3>4. w \in [1 .. m -> W] /\ \A k \in 1 .. m : w[k] = v[k].id
      BY <1>1, <3>1, <3>3
    <3>5. ASSUME NEW i \in W PROVE Cardinality({k \in 1 .. m : w[k] = i}) = Times(d, a, i)
      <4>1. Cardinality({k \in 1 .. m : v[k] \in R(i)}) = Cardinality(R(i))
        <5>1. R(i) \subseteq S
          OBVIOUS
        <5> HIDE DEF R, S
        <5> QED  BY <3>2, <3>3, <5>1, PartOfBijection
      <4>2. {k \in 1 .. m : v[k] \in R(i)} = {k \in 1 .. m : w[k] = i}
        BY <3>3, <3>4
      <4>3. ~a.distinct /\ ~a.group
        BY <2>2 DEF Tracks
      <4> QED  BY <1>1, <4>1, <4>2, <4>3
    <3> QED  BY <3>2, <3>4, <3>5
  <2> QED  BY <2>1, <2>2
<1>3. PICK m \in Nat : /\ w \in [1 .. m -> W]
                       /\ \A i \in W : Cardinality({k \in 1 .. m : w[k] = i}) = Times(d, a, i)
  BY <1>2
<1>4. IsFiniteSet(C) /\ Cardinality(C) = m
  <2> DEFINE P == 1 .. m
  <2>1. IsFiniteSet(P) /\ Cardinality(P) = m
    BY FS_Interval
  <2>2. \A c \in C : c[1] \in W
    BY DEF Copies
  <2>3. \A i \in W : /\ IsFiniteSet(WithFirst(C, i))
                     /\ Cardinality(At(w, P, i)) = Cardinality(WithFirst(C, i))
    BY <1>3, CopiesOf DEF At
  <2>4. \A p \in P : w[p] \in W
    BY <1>3
  <2> HIDE DEF P, C, W
  <2>5. IsFiniteSet(C) /\ Cardinality(C) = Cardinality(P)
    BY <2>1, <2>2, <2>3, <2>4, SameParts
  <2> QED  BY <2>1, <2>5
<1> QED  BY <1>3, <1>4

(* A page: what limit l and offset o leave of a list w of n.               *)
Rest(n, o) == IF n >= o THEN n - o ELSE 0
PageSize(n, o, l) == IF l < 0 \/ Rest(n, o) <= l THEN Rest(n, o) ELSE l
Page(n, o, l, w) == [k \in 1 .. PageSize(n, o, l) |-> w[o + k]]

(* A page is no longer than the list behind the offset.                    *)
LEMMA PageBounds ==
  ASSUME NEW n \in Nat, NEW o \in Nat, NEW l \in Int
  PROVE  /\ Rest(n, o) \in Nat /\ Rest(n, o) = Max({0, n - o})
         /\ PageSize(n, o, l) \in Nat
         /\ PageSize(n, o, l) = IF l < 0 THEN Rest(n, o) ELSE Min({Rest(n, o), l})
         /\ PageSize(n, o, l) # 0 => o + PageSize(n, o, l) <= n
<1>1. Rest(n, o) \in Nat
  BY DEF Rest
<1>2. Rest(n, o) = Max({0, n - o})
  BY MaxOfTwo DEF Rest
<1>3. PageSize(n, o, l) \in Nat
  BY <1>1 DEF PageSize
<1>4. Min({Rest(n, o), l}) = IF Rest(n, o) <= l THEN Rest(n, o) ELSE l
  BY <1>1, MinOfTwo
<1>5. PageSize(n, o, l) # 0 => o + PageSize(n, o, l) <= n
  BY DEF Rest, PageSize
<1> QED  BY <1>1, <1>2, <1>3, <1>4, <1>5 DEF PageSize

(* LIMIT and OFFSET cut the page out.                                      *)
LEMMA CutIs ==
  ASSUME NEW n \in Nat, NEW X, NEW w \in [1 .. n -> X], NEW o \in Nat, NEW l \in Nat
  PROVE  SubSeq(w, o + 1, Min({n, o + l})) = Page(n, o, l, w)
<1> DEFINE e == Min({n, o + l})
           m == PageSize(n, o, l)
           q == SubSeq(w, o + 1, e)
<1>1. e = IF n <= o + l THEN n ELSE o + l
  BY MinOfTwo
<1>2. m \in Nat /\ m = IF o + 1 <= e THEN e - (o + 1) + 1 ELSE 0
  BY <1>1, PageBounds DEF Rest, PageSize
<1>3. e \in Int /\ e <= n
  BY <1>1
<1> HIDE DEF e, m
<1>4. /\ q \in Seq(X) /\ Len(q) = IF o + 1 <= e THEN e - (o + 1) + 1 ELSE 0
      /\ \A i \in 1 .. e - (o + 1) + 1 : q[i] = w[o + 1 + i - 1]
  <2>1. \A i \in o + 1 .. e : w[i] \in X
    BY <1>3
  <2> QED  BY <1>3, <2>1, SubSeqProperties
<1>5. Len(q) = m
  BY <1>2, <1>4
<1>6. \A k \in 1 .. m : q[k] = w[o + k]
  <2> SUFFICES ASSUME NEW k \in 1 .. m PROVE q[k] = w[o + k]
    OBVIOUS
  <2>1. k \in 1 .. e - (o + 1) + 1 /\ o + 1 + k - 1 = o + k
    BY <1>2, <1>3
  <2> QED  BY <1>4, <2>1
<1>7. q = [k \in 1 .. m |-> w[o + k]]
  <2> HIDE DEF q
  <2>1. q = [k \in 1 .. Len(q) |-> q[k]]
    BY <1>4
  <2> QED  BY <1>5, <1>6, <2>1
<1> QED  BY <1>7 DEF e, m, Page

(* Every page is cut out of a list of what is selected, as the calls ask.  *)
LEMMA PagesIs ==
  ASSUME NEW d, Tabled(d), NEW s, NEW a, Tracks(s, a), ~Throws(s), NEW q \in Pages(d, s)
  PROVE  \E w \in Arranged(d, s) :
           q = Page(Cardinality(Copies(d, a, s.table)), a.offset, a.limit, w)
<1> DEFINE n == Cardinality(Copies(d, a, s.table))
           W == Wanted(d, a, s.table)
           o == a.offset
           l == a.limit
<1>1. o \in Nat /\ l \in Int /\ l >= -1 /\ s.limit = l
  BY DEF Tracks
<1>2. Max({s.offset, 0}) = o /\ (l < 0 => o = 0)
  <2>1. s.offset = IF o = 0 THEN -1 ELSE o
    BY DEF Tracks
  <2>2. Max({s.offset, 0}) = o
    BY <1>1, <2>1, MaxOfTwo
  <2> QED  BY <1>1, <2>1, <2>2 DEF Throws
<1>3. PICK w \in Arranged(d, s) :
        q = IF s.limit < 0 THEN w ELSE SubSeq(w, o + 1, Min({Len(w), o + s.limit}))
  BY <1>2 DEF Pages
<1>4. n \in Nat /\ w \in [1 .. n -> W]
  BY ArrangedIs
<1> HIDE DEF n, W, o, l
<1>5. Len(w) = n /\ DOMAIN w = 1 .. n
  BY <1>4
<1>6. CASE l < 0
  <2>1. o = 0 /\ q = w
    BY <1>1, <1>2, <1>3, <1>6
  <2>2. PageSize(n, o, l) = n
    BY <1>4, <1>6, <2>1 DEF PageSize, Rest
  <2>3. q = Page(n, o, l, w)
    BY <1>4, <2>1, <2>2 DEF Page
  <2> QED  BY <2>3 DEF n, o, l
<1>7. CASE l >= 0
  <2>1. l \in Nat /\ ~(s.limit < 0)
    BY <1>1, <1>7
  <2>2. q = SubSeq(w, o + 1, Min({n, o + l}))
    BY <1>1, <1>3, <1>5, <2>1, Zenon
  <2>3. q = Page(n, o, l, w)
    BY <1>1, <1>4, <2>1, <2>2, CutIs
  <2> QED  BY <2>3 DEF n, o, l
<1> QED  BY <1>1, <1>6, <1>7
-----------------------------------------------------------------------------
(* A key is on the page as often as in the part of the list that it is.    *)
LEMMA ShiftCount ==
  ASSUME NEW m \in Nat, NEW o \in Nat, NEW w, NEW q, NEW i,
         \A k \in 1 .. m : q[k] = w[o + k]
  PROVE  /\ IsFiniteSet(At(w, o + 1 .. o + m, i))
         /\ Cardinality(At(q, 1 .. m, i)) = Cardinality(At(w, o + 1 .. o + m, i))
<1> DEFINE S == At(q, 1 .. m, i)
           T == At(w, o + 1 .. o + m, i)
           f == [k \in S |-> o + k]
<1>1. S \subseteq 1 .. m /\ IsFiniteSet(S)
  BY FS_Interval, FS_Subset DEF At
<1>2. \A k \in S : o + k \in T
  BY DEF At
<1>3. \A j \in T : j - o \in S /\ o + (j - o) = j
  BY DEF At
<1>4. \A j, k \in S : o + j = o + k => j = k
  BY <1>1
<1>5. f \in [S -> T] /\ (\A j, k \in S : f[j] = f[k] => j = k) /\ \A j \in T : \E k \in S : f[k] = j
  BY <1>2, <1>3, <1>4
<1> HIDE DEF f, S, T
<1>6. f \in Bijection(S, T)
  BY <1>5, Fun_IsBij
<1>7. ExistsBijection(S, T)
  BY <1>6, Fun_ExistsBij
<1>8. IsFiniteSet(T) /\ Cardinality(S) = Cardinality(T)
  BY <1>1, <1>7, FS_Bijection
<1> QED  BY <1>8 DEF S, T

(* i comes before j in the order asked for.                                *)
Ahead(d, a, t, i, j) ==
  \/ a.order = "asc" /\ d[t][i] < d[t][j]
  \/ a.order = "desc" /\ d[t][i] > d[t][j]

(* The rows that come before x and are not on the page q of m rows.        *)
Missed(d, a, t, q, m, x) ==
  {c \in Copies(d, a, t) : Ahead(d, a, t, c[1], x) /\ c[2] > Cardinality(At(q, 1 .. m, c[1]))}

(* There are n numbers up to n.                                            *)
LEMMA FirstNumbers ==
  ASSUME NEW n \in Nat
  PROVE  IsFiniteSet(1 .. n) /\ Cardinality(1 .. n) = n
BY FS_Interval

(* The list is in that order.                                              *)
LEMMA ListInOrder ==
  ASSUME NEW d, Tabled(d), NEW s, NEW a, Tracks(s, a), NEW w \in Arranged(d, s),
         NEW n \in Nat, w \in [1 .. n -> Wanted(d, a, s.table)],
         NEW x \in 1 .. n, NEW y \in 1 .. n, x <= y
  PROVE  ~Ahead(d, a, s.table, w[y], w[x])
<1>1. d[s.table][w[x]] \in Int /\ d[s.table][w[y]] \in Int
  <2>1. w[x] \in DOMAIN d[s.table] /\ w[y] \in DOMAIN d[s.table]
    BY SelectedIs
  <2> QED  BY <2>1, TableIs DEF Tracks
<1>2. InOrder(d, s, w) /\ DOMAIN w = 1 .. n
  BY DEF Arranged
<1>3. CASE s.order = <<>>
  <2>1. a.order = "any"
    BY <1>3 DEF Tracks
  <2> QED  BY <2>1 DEF Ahead
<1>4. CASE s.order # <<>>
  <2>1. a.order = Head(s.order)
    BY <1>4 DEF Tracks
  <2>2. CASE x = y
    BY <1>1, <2>2 DEF Ahead
  <2>3. CASE x < y
    <3>1. IF Head(s.order) = "asc" THEN d[s.table][w[x]] <= d[s.table][w[y]]
                                   ELSE d[s.table][w[x]] >= d[s.table][w[y]]
      BY <1>2, <1>4, <2>3 DEF InOrder
    <3> QED  BY <1>1, <2>1, <3>1 DEF Ahead
  <2> QED  BY <2>2, <2>3
<1> QED  BY <1>3, <1>4

(* The rows of a key left out, on either side of a page, are no more than  *)
(* the offset when they come before a row of the page.                     *)
LEMMA LeftOutBefore ==
  ASSUME NEW d, Tabled(d), NEW s, NEW a, Tracks(s, a), NEW w \in Arranged(d, s),
         NEW n, n = Cardinality(Copies(d, a, s.table)),
         NEW o \in Nat, NEW m \in Nat, NEW k \in 1 .. m, o + m <= n,
         NEW q, \A j \in 1 .. m : q[j] = w[o + j]
  PROVE  Cardinality(Missed(d, a, s.table, q, m, q[k])) <= o
<1> DEFINE W == Wanted(d, a, s.table)
           C == Copies(d, a, s.table)
           Before(i) == Ahead(d, a, s.table, i, q[k])
           L == Missed(d, a, s.table, q, m, q[k])
           I == {i \in W : Before(i)}
           P == {j \in 1 .. o : Before(w[j])}
           Got(i) == Cardinality(At(q, 1 .. m, i))
<1>1. /\ n \in Nat /\ w \in [1 .. n -> W]
      /\ \A i \in W : Cardinality(At(w, 1 .. n, i)) = Times(d, a, i)
  BY ArrangedIs DEF At
<1>2. q[k] = w[o + k] /\ o + k \in 1 .. n
  BY <1>1
<1>3. \A y \in 1 .. n : o + k <= y => ~Before(w[y])
  BY <1>1, <1>2, ListInOrder
<1>4. IsFiniteSet(P) /\ Cardinality(P) <= o
  <2>1. IsFiniteSet(1 .. o) /\ Cardinality(1 .. o) = o
    BY FirstNumbers
  <2> QED  BY <2>1, FS_Subset
<1>5. \A j \in P : w[j] \in I
  BY <1>1
<1>6. \A c \in L : c[1] \in I
  BY DEF Copies, Missed
<1>7. ASSUME NEW i \in I
      PROVE  IsFiniteSet(WithFirst(L, i)) /\ Cardinality(At(w, P, i)) = Cardinality(WithFirst(L, i))
  <2> DEFINE A == At(w, 1 .. o, i)
             B == At(w, o + 1 .. o + m, i)
  <2>1. At(w, P, i) = A
    BY <1>7 DEF At
  <2>2. At(w, 1 .. n, i) = A \cup B /\ A \cap B = {}
    <3>1. \A j \in 1 .. n : w[j] = i => j <= o \/ j \in o + 1 .. o + m
      <4> SUFFICES ASSUME NEW j \in 1 .. n, w[j] = i, ~(j <= o) PROVE j \in o + 1 .. o + m
        OBVIOUS
      <4>1. Before(w[j])
        BY <1>7
      <4>2. j < o + k
        BY <1>1, <1>3, <4>1
      <4> QED  BY <1>1, <4>2
    <3>2. 1 .. o \subseteq 1 .. n /\ o + 1 .. o + m \subseteq 1 .. n
      BY <1>1
    <3> QED  BY <3>1, <3>2 DEF At
  <2>3. IsFiniteSet(A) /\ IsFiniteSet(B) /\ Cardinality(B) = Got(i)
    <3>1. A \subseteq 1 .. o
      BY DEF At
    <3>2. IsFiniteSet(A)
      BY <3>1, FirstNumbers, FS_Subset
    <3> QED  BY <3>2, ShiftCount
  <2>4. Times(d, a, i) = Cardinality(A) + Got(i) /\ Cardinality(A) \in Nat /\ Got(i) \in Nat
    <3> HIDE DEF A, B
    <3>1. Cardinality(A \cup B) = Cardinality(A) + Cardinality(B) - Cardinality(A \cap B)
      BY <2>3, FS_Union
    <3>2. Cardinality(A) \in Nat /\ Cardinality(B) \in Nat /\ Cardinality(A \cap B) = 0
      BY <2>2, <2>3, FS_CardinalityType, FS_EmptySet
    <3>3. Times(d, a, i) = Cardinality(A \cup B)
      BY <1>1, <1>7, <2>2
    <3> HIDE DEF Got
    <3> QED  BY <2>3, <3>1, <3>2, <3>3
  <2>5. WithFirst(L, i) = Pairs(i, Got(i) + 1, Times(d, a, i))
    <3>0. i \in W
      BY <1>7
    <3>1. Times(d, a, i) \in Nat /\ WithFirst(C, i) = Pairs(i, 1, Times(d, a, i))
      BY <3>0, CopiesOf
    <3>2. WithFirst(L, i) = {c \in Pairs(i, 1, Times(d, a, i)) : c[2] > Got(i)}
      <4>1. WithFirst(L, i) = {c \in WithFirst(C, i) : c[2] > Got(i)}
        BY <1>7 DEF WithFirst, Missed
      <4> QED  BY <3>1, <4>1
    <3> HIDE DEF Got
    <3>3. \A x : x \in Got(i) + 1 .. Times(d, a, i) <=> x \in 1 .. Times(d, a, i) /\ x > Got(i)
      BY <2>4, <3>1
    <3> QED  BY <3>2, <3>3 DEF Pairs
  <2>6. IsFiniteSet(WithFirst(L, i)) /\ Cardinality(WithFirst(L, i)) = Cardinality(A)
    <3> DEFINE T == Times(d, a, i)
               g == Got(i)
    <3>1. T = Cardinality(A) + g /\ Cardinality(A) \in Nat /\ g \in Nat /\ WithFirst(L, i) = Pairs(i, g + 1, T)
      BY <2>4, <2>5
    <3> HIDE DEF T, g, A
    <3>2. g + 1 \in Int /\ T \in Int /\ g + 1 <= T + 1 /\ T - (g + 1) + 1 = Cardinality(A)
      BY <3>1
    <3> QED  BY <3>1, <3>2, PairsCount
  <2> QED  BY <2>1, <2>6
<1> HIDE DEF I, P, L
<1>8. Cardinality(L) = Cardinality(P)
  BY <1>4, <1>5, <1>6, <1>7, SameParts
<1> QED  BY <1>4, <1>8 DEF L

(* Every page a SELECT may return is one that the calls ask for.           *)
LEMMA PageIsAsked ==
  ASSUME NEW d, Tabled(d), NEW s, NEW a, Tracks(s, a), ~Throws(s), NEW q \in Pages(d, s)
  PROVE  AskedPage(d, a, s.table, q)
<1> DEFINE t == s.table
           W == Wanted(d, a, t)
           C == Copies(d, a, t)
           n == Cardinality(C)
           o == a.offset
           l == a.limit
           m == PageSize(n, o, l)
           Got(i) == Cardinality({k \in DOMAIN q : q[k] = i})
<1>1. PICK w \in Arranged(d, s) : q = Page(n, o, l, w)
  BY PagesIs
<1>2. /\ n \in Nat /\ w \in [1 .. n -> W] /\ IsFiniteSet(C)
      /\ \A i \in W : Cardinality(At(w, 1 .. n, i)) = Times(d, a, i)
  BY ArrangedIs DEF At
<1>3. o \in Nat /\ l \in Int
  BY DEF Tracks
<1>4. /\ m \in Nat /\ (m # 0 => o + m <= n)
      /\ m = IF l < 0 THEN Max({0, n - o}) ELSE Min({Max({0, n - o}), l})
  BY <1>2, <1>3, PageBounds
<1>5. /\ DOMAIN q = 1 .. m /\ Len(q) = m
      /\ \A k \in 1 .. m : q[k] = w[o + k] /\ o + k \in 1 .. n /\ q[k] \in W
  <2>1. q = [k \in 1 .. m |-> w[o + k]]
    BY <1>1 DEF Page
  <2> HIDE DEF m, n, o, W
  <2>2. \A k \in 1 .. m : o + k \in 1 .. n
    BY <1>2, <1>3, <1>4
  <2>3. \A k \in 1 .. m : q[k] = w[o + k] /\ q[k] \in W
    BY <1>2, <2>1, <2>2
  <2>4. q \in Seq(W) /\ DOMAIN q = 1 .. m
    <3>1. m \in Nat
      BY <1>4
    <3>2. q \in [1 .. m -> W]
      BY <2>1, <2>3
    <3> QED  BY ONLY <3>1, <3>2
  <2>5. Len(q) = m
    BY <1>4, <2>4
  <2> QED  BY <2>2, <2>3, <2>4, <2>5
<1>6. \A i : {k \in DOMAIN q : q[k] = i} = At(q, 1 .. m, i)
  BY <1>5 DEF At
<1>7. ToSet(q) \subseteq W
  BY <1>5 DEF ToSet
<1>8. ASSUME NEW i \in W PROVE Got(i) <= Times(d, a, i)
  <2>1. /\ IsFiniteSet(At(w, o + 1 .. o + m, i))
        /\ Cardinality(At(q, 1 .. m, i)) = Cardinality(At(w, o + 1 .. o + m, i))
    <3>1. m \in Nat /\ \A k \in 1 .. m : q[k] = w[o + k]
      BY <1>4, <1>5
    <3> HIDE DEF m, n, o
    <3> QED  BY <1>3, <3>1, ShiftCount
  <2>2. At(w, o + 1 .. o + m, i) \subseteq At(w, 1 .. n, i)
    <3> HIDE DEF m, n, o
    <3> QED  BY <1>2, <1>3, <1>4 DEF At
  <2>3. IsFiniteSet(At(w, 1 .. n, i))
    <3> HIDE DEF n
    <3>1. At(w, 1 .. n, i) \subseteq 1 .. n
      BY DEF At
    <3> QED  BY <1>2, <3>1, FS_Interval, FS_Subset
  <2>4. Cardinality(At(w, o + 1 .. o + m, i)) <= Cardinality(At(w, 1 .. n, i))
    BY <2>2, <2>3, FS_Subset
  <2> QED  BY <1>2, <1>6, <2>1, <2>4
<1>9. ASSUME NEW x \in DOMAIN q, NEW y \in DOMAIN q, x < y
      PROVE  ~Ahead(d, a, t, q[y], q[x])
  <2>1. o + x \in 1 .. n /\ o + y \in 1 .. n /\ o + x <= o + y /\ q[x] = w[o + x] /\ q[y] = w[o + y]
    BY <1>3, <1>5, <1>9
  <2> HIDE DEF n, o
  <2> QED  BY <1>2, <2>1, ListInOrder
<1>10. ASSUME NEW k \in DOMAIN q
       PROVE  Cardinality({c \in C : Ahead(d, a, t, c[1], q[k]) /\ c[2] > Got(c[1])}) <= o
  <2>1. {c \in C : Ahead(d, a, t, c[1], q[k]) /\ c[2] > Got(c[1])} = Missed(d, a, t, q, m, q[k])
    BY <1>6 DEF Missed
  <2>2. k \in 1 .. m /\ m # 0
    BY <1>4, <1>5
  <2>3. Cardinality(Missed(d, a, t, q, m, q[k])) <= o
    <3>1. n = Cardinality(Copies(d, a, s.table))
      OBVIOUS
    <3> HIDE DEF m, n, o
    <3> QED  BY <1>3, <1>4, <1>5, <2>2, <3>1, LeftOutBefore
  <2> QED  BY <2>1, <2>3
<1>11. Len(q) = IF l < 0 THEN Max({0, n - o}) ELSE Min({Max({0, n - o}), l})
  BY <1>4, <1>5
<1> QED  BY <1>7, <1>8, <1>9, <1>10, <1>11 DEF AskedPage, Ahead
-----------------------------------------------------------------------------
(* What the SELECT of a Select gives is what the calls ask for.            *)
LEMMA OutcomeIsAsked ==
  ASSUME NEW d, Tabled(d), NEW s, NEW a, Tracks(s, a),
         NEW x \in Outcomes(d, s), x.status = "rows"
  PROVE  /\ x.table = s.table /\ AskedPage(d, a, s.table, x.ids)
         /\ ToSet(x.ids) \subseteq DOMAIN d[s.table]
<1>1. ~Throws(s) /\ \E q \in Pages(d, s) : x = Rows(s.table, q)
  BY DEF Outcomes, Thrown, RefusedBy
<1>2. PICK q \in Pages(d, s) : x = Rows(s.table, q)
  BY <1>1
<1>3. x.table = s.table /\ x.ids = q
  BY <1>2 DEF Rows
<1>4. AskedPage(d, a, s.table, q)
  BY <1>1, PageIsAsked
<1>5. ToSet(q) \subseteq Wanted(d, a, s.table)
  BY <1>4 DEF AskedPage
<1>6. Wanted(d, a, s.table) \subseteq DOMAIN d[s.table]
  BY SelectedIs
<1> QED  BY <1>3, <1>4, <1>5, <1>6
-----------------------------------------------------------------------------
(* The objects of the program are what their types say.                    *)
IsModel(m) ==
  /\ m = [table |-> m.table, id |-> m.id, data |-> m.data, null |-> m.null,
          relations |-> m.relations]
  /\ m.table \in Tables
  /\ m.id \in Ids \cup {NoValue}
  /\ m.data \in Names \cup Ids \cup {NoValue}
  /\ m.null \in BOOLEAN
  /\ m.relations \subseteq Relations(m.table)

IsSelect(s) ==
  /\ s = [table |-> s.table, distinct |-> s.distinct, joins |-> s.joins, where |-> s.where,
          order |-> s.order, limit |-> s.limit, offset |-> s.offset, group |-> s.group,
          having |-> s.having, relations |-> s.relations]
  /\ s.relations \subseteq Relations(s.table)

IsAsked(a) ==
  a = [conditions |-> a.conditions, order |-> a.order, limit |-> a.limit, offset |-> a.offset,
       distinct |-> a.distinct, group |-> a.group, join |-> a.join, relation |-> a.relation]

Follows(s, a) == IsSelect(s) /\ IsAsked(a) /\ Tracks(s, a)

(* The types of a program.  The Select is what some calls would ask for,   *)
(* and without the habits those that were made: inductive.                 *)
Typed ==
  /\ Tabled(db)
  /\ \E a : Follows(select, a)
  /\ Habits = {} => Follows(select, asked)
  /\ \A m \in held : IsModel(m)
  /\ steps \in Nat /\ steps <= MaxSteps

(* A new Select asks for all rows.                                         *)
LEMMA NewFollows ==
  ASSUME NEW t \in Tables
  PROVE  Follows(NewSelect(t), NothingAsked)
<1> DEFINE s == NewSelect(t)
<1>1. IsSelect(s) /\ IsAsked(NothingAsked)
  BY DEF NewSelect, NothingAsked, IsSelect, IsAsked
<1>2. Tracks(s, NothingAsked)
  BY DEF NewSelect, NothingAsked, Tracks
<1> QED  BY <1>1, <1>2 DEF Follows

(* A program starts with what its types say.                               *)
LEMMA TypedFirst == Init => Typed
<1> SUFFICES ASSUME Init PROVE Typed
  OBVIOUS
<1>1. Tabled(db)
  <2>1. IsDatabase(db)
    BY QueriesAssumption DEF Init
  <2>2. /\ db = [persons |-> db.persons, cars |-> db.cars, links |-> db.links]
        /\ db.links \subseteq [persons : Ids, cars : Ids]
    BY <2>1 DEF IsDatabase
  <2>3. IsTable(db["persons"], Data) /\ IsTable(db["cars"], Data)
    BY <2>1 DEF IsDatabase, IsTable, Data
  <2> QED  BY <2>2, <2>3 DEF Tabled, Tables
<1>2. Follows(select, asked)
  BY NewFollows DEF Init
<1> QED  BY <1>1, <1>2, QueriesAssumption DEF Init, Typed

(* The calls that build.                                                   *)
LEMMA ConditionFollows ==
  ASSUME NEW s, NEW a, Follows(s, a), NEW c, c.table = s.table, NEW u,
         u \in {WithWhere(s, c), WithHaving(s, c)},
         NEW b, b = [a EXCEPT !["conditions"] = a.conditions \cup {c}]
  PROVE  Follows(u, b)
<1>1. IsSelect(u) /\ IsAsked(b)
  BY DEF Follows, IsSelect, IsAsked, WithWhere, WithHaving
<1>2. /\ u.table = s.table /\ u.order = s.order /\ u.limit = s.limit /\ u.offset = s.offset
      /\ u.distinct = s.distinct /\ u.group = s.group /\ u.joins = s.joins
      /\ u.where \cup u.having = s.where \cup s.having \cup {c}
  BY DEF Follows, IsSelect, WithWhere, WithHaving
<1>3. /\ b.conditions = a.conditions \cup {c} /\ b.order = a.order /\ b.limit = a.limit
      /\ b.offset = a.offset /\ b.distinct = a.distinct /\ b.group = a.group /\ b.join = a.join
  BY DEF Follows, IsAsked
<1>4. Tracks(u, b)
  BY <1>2, <1>3 DEF Follows, Tracks
<1> QED  BY <1>1, <1>4 DEF Follows

LEMMA OrderFollows ==
  ASSUME NEW s, NEW a, Follows(s, a), NEW o \in {"asc", "desc"},
         NEW b, b = [a EXCEPT !["order"] = IF a.order = "any" THEN o ELSE a.order]
  PROVE  Follows(WithOrder(s, o), b)
<1> DEFINE u == WithOrder(s, o)
<1>1. IsSelect(u) /\ IsAsked(b)
  <2>1. IsSelect(u)
    BY DEF Follows, IsSelect, WithOrder
  <2>2. IsAsked(b)
    BY DEF Follows, IsAsked
  <2> QED  BY <2>1, <2>2
<1>2. /\ u.table = s.table /\ u.order = Append(s.order, o) /\ u.limit = s.limit
      /\ u.offset = s.offset /\ u.distinct = s.distinct /\ u.group = s.group
      /\ u.joins = s.joins /\ u.where = s.where /\ u.having = s.having
  BY DEF Follows, IsSelect, WithOrder
<1>3. /\ b.conditions = a.conditions /\ b.order = (IF a.order = "any" THEN o ELSE a.order)
      /\ b.limit = a.limit /\ b.offset = a.offset /\ b.distinct = a.distinct
      /\ b.group = a.group /\ b.join = a.join
  BY DEF Follows, IsAsked
<1>4. /\ u.order \in Seq({"asc", "desc"}) /\ u.order # <<>>
      /\ Head(u.order) = IF s.order = <<>> THEN o ELSE Head(s.order)
  BY <1>2 DEF Follows, Tracks
<1>5. b.order = Head(u.order)
  <2>1. s.order # <<>> => Head(s.order) \in {"asc", "desc"}
    BY DEF Follows, Tracks
  <2> QED  BY <1>3, <1>4, <2>1 DEF Follows, Tracks
<1> HIDE DEF u
<1>6. Tracks(u, b)
  BY <1>2, <1>3, <1>4, <1>5 DEF Follows, Tracks
<1> QED  BY <1>1, <1>6 DEF Follows, u

LEMMA LimitFollows ==
  ASSUME NEW s, NEW a, Follows(s, a), NEW n \in Nat, NEW b, b = [a EXCEPT !["limit"] = n]
  PROVE  Follows(WithLimit(s, n), b)
<1> DEFINE u == WithLimit(s, n)
<1>1. IsSelect(u) /\ IsAsked(b)
  <2>1. IsSelect(u)
    BY DEF Follows, IsSelect, WithLimit
  <2>2. IsAsked(b)
    BY DEF Follows, IsAsked
  <2> QED  BY <2>1, <2>2
<1>2. /\ u.table = s.table /\ u.order = s.order /\ u.limit = n /\ u.offset = s.offset
      /\ u.distinct = s.distinct /\ u.group = s.group /\ u.joins = s.joins
      /\ u.where = s.where /\ u.having = s.having
  BY DEF Follows, IsSelect, WithLimit
<1>3. /\ b.conditions = a.conditions /\ b.order = a.order /\ b.limit = n
      /\ b.offset = a.offset /\ b.distinct = a.distinct /\ b.group = a.group /\ b.join = a.join
  BY DEF Follows, IsAsked
<1> HIDE DEF u
<1>4. Tracks(u, b)
  BY <1>2, <1>3 DEF Follows, Tracks
<1> QED  BY <1>1, <1>4 DEF Follows, u

(* offset(0) is passed over, so it must not take an offset back.           *)
LEMMA OffsetFollows ==
  ASSUME NEW s, NEW a, Follows(s, a), NEW n \in Nat, n > 0 \/ a.offset = 0,
         NEW b, b = [a EXCEPT !["offset"] = n]
  PROVE  Follows(WithOffset(s, n), b)
<1>1. CASE n = 0
  <2>1. b = a
    BY <1>1 DEF Follows, IsAsked
  <2>2. WithOffset(s, n) = s
    BY <1>1 DEF WithOffset
  <2> QED  BY <2>1, <2>2
<1>2. CASE n > 0
  <2> DEFINE u == WithOffset(s, n)
  <2>1. u = [s EXCEPT !.offset = n]
    BY <1>2 DEF WithOffset
  <2>2. IsSelect(u) /\ IsAsked(b)
    <3>1. IsSelect(u)
      BY <2>1 DEF Follows, IsSelect
    <3>2. IsAsked(b)
      BY DEF Follows, IsAsked
    <3> QED  BY <3>1, <3>2
  <2>3. /\ u.table = s.table /\ u.order = s.order /\ u.limit = s.limit /\ u.offset = n
        /\ u.distinct = s.distinct /\ u.group = s.group /\ u.joins = s.joins
        /\ u.where = s.where /\ u.having = s.having
    BY <2>1 DEF Follows, IsSelect
  <2>4. /\ b.conditions = a.conditions /\ b.order = a.order /\ b.limit = a.limit
        /\ b.offset = n /\ b.distinct = a.distinct /\ b.group = a.group /\ b.join = a.join
    BY DEF Follows, IsAsked
  <2> HIDE DEF u
  <2>5. Tracks(u, b)
    BY <1>2, <2>3, <2>4 DEF Follows, Tracks
  <2> QED  BY <2>2, <2>5 DEF Follows, u
<1> QED  BY <1>1, <1>2

(* The calls that set a mark: GROUP BY, DISTINCT, a JOIN, a relation.      *)
LEMMA GroupFollows ==
  ASSUME NEW s, NEW a, Follows(s, a), NEW u, u = [s EXCEPT !.group = TRUE],
         NEW b, b = [a EXCEPT !["group"] = TRUE]
  PROVE  Follows(u, b)
<1>1. IsSelect(u)
  BY DEF Follows, IsSelect
<1>2. IsAsked(b)
  BY DEF Follows, IsAsked
<1>3. /\ u.table = s.table /\ u.order = s.order /\ u.limit = s.limit /\ u.offset = s.offset
      /\ u.where = s.where /\ u.having = s.having
      /\ u.group = TRUE /\ u.distinct = s.distinct /\ u.joins = s.joins
  BY DEF Follows, IsSelect
<1>4. /\ b.conditions = a.conditions /\ b.order = a.order /\ b.limit = a.limit
      /\ b.offset = a.offset /\ b.group = TRUE /\ b.distinct = a.distinct /\ b.join = a.join
  BY DEF Follows, IsAsked
<1>5. Tracks(u, b)
  BY <1>3, <1>4 DEF Follows, Tracks
<1> QED  BY <1>1, <1>2, <1>5 DEF Follows

LEMMA DistinctFollows ==
  ASSUME NEW s, NEW a, Follows(s, a), NEW u, u = [s EXCEPT !.distinct = TRUE],
         NEW b, b = [a EXCEPT !["distinct"] = TRUE]
  PROVE  Follows(u, b)
<1>1. IsSelect(u)
  BY DEF Follows, IsSelect
<1>2. IsAsked(b)
  BY DEF Follows, IsAsked
<1>3. /\ u.table = s.table /\ u.order = s.order /\ u.limit = s.limit /\ u.offset = s.offset
      /\ u.where = s.where /\ u.having = s.having
      /\ u.group = s.group /\ u.distinct = TRUE /\ u.joins = s.joins
  BY DEF Follows, IsSelect
<1>4. /\ b.conditions = a.conditions /\ b.order = a.order /\ b.limit = a.limit
      /\ b.offset = a.offset /\ b.group = a.group /\ b.distinct = TRUE /\ b.join = a.join
  BY DEF Follows, IsAsked
<1>5. Tracks(u, b)
  BY <1>3, <1>4 DEF Follows, Tracks
<1> QED  BY <1>1, <1>2, <1>5 DEF Follows

LEMMA JoinFollows ==
  ASSUME NEW s, NEW a, Follows(s, a), NEW u, u = [s EXCEPT !.joins = {Join("cars", "persons")}],
         NEW b, b = [a EXCEPT !["join"] = TRUE]
  PROVE  Follows(u, b)
<1>1. IsSelect(u)
  BY DEF Follows, IsSelect
<1>2. IsAsked(b)
  BY DEF Follows, IsAsked
<1>3. /\ u.table = s.table /\ u.order = s.order /\ u.limit = s.limit /\ u.offset = s.offset
      /\ u.where = s.where /\ u.having = s.having
      /\ u.group = s.group /\ u.distinct = s.distinct /\ u.joins = {Join("cars", "persons")}
  BY DEF Follows, IsSelect
<1>4. /\ b.conditions = a.conditions /\ b.order = a.order /\ b.limit = a.limit
      /\ b.offset = a.offset /\ b.group = a.group /\ b.distinct = a.distinct /\ b.join = TRUE
  BY DEF Follows, IsAsked
<1>5. Tracks(u, b)
  BY <1>3, <1>4 DEF Follows, Tracks
<1> QED  BY <1>1, <1>2, <1>5 DEF Follows

LEMMA RelateFollows ==
  ASSUME NEW s, NEW a, Follows(s, a), NEW rel \in Relations(s.table),
         NEW u, u = WithRelation(s, rel),
         NEW b, b = [a EXCEPT !["relation"] = a.relation \cup {rel}]
  PROVE  Follows(u, b)
<1>1. IsSelect(u)
  BY DEF Follows, IsSelect, WithRelation
<1>2. IsAsked(b)
  BY DEF Follows, IsAsked
<1>3. /\ u.table = s.table /\ u.order = s.order /\ u.limit = s.limit /\ u.offset = s.offset
      /\ u.where = s.where /\ u.having = s.having
      /\ u.group = s.group /\ u.distinct = s.distinct /\ u.joins = s.joins
  BY DEF Follows, IsSelect, WithRelation
<1>4. /\ b.conditions = a.conditions /\ b.order = a.order /\ b.limit = a.limit
      /\ b.offset = a.offset /\ b.group = a.group /\ b.distinct = a.distinct /\ b.join = a.join
  BY DEF Follows, IsAsked
<1>5. Tracks(u, b)
  BY <1>3, <1>4 DEF Follows, Tracks
<1> QED  BY <1>1, <1>2, <1>5 DEF Follows
-----------------------------------------------------------------------------
(* The models a Select reads.                                              *)
LEMMA ModelsRead ==
  ASSUME NEW d, Tabled(d), NEW s, NEW a, Follows(s, a), NEW i \in DOMAIN d[s.table]
  PROVE  IsModel(Model(d, s, i))
<1>1. s.table \in Tables /\ s.relations \subseteq Relations(s.table)
  BY DEF Follows, Tracks, IsSelect
<1>2. i \in Ids /\ d[s.table][i] \in Data /\ d[s.table][i] \in Int
  BY <1>1, TableIs
<1>3. Max({d[s.table][i], NoValue}) \in Names \cup Ids \cup {NoValue}
  BY <1>2, MaxOfTwo DEF Data, Null, NoValue
<1> QED  BY <1>1, <1>2, <1>3 DEF IsModel, Model

(* All models a query reads are of their types.                            *)
LEMMA ReadIs ==
  ASSUME NEW d, Tabled(d), NEW s, NEW a, Follows(s, a), NEW x \in Outcomes(d, s),
         NEW H, H = IF x.status = "rows" THEN {Model(d, s, i) : i \in ToSet(x.ids)} ELSE {}
  PROVE  \A m \in H : IsModel(m)
<1> SUFFICES ASSUME x.status = "rows", NEW i \in ToSet(x.ids) PROVE IsModel(Model(d, s, i))
  OBVIOUS
<1>1. i \in DOMAIN d[s.table]
  BY OutcomeIsAsked DEF Follows
<1> QED  BY <1>1, ModelsRead

(* A call that builds, given that the Select stays in step.                *)
LEMMA BuildTyped ==
  ASSUME Typed, NEW u, NEW op, NEW arg, Build(u, op, arg), NEW b, Follows(u, b),
         Habits = {} => Follows(u, [asked EXCEPT ![op] = arg])
  PROVE  Typed'
<1>1. select' = u /\ asked' = [asked EXCEPT ![op] = arg] /\ held' = {} /\ db' = db
  BY DEF Build
<1>2. Follows(select', b) /\ (Habits = {} => Follows(select', asked'))
  BY <1>1
<1>3. steps' \in Nat /\ steps' <= MaxSteps
  BY QueriesAssumption DEF Build, Step, Typed
<1> QED  BY <1>1, <1>2, <1>3 DEF Typed
-----------------------------------------------------------------------------
(* The statements that write leave a table f in place of one of the        *)
(* tables, and what is new in f is that of a real model in the program's   *)
(* hands.                                                                  *)
Written(t, f) ==
  /\ IsTable(f, Data)
  /\ \A i \in DOMAIN f :
       i \notin DOMAIN db[t] \/ f[i] # db[t][i] =>
         \E m \in held : /\ ~m.null /\ m.table = t /\ m.data = f[i]
                         /\ i \in DOMAIN db[t] => m.id = i

(* INSERT: the new rows are those of the models, under new keys.           *)
LEMMA InsertWrites ==
  ASSUME Typed, NEW t \in Tables, NEW ms \in SUBSET {m \in held : m.table = t}, ~HasNull(ms),
         NEW key \in Injection(ms, Ids \ DOMAIN db[t]),
         NEW g, g = [i \in {key[m] : m \in ms} |-> (CHOOSE m \in ms : key[m] = i).data]
  PROVE  Written(t, Extended(db[t], g))
<1> DEFINE f == Extended(db[t], g)
<1>1. key \in [ms -> Ids \ DOMAIN db[t]]
  BY DEF Injection
<1>2. DOMAIN g = {key[m] : m \in ms} /\ DOMAIN g \subseteq Ids \ DOMAIN db[t]
  BY <1>1
<1>3. ASSUME NEW i \in DOMAIN g
      PROVE  \E m \in ms : key[m] = i /\ g[i] = m.data
  <2>1. \E m \in ms : key[m] = i
    BY <1>2
  <2> DEFINE m == CHOOSE m \in ms : key[m] = i
  <2>2. m \in ms /\ key[m] = i
    BY <2>1
  <2>3. g[i] = m.data
    BY <1>2
  <2> QED  BY <2>2, <2>3
<1>4. /\ DOMAIN f = DOMAIN db[t] \cup DOMAIN g
      /\ f = [i \in DOMAIN db[t] \cup DOMAIN g |-> IF i \in DOMAIN db[t] THEN db[t][i] ELSE g[i]]
  BY DEF Extended
<1>5. \A i \in DOMAIN f : f[i] = IF i \in DOMAIN db[t] THEN db[t][i] ELSE g[i]
  BY <1>4
<1>6. ASSUME NEW i \in DOMAIN f, i \notin DOMAIN db[t]
      PROVE  \E m \in held : ~m.null /\ m.table = t /\ m.data = f[i]
  <2>1. i \in DOMAIN g /\ f[i] = g[i]
    BY <1>4, <1>5, <1>6
  <2>2. PICK m \in ms : key[m] = i /\ g[i] = m.data
    BY <1>3, <2>1
  <2> QED  BY <2>1, <2>2 DEF HasNull
<1>7. IsTable(f, Data)
  <2>1. DOMAIN db[t] \subseteq Ids /\ \A i \in DOMAIN db[t] : db[t][i] \in Data
    BY TableIs DEF Typed
  <2>2. DOMAIN f \subseteq Ids
    BY <1>2, <1>4, <2>1
  <2>3. \A i \in DOMAIN f : f[i] \in Data
    BY <1>5, <1>6, <2>1 DEF Typed, IsModel, Data
  <2>4. f = [i \in DOMAIN f |-> f[i]]
    BY <1>4
  <2> HIDE DEF f
  <2>5. f \in [DOMAIN f -> Data]
    BY <2>3, <2>4
  <2> QED  BY <2>2, <2>5 DEF IsTable
<1> HIDE DEF f
<1>8. Written(t, f)
  BY <1>5, <1>6, <1>7 DEF Written
<1> QED  BY <1>8 DEF f

(* UPDATE: a row changes to what the model with its key holds.             *)
LEMMA UpdateWrites ==
  ASSUME Typed, NEW t \in Tables, NEW ms \in SUBSET {m \in held : m.table = t}, ~HasNull(ms)
  PROVE  Written(t, Assigned(db[t], DataOf(ms)))
<1> DEFINE g == DataOf(ms)
           f == Assigned(db[t], g)
<1>1. ASSUME NEW i \in DOMAIN g
      PROVE  \E m \in ms : m.id = i /\ g[i] = m.data
  <2>1. \E m \in ms : m.id = i
    BY DEF DataOf, IdsOf
  <2> DEFINE m == CHOOSE m \in ms : m.id = i
  <2>2. m \in ms /\ m.id = i
    BY <2>1
  <2>3. g[i] = m.data
    BY DEF DataOf
  <2> QED  BY <2>2, <2>3
<1>2. /\ DOMAIN f = DOMAIN db[t] /\ f = [i \in DOMAIN f |-> f[i]]
      /\ \A i \in DOMAIN f : f[i] = IF i \in DOMAIN g THEN g[i] ELSE db[t][i]
  BY DEF Assigned
<1>3. ASSUME NEW i \in DOMAIN f, f[i] # db[t][i]
      PROVE  \E m \in held : ~m.null /\ m.table = t /\ m.data = f[i] /\ m.id = i
  <2>1. i \in DOMAIN g /\ f[i] = g[i]
    BY <1>2, <1>3
  <2>2. PICK m \in ms : m.id = i /\ g[i] = m.data
    BY <1>1, <2>1
  <2> QED  BY <2>1, <2>2 DEF HasNull
<1>4. IsTable(f, Data)
  <2>1. DOMAIN db[t] \subseteq Ids /\ \A i \in DOMAIN db[t] : db[t][i] \in Data
    BY TableIs DEF Typed
  <2>2. \A i \in DOMAIN f : f[i] \in Data
    BY <1>2, <1>3, <2>1 DEF Typed, IsModel, Data
  <2> HIDE DEF f
  <2>3. f \in [DOMAIN f -> Data]
    BY <1>2, <2>2
  <2> QED  BY <1>2, <2>1, <2>3 DEF IsTable
<1> HIDE DEF f
<1>5. Written(t, f)
  BY <1>2, <1>3, <1>4 DEF Written
<1> QED  BY <1>5 DEF f

(* DELETE: nothing is new.                                                 *)
LEMMA DeleteWrites ==
  ASSUME Typed, NEW t \in Tables, NEW gone
  PROVE  Written(t, Without(db[t], gone))
<1> DEFINE f == Without(db[t], gone)
<1>1. /\ DOMAIN f = DOMAIN db[t] \ gone /\ f = [i \in DOMAIN f |-> f[i]]
      /\ \A i \in DOMAIN f : f[i] = db[t][i]
  BY DEF Without
<1>2. DOMAIN db[t] \subseteq Ids /\ \A i \in DOMAIN db[t] : db[t][i] \in Data
  BY TableIs DEF Typed
<1> HIDE DEF f
<1>3. f \in [DOMAIN f -> Data]
  BY <1>1, <1>2
<1>4. Written(t, f)
  BY <1>1, <1>2, <1>3 DEF Written, IsTable
<1> QED  BY <1>4 DEF f

(* A write, or a statement that is refused.                                *)
Stores == \E t \in Tables : \E f : Written(t, f) /\ Write([db EXCEPT ![t] = f])

(* Every statement that writes is a write, throws, or is refused.          *)
LEMMA WritesStore ==
  ASSUME Typed, (\E one \in BOOLEAN : Insert(one) \/ Update(one)) \/ Delete \/ DeleteSelected
  PROVE  Stores \/ Throw \/ Refuse
<1>1. ASSUME NEW one \in BOOLEAN, Insert(one) PROVE Stores \/ Throw
  <2>1. SUFFICES ASSUME NEW t \in Tables, NEW ms \in SUBSET {m \in held : m.table = t}, ~HasNull(ms),
                        NEW key \in Injection(ms, Ids \ DOMAIN db[t]),
                        Write([db EXCEPT ![t] = Extended(@, [i \in {key[m] : m \in ms} |->
                                                    (CHOOSE m \in ms : key[m] = i).data])])
                 PROVE  Stores
    BY <1>1 DEF Insert
  <2> DEFINE g == [i \in {key[m] : m \in ms} |-> (CHOOSE m \in ms : key[m] = i).data]
  <2>2. Write([db EXCEPT ![t] = Extended(db[t], g)])
    <3>1. [db EXCEPT ![t] = Extended(@, g)] = [db EXCEPT ![t] = Extended(db[t], g)]
      OBVIOUS
    <3> QED  BY <2>1, <3>1
  <2>3. Written(t, Extended(db[t], g))
    BY <2>1, InsertWrites
  <2> QED  BY <2>2, <2>3 DEF Stores
<1>2. ASSUME NEW one \in BOOLEAN, Update(one) PROVE Stores \/ Throw
  <2>1. SUFFICES ASSUME NEW t \in Tables, NEW ms \in SUBSET {m \in held : m.table = t}, ~HasNull(ms),
                        Write([db EXCEPT ![t] = Assigned(@, DataOf(ms))])
                 PROVE  Stores
    BY <1>2 DEF Update
  <2>2. Write([db EXCEPT ![t] = Assigned(db[t], DataOf(ms))])
    BY <2>1 DEF Write
  <2>3. Written(t, Assigned(db[t], DataOf(ms)))
    BY <2>1, UpdateWrites
  <2> QED  BY <2>2, <2>3 DEF Stores
<1>3. ASSUME Delete PROVE Stores \/ Throw
  <2>1. \/ Throw
        \/ \E t \in Tables : \E gone : Write([db EXCEPT ![t] = Without(@, gone)])
    BY <1>3 DEF Delete
  <2>2. ASSUME NEW t \in Tables, NEW gone, Write([db EXCEPT ![t] = Without(@, gone)])
        PROVE  Stores
    <3>1. Write([db EXCEPT ![t] = Without(db[t], gone)])
      BY <2>2 DEF Write
    <3> QED  BY <3>1, DeleteWrites DEF Stores
  <2> QED  BY <2>1, <2>2
<1>4. ASSUME DeleteSelected PROVE Stores \/ Throw \/ Refuse
  <2>1. ASSUME NEW x \in Outcomes(db, select), x.status = "rows",
               Write([db EXCEPT ![x.table] = Without(@, ToSet(x.ids))])
        PROVE  Stores
    <3>1. x.table \in Tables
      <4>1. Tabled(db) /\ \E a : Tracks(select, a)
        BY DEF Typed, Follows
      <4>2. x.table = select.table
        BY <2>1, <4>1, OutcomeIsAsked
      <4> QED  BY <4>1, <4>2 DEF Tracks
    <3>2. Write([db EXCEPT ![x.table] = Without(db[x.table], ToSet(x.ids))])
      BY <2>1 DEF Write
    <3> QED  BY <3>1, <3>2, DeleteWrites DEF Stores
  <2> QED  BY <1>4, <2>1 DEF DeleteSelected
<1> QED  BY <1>1, <1>2, <1>3, <1>4

(* What the new tables are.                                                *)
LEMMA StoredIs ==
  ASSUME Typed, NEW t \in Tables, NEW f, Written(t, f), Write([db EXCEPT ![t] = f])
  PROVE  Tabled(db') /\ db'[t] = f /\ \A u \in Tables \ {t} : db'[u] = db[u]
<1>1. /\ db = [persons |-> db.persons, cars |-> db.cars, links |-> db.links]
      /\ db' = [db EXCEPT ![t] = f] /\ t \in {"persons", "cars"}
  BY DEF Typed, Tabled, Write, Tables
<1>2. /\ db' = [persons |-> db'.persons, cars |-> db'.cars, links |-> db'.links]
      /\ db'.links = db.links
      /\ db'[t] = f /\ \A u \in Tables \ {t} : db'[u] = db[u]
  BY <1>1 DEF Tables
<1>3. \A u \in Tables : IsTable(db'[u], Data)
  BY <1>2 DEF Written, Typed, Tabled
<1>4. db'.links \subseteq [persons : Ids, cars : Ids]
  BY <1>2 DEF Typed, Tabled
<1> QED  BY <1>2, <1>3, <1>4 DEF Tabled
-----------------------------------------------------------------------------
(* The model that first() makes up, and those the program changes or       *)
(* makes itself.                                                           *)
LEMMA NullModelsAre ==
  ASSUME NEW t \in Tables, NEW m \in NullModels(t)
  PROVE  IsModel(m)
BY DEF NullModels, IsModel

LEMMA FilledIs ==
  ASSUME NEW m, IsModel(m), NEW v \in Names \cup Ids
  PROVE  IsModel([m EXCEPT !.data = v])
BY DEF IsModel

LEMMA MadeIs ==
  ASSUME NEW t \in Tables, NEW i \in Ids, NEW v \in Names \cup Ids
  PROVE  IsModel([table |-> t, id |-> i, data |-> v, null |-> FALSE, relations |-> {}])
BY DEF IsModel

(* One step more, within the bound.                                        *)
LEMMA StepCounts ==
  ASSUME Typed, Step
  PROVE  steps' \in Nat /\ steps' <= MaxSteps
BY QueriesAssumption DEF Typed, Step

(* The calls that build keep the types.                                    *)
Builds ==
  \/ Where \/ Having \/ OrderBy \/ Limit \/ Offset \/ GroupByKey \/ DistinctRows
  \/ JoinCars \/ Relate

LEMMA BuildsKeep == Typed /\ Builds => Typed'
<1> SUFFICES ASSUME Typed, Builds PROVE Typed'
  OBVIOUS
<1>0. PICK a : Follows(select, a)
  BY DEF Typed
<1>a. Habits = {} => Follows(select, asked)
  BY DEF Typed
<1>b. Cardinality(Ids) \in Nat
  BY QueriesAssumption, FS_CardinalityType
<1>1. CASE Where
  <2>1. PICK c \in Conditions(select.table) :
          Build(WithWhere(select, c), "conditions", asked.conditions \cup {c})
    BY <1>1 DEF Where
  <2>2. c.table = select.table
    BY DEF Conditions, DataConditions, Condition
  <2>3. Follows(WithWhere(select, c), [a EXCEPT !["conditions"] = a.conditions \cup {c}])
    BY <1>0, <2>2, ConditionFollows
  <2>4. Habits = {} => Follows(WithWhere(select, c),
                               [asked EXCEPT !["conditions"] = asked.conditions \cup {c}])
    BY <1>a, <2>2, ConditionFollows
  <2> QED  BY <2>1, <2>3, <2>4, BuildTyped
<1>2. CASE Having
  <2>1. PICK c \in DataConditions(select.table) :
          Build(WithHaving(select, c), "conditions", asked.conditions \cup {c})
    BY <1>2 DEF Having
  <2>2. c.table = select.table
    BY DEF DataConditions, Condition
  <2>3. Follows(WithHaving(select, c), [a EXCEPT !["conditions"] = a.conditions \cup {c}])
    BY <1>0, <2>2, ConditionFollows
  <2>4. Habits = {} => Follows(WithHaving(select, c),
                               [asked EXCEPT !["conditions"] = asked.conditions \cup {c}])
    BY <1>a, <2>2, ConditionFollows
  <2> QED  BY <2>1, <2>3, <2>4, BuildTyped
<1>3. CASE OrderBy
  <2>1. PICK o \in {"asc", "desc"} :
          Build(WithOrder(select, o), "order", IF asked.order = "any" THEN o ELSE asked.order)
    BY <1>3 DEF OrderBy
  <2>2. Follows(WithOrder(select, o),
                [a EXCEPT !["order"] = IF a.order = "any" THEN o ELSE a.order])
    BY <1>0, OrderFollows
  <2>3. Habits = {} => Follows(WithOrder(select, o),
                  [asked EXCEPT !["order"] = IF asked.order = "any" THEN o ELSE asked.order])
    BY <1>a, OrderFollows
  <2> QED  BY <2>1, <2>2, <2>3, BuildTyped
<1>4. CASE Limit
  <2>1. PICK n \in 0 .. Cardinality(Ids) : Build(WithLimit(select, n), "limit", n)
    BY <1>4 DEF Limit
  <2>2. n \in Nat
    BY <1>b
  <2>3. Follows(WithLimit(select, n), [a EXCEPT !["limit"] = n])
    BY <1>0, <2>2, LimitFollows
  <2>4. Habits = {} => Follows(WithLimit(select, n), [asked EXCEPT !["limit"] = n])
    BY <1>a, <2>2, LimitFollows
  <2> QED  BY <2>1, <2>3, <2>4, BuildTyped
<1>5. CASE Offset
  <2>1. PICK n \in 0 .. Cardinality(Ids) :
          /\ n > 0 \/ asked.offset = 0 \/ "take_back" \in Habits
          /\ Build(WithOffset(select, n), "offset", n)
    BY <1>5 DEF Offset
  <2>2. n \in Nat
    BY <1>b
  <2>3. \E b : Follows(WithOffset(select, n), b)
    <3>1. CASE n = 0
      BY <1>0, <3>1 DEF WithOffset
    <3>2. CASE n > 0
      BY <1>0, <2>2, <3>2, OffsetFollows
    <3> QED  BY <2>2, <3>1, <3>2
  <2>4. Habits = {} => Follows(WithOffset(select, n), [asked EXCEPT !["offset"] = n])
    BY <1>a, <2>1, <2>2, OffsetFollows
  <2> QED  BY <2>1, <2>3, <2>4, BuildTyped
<1>6. CASE GroupByKey
  <2>1. Follows([select EXCEPT !.group = TRUE], [a EXCEPT !["group"] = TRUE])
    BY <1>0, GroupFollows
  <2>2. Habits = {} => Follows([select EXCEPT !.group = TRUE], [asked EXCEPT !["group"] = TRUE])
    BY <1>a, GroupFollows
  <2> QED  BY <1>6, <2>1, <2>2, BuildTyped DEF GroupByKey
<1>7. CASE DistinctRows
  <2>1. Follows([select EXCEPT !.distinct = TRUE], [a EXCEPT !["distinct"] = TRUE])
    BY <1>0, DistinctFollows
  <2>2. Habits = {} =>
          Follows([select EXCEPT !.distinct = TRUE], [asked EXCEPT !["distinct"] = TRUE])
    BY <1>a, DistinctFollows
  <2> QED  BY <1>7, <2>1, <2>2, BuildTyped DEF DistinctRows
<1>8. CASE JoinCars
  <2> DEFINE u == [select EXCEPT !.joins = {Join("cars", "persons")}]
  <2>1. Follows(u, [a EXCEPT !["join"] = TRUE])
    BY <1>0, JoinFollows
  <2>2. Habits = {} => Follows(u, [asked EXCEPT !["join"] = TRUE])
    BY <1>a, JoinFollows
  <2> QED  BY <1>8, <2>1, <2>2, BuildTyped DEF JoinCars
<1>9. CASE Relate
  <2>1. PICK rel \in Relations(select.table) :
          Build(WithRelation(select, rel), "relation", asked.relation \cup {rel})
    BY <1>9 DEF Relate
  <2>2. Follows(WithRelation(select, rel), [a EXCEPT !["relation"] = a.relation \cup {rel}])
    BY <1>0, RelateFollows
  <2>3. Habits = {} => Follows(WithRelation(select, rel),
                               [asked EXCEPT !["relation"] = asked.relation \cup {rel}])
    BY <1>a, RelateFollows
  <2> QED  BY <2>1, <2>2, <2>3, BuildTyped
<1> QED  BY <1>1, <1>2, <1>3, <1>4, <1>5, <1>6, <1>7, <1>8, <1>9 DEF Builds

(* So do the queries.                                                      *)
LEMMA AllKeeps == Typed /\ All => Typed'
<1> SUFFICES ASSUME Typed, All PROVE Typed'
  OBVIOUS
<1>1. answer' \in Outcomes(db, select) /\ db' = db /\ select' = select /\ asked' = asked /\ steps' = steps
  BY DEF All
<1>2. \A m \in held' : IsModel(m)
  BY <1>1, ReadIs DEF All, Read, Typed
<1> QED  BY <1>1, <1>2 DEF Typed

(* first() asks for one row.                                               *)
LEMMA FirstAnswers ==
  ASSUME Typed, First
  PROVE  /\ answer' \in Outcomes(db, select') /\ \E a : Follows(select', a)
         /\ Habits = {} => Follows(select', asked')
         /\ db' = db /\ select'.table = select.table
<1>1. /\ select' = WithLimit(select, 1) /\ answer' \in Outcomes(db, select') /\ db' = db
  BY DEF First
<1>2. \E a : Follows(select', a)
  BY <1>1, LimitFollows DEF Typed
<1>3. ASSUME Habits = {} PROVE Follows(select', asked')
  <2>1. asked' = [asked EXCEPT !["limit"] = 1]
    BY <1>3 DEF First
  <2> QED  BY <1>1, <1>3, <2>1, LimitFollows DEF Typed
<1>4. select'.table = select.table
  BY <1>1 DEF Typed, Follows, IsSelect, WithLimit
<1> QED  BY <1>1, <1>2, <1>3, <1>4

LEMMA FirstKeeps == Typed /\ First => Typed'
<1> SUFFICES ASSUME Typed, First PROVE Typed'
  OBVIOUS
<1>1. /\ answer' \in Outcomes(db, select') /\ \E a : Follows(select', a)
      /\ Habits = {} => Follows(select', asked')
      /\ db' = db /\ select'.table = select.table
  BY FirstAnswers
<1>2. \A m \in held' : IsModel(m)
  <2>1. CASE answer'.status = "rows" /\ answer'.ids = <<>>
    <3>1. \E m \in NullModels(select.table) : held' = {m}
      BY <2>1 DEF First
    <3>2. select.table \in Tables
      BY DEF Typed, Follows, Tracks
    <3> QED  BY <3>1, <3>2, NullModelsAre
  <2>2. CASE ~(answer'.status = "rows" /\ answer'.ids = <<>>)
    <3>1. held' = Read(select, answer')
      BY <2>2 DEF First
    <3>2. SUFFICES ASSUME answer'.status = "rows", NEW i \in ToSet(answer'.ids)
                   PROVE  IsModel(Model(db, select, i))
      BY <3>1 DEF Read
    <3>3. i \in DOMAIN db[select.table]
      BY <1>1, <3>2, OutcomeIsAsked DEF Typed, Follows
    <3> QED  BY <3>3, ModelsRead DEF Typed
  <2> QED  BY <2>1, <2>2
<1>3. steps' \in Nat /\ steps' <= MaxSteps
  BY StepCounts DEF First
<1> QED  BY <1>1, <1>2, <1>3 DEF Typed

(* What the program does with the models it has.                           *)
LEMMA FillKeeps == Typed /\ Fill => Typed'
<1> SUFFICES ASSUME Typed, Fill PROVE Typed'
  OBVIOUS
<1>1. PICK m \in held : \E v \in Names \cup Ids :
        held' = (held \ {m}) \cup {[m EXCEPT !.data = v]}
  BY DEF Fill
<1>2. \A n \in held' : IsModel(n)
  BY <1>1, FilledIs DEF Typed
<1>3. steps' \in Nat /\ steps' <= MaxSteps /\ db' = db /\ select' = select /\ asked' = asked
  BY StepCounts DEF Fill
<1> QED  BY <1>2, <1>3 DEF Typed

LEMMA MakeKeeps == Typed /\ Make => Typed'
<1> SUFFICES ASSUME Typed, Make PROVE Typed'
  OBVIOUS
<1>1. select.table \in Tables
  BY DEF Typed, Follows, Tracks
<1>2. \E i \in Ids, v \in Names \cup Ids :
        held' = {[table |-> select.table, id |-> i, data |-> v, null |-> FALSE, relations |-> {}]}
  BY DEF Make
<1>3. \A n \in held' : IsModel(n)
  BY <1>1, <1>2, MadeIs
<1>4. steps' \in Nat /\ steps' <= MaxSteps /\ db' = db /\ select' = select /\ asked' = asked
  BY StepCounts DEF Make
<1> QED  BY <1>3, <1>4 DEF Typed

(* And the statements that write.                                          *)
LEMMA StoresKeep == Typed /\ Stores => Typed'
<1> SUFFICES ASSUME Typed, NEW t \in Tables, NEW f, Written(t, f), Write([db EXCEPT ![t] = f])
             PROVE  Typed'
  BY DEF Stores
<1>1. Tabled(db')
  BY StoredIs
<1>2. steps' \in Nat /\ steps' <= MaxSteps /\ held' = held /\ select' = select /\ asked' = asked
  BY StepCounts DEF Write
<1> QED  BY <1>1, <1>2 DEF Typed

Writes == (\E one \in BOOLEAN : Insert(one) \/ Update(one)) \/ Delete \/ DeleteSelected

(* Every step of the program keeps the types.                              *)
LEMMA TypedStep == Typed /\ [Next]_vars => Typed'
<1> SUFFICES ASSUME Typed, [Next]_vars PROVE Typed'
  OBVIOUS
<1>1. CASE New
  <2>1. PICK t \in Tables : select' = NewSelect(t)
    BY <1>1 DEF New
  <2>2. asked' = NothingAsked /\ held' = {} /\ db' = db /\ steps' = steps
    BY <1>1 DEF New
  <2>3. Follows(select', asked')
    BY <2>1, <2>2, NewFollows
  <2> QED  BY <2>2, <2>3 DEF Typed
<1>2. CASE Builds
  BY <1>2, BuildsKeep
<1>3. CASE All
  BY <1>3, AllKeeps
<1>4. CASE First
  BY <1>4, FirstKeeps
<1>5. CASE AskRelated
  BY <1>5 DEF AskRelated, Typed
<1>6. CASE Fill
  BY <1>6, FillKeeps
<1>7. CASE Make
  BY <1>7, MakeKeeps
<1>8. CASE Writes
  <2>1. Stores \/ Throw \/ Refuse
    BY <1>8, WritesStore DEF Writes
  <2>2. CASE Stores
    BY <2>2, StoresKeep
  <2>3. CASE Throw \/ Refuse
    BY <2>3 DEF Throw, Refuse, Typed
  <2> QED  BY <2>1, <2>2, <2>3
<1>9. CASE UNCHANGED vars
  BY <1>9 DEF vars, Typed
<1> QED  BY <1>1, <1>2, <1>3, <1>4, <1>5, <1>6, <1>7, <1>8, <1>9 DEF Next, Builds, Writes
-----------------------------------------------------------------------------
(* A query gives the rows the calls ask for.                               *)
LEMMA AskedStep == Habits = {} /\ Typed /\ AnswerIsAsked /\ [Next]_vars => AnswerIsAsked'
<1> SUFFICES ASSUME Habits = {}, Typed, AnswerIsAsked, [Next]_vars, answer'.status = "rows"
             PROVE  AskedPage(db', asked', answer'.table, answer'.ids)
  BY DEF AnswerIsAsked
<1>1. CASE New \/ Builds
  <2>1. answer' = Nothing
    BY <1>1 DEF New, Builds, Where, Having, OrderBy, Limit, Offset, GroupByKey, DistinctRows,
                JoinCars, Relate, Build
  <2> QED  BY <2>1 DEF Nothing
<1>2. CASE All
  <2>1. answer' \in Outcomes(db, select) /\ db' = db /\ asked' = asked
    BY <1>2 DEF All
  <2>2. answer'.table = select.table /\ AskedPage(db, asked, select.table, answer'.ids)
    BY <2>1, OutcomeIsAsked DEF Typed, Follows
  <2> QED  BY <2>1, <2>2
<1>3. CASE First
  <2>1. answer' \in Outcomes(db, select') /\ Follows(select', asked') /\ db' = db
    BY <1>3, FirstAnswers
  <2>2. answer'.table = select'.table /\ AskedPage(db, asked', select'.table, answer'.ids)
    BY <2>1, OutcomeIsAsked DEF Typed, Follows
  <2> QED  BY <2>1, <2>2
<1>4. CASE AskRelated
  <2>1. answer'.status = "related"
    BY <1>4 DEF AskRelated
  <2> QED  BY <2>1
<1>5. CASE Fill \/ Make \/ UNCHANGED vars
  <2>1. answer' = answer /\ db' = db /\ asked' = asked
    BY <1>5 DEF Fill, Make, vars
  <2> QED  BY <2>1 DEF AnswerIsAsked
<1>6. CASE Writes
  <2>1. Stores \/ Throw \/ Refuse
    BY <1>6, WritesStore DEF Writes
  <2>2. answer' \in {Nothing, Thrown, RefusedBy}
    BY <2>1 DEF Stores, Write, Throw, Refuse
  <2> QED  BY <2>2 DEF Nothing, Thrown, RefusedBy
<1> QED  BY <1>1, <1>2, <1>3, <1>4, <1>5, <1>6 DEF Next, Builds, Writes
-----------------------------------------------------------------------------
(* The cars of a person are those that have it in the foreign key.         *)
OwnedBy(id) == [NothingAsked EXCEPT !.conditions = {Condition("cars", "data", {id})}]

(* The query of the relation is one that asks for the rows with that       *)
(* owner.                                                                  *)
LEMMA OneToManyTracks ==
  ASSUME NEW id
  PROVE  /\ Tracks(OneToMany(id), OwnedBy(id)) /\ ~Throws(OneToMany(id)) /\ ~Refused(OneToMany(id))
         /\ OneToMany(id).table = "cars"
<1> DEFINE s == OneToMany(id)
           a == OwnedBy(id)
<1>1. /\ s.table = "cars" /\ s.distinct = FALSE /\ s.joins = {}
      /\ s.where = {Condition("cars", "data", {id})} /\ s.order = <<>> /\ s.limit = -1
      /\ s.offset = -1 /\ s.group = FALSE /\ s.having = {}
  <2>1. s = WithWhere(WithRelation(NewSelect("cars"), "many_to_one"), Condition("cars", "data", {id}))
    BY DEF OneToMany
  <2> HIDE DEF s
  <2> QED  BY <2>1 DEF WithWhere, WithRelation, NewSelect
<1>2. /\ a.conditions = {Condition("cars", "data", {id})} /\ a.order = "any" /\ a.limit = -1
      /\ a.offset = 0 /\ a.distinct = FALSE /\ a.group = FALSE /\ a.join = FALSE
  BY DEF OwnedBy, NothingAsked
<1> HIDE DEF s, a
<1>3. Condition("cars", "data", {id}).table = "cars"
  BY DEF Condition
<1>4. Tracks(s, a)
  <2> DEFINE c == Condition("cars", "data", {id})
  <2>1. c.table = "cars" /\ s.where = {c} /\ a.conditions = {c}
    BY <1>1, <1>2, <1>3
  <2> HIDE DEF c
  <2>2. /\ s.table \in Tables /\ a.conditions = s.where \cup s.having
        /\ \A b \in a.conditions : b.table = s.table
    BY <1>1, <2>1 DEF Tables
  <2>3. s.order \in Seq({"asc", "desc"}) /\ a.order = "any" /\ s.order = <<>>
    BY <1>1, <1>2
  <2>4. /\ s.limit \in Int /\ s.limit >= -1 /\ a.limit = s.limit
        /\ a.offset \in Nat /\ s.offset = IF a.offset = 0 THEN -1 ELSE a.offset
    BY <1>1, <1>2
  <2>5. /\ s.distinct \in BOOLEAN /\ a.distinct = s.distinct
        /\ s.group \in BOOLEAN /\ a.group = s.group /\ a.join \in BOOLEAN
    BY <1>1, <1>2
  <2>6. s.joins = IF a.join THEN {Join("cars", "persons")} ELSE {}
    BY <1>1, <1>2
  <2> QED  BY <2>2, <2>3, <2>4, <2>5, <2>6 DEF Tracks
<1>5. ~Throws(s) /\ ~Refused(s) /\ s.table = "cars"
  BY <1>1 DEF Throws, Refused
<1> QED  BY <1>4, <1>5 DEF s, a

(* It gives each of them once.                                             *)
LEMMA OneToManyIs ==
  ASSUME NEW d, Tabled(d), NEW id, NEW x \in Outcomes(d, OneToMany(id))
  PROVE  ToSet(x.ids) = {c \in DOMAIN d.cars : d.cars[c] = id} /\ IsInjective(x.ids)
<1> DEFINE s == OneToMany(id)
           a == OwnedBy(id)
           W == Wanted(d, a, "cars")
           n == Cardinality(Copies(d, a, "cars"))
<1>1. Tracks(s, a) /\ ~Throws(s) /\ ~Refused(s) /\ s.table = "cars"
  BY OneToManyTracks
<1>2. /\ a.conditions = {Condition("cars", "data", {id})} /\ a.offset = 0 /\ a.limit = -1
      /\ a.join = FALSE
  BY DEF OwnedBy, NothingAsked
<1>3. PICK q \in Pages(d, s) : x = Rows("cars", q)
  BY <1>1 DEF Outcomes
<1>4. PICK w \in Arranged(d, s) : q = Page(n, 0, -1, w)
  BY <1>1, <1>2, PagesIs
<1>5. n \in Nat /\ w \in [1 .. n -> W] /\ \A i \in W : Cardinality({k \in 1 .. n : w[k] = i}) = 1
  <2>1. \A i : Times(d, a, i) = 1
    BY <1>2 DEF Times
  <2>2. /\ n \in Nat /\ w \in [1 .. n -> W]
        /\ \A i \in W : Cardinality({k \in 1 .. n : w[k] = i}) = Times(d, a, i)
    BY <1>1, ArrangedIs
  <2> QED  BY <2>1, <2>2
<1>6. W = {c \in DOMAIN d.cars : d.cars[c] = id}
  <2>1. Condition("cars", "data", {id}).column = "data" /\ Condition("cars", "data", {id}).values = {id}
    BY DEF Condition
  <2> QED  BY <1>2, <2>1 DEF Wanted
<1> HIDE DEF n, W, s, a
<1>7. q = [k \in 1 .. n |-> w[k]]
  <2>1. PageSize(n, 0, -1) = n
    BY <1>5 DEF PageSize, Rest
  <2>2. q = [k \in 1 .. n |-> w[0 + k]]
    BY <1>4, <2>1 DEF Page
  <2>3. \A k \in 1 .. n : 0 + k = k
    BY <1>5
  <2> QED  BY <2>2, <2>3
<1>8. DOMAIN q = 1 .. n /\ \A k \in 1 .. n : q[k] = w[k] /\ q[k] \in W
  BY <1>5, <1>7
<1>9. ASSUME NEW i \in W PROVE \E k \in 1 .. n : \A l \in 1 .. n : w[l] = i <=> l = k
  <2>1. IsFiniteSet({k \in 1 .. n : w[k] = i})
    BY <1>5, FirstNumbers, FS_Subset
  <2>2. PICK k : {l \in 1 .. n : w[l] = i} = {k}
    BY <1>5, <2>1, FS_Singleton
  <2> QED  BY <2>2
<1>10. ToSet(q) = W
  <2>1. ToSet(q) \subseteq W
    BY <1>8 DEF ToSet
  <2>2. W \subseteq ToSet(q)
    BY <1>8, <1>9 DEF ToSet
  <2> QED  BY <2>1, <2>2
<1>11. IsInjective(q)
  BY <1>8, <1>9 DEF IsInjective
<1> QED  BY <1>3, <1>6, <1>10, <1>11 DEF Rows

(* The owner of a car is the row that a join with that car selects.        *)
LEMMA ManyToOneIsSelect ==
  ASSUME NEW id
  PROVE  LET s == ManyToOne(id)
         IN  /\ s.table = "persons" /\ s.distinct = FALSE /\ s.joins = {Join("cars", "persons")}
             /\ s.where = {Condition("cars", "id", {id})} /\ s.order = <<>> /\ s.limit = 1
             /\ s.offset = -1 /\ s.group = FALSE /\ s.having = {}
<1> DEFINE n == NewSelect("persons")
           J == {Join("cars", "persons")}
           u == [n EXCEPT !.joins = J]
           v == WithRelation(u, "one_to_many")
           c == Condition("cars", "id", {id})
<1>1. ManyToOne(id) = WithLimit(WithWhere(v, c), 1)
  BY DEF ManyToOne
<1>2. /\ n.table = "persons" /\ n.distinct = FALSE
      /\ n.where = {} /\ n.order = <<>> /\ n.offset = -1 /\ n.group = FALSE /\ n.having = {}
      /\ DOMAIN n = {"table", "distinct", "joins", "where", "order", "limit", "offset", "group",
                     "having", "relations"}
  BY DEF NewSelect
<1> HIDE DEF c, n, J
<1>3. DOMAIN u = DOMAIN n /\ u.joins = J /\ \A f \in DOMAIN n : f # "joins" => u[f] = n[f]
  BY <1>2
<1>4. /\ u.table = "persons" /\ u.distinct = FALSE /\ u.joins = J
      /\ u.where = {} /\ u.order = <<>> /\ u.offset = -1 /\ u.group = FALSE /\ u.having = {}
      /\ DOMAIN u = {"table", "distinct", "joins", "where", "order", "limit", "offset", "group",
                     "having", "relations"}
  BY <1>2, <1>3
<1> HIDE DEF u
<1>5. /\ DOMAIN v = DOMAIN u
      /\ \A f \in DOMAIN u : f # "relations" => v[f] = u[f]
  BY <1>4 DEF WithRelation
<1> HIDE DEF v
<1> DEFINE z == WithWhere(v, c)
<1>6. DOMAIN z = DOMAIN u /\ z.where = v.where \cup {c} /\ \A f \in DOMAIN u : f # "where" => z[f] = v[f]
  BY <1>4, <1>5 DEF WithWhere
<1> HIDE DEF z
<1>7. WithLimit(z, 1).limit = 1 /\ \A f \in DOMAIN u : f # "limit" => WithLimit(z, 1)[f] = z[f]
  BY <1>4, <1>6 DEF WithLimit
<1>8. ManyToOne(id) = WithLimit(z, 1)
  BY <1>1 DEF z, v, u, n, J
<1>9. v.where = {} /\ z.where = {c}
  BY <1>4, <1>5, <1>6
<1> DEFINE s == ManyToOne(id)
<1>10. s.limit = 1 /\ s.where = {c}
  BY <1>4, <1>6, <1>7, <1>8, <1>9
<1>11. \A f \in DOMAIN u : f \notin {"limit", "where", "relations"} => s[f] = u[f]
  BY <1>5, <1>6, <1>7, <1>8
<1> HIDE DEF s
<1>12. /\ s.table = "persons" /\ s.distinct = FALSE /\ s.joins = J /\ s.order = <<>>
       /\ s.offset = -1 /\ s.group = FALSE /\ s.having = {}
  BY <1>4, <1>11
<1> QED  BY <1>10, <1>12 DEF c, s, J

(* That is one row, or none.                                               *)
LEMMA OwnerSelected ==
  ASSUME NEW d, Tabled(d), NEW id, id \in Ids \cup {NoValue}
  PROVE  Selected(d, ManyToOne(id)) =
           IF id \in DOMAIN d.cars /\ d.cars[id] \in DOMAIN d.persons
             THEN {[id |-> d.cars[id], with |-> id]} ELSE {}
<1> DEFINE s == ManyToOne(id)
           M(i) == {c \in DOMAIN d.cars : d.cars[c] = i}
<1>1. /\ s.table = "persons" /\ s.joins = {Join("cars", "persons")}
      /\ s.where = {Condition("cars", "id", {id})} /\ s.having = {}
  BY ManyToOneIsSelect
<1>2. ASSUME NEW i PROVE Matches(d, s, i) = M(i)
  <2>1. LeftOn(d, Join("cars", "persons"), i) = M(i)
    BY DEF LeftOn, Join
  <2> QED  BY <1>1, <2>1 DEF Matches
<1>3. id # Null
  BY QueriesAssumption DEF Null, NoValue
<1>4. ASSUME NEW r PROVE Value(d, s, r, Condition("cars", "id", {id})) = r.with
  <2>1. Condition("cars", "id", {id}).table # s.table
    BY <1>1 DEF Condition
  <2> DEFINE c == Condition("cars", "id", {id})
  <2> HIDE DEF c, s
  <2>2. c.table # s.table
    BY <2>1 DEF c
  <2>3. Value(d, s, r, c) = r.with
    BY <2>2 DEF Value
  <2> QED  BY <2>3 DEF c
<1>5. Condition("cars", "id", {id}).values = {id}
  BY DEF Condition
<1>6. Selected(d, s) = {r \in Joined(d, s) : r.with = id}
  BY <1>1, <1>4, <1>5 DEF Selected
<1>7. Joined(d, s) = UNION {JoinedWith(i, M(i)) : i \in DOMAIN d.persons}
  <2>1. Joined(d, s) = UNION {JoinedWith(i, Matches(d, s, i)) : i \in DOMAIN d[s.table]}
    BY JoinedIs
  <2>2. d[s.table] = d.persons
    BY <1>1
  <2> HIDE DEF s, M
  <2> QED  BY <1>2, <2>1, <2>2
<1>8. ASSUME NEW i, NEW r \in JoinedWith(i, M(i)), r.with = id
      PROVE  id \in M(i) /\ r = [id |-> i, with |-> id]
  <2>1. M(i) # {}
    BY <1>3, <1>8 DEF JoinedWith
  <2>2. r \in [id : {i}, with : M(i)]
    BY <1>8, <2>1 DEF JoinedWith
  <2> QED  BY <1>8, <2>2
<1>9. ASSUME NEW i, id \in M(i) PROVE [id |-> i, with |-> id] \in JoinedWith(i, M(i))
  BY <1>9 DEF JoinedWith
<1>10. CASE id \in DOMAIN d.cars /\ d.cars[id] \in DOMAIN d.persons
  <2>1. \A i : id \in M(i) <=> i = d.cars[id]
    BY <1>10
  <2> DEFINE z == [id |-> d.cars[id], with |-> id]
  <2>2. z \in Selected(d, s)
    <3>1. z \in JoinedWith(d.cars[id], M(d.cars[id]))
      BY <1>9, <2>1
    <3>2. z \in Joined(d, s)
      BY <1>7, <1>10, <3>1
    <3> QED  BY <1>6, <3>2
  <2>3. ASSUME NEW r \in Selected(d, s) PROVE r = z
    <3>1. PICK i \in DOMAIN d.persons : r \in JoinedWith(i, M(i)) /\ r.with = id
      BY <1>6, <1>7
    <3>2. id \in M(i) /\ r = [id |-> i, with |-> id]
      BY <1>8, <3>1
    <3> QED  BY <2>1, <3>2
  <2> HIDE DEF z, s
  <2>4. Selected(d, s) = {z}
    BY <2>2, <2>3
  <2> QED  BY <1>10, <2>4 DEF z, s
<1>11. CASE ~(id \in DOMAIN d.cars /\ d.cars[id] \in DOMAIN d.persons)
  <2>1. ASSUME NEW r \in Selected(d, s) PROVE FALSE
    <3>1. PICK i \in DOMAIN d.persons : r \in JoinedWith(i, M(i)) /\ r.with = id
      BY <1>6, <1>7
    <3>2. id \in M(i)
      BY <1>8, <3>1
    <3> QED  BY <1>11, <3>2
  <2>2. Selected(d, s) = {}
    BY <2>1
  <2> QED  BY <1>11, <2>2
<1> QED  BY <1>10, <1>11

(* So the relation gives the owner, or nobody.                             *)
LEMMA ManyToOneIs ==
  ASSUME NEW d, Tabled(d), NEW id, id \in Ids \cup {NoValue}, NEW x \in Outcomes(d, ManyToOne(id))
  PROVE  x.ids = IF id \in DOMAIN d.cars /\ d.cars[id] \in DOMAIN d.persons
                   THEN <<d.cars[id]>> ELSE <<>>
<1> DEFINE s == ManyToOne(id)
           S == Selected(d, s)
           found == id \in DOMAIN d.cars /\ d.cars[id] \in DOMAIN d.persons
<1>1. /\ s.group = FALSE /\ s.having = {} /\ s.offset = -1 /\ s.limit = 1 /\ s.distinct = FALSE
      /\ s.table = "persons"
  BY ManyToOneIsSelect
<1>2. PICK q \in Pages(d, s) : x = Rows("persons", q)
  <2>1. ~Throws(s) /\ ~Refused(s)
    BY <1>1 DEF Throws, Refused
  <2> QED  BY <1>1, <2>1 DEF Outcomes
<1>3. Max({s.offset, 0}) = 0
  BY <1>1, MaxOfTwo
<1>4. PICK w \in Arranged(d, s) : q = SubSeq(w, 0 + 1, Min({Len(w), 0 + 1}))
  <2>1. ~(s.limit < 0)
    BY <1>1
  <2> QED  BY <1>1, <1>3, <2>1 DEF Pages
<1>5. PICK v \in SetToSeqs(S) : w = [i \in DOMAIN v |-> v[i].id]
  BY <1>1 DEF Arranged
<1>6. CASE found
  <2>1. S = {[id |-> d.cars[id], with |-> id]}
    BY <1>6, OwnerSelected
  <2> HIDE DEF S
  <2>2. IsFiniteSet(S) /\ Cardinality(S) = 1
    BY <2>1, FS_Singleton
  <2>3. v \in [1 .. 1 -> S]
    BY <1>5, <2>2 DEF SetToSeqs
  <2>4. w = <<d.cars[id]>>
    <3>1. DOMAIN v = 1 .. 1 /\ v[1].id = d.cars[id]
      BY <2>1, <2>3
    <3>2. w = [i \in 1 .. 1 |-> d.cars[id]]
      BY <1>5, <3>1
    <3> QED  BY <3>2
  <2>5. Len(w) = 1 /\ Min({1, 0 + 1}) = 1
    BY <2>4, MinOfTwo
  <2>6. q = <<d.cars[id]>>
    <3>1. q = SubSeq(w, 1, 1)
      BY <1>4, <2>5
    <3>2. /\ q \in Seq({d.cars[id]}) /\ Len(q) = 1 /\ q[1] = w[1]
      <4>1. w \in [1 .. 1 -> {d.cars[id]}]
        BY <2>4
      <4>2. q = Page(1, 0, 1, w)
        <5>1. SubSeq(w, 0 + 1, Min({1, 0 + 1})) = Page(1, 0, 1, w)
          BY <4>1, CutIs
        <5> QED  BY <2>5, <3>1, <5>1
      <4>3. q = [k \in 1 .. 1 |-> w[0 + k]]
        <5>1. PageSize(1, 0, 1) = 1
          BY DEF PageSize, Rest
        <5> QED  BY <4>2, <5>1 DEF Page
      <4> QED  BY <4>1, <4>3
    <3> QED  BY <2>4, <3>2
  <2> QED  BY <1>2, <1>6, <2>6 DEF Rows
<1>7. CASE ~found
  <2>1. S = {}
    BY <1>7, OwnerSelected
  <2> HIDE DEF S
  <2>2. Cardinality(S) = 0
    BY <2>1, FS_EmptySet
  <2>3. DOMAIN v = 1 .. 0
    BY <1>5, <2>2 DEF SetToSeqs
  <2>4. w = <<>>
    BY <1>5, <2>3
  <2>5. Len(w) = 0 /\ Min({0, 0 + 1}) = 0
    BY <2>4, MinOfTwo
  <2>6. q = <<>>
    <3>1. q = SubSeq(w, 1, 0)
      BY <1>4, <2>5
    <3> QED  BY <2>4, <3>1
  <2> QED  BY <1>2, <1>7, <2>6 DEF Rows
<1> QED  BY <1>6, <1>7

(* So a lazy relation gives what is related.                               *)
LEMMA RelationIs ==
  ASSUME NEW d, Tabled(d), NEW m, IsModel(m), NEW rel,
         NEW x \in Outcomes(d, Relation(rel, m.table, m.id))
  PROVE  IsRelated(d, rel, m, x.ids)
<1>1. CASE rel = "one_to_many"
  <2>1. x \in Outcomes(d, OneToMany(m.id))
    BY <1>1 DEF Relation
  <2> QED  BY <1>1, <2>1, OneToManyIs DEF IsRelated
<1>2. CASE rel = "many_to_one"
  <2>1. x \in Outcomes(d, ManyToOne(m.id)) /\ m.id \in Ids \cup {NoValue}
    BY <1>2 DEF Relation, IsModel
  <2> QED  BY <1>2, <2>1, ManyToOneIs DEF IsRelated
<1>3. CASE rel # "one_to_many" /\ rel # "many_to_one"
  BY <1>3 DEF IsRelated
<1> QED  BY <1>1, <1>2, <1>3

(* Only asking for a relation sets such an answer.                         *)
LEMMA RelatedStep == Typed /\ RelatedAsOfNow /\ [Next]_vars => RelatedAsOfNow'
<1> SUFFICES ASSUME Typed, RelatedAsOfNow, [Next]_vars, answer'.status = "related"
             PROVE  IsRelated(db', answer'.rel, answer'.model, answer'.ids)
  BY DEF RelatedAsOfNow
<1>1. CASE New \/ Builds
  <2>1. answer' = Nothing
    BY <1>1 DEF New, Builds, Where, Having, OrderBy, Limit, Offset, GroupByKey, DistinctRows,
                JoinCars, Relate, Build
  <2> QED  BY <2>1 DEF Nothing
<1>2. CASE All \/ First
  <2>1. \E s : answer' \in Outcomes(db, s)
    BY <1>2 DEF All, First
  <2>2. answer'.status \in {"thrown", "refused", "rows"}
    BY <2>1 DEF Outcomes, Thrown, RefusedBy, Rows
  <2> QED  BY <2>2
<1>3. CASE AskRelated
  <2>1. PICK m \in held : \E rel \in m.relations : \E a \in Outcomes(db, Relation(rel, m.table, m.id)) :
          answer' = [status |-> "related", rel |-> rel, model |-> m, ids |-> a.ids]
    BY <1>3 DEF AskRelated
  <2>2. PICK rel \in m.relations : \E a \in Outcomes(db, Relation(rel, m.table, m.id)) :
          answer' = [status |-> "related", rel |-> rel, model |-> m, ids |-> a.ids]
    BY <2>1
  <2>3. PICK a \in Outcomes(db, Relation(rel, m.table, m.id)) :
          answer' = [status |-> "related", rel |-> rel, model |-> m, ids |-> a.ids]
    BY <2>2
  <2>4. IsRelated(db, rel, m, a.ids)
    BY RelationIs DEF Typed
  <2>5. db' = db /\ answer'.rel = rel /\ answer'.model = m /\ answer'.ids = a.ids
    BY <1>3, <2>3 DEF AskRelated
  <2> QED  BY <2>4, <2>5
<1>4. CASE Fill \/ Make \/ UNCHANGED vars
  <2>1. answer' = answer /\ db' = db
    BY <1>4 DEF Fill, Make, vars
  <2> QED  BY <2>1 DEF RelatedAsOfNow
<1>5. CASE Writes
  <2>1. Stores \/ Throw \/ Refuse
    BY <1>5, WritesStore DEF Writes
  <2>2. answer' \in {Nothing, Thrown, RefusedBy}
    BY <2>1 DEF Stores, Write, Throw, Refuse
  <2> QED  BY <2>2 DEF Nothing, Thrown, RefusedBy
<1> QED  BY <1>1, <1>2, <1>3, <1>4, <1>5 DEF Next, Builds, Writes
-----------------------------------------------------------------------------
(* What a step writes is of a real model.                                  *)
NewRowsAreHeld ==
  \A t \in Tables : \A i \in DOMAIN db'[t] :
    i \notin DOMAIN db[t] \/ db'[t][i] # db[t][i] =>
      \E m \in held : /\ ~m.null /\ m.table = t /\ m.data = db'[t][i]
                      /\ i \in DOMAIN db[t] => m.id = i

LEMMA HeldStep == Typed /\ [Next]_vars => NewRowsAreHeld
<1> SUFFICES ASSUME Typed, [Next]_vars PROVE NewRowsAreHeld
  OBVIOUS
<1>1. CASE db' = db
  BY <1>1 DEF NewRowsAreHeld
<1>2. CASE Writes
  <2>1. Stores \/ Throw \/ Refuse
    BY <1>2, WritesStore DEF Writes
  <2>2. CASE Stores
    <3>1. SUFFICES ASSUME NEW t \in Tables, NEW f, Written(t, f), Write([db EXCEPT ![t] = f])
                   PROVE  NewRowsAreHeld
      BY <2>2 DEF Stores
    <3>2. db'[t] = f /\ \A u \in Tables \ {t} : db'[u] = db[u]
      BY <3>1, StoredIs
    <3> QED  BY <3>1, <3>2 DEF NewRowsAreHeld, Written
  <2>3. CASE Throw \/ Refuse
    BY <1>1, <2>3 DEF Throw, Refuse
  <2> QED  BY <2>1, <2>2, <2>3
<1>3. CASE New \/ Builds \/ All \/ First \/ AskRelated \/ Fill \/ Make \/ UNCHANGED vars
  <2>1. db' = db
    BY <1>3 DEF New, Builds, Where, Having, OrderBy, Limit, Offset, GroupByKey, DistinctRows,
                JoinCars, Relate, Build, All, First, AskRelated, Fill, Make, vars
  <2> QED  BY <1>1, <2>1
<1> QED  BY <1>2, <1>3 DEF Next, Builds, Writes

(* delete_() deletes a page.                                               *)
LEMMA PageIsList ==
  ASSUME NEW d, Tabled(d), NEW s, NEW a, Tracks(s, a), ~Throws(s), NEW q \in Pages(d, s)
  PROVE  \E m \in 0 .. Cardinality(Copies(d, a, s.table)) : q \in [1 .. m -> ToSet(q)]
<1> DEFINE n == Cardinality(Copies(d, a, s.table))
           m == PageSize(n, a.offset, a.limit)
<1>1. PICK w \in Arranged(d, s) : q = Page(n, a.offset, a.limit, w)
  BY PagesIs
<1>2. n \in Nat /\ a.offset \in Nat /\ a.limit \in Int
  BY ArrangedIs DEF Tracks
<1>3. m \in Nat /\ (m # 0 => a.offset + m <= n)
  BY <1>2, PageBounds
<1>4. q = [k \in 1 .. m |-> w[a.offset + k]]
  BY <1>1 DEF Page
<1> HIDE DEF n, m
<1>5. m \in 0 .. n
  BY <1>2, <1>3
<1>6. q \in [1 .. m -> ToSet(q)]
  <2>1. DOMAIN q = 1 .. m /\ q = [k \in 1 .. m |-> q[k]]
    BY <1>4
  <2>2. \A k \in 1 .. m : q[k] \in ToSet(q)
    BY <2>1 DEF ToSet
  <2> QED  BY <2>1, <2>2
<1> QED  BY <1>5, <1>6 DEF n

DeletesAPage ==
  LET t == select.table
      gone == DOMAIN db[t] \ DOMAIN db'[t]
  IN  \E q \in SeqOf(gone, Cardinality(Copies(db, asked, t))) :
        ToSet(q) = gone /\ AskedPage(db, asked, t, q)

LEMMA DeleteStep == Habits = {} /\ Typed /\ DeleteSelected /\ db' # db => DeletesAPage
<1> SUFFICES ASSUME Habits = {}, Typed, DeleteSelected, db' # db PROVE DeletesAPage
  OBVIOUS
<1> DEFINE t == select.table
           n == Cardinality(Copies(db, asked, t))
<1>0. Tabled(db) /\ Tracks(select, asked) /\ t \in Tables
  BY DEF Typed, Follows, Tracks
<1>1. PICK x \in Outcomes(db, select) :
        x.status = "rows" /\ Write([db EXCEPT ![x.table] = Without(@, ToSet(x.ids))])
  BY DEF DeleteSelected, Throw, Refuse
<1>2. /\ x.table = t /\ AskedPage(db, asked, t, x.ids) /\ ToSet(x.ids) \subseteq DOMAIN db[t]
  BY <1>0, <1>1, OutcomeIsAsked
<1>3. PICK q \in Pages(db, select) : x = Rows(t, q)
  BY <1>1 DEF Outcomes, Thrown, RefusedBy
<1>4. ~Throws(select) /\ x.ids = q
  BY <1>1, <1>3 DEF Outcomes, Thrown, Rows
<1>5. PICK m \in 0 .. n : q \in [1 .. m -> ToSet(q)]
  BY <1>0, <1>4, PageIsList
<1>6. db'[t] = Without(db[t], ToSet(q))
  <2>1. Write([db EXCEPT ![t] = Without(db[t], ToSet(q))])
    BY <1>1, <1>2, <1>4 DEF Write
  <2>2. Written(t, Without(db[t], ToSet(q)))
    BY <1>0, DeleteWrites
  <2> QED  BY <1>0, <2>1, <2>2, StoredIs
<1>7. DOMAIN db[t] \ DOMAIN db'[t] = ToSet(q)
  <2>1. DOMAIN db'[t] = DOMAIN db[t] \ ToSet(q)
    BY <1>6 DEF Without
  <2> QED  BY <1>2, <1>4, <2>1
<1>8. q \in SeqOf(ToSet(q), n)
  BY <1>5 DEF SeqOf
<1> QED  BY <1>2, <1>4, <1>7, <1>8 DEF DeletesAPage
-----------------------------------------------------------------------------
(* Typed is stronger than what TLC checks of the types.                    *)
LEMMA TypedIsTypeOK == Typed => TypeOK
<1> SUFFICES ASSUME Typed PROVE TypeOK
  OBVIOUS
<1>1. \A t \in Tables : /\ DOMAIN db[t] \subseteq Ids
                        /\ \A i \in DOMAIN db[t] : db[t][i] \in Names \cup Ids \cup {Null, NoValue}
  BY TableIs DEF Typed, Data
<1>2. \A l \in db.links : l.persons \in Ids /\ l.cars \in Ids
  BY DEF Typed, Tabled
<1>3. \A m \in held : /\ m.id \in Ids \cup {NoValue}
                      /\ m.data \in Names \cup Ids \cup {NoValue}
                      /\ m.relations \subseteq Relations(m.table)
  BY DEF Typed, IsModel
<1>4. select.table \in Tables /\ select.limit >= -1 /\ select.offset >= -1
  BY DEF Typed, Follows, Tracks
<1> QED  BY <1>1, <1>2, <1>3, <1>4 DEF TypeOK, Typed

(* A program keeps to the types, whatever it finds in the database.        *)
LEMMA AlwaysTyped == Spec => []Typed
<1>1. Init => Typed
  BY TypedFirst
<1>2. Typed /\ [Next]_vars => Typed'
  BY TypedStep
<1> QED  BY <1>1, <1>2, PTL DEF Spec

(* Every row and every model is of its type, and no field of a model is    *)
(* NULL (model.h, conditions.h).                                           *)
THEOREM ModelsAreTyped == Spec => []TypeOK
BY AlwaysTyped, TypedIsTypeOK, PTL

(* In a program that does not call first() on a Select with another limit, *)
(* nor offset(0) on one with an offset, a query answers all the calls made *)
(* on the Select, in whatever order they came and however often it ran     *)
(* before: a page of the rows that pass every condition, in order          *)
(* (select.h).                                                             *)
THEOREM QueriesAnswer == Habits = {} => (Spec => []AnswerIsAsked)
<1> SUFFICES ASSUME Habits = {} PROVE Spec => []AnswerIsAsked
  OBVIOUS
<1>1. Init => AnswerIsAsked
  BY DEF Init, AnswerIsAsked, Nothing
<1>2. Typed /\ AnswerIsAsked /\ [Next]_vars => AnswerIsAsked'
  BY AskedStep
<1> QED  BY <1>1, <1>2, AlwaysTyped, PTL DEF Spec

(* A lazy relation of a person gives the cars that name it as owner, one   *)
(* of a car its owner or nobody, as of the moment it is asked for          *)
(* (select.h: one_to_many, many_to_one).                                   *)
THEOREM RelationsAreFresh == Spec => []RelatedAsOfNow
<1>1. Init => RelatedAsOfNow
  BY DEF Init, RelatedAsOfNow, Nothing
<1>2. Typed /\ RelatedAsOfNow /\ [Next]_vars => RelatedAsOfNow'
  BY RelatedStep
<1> QED  BY <1>1, <1>2, AlwaysTyped, PTL DEF Spec

(* No statement writes what a null-model holds, nor to the row whose key   *)
(* it happens to have (insert.h, update.h: is_null).                       *)
THEOREM NullModelsAreRefused == Spec => NullModelsStayOut
<1>1. Typed /\ [Next]_vars => [NewRowsAreHeld]_vars
  BY HeldStep
<1>2. Spec => [][NewRowsAreHeld]_vars
  BY <1>1, AlwaysTyped, PTL DEF Spec
<1> QED  BY <1>2 DEF NullModelsStayOut, NewRowsAreHeld

(* delete_() of a Select deletes the rows of a page that the calls on it   *)
(* ask for, in a program without those two habits (select.h: delete_).     *)
THEOREM DeletesThePage == Habits = {} => (Spec => DeletesWhatItSelects)
<1> SUFFICES ASSUME Habits = {} PROVE Spec => DeletesWhatItSelects
  OBVIOUS
<1>1. Typed => [DeleteSelected /\ db' # db => DeletesAPage]_vars
  BY DeleteStep
<1>2. Spec => [][DeleteSelected /\ db' # db => DeletesAPage]_vars
  BY <1>1, AlwaysTyped, PTL
<1> QED  BY <1>2 DEF DeletesWhatItSelects, DeletesAPage
==============================================================================
