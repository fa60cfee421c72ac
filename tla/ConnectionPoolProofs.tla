------------------------ MODULE ConnectionPoolProofs ------------------------
(***************************************************************************)
(* For any number of threads and connections: the pool keeps its types,    *)
(* a connection is in one place, none is lost, every step of the pool is a *)
(* step of ConnectionLease, and no wake-up is lost.                        *)
(***************************************************************************)
EXTENDS ConnectionPool, TLAPS, FiniteSetTheorems

Distinct(s) == \A i, j \in 1 .. Len(s) : s[i] = s[j] => i = j

(* The head of a queue that is not empty is one of its elements. *)
LEMMA HeadIn ==
  ASSUME NEW S, NEW s \in Seq(S), s # <<>>
  PROVE  Head(s) \in ToSet(s) /\ Head(s) \in S
BY DEF ToSet

(* Popping a queue without repetitions removes exactly its head. *)
LEMMA TailOfDistinct ==
  ASSUME NEW S, NEW s \in Seq(S), s # <<>>, Distinct(s)
  PROVE  /\ Tail(s) \in Seq(S)
         /\ Distinct(Tail(s))
         /\ ToSet(Tail(s)) = ToSet(s) \ {Head(s)}
<1>1. /\ Tail(s) \in Seq(S)
      /\ Len(Tail(s)) = Len(s) - 1
      /\ \A i \in 1 .. Len(s) - 1 : Tail(s)[i] = s[i + 1]
      /\ Len(s) \in Nat \ {0}
  OBVIOUS
<1>2. Distinct(Tail(s))
  BY <1>1 DEF Distinct
<1>3. ToSet(Tail(s)) \subseteq ToSet(s) \ {Head(s)}
  BY <1>1 DEF Distinct, ToSet
<1>4. ASSUME NEW x \in ToSet(s), x # Head(s)
      PROVE  x \in ToSet(Tail(s))
  <2>1. PICK i \in 1 .. Len(s) : s[i] = x
    BY DEF ToSet
  <2>2. i - 1 \in 1 .. Len(s) - 1 /\ Tail(s)[i - 1] = x
    BY <1>1, <1>4, <2>1
  <2>3. DOMAIN Tail(s) = 1 .. Len(s) - 1
    BY <1>1
  <2> QED  BY <2>2, <2>3 DEF ToSet
<1> QED  BY <1>1, <1>2, <1>3, <1>4

(* Pushing an element adds it, and repeats nothing if it is new. *)
LEMMA AppendIsUnion ==
  ASSUME NEW S, NEW s \in Seq(S), NEW x \in S
  PROVE  /\ Append(s, x) \in Seq(S)
         /\ ToSet(Append(s, x)) = ToSet(s) \cup {x}
         /\ Distinct(s) /\ x \notin ToSet(s) => Distinct(Append(s, x))
<1>1. /\ Append(s, x) \in Seq(S)
      /\ Len(Append(s, x)) = Len(s) + 1
      /\ \A i \in 1 .. Len(s) : Append(s, x)[i] = s[i]
      /\ Append(s, x)[Len(s) + 1] = x
      /\ Len(s) \in Nat
  OBVIOUS
<1>2. ToSet(Append(s, x)) \subseteq ToSet(s) \cup {x}
  BY <1>1 DEF ToSet
<1>3. ToSet(s) \cup {x} \subseteq ToSet(Append(s, x))
  <2>1. x \in ToSet(Append(s, x))
    BY <1>1 DEF ToSet
  <2>2. ASSUME NEW y \in ToSet(s) PROVE y \in ToSet(Append(s, x))
    <3>1. PICK i \in 1 .. Len(s) : s[i] = y
      BY DEF ToSet
    <3> QED  BY <1>1, <3>1 DEF ToSet
  <2> QED  BY <2>1, <2>2
<1>4. Distinct(s) /\ x \notin ToSet(s) => Distinct(Append(s, x))
  BY <1>1 DEF Distinct, ToSet
<1> QED  BY <1>1, <1>2, <1>3, <1>4
-----------------------------------------------------------------------------
(* The mutex excludes: a thread inside a critical section owns it. *)
MutexOwned == \A t \in Threads : pc[t] \in Critical => mutex = t

(* What a thread has seen under the mutex still holds while it owns it. *)
FrontSeen ==
    \A t \in Threads :
      /\ pc[t] \in {"front", "pop"} => pool # <<>>
      /\ pc[t] = "pop" => conn[t] = Head(pool)

(* A wrapper gives back only what it holds. *)
ReleasesOwn == \A t \in Threads : pc[t] \in {"releasing", "push"} => conn[t] \in held[t]

(* Before create_pool there is nothing to hold. *)
NothingYet == created = "no" => stocked = {}

(* The properties are not inductive by themselves: a pop that is due must  *)
(* find the head its thread has read, and a push must bring back what its  *)
(* thread holds.  Both follow from the mutex.                              *)
IInv ==
    /\ TypeOK
    /\ MutexOwned
    /\ FrontSeen
    /\ ReleasesOwn
    /\ NothingYet
    /\ ExclusiveLease
    /\ NothingLost

(* An empty pool, with nobody inside, satisfies the invariant. *)
LEMMA InitIInv == Init => IInv
BY PoolAssumption
   DEF Init, IInv, TypeOK, PCs, Critical, Blocked, Connections, MutexOwned,
       FrontSeen, ReleasesOwn, NothingYet, ExclusiveLease, NothingLost, ToSet

(* The queue create_pool fills repeats nothing, and nothing was leased. *)
LEMMA CreatePoolKeepsIInv == IInv /\ CreatePool => IInv'
<1> SUFFICES ASSUME IInv, CreatePool PROVE IInv'
  OBVIOUS
<1> USE PoolAssumption DEF IInv
<1>1. PICK n \in 0 .. PoolSize :
        /\ created' = IF n = PoolSize THEN "yes" ELSE "failed"
        /\ stocked' = 1 .. n
        /\ pool' = [i \in 1 .. n |-> i]
        /\ UNCHANGED <<mutex, pc, conn, held, gets, spurious>>
  BY DEF CreatePool
<1>2. stocked = {} /\ \A t \in Threads : held[t] = {}
  <2>1. stocked = {}
    BY DEF CreatePool, NothingYet
  <2>2. UNION {held[t] : t \in Threads} = {}
    BY <2>1 DEF NothingLost
  <2> QED  BY <2>1, <2>2, Zenon
<1>3. pool = <<>>
  <2>1. ToSet(pool) = {}
    BY <1>2 DEF NothingLost
  <2>2. pool \in Seq(Connections)
    BY DEF TypeOK
  <2>3. pool # <<>> => Head(pool) \in ToSet(pool)
    BY <2>2, HeadIn
  <2> QED  BY <2>1, <2>3
<1>4. pool' \in Seq(Connections) /\ Len(pool') = n /\ ToSet(pool') = 1 .. n
  BY <1>1 DEF Connections, ToSet
<1>5. TypeOK'
  BY <1>1, <1>4 DEF TypeOK, Connections
<1>6. MutexOwned' /\ ReleasesOwn' /\ NothingYet'
  BY <1>1 DEF MutexOwned, ReleasesOwn, NothingYet
<1>7. FrontSeen'
  BY <1>1, <1>3 DEF FrontSeen
<1>8. ExclusiveLease'
  BY <1>1, <1>2, <1>4 DEF ExclusiveLease
<1>9. NothingLost'
  BY <1>1, <1>2, <1>4 DEF NothingLost
<1> QED  BY <1>5, <1>6, <1>7, <1>8, <1>9

(* Steps that neither move a connection nor change what a wrapper holds. *)
LEMMA ControlKeepsIInv ==
  ASSUME IInv, NEW t \in Threads,
         \/ CallGet(t) \/ SpuriousWake(t) \/ Lock(t)
         \/ Wait(t) \/ Proceed(t) \/ Notify(t)
  PROVE  IInv'
<1> USE PoolAssumption DEF IInv, Goto
<1>1. UNCHANGED <<stocked, pool, conn, held>> /\ UNCHANGED created
  BY DEF CallGet, SpuriousWake, Lock, Wait, Proceed, Notify
<1>2. /\ NothingYet' /\ ExclusiveLease' /\ NothingLost'
  BY <1>1 DEF NothingYet, ExclusiveLease, NothingLost
<1>3. CASE CallGet(t) \/ SpuriousWake(t)
  <2>1. pc' \in [Threads -> PCs] /\ mutex' = mutex
    BY <1>3 DEF CallGet, SpuriousWake, TypeOK, PCs, Blocked
  <2>4. gets' \in [Threads -> Nat] /\ spurious' \in Nat
    <3>1. CASE CallGet(t)
      <4>1. gets \in [Threads -> Nat] /\ gets' = [gets EXCEPT ![t] = @ + 1]
        BY <3>1 DEF CallGet, TypeOK
      <4>2. spurious' \in Nat
        BY <3>1 DEF CallGet, TypeOK
      <4> QED  BY <4>1, <4>2
    <3>2. CASE SpuriousWake(t)
      BY <3>2 DEF SpuriousWake, TypeOK
    <3> QED  BY <1>3, <3>1, <3>2
  <2>2. MutexOwned' /\ FrontSeen' /\ ReleasesOwn'
    BY <1>3, <1>1 DEF CallGet, SpuriousWake, TypeOK, PCs, Blocked, Critical,
                      MutexOwned, FrontSeen, ReleasesOwn
  <2>3. TypeOK'
    BY <2>1, <2>4, <1>1 DEF TypeOK
  <2> QED  BY <2>3, <2>2, <1>2
<1>4. CASE Lock(t)
  <2>1. TypeOK'
    BY <1>4, <1>1 DEF Lock, TypeOK, PCs, Critical
  <2>2. MutexOwned'
    BY <1>4 DEF Lock, TypeOK, MutexOwned
  <2>3. FrontSeen' /\ ReleasesOwn'
    BY <1>4, <1>1 DEF Lock, TypeOK, FrontSeen, ReleasesOwn
  <2> QED  BY <2>1, <2>2, <2>3, <1>2
<1>5. CASE Wait(t)
  <2>1. TypeOK'
    BY <1>5, <1>1 DEF Wait, TypeOK, PCs
  <2>2. MutexOwned'
    BY <1>5 DEF Wait, TypeOK, Critical, MutexOwned
  <2>3. FrontSeen' /\ ReleasesOwn'
    BY <1>5, <1>1 DEF Wait, TypeOK, FrontSeen, ReleasesOwn
  <2> QED  BY <2>1, <2>2, <2>3, <1>2
<1>6. CASE Proceed(t)
  <2>1. TypeOK'
    BY <1>6, <1>1 DEF Proceed, TypeOK, PCs, Critical
  <2>2. MutexOwned'
    BY <1>6 DEF Proceed, TypeOK, Critical, MutexOwned
  <2>3. FrontSeen' /\ ReleasesOwn'
    BY <1>6, <1>1 DEF Proceed, TypeOK, FrontSeen, ReleasesOwn
  <2> QED  BY <2>1, <2>2, <2>3, <1>2
<1>7. CASE Notify(t)
  <2>1. \A u \in Threads : pc'[u] # pc[u] => pc'[u] \in {"idle", "woken"}
    BY <1>7 DEF Notify, Sleepers, TypeOK
  <2>2. /\ pc' \in [Threads -> PCs]
        /\ UNCHANGED <<mutex, gets, spurious>>
    BY <1>7 DEF Notify, Sleepers, TypeOK, PCs, Blocked
  <2>3. TypeOK'
    BY <2>2, <1>1 DEF TypeOK
  <2>4. MutexOwned' /\ FrontSeen' /\ ReleasesOwn'
    BY <2>1, <2>2, <1>1 DEF Critical, MutexOwned, FrontSeen, ReleasesOwn
  <2> QED  BY <2>3, <2>4, <1>2
<1> QED  BY <1>3, <1>4, <1>5, <1>6, <1>7

(* front: the thread reads the head it is going to pop. *)
LEMMA TakeFrontKeepsIInv == ASSUME IInv, NEW t \in Threads, TakeFront(t) PROVE IInv'
<1> USE PoolAssumption DEF IInv, Goto
<1>1. pool # <<>> /\ mutex = t
  BY DEF TakeFront, FrontSeen, MutexOwned, Critical
<1>2. Head(pool) \in Connections
  BY <1>1, HeadIn DEF TypeOK
<1>3. TypeOK'
  BY <1>2 DEF TakeFront, TypeOK, PCs, Critical
<1>4. MutexOwned' /\ NothingYet' /\ ExclusiveLease' /\ NothingLost'
  BY DEF TakeFront, TypeOK, Critical, MutexOwned, NothingYet, ExclusiveLease, NothingLost
<1>5. FrontSeen' /\ ReleasesOwn'
  BY <1>1 DEF TakeFront, TypeOK, FrontSeen, ReleasesOwn
<1> QED  BY <1>3, <1>4, <1>5

(* pop: the head leaves the queue for the hands of one thread.  Others are *)
(* outside their critical sections, for they do not own the mutex.         *)
LEMMA PopKeepsIInv == ASSUME IInv, NEW t \in Threads, Pop(t) PROVE IInv'
<1> USE PoolAssumption DEF IInv, Goto
<1> DEFINE c == conn[t]
<1>1. pool # <<>> /\ c = Head(pool) /\ mutex = t
  BY DEF Pop, FrontSeen, MutexOwned, Critical
<1>2. pool \in Seq(Connections) /\ Distinct(pool)
  BY DEF TypeOK, ExclusiveLease, Distinct
<1>3. c \in ToSet(pool) /\ c \in Connections
  BY <1>1, <1>2, HeadIn
<1>4. /\ pool' \in Seq(Connections)
      /\ Distinct(pool')
      /\ ToSet(pool') = ToSet(pool) \ {c}
  BY <1>1, <1>2, TailOfDistinct DEF Pop
<1>5. \A u \in Threads : held'[u] = IF u = t THEN held[u] \cup {c} ELSE held[u]
  BY DEF Pop, TypeOK
<1>6. TypeOK'
  BY <1>3, <1>4 DEF Pop, TypeOK, PCs
<1>7. MutexOwned'
  BY DEF Pop, TypeOK, Critical, MutexOwned
<1>8. \A u \in Threads : u # t => pc'[u] = pc[u] /\ pc[u] \notin Critical
  BY <1>1 DEF Pop, TypeOK, MutexOwned
<1>9. FrontSeen' /\ ReleasesOwn'
  <2>1. pc'[t] = "idle" /\ conn' = conn
    BY DEF Pop, TypeOK
  <2>2. FrontSeen'
    BY <1>8, <2>1 DEF FrontSeen, Critical
  <2>3. ReleasesOwn'
    BY <1>5, <1>8, <2>1 DEF ReleasesOwn, Critical
  <2> QED  BY <2>2, <2>3
<1>10. NothingYet'
  BY DEF Pop, NothingYet
<1>11. ExclusiveLease'
  <2>1. \A i, j \in 1 .. Len(pool') : pool'[i] = pool'[j] => i = j
    BY <1>4 DEF Distinct
  <2>2. \A u \in Threads : held'[u] \cap ToSet(pool') = {}
    BY <1>4, <1>5 DEF ExclusiveLease
  <2>3. \A u, w \in Threads : u # w => held'[u] \cap held'[w] = {}
    <3>1. \A u \in Threads : c \notin held[u]
      BY <1>3 DEF ExclusiveLease
    <3>2. ASSUME NEW u \in Threads, NEW w \in Threads, u # w
          PROVE  held'[u] \cap held'[w] = {}
      <4>1. held[u] \cap held[w] = {}
        BY <3>2 DEF ExclusiveLease
      <4> QED  BY <3>1, <3>2, <4>1, <1>5
    <3> QED  BY <3>2
  <2> QED  BY <2>1, <2>2, <2>3 DEF ExclusiveLease
<1>12. NothingLost'
  <2>1. (UNION {held'[u] : u \in Threads}) = (UNION {held[u] : u \in Threads}) \cup {c}
    BY <1>5
  <2>2. stocked = ToSet(pool) \cup UNION {held[u] : u \in Threads}
    BY DEF NothingLost
  <2>3. stocked' = stocked
    BY DEF Pop
  <2> QED  BY <1>3, <1>4, <2>1, <2>2, <2>3 DEF NothingLost
<1> QED  BY <1>6, <1>7, <1>9, <1>10, <1>11, <1>12

(* A wrapper passes on the connection it holds. *)
LEMMA CallReleaseKeepsIInv ==
  ASSUME IInv, NEW t \in Threads, NEW c \in Connections, CallRelease(t, c)
  PROVE  IInv'
<1> USE PoolAssumption DEF IInv, Goto
<1>1. TypeOK'
  BY DEF CallRelease, TypeOK, PCs, Blocked
<1>2. MutexOwned' /\ NothingYet' /\ ExclusiveLease' /\ NothingLost'
  BY DEF CallRelease, TypeOK, Critical, MutexOwned, NothingYet, ExclusiveLease, NothingLost
<1>3. FrontSeen' /\ ReleasesOwn'
  BY DEF CallRelease, TypeOK, FrontSeen, ReleasesOwn
<1> QED  BY <1>1, <1>2, <1>3

(* push: the connection leaves its thread's hands for the queue. *)
LEMMA PushKeepsIInv == ASSUME IInv, NEW t \in Threads, Push(t) PROVE IInv'
<1> USE PoolAssumption DEF IInv, Goto
<1> DEFINE c == conn[t]
<1>1. c \in held[t] /\ mutex = t
  BY DEF Push, ReleasesOwn, MutexOwned, Critical
<1>2. pool \in Seq(Connections) /\ Distinct(pool) /\ c \in Connections /\ c \notin ToSet(pool)
  BY <1>1 DEF TypeOK, ExclusiveLease, Distinct
<1>3. /\ pool' \in Seq(Connections)
      /\ Distinct(pool')
      /\ ToSet(pool') = ToSet(pool) \cup {c}
  BY <1>2, AppendIsUnion DEF Push
<1>4. \A u \in Threads : held'[u] = IF u = t THEN held[u] \ {c} ELSE held[u]
  BY DEF Push, TypeOK
<1>5. TypeOK'
  BY <1>3 DEF Push, TypeOK, PCs
<1>6. MutexOwned'
  BY DEF Push, TypeOK, Critical, MutexOwned
<1>7. \A u \in Threads : u # t => pc'[u] = pc[u] /\ pc[u] \notin Critical
  BY <1>1 DEF Push, TypeOK, MutexOwned
<1>8. FrontSeen' /\ ReleasesOwn'
  <2>1. pc'[t] = "notify" /\ conn' = conn
    BY DEF Push, TypeOK
  <2>2. FrontSeen'
    BY <1>7, <2>1 DEF FrontSeen, Critical
  <2>3. ReleasesOwn'
    BY <1>4, <1>7, <2>1 DEF ReleasesOwn, Critical
  <2> QED  BY <2>2, <2>3
<1>9. NothingYet'
  BY DEF Push, NothingYet
<1>10. ExclusiveLease'
  <2>1. \A i, j \in 1 .. Len(pool') : pool'[i] = pool'[j] => i = j
    BY <1>3 DEF Distinct
  <2>2. \A u \in Threads : held'[u] \cap ToSet(pool') = {}
    <3>1. \A u \in Threads : u # t => c \notin held[u]
      BY <1>1 DEF ExclusiveLease
    <3>2. ASSUME NEW u \in Threads
          PROVE  held'[u] \cap ToSet(pool') = {}
      <4>1. held[u] \cap ToSet(pool) = {}
        BY DEF ExclusiveLease
      <4> QED  BY <3>1, <4>1, <1>3, <1>4
    <3> QED  BY <3>2
  <2>3. \A u, w \in Threads : u # w => held'[u] \cap held'[w] = {}
    BY <1>4 DEF ExclusiveLease
  <2> QED  BY <2>1, <2>2, <2>3 DEF ExclusiveLease
<1>11. NothingLost'
  <2>1. (UNION {held'[u] : u \in Threads}) \cup {c} = UNION {held[u] : u \in Threads}
    BY <1>1, <1>4
  <2>2. stocked = ToSet(pool) \cup UNION {held[u] : u \in Threads}
    BY DEF NothingLost
  <2>3. stocked' = stocked
    BY DEF Push
  <2> QED  BY <1>3, <2>1, <2>2, <2>3 DEF NothingLost
<1> QED  BY <1>5, <1>6, <1>8, <1>9, <1>10, <1>11

(* The invariant of the pool is inductive. *)
LEMMA NextKeepsIInv == IInv /\ [Next]_vars => IInv'
<1> SUFFICES ASSUME IInv, [Next]_vars PROVE IInv'
  OBVIOUS
<1>1. CASE CreatePool
  BY <1>1, CreatePoolKeepsIInv
<1>2. ASSUME NEW t \in Threads, CallGet(t) \/ SpuriousWake(t) \/ Inside(t)
      PROVE  IInv'
  BY <1>2, ControlKeepsIInv, TakeFrontKeepsIInv, PopKeepsIInv,
     CallReleaseKeepsIInv, PushKeepsIInv DEF Inside
<1>3. CASE Stop \/ UNCHANGED vars
  <2>1. UNCHANGED vars
    BY <1>3 DEF Stop
  <2>2. TypeOK'
    BY <2>1 DEF IInv, TypeOK, vars
  <2>3. MutexOwned' /\ FrontSeen' /\ ReleasesOwn' /\ NothingYet'
    BY <2>1 DEF IInv, MutexOwned, FrontSeen, ReleasesOwn, NothingYet, vars
  <2>4. ExclusiveLease' /\ NothingLost'
    BY <2>1 DEF IInv, ExclusiveLease, NothingLost, vars
  <2> QED  BY <2>2, <2>3, <2>4 DEF IInv
<1> QED  BY <1>1, <1>2, <1>3 DEF Next

(* Every reachable state of the pool satisfies the inductive invariant. *)
THEOREM Invariance == Spec => []IInv
BY InitIInv, NextKeepsIInv, PTL DEF Spec

(* Every variable of the pool keeps its type. *)
THEOREM TypeCorrect == Spec => []TypeOK
<1>1. IInv => TypeOK
  BY DEF IInv
<1> QED  BY <1>1, Invariance, PTL

(* For any number of threads, no two of them share a session: the          *)
(* connection get_connection returns is in nobody else's hands, nor in the *)
(* queue (backend.cpp:25-44).                                              *)
THEOREM Exclusive == Spec => []ExclusiveLease
<1>1. IInv => ExclusiveLease
  BY DEF IInv
<1> QED  BY <1>1, Invariance, PTL

(* No connection create_pool opened leaves the pool for good. *)
THEOREM Conservation == Spec => []NothingLost
<1>1. IInv => NothingLost
  BY DEF IInv
<1> QED  BY <1>1, Invariance, PTL
-----------------------------------------------------------------------------
(* The pool implements the lease: a pop leases the connection at the head. *)
LEMMA PopIsLease ==
  ASSUME IInv, NEW t \in Threads, Pop(t)
  PROVE  Lease!Lease(t, conn[t]) /\ conn[t] \in Connections
<1>1. pool # <<>> /\ conn[t] = Head(pool)
  BY DEF Pop, IInv, FrontSeen
<1>2. pool \in Seq(Connections) /\ Distinct(pool)
  BY DEF IInv, TypeOK, ExclusiveLease, Distinct
<1>3. conn[t] \in ToSet(pool) /\ conn[t] \in Connections
  BY <1>1, <1>2, HeadIn
<1>4. ToSet(pool') = ToSet(pool) \ {conn[t]}
  BY <1>1, <1>2, TailOfDistinct DEF Pop
<1> QED  BY <1>3, <1>4 DEF Pop, Lease!Lease

(* A push is the return of the connection the wrapper gave back. *)
LEMMA PushIsReturn ==
  ASSUME IInv, NEW t \in Threads, Push(t)
  PROVE  Lease!Return(t, conn[t]) /\ conn[t] \in Connections
<1>1. conn[t] \in held[t]
  BY DEF Push, IInv, ReleasesOwn
<1>2. pool \in Seq(Connections) /\ conn[t] \in Connections
  BY <1>1 DEF IInv, TypeOK
<1>3. ToSet(pool') = ToSet(pool) \cup {conn[t]}
  BY <1>2, AppendIsUnion DEF Push
<1> QED  BY <1>1, <1>2, <1>3 DEF Push, Lease!Return

(* create_pool stocks the connections it has opened. *)
LEMMA CreatePoolIsStock ==
  IInv /\ CreatePool => \E S \in SUBSET (1 .. PoolSize) : Lease!Stock(S)
<1> SUFFICES ASSUME IInv, CreatePool
             PROVE  \E S \in SUBSET (1 .. PoolSize) : Lease!Stock(S)
  OBVIOUS
<1>1. PICK n \in 0 .. PoolSize :
        stocked' = 1 .. n /\ pool' = [i \in 1 .. n |-> i] /\ held' = held
  BY DEF CreatePool
<1>2. stocked = {}
  BY DEF CreatePool, IInv, NothingYet
<1>3. ToSet(pool') = 1 .. n
  BY <1>1 DEF ToSet
<1>4. 1 .. n \in SUBSET (1 .. PoolSize)
  BY PoolAssumption
<1>5. Lease!Stock(1 .. n)
  BY <1>1, <1>2, <1>3 DEF Lease!Stock
<1> QED  BY <1>4, <1>5

(* The steps that move no connection are invisible to the lease. *)
LEMMA StepIsLeaseStep == IInv /\ [Next]_vars => [Lease!Next]_Lease!vars
<1> SUFFICES ASSUME IInv, [Next]_vars PROVE [Lease!Next]_Lease!vars
  OBVIOUS
<1>1. CASE CreatePool
  BY <1>1, CreatePoolIsStock DEF Lease!Next, Lease!Connections
<1>2. ASSUME NEW t \in Threads, Pop(t) PROVE Lease!Next
  BY <1>2, PopIsLease DEF Lease!Next, Lease!Connections, Connections
<1>3. ASSUME NEW t \in Threads, Push(t) PROVE Lease!Next
  BY <1>3, PushIsReturn DEF Lease!Next, Lease!Connections, Connections
<1>4. ASSUME NEW t \in Threads,
             \/ CallGet(t) \/ SpuriousWake(t) \/ Lock(t) \/ Wait(t)
             \/ Proceed(t) \/ TakeFront(t) \/ Notify(t)
             \/ \E c \in Connections : CallRelease(t, c)
      PROVE  UNCHANGED <<stocked, pool, held>>
  BY <1>4 DEF CallGet, SpuriousWake, Lock, Wait, Proceed, TakeFront, Notify, CallRelease
<1>5. CASE Stop \/ UNCHANGED vars
  BY <1>5 DEF Stop, vars, Lease!vars
<1>6. UNCHANGED <<stocked, pool, held>> => UNCHANGED Lease!vars
  BY DEF Lease!vars
<1> QED  BY <1>1, <1>2, <1>3, <1>4, <1>5, <1>6 DEF Next, Inside

(* What a backend does, seen through its queue and its wrappers only, is   *)
(* what ConnectionLease allows: leases and returns, each in one step.      *)
THEOREM ImplementsLease == Spec => LeaseSpec
<1>1. Init => Lease!Init
  BY DEF Init, Lease!Init, ToSet
<1> QED  BY <1>1, InitIInv, NextKeepsIInv, StepIsLeaseStep, PTL DEF Spec, LeaseSpec, Lease!Spec
-----------------------------------------------------------------------------
(* No wake-up is lost, for any finite number of threads, provided          *)
(* create_pool comes first.  The notification is sent outside the mutex,   *)
(* so this is an argument by counting: every connection that lies in the   *)
(* queue next to a sleeper is matched by a thread on its way to take one   *)
(* or to wake a taker.                                                     *)

(* Before create_pool nobody is inside: nobody can be asleep. *)
NobodyEarly == created = "no" => \A t \in Threads : pc[t] = "idle"

WInv == IInv /\ NobodyEarly /\ NoSleeperLeftBehind

(* One thread more on the way, and one more in the count. *)
LEMMA JoiningCounts ==
  ASSUME IsFiniteSet(Threads), NEW t \in Threads,
         t \notin OnTheWay, OnTheWay' = OnTheWay \cup {t}
  PROVE  /\ Cardinality(OnTheWay') = Cardinality(OnTheWay) + 1
         /\ Cardinality(OnTheWay) \in Nat
<1>1. IsFiniteSet(OnTheWay)
  BY FS_Subset DEF OnTheWay
<1> QED  BY <1>1, FS_AddElement, FS_CardinalityType

(* One thread less on the way, and one less in the count. *)
LEMMA LeavingCounts ==
  ASSUME IsFiniteSet(Threads), NEW t \in OnTheWay, OnTheWay' = OnTheWay \ {t}
  PROVE  /\ Cardinality(OnTheWay') = Cardinality(OnTheWay) - 1
         /\ Cardinality(OnTheWay) \in Nat
<1>1. IsFiniteSet(OnTheWay)
  BY FS_Subset DEF OnTheWay
<1> QED  BY <1>1, FS_RemoveElement, FS_CardinalityType

(* A thread that moves between places on the way, or between places off    *)
(* it, changes nothing as long as the queue stays.                         *)
LEMMA StayingCounts ==
  ASSUME NoSleeperLeftBehind, OnTheWay' = OnTheWay, Len(pool') <= Len(pool),
         Len(pool) \in Nat, Len(pool') \in Nat, IsFiniteSet(Threads),
         Sleepers' # {} => Sleepers # {}
  PROVE  NoSleeperLeftBehind'
<1>1. IsFiniteSet(OnTheWay)
  BY FS_Subset DEF OnTheWay
<1>2. Cardinality(OnTheWay) \in Nat
  BY <1>1, FS_CardinalityType
<1> QED  BY <1>2 DEF NoSleeperLeftBehind

(* An empty queue leaves nobody behind. *)
LEMMA EmptyQueue ==
  ASSUME IsFiniteSet(Threads), pool' = <<>>
  PROVE  NoSleeperLeftBehind'
<1>1. IsFiniteSet(OnTheWay')
  BY FS_Subset DEF OnTheWay
<1>2. Cardinality(OnTheWay') \in Nat
  BY <1>1, FS_CardinalityType
<1> QED  BY <1>2 DEF NoSleeperLeftBehind

(* Threads that wait for the mutex and get it, and threads that wake up by *)
(* themselves, only add to those on the way.                               *)
LEMMA LockAndWakeKeep ==
  ASSUME WInv, IsFiniteSet(Threads), NEW t \in Threads, Lock(t) \/ SpuriousWake(t)
  PROVE  NoSleeperLeftBehind'
<1>1. Len(pool) \in Nat /\ pool' = pool /\ pc \in [Threads -> PCs]
  BY DEF WInv, IInv, TypeOK, Lock, SpuriousWake
<1>2. Sleepers' \subseteq Sleepers
  BY <1>1 DEF Lock, SpuriousWake, Goto, Sleepers, Blocked
<1>3. CASE OnTheWay' = OnTheWay
  BY <1>1, <1>2, <1>3, StayingCounts DEF WInv
<1>4. CASE t \notin OnTheWay /\ OnTheWay' = OnTheWay \cup {t}
  <2>1. Cardinality(OnTheWay') = Cardinality(OnTheWay) + 1 /\ Cardinality(OnTheWay) \in Nat
    BY <1>4, JoiningCounts
  <2> QED  BY <2>1, <1>1, <1>2 DEF WInv, NoSleeperLeftBehind
<1>5. OnTheWay' = OnTheWay \/ (t \notin OnTheWay /\ OnTheWay' = OnTheWay \cup {t})
  <2>1. \A u \in Threads : u # t => pc'[u] = pc[u]
    BY <1>1 DEF Lock, SpuriousWake, Goto
  <2>2. t \in OnTheWay \/ pc[t] \in {"getting", "releasing", "asleep"}
    BY DEF Lock, SpuriousWake, Blocked, OnTheWay
  <2>3. t \in OnTheWay => t \in OnTheWay'
    BY <1>1 DEF Lock, SpuriousWake, Blocked, OnTheWay, Goto
  <2>4. \A u \in Threads : u # t => (u \in OnTheWay <=> u \in OnTheWay')
    BY <2>1 DEF OnTheWay
  <2>5. OnTheWay \subseteq Threads /\ OnTheWay' \subseteq Threads
    BY DEF OnTheWay
  <2> QED  BY <2>2, <2>3, <2>4, <2>5 DEF OnTheWay
<1> QED  BY <1>3, <1>4, <1>5

(* A pop takes one connection from the queue, and one thread from the way. *)
LEMMA PopKeeps ==
  ASSUME WInv, IsFiniteSet(Threads), NEW t \in Threads, Pop(t)
  PROVE  NoSleeperLeftBehind'
<1>1. pc \in [Threads -> PCs] /\ pool \in Seq(Connections) /\ pool # <<>>
  BY DEF WInv, IInv, TypeOK, FrontSeen, Pop
<1>2. Len(pool') = Len(pool) - 1 /\ Len(pool) \in Nat
  BY <1>1 DEF Pop
<1>3. t \in OnTheWay /\ OnTheWay' = OnTheWay \ {t} /\ Sleepers' = Sleepers
  BY <1>1 DEF Pop, Goto, OnTheWay, Sleepers
<1>4. Cardinality(OnTheWay') = Cardinality(OnTheWay) - 1 /\ Cardinality(OnTheWay) \in Nat
  BY <1>3, LeavingCounts
<1> QED  BY <1>2, <1>3, <1>4 DEF WInv, NoSleeperLeftBehind

(* A push adds one connection, and its thread is on the way to notify. *)
LEMMA PushKeeps ==
  ASSUME WInv, IsFiniteSet(Threads), NEW t \in Threads, Push(t)
  PROVE  NoSleeperLeftBehind'
<1>1. pc \in [Threads -> PCs] /\ pool \in Seq(Connections) /\ conn[t] \in Connections
  BY DEF WInv, IInv, TypeOK, ReleasesOwn, Push
<1>2. Len(pool') = Len(pool) + 1 /\ Len(pool) \in Nat
  BY <1>1 DEF Push
<1>3. t \notin OnTheWay /\ OnTheWay' = OnTheWay \cup {t} /\ Sleepers' = Sleepers
  BY <1>1 DEF Push, Goto, OnTheWay, Sleepers
<1>4. Cardinality(OnTheWay') = Cardinality(OnTheWay) + 1 /\ Cardinality(OnTheWay) \in Nat
  BY <1>3, JoiningCounts
<1> QED  BY <1>2, <1>3, <1>4 DEF WInv, NoSleeperLeftBehind

(* A notification takes its sender off the way and puts a sleeper on it;   *)
(* it is lost only when there is no sleeper.                               *)
LEMMA NotifyKeeps ==
  ASSUME WInv, IsFiniteSet(Threads), NEW t \in Threads, Notify(t)
  PROVE  NoSleeperLeftBehind'
<1>1. pc \in [Threads -> PCs] /\ Len(pool) \in Nat /\ pool' = pool /\ pc[t] = "notify"
  BY DEF WInv, IInv, TypeOK, Notify
<1>2. CASE Sleepers = {}
  <2>1. Sleepers' = {}
    BY <1>1, <1>2 DEF Notify, Goto, Sleepers
  <2> QED  BY <2>1 DEF NoSleeperLeftBehind
<1>3. CASE Sleepers # {}
  <2>1. PICK u \in Sleepers : pc' = [pc EXCEPT ![t] = "idle", ![u] = "woken"]
    BY <1>3 DEF Notify
  <2>2. u \in Threads /\ u # t /\ u \notin OnTheWay /\ t \in OnTheWay
    BY <1>1, <2>1 DEF Sleepers, OnTheWay
  <2>3. OnTheWay' = (OnTheWay \ {t}) \cup {u}
    BY <1>1, <2>1, <2>2 DEF OnTheWay
  <2>4. IsFiniteSet(OnTheWay)
    BY FS_Subset DEF OnTheWay
  <2>5. /\ IsFiniteSet(OnTheWay \ {t})
        /\ Cardinality(OnTheWay \ {t}) = Cardinality(OnTheWay) - 1
        /\ Cardinality(OnTheWay) \in Nat
    BY <2>2, <2>4, FS_RemoveElement, FS_CardinalityType
  <2>6. Cardinality(OnTheWay') = Cardinality(OnTheWay)
    <3> DEFINE rest == OnTheWay \ {t}
    <3>1. u \notin rest /\ IsFiniteSet(rest)
      BY <2>2, <2>5
    <3> HIDE DEF rest
    <3>2. Cardinality(rest \cup {u}) = Cardinality(rest) + 1
      BY <3>1, FS_AddElement
    <3> QED  BY <2>3, <2>5, <3>2 DEF rest
  <2> QED  BY <1>1, <1>3, <2>5, <2>6 DEF WInv, NoSleeperLeftBehind
<1> QED  BY <1>2, <1>3

(* A thread falls asleep only next to an empty queue; the steps under the  *)
(* mutex and the calls move no thread onto or off the way.                 *)
LEMMA OthersKeep ==
  ASSUME WInv, IsFiniteSet(Threads), NEW t \in Threads,
         \/ CallGet(t) \/ Wait(t) \/ Proceed(t) \/ TakeFront(t)
         \/ \E c \in Connections : CallRelease(t, c)
  PROVE  NoSleeperLeftBehind'
<1>1. pc \in [Threads -> PCs] /\ Len(pool) \in Nat
  BY DEF WInv, IInv, TypeOK
<1>2. CASE Wait(t)
  BY <1>2, EmptyQueue DEF Wait
<1>3. CASE \/ CallGet(t) \/ Proceed(t) \/ TakeFront(t)
           \/ \E c \in Connections : CallRelease(t, c)
  <2>1. pool' = pool
    BY <1>3 DEF CallGet, Proceed, TakeFront, CallRelease
  <2>2. \/ pc[t] = "idle" /\ pc' = [pc EXCEPT ![t] = "getting"]
        \/ pc[t] = "idle" /\ pc' = [pc EXCEPT ![t] = "releasing"]
        \/ pc[t] = "test" /\ pc' = [pc EXCEPT ![t] = "front"]
        \/ pc[t] = "front" /\ pc' = [pc EXCEPT ![t] = "pop"]
    BY <1>3 DEF CallGet, Proceed, TakeFront, CallRelease, Goto
  <2>3. OnTheWay' = OnTheWay /\ Sleepers' = Sleepers
    BY <1>1, <2>2 DEF OnTheWay, Sleepers
  <2> QED  BY <1>1, <2>1, <2>3, StayingCounts DEF WInv
<1> QED  BY <1>2, <1>3

(* While the pool has not been created, every thread stays outside. *)
LEMMA NobodyEarlyKept ==
  ASSUME WInv, [Next]_vars, EarlyGet = FALSE
  PROVE  NobodyEarly'
<1>1. CASE CreatePool
  BY <1>1, PoolAssumption DEF CreatePool, NobodyEarly
<1>2. ASSUME NEW t \in Threads, CallGet(t) \/ SpuriousWake(t) \/ Inside(t), created' = "no"
      PROVE  FALSE
  <2>1. created = "no" /\ pc[t] = "idle"
    BY <1>2 DEF WInv, NobodyEarly, CallGet, SpuriousWake, Inside, Lock, Wait, Proceed,
                TakeFront, Pop, Push, Notify, CallRelease
  <2>2. held[t] = {}
    BY <2>1 DEF WInv, IInv, NothingYet, NothingLost
  <2> QED  BY <1>2, <2>1, <2>2 DEF CallGet, SpuriousWake, Inside, Lock, Wait, Proceed,
                TakeFront, Pop, Push, Notify, CallRelease, Blocked
<1>3. CASE Stop \/ UNCHANGED vars
  BY <1>3 DEF WInv, NobodyEarly, Stop, vars
<1> QED  BY <1>1, <1>2, <1>3 DEF Next, NobodyEarly

(* Every step keeps the invariant. *)
LEMMA NextKeepsWInv ==
  ASSUME IsFiniteSet(Threads), EarlyGet = FALSE
  PROVE  WInv /\ [Next]_vars => WInv'
<1> SUFFICES ASSUME WInv, [Next]_vars PROVE WInv'
  OBVIOUS
<1>1. IInv' /\ NobodyEarly'
  BY NextKeepsIInv, NobodyEarlyKept DEF WInv
<1>2. CASE CreatePool
  <2>1. Sleepers' = {}
    BY <1>2 DEF CreatePool, WInv, NobodyEarly, Sleepers
  <2> QED  BY <1>1, <2>1 DEF WInv, NoSleeperLeftBehind
<1>3. ASSUME NEW t \in Threads, CallGet(t) \/ SpuriousWake(t) \/ Inside(t)
      PROVE  NoSleeperLeftBehind'
  BY <1>3, LockAndWakeKeep, PopKeeps, PushKeeps, NotifyKeeps, OthersKeep DEF Inside
<1>4. CASE Stop \/ UNCHANGED vars
  BY <1>1, <1>4 DEF WInv, NoSleeperLeftBehind, Sleepers, OnTheWay, Stop, vars
<1> QED  BY <1>1, <1>2, <1>3, <1>4 DEF Next, WInv

(* The notification that release_connection sends after it has unlocked    *)
(* the mutex (backend.cpp:42-43) is enough: no thread sleeps on next to a  *)
(* connection nobody is coming for.                                        *)
THEOREM NoLostWakeUp ==
  ASSUME IsFiniteSet(Threads), EarlyGet = FALSE
  PROVE  Spec => []NoSleeperLeftBehind
<1>1. Init => WInv
  <2>1. Init => NobodyEarly
    BY DEF Init, NobodyEarly
  <2>2. Init => Sleepers = {}
    BY DEF Init, Sleepers
  <2> QED  BY <2>1, <2>2, InitIInv DEF WInv, NoSleeperLeftBehind
<1>2. WInv /\ [Next]_vars => WInv'
  BY NextKeepsWInv
<1>3. WInv => NoSleeperLeftBehind
  BY DEF WInv
<1> QED  BY <1>1, <1>2, <1>3, PTL DEF Spec
=============================================================================
