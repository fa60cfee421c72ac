--------------------------- MODULE ConnectionPool ---------------------------
(***************************************************************************)
(* The connection pool of DefaultSQLBackend (src/backend.cpp): a queue of  *)
(* open connections behind one mutex and one condition variable.  A thread *)
(* takes a connection with get_connection, which sleeps while the queue is *)
(* empty, and gives it back with release_connection, which notifies one    *)
(* sleeper after it has unlocked the mutex.                                *)
(*                                                                         *)
(* Each step below is what a thread does between two points where another  *)
(* thread can be scheduled.  Threads reach the pool through a              *)
(* ConnectionWrapper (src/interfaces.h), which asks for its connection on  *)
(* first use and returns it when it is destroyed; a thread may be inside   *)
(* several wrappers at once.                                               *)
(***************************************************************************)
EXTENDS Integers, FiniteSets, SequencesExt

CONSTANTS
    Threads,       \* the threads that use the backend
    PoolSize,      \* _pool_size
    MaxHeld,       \* MaxHeld[t]: most connections thread t holds at a time
    MaxGets,       \* bound: calls of get_connection per thread
    MaxSpurious,   \* bound: spurious wake-ups of the condition variable
    EarlyGet,      \* may a thread call get_connection before create_pool?
    Nobody         \* the owner of an unlocked mutex

ASSUME PoolAssumption ==
    /\ PoolSize \in Nat \ {0}
    /\ MaxHeld \in [Threads -> Nat \ {0}]
    /\ MaxGets \in Nat
    /\ MaxSpurious \in Nat
    /\ EarlyGet \in BOOLEAN
    /\ Nobody \notin Threads

Connections == 1 .. PoolSize

VARIABLES
    created,       \* "no" | "yes" | "failed": what became of create_pool
    stocked,       \* the connections create_pool has opened
    pool,          \* _connection_pool
    mutex,         \* the owner of _mutex
    pc,            \* pc[t]: where thread t stands
    conn,          \* conn[t]: the local variable or argument `connection'
    held,          \* held[t]: the connections of t's live wrappers
    gets,          \* gets[t]: calls of get_connection thread t has made
    spurious       \* spurious wake-ups so far

vars == <<created, stocked, pool, mutex, pc, conn, held, gets, spurious>>

(* The program counters of a thread that owns the mutex, and of one that   *)
(* waits for it.                                                           *)
Critical == {"test", "front", "pop", "push"}
Blocked == {"getting", "woken", "releasing"}
PCs == {"idle", "asleep", "notify"} \cup Critical \cup Blocked

Init ==
    /\ created = "no"
    /\ stocked = {}
    /\ pool = <<>>
    /\ mutex = Nobody
    /\ pc = [t \in Threads |-> "idle"]
    /\ conn = [t \in Threads |-> 0]
    /\ held = [t \in Threads |-> {}]
    /\ gets = [t \in Threads |-> 0]
    /\ spurious = 0

Goto(t, l) == pc' = [pc EXCEPT ![t] = l]

(* create_pool holds the mutex throughout, so it is one step for the rest. *)
(* A builder that throws leaves the connections it had already made.       *)
CreatePool ==
    /\ created = "no"
    /\ mutex = Nobody
    /\ \E n \in 0 .. PoolSize :
         /\ created' = IF n = PoolSize THEN "yes" ELSE "failed"
         /\ stocked' = 1 .. n
         /\ pool' = [i \in 1 .. n |-> i]
    /\ UNCHANGED <<mutex, pc, conn, held, gets, spurious>>

(* A wrapper that has no connection yet asks for one. *)
CallGet(t) ==
    /\ created = "yes" \/ (EarlyGet /\ created = "no")
    /\ pc[t] = "idle"
    /\ gets[t] < MaxGets
    /\ Cardinality(held[t]) < MaxHeld[t]
    /\ Goto(t, "getting")
    /\ gets' = [gets EXCEPT ![t] = @ + 1]
    /\ UNCHANGED <<created, stocked, pool, mutex, conn, held, spurious>>

(* Slip: the mutex is taken without regard to its owner. *)
LockUnguarded(t) ==
    /\ pc[t] \in Blocked
    /\ mutex' = t
    /\ Goto(t, IF pc[t] = "releasing" THEN "push" ELSE "test")
    /\ UNCHANGED <<created, stocked, pool, conn, held, gets, spurious>>

(* The thread gets the mutex: on entry to either function, or to come back *)
(* from condition.wait.                                                    *)
Lock(t) ==
    /\ pc[t] \in Blocked
    /\ mutex = Nobody
    /\ mutex' = t
    /\ Goto(t, IF pc[t] = "releasing" THEN "push" ELSE "test")
    /\ UNCHANGED <<created, stocked, pool, conn, held, gets, spurious>>

(* Slip: the loop spins with the mutex locked instead of waiting. *)
WaitSpins(t) ==
    /\ pc[t] = "test"
    /\ pool = <<>>
    /\ UNCHANGED vars

(* while (pool.empty()) wait(lock): unlocking and falling asleep is one    *)
(* step, as the standard has it.                                           *)
Wait(t) ==
    /\ pc[t] = "test"
    /\ pool = <<>>
    /\ mutex' = Nobody
    /\ Goto(t, "asleep")
    /\ UNCHANGED <<created, stocked, pool, conn, held, gets, spurious>>

Proceed(t) ==
    /\ pc[t] = "test"
    /\ pool # <<>>
    /\ Goto(t, "front")
    /\ UNCHANGED <<created, stocked, pool, mutex, conn, held, gets, spurious>>

TakeFront(t) ==
    /\ pc[t] = "front"
    /\ conn' = [conn EXCEPT ![t] = Head(pool)]
    /\ Goto(t, "pop")
    /\ UNCHANGED <<created, stocked, pool, mutex, held, gets, spurious>>

(* Slip: the caller is handed everything the queue holds. *)
PopDrains(t) ==
    /\ pc[t] = "pop"
    /\ pool' = <<>>
    /\ held' = [held EXCEPT ![t] = @ \cup ToSet(pool)]
    /\ mutex' = Nobody
    /\ Goto(t, "idle")
    /\ UNCHANGED <<created, stocked, conn, gets, spurious>>

(* pop, then return: the lock object unlocks the mutex on the way out. *)
Pop(t) ==
    /\ pc[t] = "pop"
    /\ pool' = Tail(pool)
    /\ held' = [held EXCEPT ![t] = @ \cup {conn[t]}]
    /\ mutex' = Nobody
    /\ Goto(t, "idle")
    /\ UNCHANGED <<created, stocked, conn, gets, spurious>>

SpuriousWake(t) ==
    /\ pc[t] = "asleep"
    /\ spurious < MaxSpurious
    /\ spurious' = spurious + 1
    /\ Goto(t, "woken")
    /\ UNCHANGED <<created, stocked, pool, mutex, conn, held, gets>>

(* Slip: the wrapper forgets its pointer before it passes it on. *)
CallReleaseNulled(t, c) ==
    /\ pc[t] = "idle"
    /\ c \in held[t]
    /\ conn' = [conn EXCEPT ![t] = 0]
    /\ Goto(t, "releasing")
    /\ UNCHANGED <<created, stocked, pool, mutex, held, gets, spurious>>

(* A wrapper that has a connection is released or destroyed. *)
CallRelease(t, c) ==
    /\ pc[t] = "idle"
    /\ c \in held[t]
    /\ conn' = [conn EXCEPT ![t] = c]
    /\ Goto(t, "releasing")
    /\ UNCHANGED <<created, stocked, pool, mutex, held, gets, spurious>>

(* Slip: the connection is dropped instead of pushed. *)
PushForgets(t) ==
    /\ pc[t] = "push"
    /\ held' = [held EXCEPT ![t] = @ \ {conn[t]}]
    /\ mutex' = Nobody
    /\ Goto(t, "notify")
    /\ UNCHANGED <<created, stocked, pool, conn, gets, spurious>>

Push(t) ==
    /\ pc[t] = "push"
    /\ pool' = Append(pool, conn[t])
    /\ held' = [held EXCEPT ![t] = @ \ {conn[t]}]
    /\ mutex' = Nobody
    /\ Goto(t, "notify")
    /\ UNCHANGED <<created, stocked, conn, gets, spurious>>

Sleepers == {t \in Threads : pc[t] = "asleep"}

(* Slip: release_connection returns without notifying. *)
NotifyNobody(t) ==
    /\ pc[t] = "notify"
    /\ Goto(t, "idle")
    /\ UNCHANGED <<created, stocked, pool, mutex, conn, held, gets, spurious>>

(* notify_one, after the mutex was unlocked: it wakes any one sleeper, or  *)
(* is lost when there is none.                                             *)
Notify(t) ==
    /\ pc[t] = "notify"
    /\ IF Sleepers = {}
         THEN Goto(t, "idle")
         ELSE \E u \in Sleepers :
                pc' = [pc EXCEPT ![t] = "idle", ![u] = "woken"]
    /\ UNCHANGED <<created, stocked, pool, mutex, conn, held, gets, spurious>>

(* The steps a thread takes once it is inside the backend, and the release *)
(* its wrapper's destructor is bound to make.                              *)
Inside(t) ==
    \/ Lock(t) \/ Wait(t) \/ Proceed(t) \/ TakeFront(t) \/ Pop(t)
    \/ Push(t) \/ Notify(t)
    \/ \E c \in Connections : CallRelease(t, c)

(* Every call the bound allows has been made and every wrapper is gone, or *)
(* create_pool threw: the program stops there.                             *)
Finished ==
    /\ created = "failed" \/ \A t \in Threads : gets[t] = MaxGets
    /\ \A t \in Threads : pc[t] = "idle" /\ held[t] = {}

Stop == Finished /\ UNCHANGED vars

Next ==
    \/ CreatePool
    \/ \E t \in Threads : CallGet(t) \/ SpuriousWake(t) \/ Inside(t)
    \/ Stop

Spec == Init /\ [][Next]_vars

(* create_pool is called, and a thread that can run does.  Nothing makes a *)
(* thread call get_connection, and nothing makes a wake-up spurious.       *)
Fairness ==
    /\ WF_vars(CreatePool)
    /\ \A t \in Threads : WF_vars(Inside(t))

FairSpec == Spec /\ Fairness
-----------------------------------------------------------------------------
TypeOK ==
    /\ created \in {"no", "yes", "failed"}
    /\ stocked \in SUBSET Connections
    /\ pool \in Seq(Connections)
    /\ mutex \in Threads \cup {Nobody}
    /\ pc \in [Threads -> PCs]
    /\ conn \in [Threads -> Connections \cup {0}]
    /\ held \in [Threads -> SUBSET Connections]
    /\ gets \in [Threads -> Nat]
    /\ spurious \in Nat

(* A connection is in one place: once in the queue, or in the hands of one *)
(* thread.  Were front and pop of two threads, or a push, to interleave,   *)
(* two threads would talk over the same session (backend.cpp:27-44).       *)
ExclusiveLease ==
    /\ \A i, j \in 1 .. Len(pool) : pool[i] = pool[j] => i = j
    /\ \A t \in Threads : held[t] \cap ToSet(pool) = {}
    /\ \A t, u \in Threads : t # u => held[t] \cap held[u] = {}

(* No connection create_pool opened is ever lost: it is in the queue or in *)
(* a wrapper that has yet to give it back (backend.h:61-64).               *)
NothingLost ==
    stocked = ToSet(pool) \cup UNION {held[t] : t \in Threads}

(* No wake-up is lost.  While someone sleeps, every connection lying in    *)
(* the queue is accounted for by a thread that is on its way to take one   *)
(* or to wake a taker; were release_connection to notify before it pushes, *)
(* or not at all, a connection could lie next to a thread that sleeps on.  *)
OnTheWay == {t \in Threads : pc[t] \in {"notify", "woken", "test", "front", "pop"}}

NoSleeperLeftBehind ==
    Sleepers # {} => Len(pool) <= Cardinality(OnTheWay)

(* A call of get_connection returns, provided no thread keeps a connection *)
(* while it waits for another (backend.h:56-58).                           *)
EveryGetReturns ==
    \A t \in Threads : pc[t] = "getting" ~> pc[t] = "idle"

(* The pool implements the abstract lease: a thread has a connection from  *)
(* the pop on, and until the push.                                         *)
Lease == INSTANCE ConnectionLease WITH free <- ToSet(pool), leased <- held

LeaseSpec == Lease!Spec
=============================================================================
