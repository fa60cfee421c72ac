-------------------------- MODULE ConnectionLease --------------------------
(***************************************************************************)
(* What DefaultSQLBackend promises of its connections: a connection is     *)
(* either free or leased to one thread; a thread is given a free one in    *)
(* one step, and gives back one of its own in one step.  No lock, no       *)
(* queue, no condition variable: ConnectionPool implements this.           *)
(***************************************************************************)
EXTENDS Naturals

CONSTANTS
    Threads,      \* the threads that use the backend
    PoolSize      \* the number of connections the pool is created with

Connections == 1 .. PoolSize

VARIABLES
    stocked,      \* the connections create_pool has opened
    free,         \* the connections nobody holds
    leased        \* leased[t]: the connections thread t holds

vars == <<stocked, free, leased>>

Init ==
    /\ stocked = {}
    /\ free = {}
    /\ leased = [t \in Threads |-> {}]

(* create_pool opens all connections, or fails having opened some. *)
Stock(S) ==
    /\ stocked = {}
    /\ stocked' = S
    /\ free' = S
    /\ UNCHANGED leased

Lease(t, c) ==
    /\ c \in free
    /\ free' = free \ {c}
    /\ leased' = [leased EXCEPT ![t] = @ \cup {c}]
    /\ UNCHANGED stocked

Return(t, c) ==
    /\ c \in leased[t]
    /\ free' = free \cup {c}
    /\ leased' = [leased EXCEPT ![t] = @ \ {c}]
    /\ UNCHANGED stocked

Next ==
    \/ \E S \in SUBSET Connections : Stock(S)
    \/ \E t \in Threads, c \in Connections : Lease(t, c) \/ Return(t, c)

Spec == Init /\ [][Next]_vars
=============================================================================
