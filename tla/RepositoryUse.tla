---------------------------- MODULE RepositoryUse ----------------------------
(***************************************************************************)
(* Programs over the ORM: threads with Repository objects, which borrow    *)
(* connections of the pool, lend their raw pointers to Transactions, to    *)
(* queries and to models with lazy relations, and are freed, destroyed,    *)
(* moved, copied and used inside each other's bodies.  The drivers are     *)
(* those of DriverConnection; the pool is the queue that ConnectionPool    *)
(* was shown to be, with a get and a release of one step each.             *)
(*                                                                         *)
(* Nothing in the ORM keeps a program from outliving a pointer.  Habits    *)
(* says what the programs of a run do that does:                           *)
(*   "copy"      copy a Repository that holds a connection                 *)
(*   "assign"    move to, or copy to, one that holds a connection          *)
(*   "reenter"   wrap, open a transaction on, free or move a Repository in *)
(*               the body of its own transaction                           *)
(*   "go_on"     use a Transaction after its commit, or after a call of it *)
(*               has failed                                                *)
(*   "late"      ask a model for a relation when its connection is back    *)
(*   "cold"      start threads before the query builder has been made      *)
(*   "migrate"   read the log of migrations while threads run              *)
(* "tables" is none of the program's: the query of get_table_names fails.  *)
(***************************************************************************)
EXTENDS DriverConnection, FiniteSets

CONSTANTS
    Threads, Main, \* the threads, and the one that starts the others
    Repos,         \* the Repository variables
    Owner,         \* Owner[r]: the thread whose stack r is on
    PoolSize,      \* the connections of the pool
    MaxHeld,       \* MaxHeld[t]: most connections thread t holds at a time
    Habits,        \* see above
    MaxOps,        \* bound: calls in all
    None           \* no Repository

ASSUME RepositoryAssumption ==
    /\ Main \in Threads
    /\ Owner \in [Repos -> Threads]
    /\ PoolSize \in Nat \ {0}
    /\ MaxHeld \in [Threads -> Nat \ {0}]
    /\ Habits \subseteq {"copy", "assign", "reenter", "go_on", "late", "cold", "migrate", "tables"}
    /\ MaxOps \in Nat
    /\ None \notin Repos

Null == 0
Connections == 1 .. PoolSize

VARIABLES
    pool,          \* _connection_pool
    session,       \* session[c]: connection c, see DriverConnection
    repo,          \* repo[r]: [live, bound, conn]; bound: has a backend
    frames,        \* frames[t]: the wraps and transactions t is in, see Frame
    throwing,      \* throwing[t]: an exception is on its way up
    task,          \* task[t]: the call t is making
    kept,          \* kept[t]: the raw pointers of a model with a relation
    builder,       \* the object sql_query_builder owns, 0 for none
    started,       \* do the other threads run?
    acked,         \* writes the program was told are committed
    undone,        \* writes the program was told did not happen
    ops            \* calls so far

resources == <<pool, session, repo>>
program == <<frames, throwing, task, kept>>
outcome == <<acked, undone>>
vars == <<resources, program, builder, started, outcome, ops>>

NoRepo == [live |-> FALSE, bound |-> FALSE, conn |-> Null]
NewRepo == [live |-> TRUE, bound |-> TRUE, conn |-> Null]
NoTask == [kind |-> "none", stage |-> "none", repo |-> None, conn |-> Null, builder |-> 0, op |-> 0]
NoModel == [conn |-> Null, builder |-> 0]

(* The body of a wrap or a transaction; a transaction has the pointers of  *)
(* its Transaction, what became of it, the writes it has pending, and      *)
(* whether the body has moved the Transaction to a variable of its own.    *)
WrapFrame(r) == [kind |-> "wrap", repo |-> r, tr |-> NoModel, fate |-> "open", pending |-> {}, moved |-> FALSE]
TransactionFrame(r, pointers) ==
    [kind |-> "transaction", repo |-> r, tr |-> pointers, fate |-> "open", pending |-> {}, moved |-> FALSE]

Init ==
    /\ pool = [i \in Connections |-> i]
    /\ \E d \in Engines : session = [c \in Connections |-> Fresh(d)]
    /\ repo = [r \in Repos |-> NoRepo]
    /\ frames = [t \in Threads |-> <<>>]
    /\ throwing = [t \in Threads |-> FALSE]
    /\ task = [t \in Threads |-> NoTask]
    /\ kept = [t \in Threads |-> NoModel]
    /\ builder = 0
    /\ started = FALSE
    /\ acked = {} /\ undone = {}
    /\ ops = 0

Free(t) ==
    /\ t = Main \/ started
    /\ task[t] = NoTask
    /\ ~throwing[t]

Mine(t) == {r \in Repos : Owner[r] = t}

(* What the local variables of migrations() and get_table_names() hold. *)
HeldByCall(t) ==
    task[t].conn # Null
      /\ (task[t].kind = "tables" \/ (task[t].kind = "recorder" /\ task[t].stage # "run"))

Held(t) ==
    ({repo[r].conn : r \in Mine(t)} \ {Null}) \cup (IF HeldByCall(t) THEN {task[t].conn} ELSE {})

InTransaction(t, r) ==
    \E i \in DOMAIN frames[t] : frames[t][i].kind = "transaction" /\ frames[t][i].repo = r

Entered(t, r) == \E i \in DOMAIN frames[t] : frames[t][i].repo = r

May(habit) == habit \in Habits
-----------------------------------------------------------------------------
(* Repository objects. *)
Construct(t, r) ==
    /\ Free(t) /\ r \in Mine(t) /\ ~repo[r].live
    /\ repo' = [repo EXCEPT ![r] = NewRepo]
    /\ UNCHANGED <<pool, session, program, builder, started, outcome, ops>>

(* Slip: the pointer is not tested. *)
FreeConnectionUnchecked(r) ==
    /\ pool' = Append(pool, repo[r].conn)
    /\ repo' = [repo EXCEPT ![r].conn = Null]

FreeConnection(r) ==
    IF repo[r].bound /\ repo[r].conn # Null
      THEN /\ pool' = Append(pool, repo[r].conn)
           /\ repo' = [repo EXCEPT ![r].conn = Null]
      ELSE UNCHANGED <<pool, repo>>

(* A call of free_connection by the program. *)
FreeByHand(t, r) ==
    /\ Free(t) /\ r \in Mine(t) /\ repo[r].live
    /\ ~InTransaction(t, r) \/ May("reenter")
    /\ FreeConnection(r)
    /\ UNCHANGED <<session, program, builder, started, outcome, ops>>

Destroy(t, r) ==
    /\ Free(t) /\ r \in Mine(t) /\ repo[r].live /\ ~Entered(t, r)
    /\ repo' = [repo EXCEPT ![r] = NoRepo]
    /\ pool' = IF repo[r].conn = Null THEN pool ELSE Append(pool, repo[r].conn)
    /\ UNCHANGED <<session, program, builder, started, outcome, ops>>

(* Both constructors and both assignments overwrite what is there; the     *)
(* connection of the target is not given back.                             *)
MayOverwrite(t, to) ==
    /\ repo[to].conn # Null => May("assign")
    /\ ~InTransaction(t, to) \/ May("reenter")

(* Slip: the source keeps its connection. *)
MoveKeeps(t, from, to) ==
    /\ Free(t) /\ {from, to} \subseteq Mine(t) /\ from # to
    /\ repo[from].live /\ MayOverwrite(t, to)
    /\ ~InTransaction(t, from) \/ May("reenter")
    /\ repo' = [repo EXCEPT ![to] = repo[from]]
    /\ UNCHANGED <<pool, session, program, builder, started, outcome, ops>>

Move(t, from, to) ==
    /\ Free(t) /\ {from, to} \subseteq Mine(t) /\ from # to
    /\ repo[from].live /\ MayOverwrite(t, to)
    /\ ~InTransaction(t, from) \/ May("reenter")
    /\ repo' = [repo EXCEPT ![to] = repo[from], ![from] = [NoRepo EXCEPT !.live = TRUE]]
    /\ UNCHANGED <<pool, session, program, builder, started, outcome, ops>>

Copy(t, from, to) ==
    /\ Free(t) /\ {from, to} \subseteq Mine(t) /\ from # to
    /\ repo[from].live /\ MayOverwrite(t, to)
    /\ repo[from].conn # Null => May("copy")
    /\ repo' = [repo EXCEPT ![to] = repo[from]]
    /\ UNCHANGED <<pool, session, program, builder, started, outcome, ops>>
-----------------------------------------------------------------------------
(* A call starts: a "query" by select, insert, update or delete_, a        *)
(* "transaction", a "wrap".  Its stages: the connection, if there is none  *)
(* yet; the query builder; the call itself.                                *)
AfterGet(kind) == IF kind \in {"wrap", "tables"} THEN "run" ELSE "test"

Ask(t, r, kind) ==
    /\ Free(t) /\ r \in Mine(t) /\ repo[r].live /\ repo[r].bound
    /\ ops < MaxOps
    /\ kind # "query" => ~InTransaction(t, r) \/ May("reenter")
    /\ repo[r].conn = Null => Cardinality(Held(t)) < MaxHeld[t]
    /\ task' = [task EXCEPT ![t] =
         [kind |-> kind, stage |-> IF repo[r].conn = Null THEN "get" ELSE AfterGet(kind),
          repo |-> r, conn |-> repo[r].conn, builder |-> 0, op |-> ops + 1]]
    /\ ops' = ops + 1
    /\ UNCHANGED <<resources, frames, throwing, kept, builder, started, outcome>>

(* A Repository that was moved from has no backend: check_state throws.    *)
AskMovedFrom(t, r) ==
    /\ Free(t) /\ r \in Mine(t) /\ repo[r].live /\ ~repo[r].bound
    /\ frames[t] # <<>>
    /\ throwing' = [throwing EXCEPT ![t] = TRUE]
    /\ UNCHANGED <<resources, frames, task, kept, builder, started, outcome, ops>>

(* A call through the Transaction of an enclosing body, which the program  *)
(* takes for open.                                                         *)
AskTransaction(t, i) ==
    LET f == frames[t][i]
    IN  /\ Free(t) /\ f.kind = "transaction" /\ ops < MaxOps
        /\ f.fate = "open" \/ May("go_on")
        /\ frames' = [frames EXCEPT ![t][i].fate = "open"]
        /\ task' = [task EXCEPT ![t] =
             [kind |-> "query", stage |-> "run", repo |-> None,
              conn |-> f.tr.conn, builder |-> f.tr.builder, op |-> ops + 1]]
        /\ ops' = ops + 1
        /\ UNCHANGED <<resources, throwing, kept, builder, started, outcome>>

(* applied_migrations() and get_table_names() without a connection: they   *)
(* get one themselves.                                                     *)
AskBackend(t, kind) ==
    /\ Free(t) /\ ops < MaxOps
    /\ Cardinality(Held(t)) < MaxHeld[t]
    /\ kind = "recorder" => ~started \/ May("migrate")
    /\ task' = [task EXCEPT ![t] = [NoTask EXCEPT !.kind = kind, !.stage = "get", !.op = ops + 1]]
    /\ ops' = ops + 1
    /\ UNCHANGED <<resources, frames, throwing, kept, builder, started, outcome>>

(* get_connection; the thread waits while the pool is empty. *)
Get(t) ==
    LET r == task[t].repo
    IN  /\ task[t].stage = "get" /\ pool # <<>>
        /\ pool' = Tail(pool)
        /\ repo' = IF r = None THEN repo ELSE [repo EXCEPT ![r].conn = Head(pool)]
        /\ task' = [task EXCEPT ![t].conn = Head(pool), ![t].stage = AfterGet(task[t].kind)]
        /\ UNCHANGED <<session, frames, throwing, kept, builder, started, outcome, ops>>

(* sql_builder: the test of the pointer, and the making of the object when *)
(* there is none.  Nothing guards the two.                                 *)
AfterBuilder(kind) == IF kind = "recorder" THEN "unwrap" ELSE "run"

(* Slip: the builder is made at every call. *)
TestBuilderAlwaysMakes(t) ==
    /\ task[t].stage = "test"
    /\ task' = [task EXCEPT ![t].stage = "make"]
    /\ UNCHANGED <<resources, frames, throwing, kept, builder, started, outcome, ops>>

TestBuilder(t) ==
    /\ task[t].stage = "test"
    /\ task' = IF builder = 0
                 THEN [task EXCEPT ![t].stage = "make"]
                 ELSE [task EXCEPT ![t].stage = AfterBuilder(task[t].kind), ![t].builder = builder]
    /\ UNCHANGED <<resources, frames, throwing, kept, builder, started, outcome, ops>>

(* The object that was there is freed. *)
MakeBuilder(t) ==
    /\ task[t].stage = "make"
    /\ builder' = builder + 1
    /\ task' = [task EXCEPT ![t].stage = AfterBuilder(task[t].kind), ![t].builder = builder + 1]
    /\ UNCHANGED <<resources, frames, throwing, kept, started, outcome, ops>>

StartThreads ==
    /\ ~started /\ Free(Main)
    /\ builder # 0 \/ May("cold")
    /\ started' = TRUE
    /\ UNCHANGED <<resources, program, builder, outcome, ops>>

(* The wrapper of migrations() is destroyed; the Select keeps the pointer. *)
Unwrap(t) ==
    /\ task[t].stage = "unwrap"
    /\ pool' = Append(pool, task[t].conn)
    /\ task' = [task EXCEPT ![t].stage = "run"]
    /\ UNCHANGED <<session, repo, frames, throwing, kept, builder, started, outcome, ops>>
-----------------------------------------------------------------------------
(* The calls themselves. *)
EnterWrap(t) ==
    /\ task[t].kind = "wrap" /\ task[t].stage = "run"
    /\ frames' = [frames EXCEPT ![t] = Append(@, WrapFrame(task[t].repo))]
    /\ task' = [task EXCEPT ![t] = NoTask]
    /\ UNCHANGED <<resources, throwing, kept, builder, started, outcome, ops>>

Thrown(t, fs) == throwing' \in {[throwing EXCEPT ![t] = b] : b \in IF fs = <<>> THEN {FALSE} ELSE BOOLEAN}

(* The constructor of Transaction begins; when it throws, wrap gives the   *)
(* connection back.                                                        *)
EnterTransaction(t) ==
    LET r == task[t].repo
        c == task[t].conn
        pointers == [conn |-> c, builder |-> task[t].builder]
    IN  /\ task[t].kind = "transaction" /\ task[t].stage = "run"
        /\ \E o \in BeginTransaction(session[c]) :
             /\ session' = [session EXCEPT ![c] = o.s]
             /\ IF o.ok
                  THEN /\ frames' = [frames EXCEPT ![t] = Append(@, TransactionFrame(r, pointers))]
                       /\ UNCHANGED <<pool, repo, throwing>>
                  ELSE /\ FreeConnection(r)
                       /\ Thrown(t, frames[t])
                       /\ UNCHANGED frames
        /\ task' = [task EXCEPT ![t] = NoTask]
        /\ UNCHANGED <<kept, builder, started, outcome, ops>>

(* The open transactions of a thread on a connection. *)
IsOpen(f, c) == f.kind = "transaction" /\ f.tr.conn = c /\ f.fate = "open"
Pending(t, c) == UNION {f.pending : f \in {g \in ToSet(frames[t]) : IsOpen(g, c)}}
Settled(t, c, fate) ==
    [i \in DOMAIN frames[t] |->
       IF IsOpen(frames[t][i], c) THEN [frames[t][i] EXCEPT !.fate = fate, !.pending = {}]
                                  ELSE frames[t][i]]
Written(t, c, writes) ==
    [i \in DOMAIN frames[t] |->
       IF IsOpen(frames[t][i], c) THEN [frames[t][i] EXCEPT !.pending = @ \cup writes]
                                  ELSE frames[t][i]]

(* A statement of a thread has succeeded or failed.  Its writes wait for   *)
(* the commit if the thread has a transaction open on the connection; a    *)
(* failure undoes that transaction.                                        *)
Succeeded(t, c, writes) ==
    /\ IF \E f \in ToSet(frames[t]) : IsOpen(f, c)
         THEN frames' = [frames EXCEPT ![t] = Written(t, c, writes)] /\ UNCHANGED acked
         ELSE acked' = acked \cup writes /\ UNCHANGED frames
    /\ UNCHANGED <<undone, throwing>>

HasFailed(t, c, writes) ==
    /\ undone' = undone \cup writes \cup Pending(t, c)
    /\ frames' = [frames EXCEPT ![t] = Settled(t, c, "undone")]
    /\ Thrown(t, frames[t])
    /\ UNCHANGED acked

(* A query writes a row, or reads a model that has a lazy relation. *)
Query(t) ==
    LET c == task[t].conn
        w == <<task[t].op, 1>>
    IN  /\ task[t].kind = "query" /\ task[t].stage = "run"
        /\ \/ /\ \E o \in RunQuery(<<w>>, session[c]) :
                   /\ session' = [session EXCEPT ![c] = o.s]
                   /\ IF o.ok THEN Succeeded(t, c, {w}) ELSE HasFailed(t, c, {w})
              /\ UNCHANGED kept
           \/ /\ kept' = [kept EXCEPT ![t] = [conn |-> c, builder |-> task[t].builder]]
              /\ session[c].engine \in {"auto", "open"}
              /\ UNCHANGED <<session, frames, throwing, outcome>>
        /\ task' = [task EXCEPT ![t] = NoTask]
        /\ UNCHANGED <<pool, repo, builder, started, ops>>

(* A lazy relation is a Select on the pointers of the one it came from. *)
Relation(t) ==
    LET c == kept[t].conn
    IN  /\ Free(t) /\ ops < MaxOps
        /\ c # Null
        /\ c \in Held(t) \/ May("late")
        /\ ops' = ops + 1
        /\ \E o \in RunQuery(<<<<"SELECT">>>>, session[c]) :
             /\ session' = [session EXCEPT ![c] = o.s]
             /\ IF o.ok THEN Succeeded(t, c, {}) ELSE HasFailed(t, c, {})
        /\ UNCHANGED <<pool, repo, task, kept, builder, started>>

(* applied_migrations runs its query when the connection is in the pool. *)
ReadLog(t) ==
    LET c == task[t].conn
    IN  /\ task[t].kind = "recorder" /\ task[t].stage = "run"
        /\ \E o \in RunQuery(<<<<"SELECT">>>>, session[c]) :
             /\ session' = [session EXCEPT ![c] = o.s]
             /\ IF o.ok THEN UNCHANGED throwing ELSE Thrown(t, frames[t])
        /\ task' = [task EXCEPT ![t] = NoTask]
        /\ UNCHANGED <<pool, repo, frames, kept, builder, started, outcome, ops>>

(* get_table_names gives its connection back unless the query throws. *)
TableNames(t) ==
    LET c == task[t].conn
    IN  /\ task[t].kind = "tables" /\ task[t].stage = "run"
        /\ \E o \in RunQuery(<<<<"SELECT">>>>, session[c]) :
             /\ ~o.ok => May("tables")
             /\ session' = [session EXCEPT ![c] = o.s]
             /\ IF o.ok THEN pool' = Append(pool, c) /\ UNCHANGED throwing
                        ELSE Thrown(t, frames[t]) /\ UNCHANGED pool
        /\ task' = [task EXCEPT ![t] = NoTask]
        /\ UNCHANGED <<repo, frames, kept, builder, started, outcome, ops>>

(* Transaction::commit *)
Commit(t, i) ==
    LET f == frames[t][i]
        c == f.tr.conn
    IN  /\ Free(t) /\ f.kind = "transaction"
        /\ f.fate = "open" \/ May("go_on")
        /\ \E o \in EndTransaction(session[c]) :
             /\ session' = [session EXCEPT ![c] = o.s]
             /\ IF o.ok
                  THEN /\ acked' = acked \cup Pending(t, c)
                       /\ frames' = [frames EXCEPT ![t] = Settled(t, c, "committed")]
                       /\ UNCHANGED <<undone, throwing>>
                  ELSE HasFailed(t, c, {})
        /\ UNCHANGED <<pool, repo, task, kept, builder, started, ops>>

(* Transaction::rollback, called by the body or by the destructor of a     *)
(* copy it has made.                                                       *)
RollBack(t, i) ==
    LET f == frames[t][i]
        c == f.tr.conn
    IN  /\ Free(t) /\ f.kind = "transaction"
        /\ f.fate = "open" \/ May("go_on")
        /\ \E o \in RollbackTransaction(session[c]) :
             /\ session' = [session EXCEPT ![c] = o.s]
             /\ IF o.ok
                  THEN /\ undone' = undone \cup Pending(t, c)
                       /\ frames' = [frames EXCEPT ![t] = Settled(t, c, "undone")]
                       /\ UNCHANGED <<acked, throwing>>
                  ELSE HasFailed(t, c, {})
        /\ UNCHANGED <<pool, repo, task, kept, builder, started, ops>>

(* The body moves the Transaction; the one it was given has no pointers.   *)
MoveTransaction(t, i) ==
    /\ Free(t) /\ frames[t][i].kind = "transaction" /\ ~frames[t][i].moved
    /\ frames' = [frames EXCEPT ![t][i].moved = TRUE]
    /\ UNCHANGED <<resources, throwing, task, kept, builder, started, outcome, ops>>

(* A body throws for reasons of its own. *)
Throw(t) ==
    /\ Free(t) /\ frames[t] # <<>>
    /\ throwing' = [throwing EXCEPT ![t] = TRUE]
    /\ UNCHANGED <<resources, frames, task, kept, builder, started, outcome, ops>>

(* The innermost body ends.  A transaction rolls back, in its handler if   *)
(* the body has thrown, and in the destructor; a Transaction that was      *)
(* moved has but the destructor of the variable it is in, and the rollback *)
(* of the one without pointers throws.  Then wrap gives back the           *)
(* connection the Repository has, if it has one.  An exception goes on to  *)
(* the body around it, which may catch it.                                 *)
LeaveBody(t) ==
    LET f == Last(frames[t])
        c == f.tr.conn
        ends == CASE f.moved -> RollbackTransaction(session[c])
                  [] ~f.moved /\ throwing[t] -> BodyThrew(session[c])
                  [] OTHER -> BodyReturned(session[c])
        rest == Front(frames[t])
    IN  /\ t = Main \/ started
        /\ task[t] = NoTask /\ frames[t] # <<>>
        /\ IF f.kind = "wrap"
             THEN UNCHANGED session
             ELSE \E o \in ends : session' = [session EXCEPT ![c] = o.s]
        /\ FreeConnection(f.repo)
        /\ undone' = undone \cup f.pending
        /\ frames' = [frames EXCEPT ![t] = rest]
        /\ IF throwing[t] \/ f.moved THEN Thrown(t, rest) ELSE UNCHANGED throwing
        /\ UNCHANGED <<task, kept, builder, started, acked, ops>>

ThreadStep(t) ==
    \/ \E r \in Repos :
         \/ Construct(t, r) \/ FreeByHand(t, r) \/ Destroy(t, r) \/ AskMovedFrom(t, r)
         \/ \E kind \in {"query", "transaction", "wrap"} : Ask(t, r, kind)
         \/ \E q \in Repos : Move(t, r, q) \/ Copy(t, r, q)
    \/ \E kind \in {"recorder", "tables"} : AskBackend(t, kind)
    \/ \E i \in DOMAIN frames[t] : AskTransaction(t, i) \/ Commit(t, i) \/ RollBack(t, i) \/ MoveTransaction(t, i)
    \/ Get(t) \/ TestBuilder(t) \/ MakeBuilder(t) \/ Unwrap(t)
    \/ EnterWrap(t) \/ EnterTransaction(t) \/ Query(t) \/ Relation(t) \/ ReadLog(t) \/ TableNames(t)
    \/ Throw(t) \/ LeaveBody(t)

Next == StartThreads \/ \E t \in Threads : ThreadStep(t)

Spec == Init /\ [][Next]_vars
-----------------------------------------------------------------------------
Writes == (1 .. MaxOps) \X {1}
Pointers == [conn : Connections \cup {Null}, builder : Nat]

TypeOK ==
    /\ pool \in Seq(Connections)
    /\ repo \in [Repos -> [live : BOOLEAN, bound : BOOLEAN, conn : Connections \cup {Null}]]
    /\ \A t \in Threads :
         /\ \A i \in DOMAIN frames[t] :
              frames[t][i] \in [kind : {"wrap", "transaction"}, repo : Repos, tr : Pointers,
                                fate : {"open", "committed", "undone"}, pending : SUBSET Writes,
                                moved : BOOLEAN]
         /\ task[t].stage \in {"none", "get", "test", "make", "unwrap", "run"}
         /\ throwing[t] => frames[t] # <<>>
    /\ kept \in [Threads -> Pointers]
    /\ acked \subseteq Writes /\ undone \subseteq Writes
    /\ ops \in 0 .. MaxOps

(* Every connection is in one place, and in one only: the queue, one live  *)
(* Repository, or one call of the backend that has borrowed it.  Whoever   *)
(* has asked for one gives it back, and once (repository.h:29-32,          *)
(* backend.h:61-64).                                                       *)
Places(c) ==
    {<<"pool", i>> : i \in {j \in DOMAIN pool : pool[j] = c}}
      \cup {<<"repo", r>> : r \in {q \in Repos : repo[q].conn = c}}
      \cup {<<"call", t>> : t \in {u \in Threads : HeldByCall(u) /\ task[u].conn = c}}

InOnePlace == \A c \in Connections : Cardinality(Places(c)) = 1

(* A thread that gets a connection finds no transaction of another's on    *)
(* it, whichever bodies were left by exceptions on the way.                *)
CleanHandover ==
    \A i \in DOMAIN pool : ~session[pool[i]].flag /\ session[pool[i]].engine = "auto"

Database == UNION {session[c].db : c \in Connections}

(* What a call of a Repository outside of a transaction, or a commit, has  *)
(* reported as done is in the database and stays there, whatever bodies    *)
(* of other threads, or around it, do afterwards.                          *)
Durable == acked \subseteq Database

(* Nothing of a body that did not commit is in the database, then or       *)
(* later, though the body also writes through its Repository.              *)
NoResidue == undone \cap Database = {}

(* The raw pointers to the query builder, in queries being built and in    *)
(* transactions, are to the object that the backend still owns.            *)
BuilderAlive ==
    \A t \in Threads :
      /\ task[t].builder \in {0, builder}
      /\ \A f \in ToSet(frames[t]) : f.kind = "transaction" => f.tr.builder = builder
      /\ kept[t].builder \in {0, builder}
=============================================================================
