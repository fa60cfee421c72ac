------------------------- MODULE RepositoryUseProofs -------------------------
(***************************************************************************)
(* Programs over the ORM, for any number of threads, connections,          *)
(* Repositories and calls: what a thread does stays with that thread; the  *)
(* query builder that queries and transactions point to is the one the     *)
(* backend owns; and every connection is in one place.  The last is proved *)
(* over one function, holding, from those who can hold a connection to     *)
(* what they hold: a step of the program puts one connection back, takes   *)
(* one, or passes one on, and none of the three duplicates or loses any.   *)
(* From there, the second half of the module follows what is written.      *)
(***************************************************************************)
EXTENDS RepositoryUse, DriverConnectionProofs, FiniteSetTheorems

(* The types.                                                              *)
Frame ==
  [kind : {"wrap", "transaction"}, repo : Repos, tr : Pointers,
   fate : {"open", "committed", "undone"}, pending : SUBSET Writes, moved : BOOLEAN]
Repository == [live : BOOLEAN, bound : BOOLEAN, conn : Connections \cup {Null}]
Call ==
  [kind : {"none", "query", "transaction", "wrap", "recorder", "tables"},
   stage : {"none", "get", "test", "make", "unwrap", "run"},
   repo : Repos \cup {None}, conn : Connections \cup {Null}, builder : Nat, op : 0 .. MaxOps]

Types ==
  /\ pool \in Seq(Connections)
  /\ repo \in [Repos -> Repository]
  /\ frames \in [Threads -> Seq(Frame)]
  /\ throwing \in [Threads -> BOOLEAN]
  /\ task \in [Threads -> Call]
  /\ kept \in [Threads -> Pointers]
  /\ builder \in Nat
  /\ started \in BOOLEAN
  /\ acked \subseteq Writes /\ undone \subseteq Writes
  /\ ops \in 0 .. MaxOps

(* What a thread has to do with: its calls and bodies are on Repositories  *)
(* of its own, a call past its first stage has a connection, and only a    *)
(* body throws.                                                            *)
CallFits(t) ==
  /\ task[t].kind = "none" => task[t] = NoTask
  /\ task[t].kind # "none" => task[t].stage # "none" /\ task[t].op \in 1 .. ops
  /\ task[t].repo # None => task[t].repo \in Mine(t) /\ task[t].kind \in {"query", "transaction", "wrap"}
  /\ task[t].kind \in {"transaction", "wrap"} => task[t].repo # None
  /\ task[t].kind = "query" /\ task[t].repo = None => task[t].stage = "run"
  /\ task[t].stage = "get" => task[t].conn = Null /\ task[t].builder = 0
                              /\ (task[t].repo # None => repo[task[t].repo].conn = Null)
  /\ task[t].stage \in {"test", "make", "unwrap", "run"} => task[t].conn \in Connections
  /\ task[t].kind \in {"wrap", "tables"} => task[t].stage \in {"get", "run"}
  /\ task[t].stage = "unwrap" => task[t].kind = "recorder"

BodiesFit(t) ==
  /\ \A i \in DOMAIN frames[t] :
       /\ frames[t][i].repo \in Mine(t)
       /\ frames[t][i].kind = "transaction" => frames[t][i].tr.conn \in Connections
       /\ frames[t][i].kind = "wrap" => frames[t][i].pending = {}
  /\ throwing[t] => frames[t] # <<>>

Fits == Types /\ \A t \in Threads : CallFits(t) /\ BodiesFit(t)

(* Who can hold a connection, and what each holds: the Repositories, and   *)
(* the calls that have borrowed one.                                       *)
Holders == ({"repo"} \X Repos) \cup ({"call"} \X Threads)
holding ==
  [x \in Holders |->
     IF x[1] = "repo" THEN repo[x[2]].conn
     ELSE IF HeldByCall(x[2]) THEN task[x[2]].conn ELSE Null]

(* No connection is in two places, and none is lost. *)
Apart ==
  /\ \A i, j \in DOMAIN pool : pool[i] = pool[j] => i = j
  /\ \A x, y \in Holders : holding[x] = holding[y] /\ holding[x] # Null => x = y
  /\ \A i \in DOMAIN pool : \A x \in Holders : pool[i] # holding[x]
Somewhere(c) == (\E i \in DOMAIN pool : pool[i] = c) \/ (\E x \in Holders : holding[x] = c)
Placed == Apart /\ \A c \in Connections : Somewhere(c)

(* Only a Repository that has not been destroyed holds a connection, and   *)
(* calls are on such ones.                                                 *)
OnLive ==
  /\ \A r \in Repos : repo[r].conn # Null => repo[r].live
  /\ \A t \in Threads : task[t].repo # None => repo[task[t].repo].live

(* What may become of the connections: one is put back, taken, or passed   *)
(* on.                                                                     *)
Stay == pool' = pool /\ holding' = holding
Put(x) ==
  /\ holding[x] # Null
  /\ pool' = Append(pool, holding[x]) /\ holding' = [holding EXCEPT ![x] = Null]
Take(x) ==
  /\ holding[x] = Null /\ pool # <<>>
  /\ pool' = Tail(pool) /\ holding' = [holding EXCEPT ![x] = Head(pool)]
Pass(x, y) ==
  /\ x # y /\ holding[y] = Null
  /\ pool' = pool /\ holding' = [holding EXCEPT ![y] = holding[x], ![x] = Null]

(* The builder is made once, before there are other threads: while there   *)
(* are none, only Main has calls; and whoever has a pointer to a builder   *)
(* has it to this one.                                                     *)
BuilderFits(t) ==
  /\ task[t].builder \in {0, builder} /\ kept[t].builder \in {0, builder}
  /\ ~started /\ t # Main => task[t] = NoTask
  /\ task[t].stage = "make" => ~started /\ builder = 0
  /\ task[t].kind = "transaction" /\ task[t].stage = "run" => task[t].builder = builder /\ builder # 0
  /\ \A i \in DOMAIN frames[t] :
       frames[t][i].kind = "transaction" => frames[t][i].tr.builder = builder /\ builder # 0

MadeOnce == (started => builder # 0) /\ \A t \in Threads : BuilderFits(t)

-----------------------------------------------------------------------------
(* A step of a thread leaves the other threads, and what is on their       *)
(* stacks, alone.                                                          *)
Alone(t) ==
  /\ \A u \in Threads \ {t} :
       /\ task'[u] = task[u] /\ frames'[u] = frames[u]
       /\ throwing'[u] = throwing[u] /\ kept'[u] = kept[u]
  /\ \A r \in Repos \ Mine(t) : repo'[r] = repo[r]

(* free_connection gives back what the Repository has, and touches no      *)
(* other.                                                                  *)
LEMMA FreeConnectionIs ==
  ASSUME Types, NEW r \in Repos, FreeConnection(r)
  PROVE  /\ \A q \in Repos \ {r} : repo'[q] = repo[q]
         /\ repo' \in [Repos -> Repository] /\ pool' \in Seq(Connections)
         /\ IF repo[r].bound /\ repo[r].conn # Null
              THEN repo'[r] = [repo[r] EXCEPT !.conn = Null] /\ pool' = Append(pool, repo[r].conn)
              ELSE repo' = repo /\ pool' = pool
<1>1. CASE repo[r].bound /\ repo[r].conn # Null
  <2>1. repo[r].conn \in Connections
    BY <1>1 DEF Types, Repository
  <2>2. pool' = Append(pool, repo[r].conn) /\ repo' = [repo EXCEPT ![r].conn = Null]
    BY <1>1 DEF FreeConnection
  <2>3. pool' \in Seq(Connections)
    BY <2>1, <2>2 DEF Types
  <2>4. repo'[r] = [repo[r] EXCEPT !.conn = Null] /\ \A q \in Repos \ {r} : repo'[q] = repo[q]
    BY <2>2 DEF Types
  <2>5. repo' \in [Repos -> Repository]
    BY <2>2 DEF Types, Repository
  <2> QED  BY <1>1, <2>2, <2>3, <2>4, <2>5
<1>2. CASE ~(repo[r].bound /\ repo[r].conn # Null)
  <2>1. repo' = repo /\ pool' = pool
    BY <1>2 DEF FreeConnection
  <2> QED  BY <1>2, <2>1 DEF Types
<1> QED  BY <1>1, <1>2

(* What an exception does to the flags of the threads. *)
LEMMA ThrownIs ==
  ASSUME Types, NEW t \in Threads, NEW fs, Thrown(t, fs)
  PROVE  /\ throwing' \in [Threads -> BOOLEAN]
         /\ \A u \in Threads \ {t} : throwing'[u] = throwing[u]
         /\ fs = <<>> => throwing'[t] = FALSE
BY DEF Thrown, Types

(* Every step of a thread stays with that thread. *)
LEMMA Locality ==
  ASSUME Fits, NEW t \in Threads, ThreadStep(t)
  PROVE  Alone(t) /\ started' = started
<1>0. Types /\ CallFits(t) /\ BodiesFit(t)
  BY DEF Fits
<1> USE DEF Alone
<1>1. ASSUME NEW r \in Repos, Construct(t, r) PROVE Alone(t) /\ started' = started
  BY <1>0, <1>1 DEF Construct, Types, program
<1>2. ASSUME NEW r \in Repos, FreeByHand(t, r) PROVE Alone(t) /\ started' = started
  BY <1>0, <1>2, FreeConnectionIs DEF FreeByHand, program, Mine
<1>3. ASSUME NEW r \in Repos, Destroy(t, r) PROVE Alone(t) /\ started' = started
  BY <1>0, <1>3 DEF Destroy, Types, program
<1>4. ASSUME NEW r \in Repos, NEW q \in Repos, Move(t, r, q) \/ Copy(t, r, q) PROVE Alone(t) /\ started' = started
  BY <1>0, <1>4 DEF Move, Copy, Types, program
<1>5. ASSUME NEW r \in Repos, AskMovedFrom(t, r) PROVE Alone(t) /\ started' = started
  BY <1>0, <1>5 DEF AskMovedFrom, Types, resources
<1>6. ASSUME NEW r \in Repos, NEW kind, Ask(t, r, kind) PROVE Alone(t) /\ started' = started
  BY <1>0, <1>6 DEF Ask, Types, resources
<1>7. ASSUME NEW kind, AskBackend(t, kind) PROVE Alone(t) /\ started' = started
  BY <1>0, <1>7 DEF AskBackend, Types, resources
<1>8. ASSUME NEW i \in DOMAIN frames[t], AskTransaction(t, i) \/ MoveTransaction(t, i) PROVE Alone(t) /\ started' = started
  BY <1>0, <1>8 DEF AskTransaction, MoveTransaction, Types, resources
<1>9. ASSUME NEW i \in DOMAIN frames[t], Commit(t, i) \/ RollBack(t, i) PROVE Alone(t) /\ started' = started
  BY <1>0, <1>9, ThrownIs DEF Commit, RollBack, HasFailed, Types
<1>10. ASSUME Get(t) PROVE Alone(t) /\ started' = started
  BY <1>0, <1>10 DEF Get, CallFits, Types
<1>11. ASSUME TestBuilder(t) \/ MakeBuilder(t) \/ Unwrap(t) PROVE Alone(t) /\ started' = started
  BY <1>0, <1>11 DEF TestBuilder, MakeBuilder, Unwrap, Types, resources
<1>12. ASSUME EnterWrap(t) PROVE Alone(t) /\ started' = started
  BY <1>0, <1>12 DEF EnterWrap, Types, resources
<1>13. ASSUME EnterTransaction(t) PROVE Alone(t) /\ started' = started
  <2>1. task[t].repo \in Mine(t) /\ Mine(t) \subseteq Repos
    BY <1>0, <1>13 DEF EnterTransaction, CallFits, Mine
  <2> DEFINE pointers == [conn |-> task[t].conn, builder |-> task[t].builder]
             fs == Append(frames[t], TransactionFrame(task[t].repo, pointers))
  <2>2. /\ task' = [task EXCEPT ![t] = NoTask] /\ kept' = kept /\ started' = started
        /\ \/ frames' = [frames EXCEPT ![t] = fs] /\ repo' = repo /\ throwing' = throwing
           \/ FreeConnection(task[t].repo) /\ Thrown(t, frames[t]) /\ frames' = frames
    <3>1. PICK o \in BeginTransaction(session[task[t].conn]) :
            IF o.ok
              THEN frames' = [frames EXCEPT ![t] = fs] /\ UNCHANGED <<pool, repo, throwing>>
              ELSE FreeConnection(task[t].repo) /\ Thrown(t, frames[t]) /\ UNCHANGED frames
      BY <1>13 DEF EnterTransaction
    <3> HIDE DEF fs
    <3> QED  BY <1>13, <3>1 DEF EnterTransaction
  <2> HIDE DEF fs
  <2>3. CASE frames' = [frames EXCEPT ![t] = fs] /\ repo' = repo /\ throwing' = throwing
    BY <1>0, <2>2, <2>3 DEF Types
  <2>4. CASE FreeConnection(task[t].repo) /\ Thrown(t, frames[t]) /\ frames' = frames
    <3>1. \A q \in Repos \ {task[t].repo} : repo'[q] = repo[q]
      BY <1>0, <2>1, <2>4, FreeConnectionIs
    <3>2. \A u \in Threads \ {t} : throwing'[u] = throwing[u]
      BY <1>0, <2>4, ThrownIs
    <3> QED  BY <1>0, <2>1, <2>2, <2>4, <3>1, <3>2 DEF Types
  <2> QED  BY <2>2, <2>3, <2>4
<1>14. ASSUME Query(t) \/ Relation(t) PROVE Alone(t) /\ started' = started
  BY <1>0, <1>14, ThrownIs DEF Query, Relation, Succeeded, HasFailed, Types, outcome
<1>15. ASSUME ReadLog(t) \/ TableNames(t) PROVE Alone(t) /\ started' = started
  BY <1>0, <1>15, ThrownIs DEF ReadLog, TableNames, Types
<1>16. ASSUME Throw(t) PROVE Alone(t) /\ started' = started
  BY <1>0, <1>16 DEF Throw, Types, resources
<1>17. ASSUME LeaveBody(t) PROVE Alone(t) /\ started' = started
  <2>1. Last(frames[t]).repo \in Mine(t) /\ Mine(t) \subseteq Repos
    BY <1>0, <1>17 DEF LeaveBody, BodiesFit, Last, Mine, Types
  <2> DEFINE rest == Front(frames[t])
  <2>2. /\ task' = task /\ kept' = kept /\ started' = started /\ frames' = [frames EXCEPT ![t] = rest]
        /\ FreeConnection(Last(frames[t]).repo)
        /\ Thrown(t, rest) \/ throwing' = throwing
    BY <1>17 DEF LeaveBody
  <2> HIDE DEF rest
  <2>3. \A q \in Repos \ {Last(frames[t]).repo} : repo'[q] = repo[q]
    BY <1>0, <2>1, <2>2, FreeConnectionIs
  <2>4. \A u \in Threads \ {t} : throwing'[u] = throwing[u]
    BY <1>0, <2>2, ThrownIs
  <2> QED  BY <1>0, <2>1, <2>2, <2>3, <2>4 DEF Types
<1> QED
  BY <1>1, <1>2, <1>3, <1>4, <1>5, <1>6, <1>7, <1>8, <1>9, <1>10, <1>11, <1>12, <1>13,
     <1>14, <1>15, <1>16, <1>17 DEF ThreadStep

(* A call of commit, of rollback or of a query changes what has become of  *)
(* the transactions a thread is in, and what they have pending; never      *)
(* which there are.                                                        *)
Reworked(fs, gs) ==
  /\ gs \in Seq(Frame) /\ Len(gs) = Len(fs)
  /\ \A i \in 1 .. Len(fs) :
       /\ gs[i].kind = fs[i].kind /\ gs[i].repo = fs[i].repo /\ gs[i].tr = fs[i].tr
       /\ fs[i].kind = "wrap" => gs[i] = fs[i]

(* A body whose fate or whose writes change is a body still, of the same   *)
(* kind and on the same Repository.                                        *)
LEMMA FrameChanged ==
  ASSUME NEW f \in Frame, NEW fate \in {"open", "committed", "undone"}, NEW writes \in SUBSET Writes
  PROVE  LET g == [f EXCEPT !.fate = fate, !.pending = {}]
             h == [f EXCEPT !.pending = @ \cup writes]
         IN  /\ g \in Frame /\ g.kind = f.kind /\ g.repo = f.repo /\ g.tr = f.tr
             /\ h \in Frame /\ h.kind = f.kind /\ h.repo = f.repo /\ h.tr = f.tr
BY DEF Frame

(* Bodies changed one by one are reworked. *)
LEMMA ReworkedBy ==
  ASSUME NEW fs \in Seq(Frame), NEW gs, gs = [i \in 1 .. Len(fs) |-> gs[i]],
         \A i \in 1 .. Len(fs) :
           /\ gs[i] \in Frame
           /\ gs[i].kind = fs[i].kind /\ gs[i].repo = fs[i].repo /\ gs[i].tr = fs[i].tr
           /\ fs[i].kind = "wrap" => gs[i] = fs[i]
  PROVE  Reworked(fs, gs)
<1>1. gs \in Seq(Frame) /\ Len(gs) = Len(fs)
  OBVIOUS
<1> QED  BY <1>1 DEF Reworked

(* So are those of a transaction that has ended, *)
LEMMA SettledIs ==
  ASSUME Types, NEW t \in Threads, NEW c, NEW fate \in {"open", "committed", "undone"}
  PROVE  Reworked(frames[t], Settled(t, c, fate))
<1> DEFINE fs == frames[t]
           gs == Settled(t, c, fate)
<1>1. fs \in Seq(Frame) /\ DOMAIN fs = 1 .. Len(fs)
  BY DEF Types
<1>2. ASSUME NEW i \in 1 .. Len(fs)
      PROVE  /\ gs[i] \in Frame
             /\ gs[i].kind = fs[i].kind /\ gs[i].repo = fs[i].repo /\ gs[i].tr = fs[i].tr
             /\ fs[i].kind = "wrap" => gs[i] = fs[i]
  <2>1. fs[i] \in Frame /\ i \in DOMAIN fs
    BY <1>1
  <2>2. CASE IsOpen(fs[i], c)
    BY <2>1, <2>2, FrameChanged DEF IsOpen, Settled
  <2>3. CASE ~IsOpen(fs[i], c)
    BY <2>1, <2>3 DEF Settled
  <2> QED  BY <2>2, <2>3
<1>3. gs = [i \in 1 .. Len(fs) |-> gs[i]]
  BY <1>1 DEF Settled
<1> HIDE DEF fs, gs
<1>4. Reworked(fs, gs)
  BY <1>1, <1>2, <1>3, ReworkedBy
<1> QED  BY <1>4 DEF fs, gs

(* and those of one that has written. *)
LEMMA WrittenIs ==
  ASSUME Types, NEW t \in Threads, NEW c, NEW writes \in SUBSET Writes
  PROVE  Reworked(frames[t], Written(t, c, writes))
<1> DEFINE fs == frames[t]
           gs == Written(t, c, writes)
<1>1. fs \in Seq(Frame) /\ DOMAIN fs = 1 .. Len(fs)
  BY DEF Types
<1>2. ASSUME NEW i \in 1 .. Len(fs)
      PROVE  /\ gs[i] \in Frame
             /\ gs[i].kind = fs[i].kind /\ gs[i].repo = fs[i].repo /\ gs[i].tr = fs[i].tr
             /\ fs[i].kind = "wrap" => gs[i] = fs[i]
  <2>1. fs[i] \in Frame /\ i \in DOMAIN fs
    BY <1>1
  <2>2. CASE IsOpen(fs[i], c)
    BY <2>1, <2>2, FrameChanged DEF IsOpen, Written
  <2>3. CASE ~IsOpen(fs[i], c)
    BY <2>1, <2>3 DEF Written
  <2> QED  BY <2>2, <2>3
<1>3. gs = [i \in 1 .. Len(fs) |-> gs[i]]
  BY <1>1 DEF Written
<1> HIDE DEF fs, gs
<1>4. Reworked(fs, gs)
  BY <1>1, <1>2, <1>3, ReworkedBy
<1> QED  BY <1>4 DEF fs, gs

(* The pending writes are writes. *)
LEMMA PendingTyped ==
  ASSUME Types, NEW t \in Threads, NEW c
  PROVE  Pending(t, c) \subseteq Writes
<1>1. \A f \in ToSet(frames[t]) : f \in Frame
  BY DEF Types, ToSet
<1> QED  BY <1>1 DEF Pending, Frame

(* The outcome of a call, whichever it is. *)
LEMMA SucceededIs ==
  ASSUME Types, NEW t \in Threads, NEW c, NEW writes \in SUBSET Writes, Succeeded(t, c, writes)
  PROVE  /\ undone' = undone /\ throwing' = throwing /\ acked' \subseteq Writes
         /\ frames' \in [Threads -> Seq(Frame)] /\ Reworked(frames[t], frames'[t])
<1>1. frames[t] \in Seq(Frame) /\ Reworked(frames[t], frames[t])
  BY DEF Types, Reworked
<1>2. frames' = [frames EXCEPT ![t] = Written(t, c, writes)] \/ frames' = frames
  BY DEF Succeeded
<1>3. /\ undone' = undone /\ throwing' = throwing
      /\ acked' = acked \/ acked' = acked \cup writes
  BY DEF Succeeded
<1>4. Reworked(frames[t], Written(t, c, writes))
  BY WrittenIs
<1> QED  BY <1>1, <1>2, <1>3, <1>4 DEF Types, Reworked

(* What a failed call leaves behind. *)
LEMMA HasFailedIs ==
  ASSUME Types, NEW t \in Threads, NEW c, NEW writes \in SUBSET Writes, HasFailed(t, c, writes)
  PROVE  /\ undone' \subseteq Writes /\ acked' = acked
         /\ throwing' \in [Threads -> BOOLEAN] /\ (frames[t] = <<>> => throwing'[t] = FALSE)
         /\ frames' \in [Threads -> Seq(Frame)] /\ Reworked(frames[t], frames'[t])
<1>1. Pending(t, c) \subseteq Writes
  BY PendingTyped
<1>2. Reworked(frames[t], Settled(t, c, "undone"))
  BY SettledIs
<1>3. /\ throwing' \in [Threads -> BOOLEAN] /\ (frames[t] = <<>> => throwing'[t] = FALSE)
  BY ThrownIs DEF HasFailed
<1>4. /\ undone' = undone \cup writes \cup Pending(t, c) /\ acked' = acked
      /\ frames' = [frames EXCEPT ![t] = Settled(t, c, "undone")]
  BY DEF HasFailed
<1> QED  BY <1>1, <1>2, <1>3, <1>4 DEF Types, Reworked

-----------------------------------------------------------------------------
(* A thread that makes no call has nothing to fit. *)
LEMMA NoCallFits == \A t \in Threads : task'[t] = NoTask => CallFits(t)'
BY DEF CallFits, NoTask

(* Reworked bodies fit where the old ones did. *)
LEMMA BodiesStillFit ==
  ASSUME Fits, NEW t \in Threads, Reworked(frames[t], frames'[t]), throwing'[t] => frames[t] # <<>>
  PROVE  BodiesFit(t)'
<1> DEFINE fs == frames[t]
           gs == frames'[t]
<1>1. fs \in Seq(Frame) /\ gs \in Seq(Frame) /\ Len(gs) = Len(fs) /\ Len(fs) \in Nat
      /\ DOMAIN fs = 1 .. Len(fs) /\ DOMAIN gs = 1 .. Len(fs)
  BY DEF Fits, Types, Reworked
<1>2. ASSUME NEW i \in 1 .. Len(fs)
      PROVE  /\ gs[i].repo \in Mine(t)
             /\ gs[i].kind = "transaction" => gs[i].tr.conn \in Connections
             /\ gs[i].kind = "wrap" => gs[i].pending = {}
  BY <1>1 DEF Fits, BodiesFit, Reworked
<1>3. Mine(t)' = Mine(t) /\ Connections' = Connections
  BY DEF Mine, Connections
<1>4. throwing'[t] => gs # <<>>
  BY <1>1
<1> HIDE DEF fs
<1> QED  BY <1>1, <1>2, <1>3, <1>4 DEF BodiesFit

(* Bodies left alone are reworked, trivially. *)
LEMMA SameBodies ==
  ASSUME Types, NEW t \in Threads, frames' = frames
  PROVE  Reworked(frames[t], frames'[t])
BY DEF Types, Reworked

(* A step of one thread leaves the calls and bodies of the others fitting. *)
LEMMA OthersFit ==
  ASSUME Fits, NEW t \in Threads, Alone(t), ops' \in Nat, ops <= ops', NEW u \in Threads \ {t}
  PROVE  CallFits(u)' /\ BodiesFit(u)'
<1>1. CallFits(u) /\ BodiesFit(u) /\ ops \in Nat
  BY RepositoryAssumption DEF Fits, Types
<1>2. task'[u] = task[u] /\ frames'[u] = frames[u] /\ throwing'[u] = throwing[u]
      /\ \A r \in Mine(u) : repo'[r] = repo[r]
  BY DEF Alone, Mine
<1>3. CallFits(u)'
  BY <1>1, <1>2 DEF CallFits, Mine
<1> QED  BY <1>1, <1>2, <1>3 DEF BodiesFit, Mine

(* What a thread does with its Repositories when it makes no call. *)
LEMMA ObjectsFit ==
  ASSUME Fits, NEW t \in Threads, NEW r \in Repos, NEW q \in Repos,
         \/ Construct(t, r) \/ FreeByHand(t, r) \/ Destroy(t, r) \/ AskMovedFrom(t, r)
         \/ Move(t, r, q) \/ Copy(t, r, q) \/ Throw(t)
  PROVE  /\ Types' /\ CallFits(t)' /\ BodiesFit(t)' /\ ops' = ops
         /\ task' = task /\ frames' = frames /\ kept' = kept /\ builder' = builder /\ task[t] = NoTask
         /\ session' = session /\ acked' = acked /\ undone' = undone
<1>0. Types
  BY DEF Fits
<1>1. /\ task' = task /\ frames' = frames /\ ops' = ops /\ kept' = kept /\ builder' = builder
      /\ started' = started /\ acked' = acked /\ undone' = undone /\ task[t] = NoTask
      /\ session' = session
  BY DEF Construct, FreeByHand, Destroy, AskMovedFrom, Move, Copy, Throw, Free, program, resources, outcome
<1>2. throwing' = throwing \/ (frames[t] # <<>> /\ throwing' = [throwing EXCEPT ![t] = TRUE])
  BY DEF Construct, FreeByHand, Destroy, AskMovedFrom, Move, Copy, Throw, Free, program
<1>3. repo' \in [Repos -> Repository]
  <2>1. CASE FreeByHand(t, r)
    BY <1>0, <2>1, FreeConnectionIs DEF FreeByHand
  <2>2. CASE AskMovedFrom(t, r) \/ Throw(t)
    BY <1>0, <2>2 DEF AskMovedFrom, Throw, resources, Types
  <2>3. CASE Construct(t, r) \/ Destroy(t, r)
    <3>1. NewRepo \in Repository /\ NoRepo \in Repository
      BY DEF NewRepo, NoRepo, Repository
    <3> QED  BY <1>0, <2>3, <3>1 DEF Construct, Destroy, Types
  <2>4. CASE Move(t, r, q) \/ Copy(t, r, q)
    <3>1. [NoRepo EXCEPT !.live = TRUE] \in Repository
      BY DEF NoRepo, Repository
    <3>2. repo \in [Repos -> Repository]
      BY <1>0 DEF Types
    <3>3. repo[r] \in Repository
      BY <3>2
    <3>4. \/ repo' = [repo EXCEPT ![q] = repo[r], ![r] = [NoRepo EXCEPT !.live = TRUE]]
          \/ repo' = [repo EXCEPT ![q] = repo[r]]
      BY <2>4 DEF Move, Copy
    <3> QED  BY <3>1, <3>2, <3>3, <3>4
  <2> QED  BY <2>1, <2>2, <2>3, <2>4
<1>4. pool' \in Seq(Connections)
  <2>1. CASE FreeByHand(t, r)
    BY <1>0, <2>1, FreeConnectionIs DEF FreeByHand
  <2>2. CASE Destroy(t, r)
    <3>1. repo[r].conn # Null => repo[r].conn \in Connections
      BY <1>0 DEF Types, Repository
    <3> QED  BY <1>0, <2>2, <3>1 DEF Destroy, Types
  <2>3. CASE AskMovedFrom(t, r) \/ Throw(t) \/ Construct(t, r) \/ Move(t, r, q) \/ Copy(t, r, q)
    BY <1>0, <2>3 DEF AskMovedFrom, Throw, Construct, Move, Copy, resources, Types
  <2> QED  BY <2>1, <2>2, <2>3
<1>5. Types'
  BY <1>0, <1>1, <1>2, <1>3, <1>4 DEF Types, Connections, Repository, Frame, Call, Pointers, Writes
<1>6. CallFits(t)'
  BY <1>1, NoCallFits
<1>7. throwing'[t] => frames[t] # <<>>
  BY <1>0, <1>2 DEF Fits, BodiesFit, Types
<1>8. BodiesFit(t)'
  BY <1>0, <1>1, <1>7, SameBodies, BodiesStillFit
<1> QED  BY <1>1, <1>5, <1>6, <1>8

(* A call starts. *)
LEMMA AsksFit ==
  ASSUME Fits, NEW t \in Threads,
         \/ \E r \in Repos : \E kind \in {"query", "transaction", "wrap"} : Ask(t, r, kind)
         \/ \E kind \in {"recorder", "tables"} : AskBackend(t, kind)
         \/ \E i \in DOMAIN frames[t] : AskTransaction(t, i)
  PROVE  /\ Types' /\ CallFits(t)' /\ Reworked(frames[t], frames'[t])
         /\ throwing' = throwing /\ ops' = ops + 1
<1>0. Types /\ ops \in Nat /\ MaxOps \in Nat /\ BodiesFit(t)
  BY RepositoryAssumption DEF Fits, Types
<1>1. CASE \E r \in Repos : \E kind \in {"query", "transaction", "wrap"} : Ask(t, r, kind)
  <2>1. PICK r \in Repos, kind \in {"query", "transaction", "wrap"} : Ask(t, r, kind)
    BY <1>1
  <2> DEFINE z == [kind |-> kind, stage |-> IF repo[r].conn = Null THEN "get" ELSE AfterGet(kind),
                   repo |-> r, conn |-> repo[r].conn, builder |-> 0, op |-> ops + 1]
  <2>2. /\ task' = [task EXCEPT ![t] = z] /\ ops' = ops + 1 /\ ops < MaxOps /\ r \in Mine(t)
        /\ pool' = pool /\ repo' = repo /\ frames' = frames /\ throwing' = throwing /\ kept' = kept
        /\ builder' = builder /\ started' = started /\ acked' = acked /\ undone' = undone
    BY <2>1 DEF Ask, resources, outcome
  <2>3. repo[r].conn \in Connections \cup {Null}
    BY <1>0 DEF Types, Repository
  <2>4. z \in Call
    BY <1>0, <2>2, <2>3 DEF Call, AfterGet
  <2>5. CallFits(t)'
    BY <1>0, <2>2, <2>3, RepositoryAssumption DEF CallFits, AfterGet, Types, Mine
  <2> HIDE DEF z
  <2>6. Types'
    BY <1>0, <2>2, <2>4 DEF Types
  <2> QED  BY <1>0, <2>2, <2>5, <2>6, SameBodies
<1>2. CASE \E kind \in {"recorder", "tables"} : AskBackend(t, kind)
  <2>1. PICK kind \in {"recorder", "tables"} : AskBackend(t, kind)
    BY <1>2
  <2> DEFINE z == [NoTask EXCEPT !.kind = kind, !.stage = "get", !.op = ops + 1]
  <2>2. /\ task' = [task EXCEPT ![t] = z] /\ ops' = ops + 1 /\ ops < MaxOps
        /\ pool' = pool /\ repo' = repo /\ frames' = frames /\ throwing' = throwing /\ kept' = kept
        /\ builder' = builder /\ started' = started /\ acked' = acked /\ undone' = undone
    BY <2>1 DEF AskBackend, resources, outcome
  <2>3. /\ z.kind = kind /\ z.stage = "get" /\ z.repo = None /\ z.conn = Null /\ z.builder = 0
        /\ z.op = ops + 1
    BY DEF NoTask
  <2>4. z \in Call
    <3>1. NoTask \in Call
      BY <1>0 DEF Call, NoTask
    <3>2. ops + 1 \in 0 .. MaxOps
      BY <1>0, <2>2
    <3> QED  BY <3>1, <3>2 DEF Call
  <2> HIDE DEF z
  <2>5. CallFits(t)'
    BY <1>0, <2>2, <2>3 DEF CallFits, Types
  <2>6. Types'
    BY <1>0, <2>2, <2>4 DEF Types
  <2> QED  BY <1>0, <2>2, <2>5, <2>6, SameBodies
<1>3. CASE \E i \in DOMAIN frames[t] : AskTransaction(t, i)
  <2>1. PICK i \in DOMAIN frames[t] : AskTransaction(t, i)
    BY <1>3
  <2> DEFINE f == frames[t][i]
             z == [kind |-> "query", stage |-> "run", repo |-> None,
                   conn |-> f.tr.conn, builder |-> f.tr.builder, op |-> ops + 1]
  <2>2. /\ task' = [task EXCEPT ![t] = z] /\ ops' = ops + 1 /\ ops < MaxOps
        /\ frames' = [frames EXCEPT ![t][i].fate = "open"] /\ f.kind = "transaction"
        /\ pool' = pool /\ repo' = repo /\ throwing' = throwing /\ kept' = kept
        /\ builder' = builder /\ started' = started /\ acked' = acked /\ undone' = undone
    BY <2>1 DEF AskTransaction, resources, outcome
  <2>3. f \in Frame /\ f.tr.conn \in Connections /\ f.tr.builder \in Nat
    <3>1. f \in Frame
      BY <1>0 DEF Types
    <3> QED  BY <1>0, <2>2, <3>1 DEF BodiesFit, Frame, Pointers
  <2>4. z \in Call
    BY <1>0, <2>2, <2>3 DEF Call
  <2>5. CallFits(t)'
    BY <1>0, <2>2, <2>3 DEF CallFits, Types
  <2> DEFINE gs == [frames[t] EXCEPT ![i].fate = "open"]
  <2>6. frames' = [frames EXCEPT ![t] = gs]
    BY <2>2
  <2>7. Reworked(frames[t], gs)
    <3>1. [f EXCEPT !.fate = "open"] \in Frame
      BY <2>3 DEF Frame
    <3>2. frames[t] \in Seq(Frame)
      BY <1>0 DEF Types
    <3>3. gs = [frames[t] EXCEPT ![i] = [f EXCEPT !.fate = "open"]]
      OBVIOUS
    <3>4. gs \in Seq(Frame) /\ Len(gs) = Len(frames[t])
      BY <3>1, <3>2, <3>3
    <3>5. [f EXCEPT !.fate = "open"].kind = f.kind /\ [f EXCEPT !.fate = "open"].repo = f.repo
          /\ [f EXCEPT !.fate = "open"].tr = f.tr
      BY <2>3 DEF Frame
    <3>6. ASSUME NEW j \in 1 .. Len(frames[t])
          PROVE  /\ gs[j].kind = frames[t][j].kind /\ gs[j].repo = frames[t][j].repo
                 /\ gs[j].tr = frames[t][j].tr
                 /\ frames[t][j].kind = "wrap" => gs[j] = frames[t][j]
      BY <2>2, <3>2, <3>3, <3>5
    <3> QED  BY <3>4, <3>6 DEF Reworked
  <2> HIDE DEF z, gs
  <2>8. frames' \in [Threads -> Seq(Frame)] /\ frames'[t] = gs
    BY <1>0, <2>6, <2>7 DEF Types, Reworked
  <2>9. Types'
    BY <1>0, <2>2, <2>4, <2>8 DEF Types
  <2> QED  BY <2>2, <2>5, <2>7, <2>8, <2>9
<1> QED  BY <1>1, <1>2, <1>3

(* A call gets its connection, its query builder, or gives the connection  *)
(* back.                                                                   *)
LEMMA StagesFit ==
  ASSUME Fits, NEW t \in Threads, Get(t) \/ TestBuilder(t) \/ MakeBuilder(t) \/ Unwrap(t)
  PROVE  /\ Types' /\ CallFits(t)' /\ frames' = frames /\ throwing' = throwing /\ ops' = ops
         /\ task'[t].kind = task[t].kind /\ task'[t].repo = task[t].repo /\ task'[t].op = task[t].op
         /\ \A u \in Threads \ {t} : task'[u] = task[u]
<1>0. Types /\ CallFits(t) /\ task[t] \in Call
  BY DEF Fits, Types
<1>1. frames' = frames /\ throwing' = throwing /\ ops' = ops /\ kept' = kept
      /\ started' = started /\ acked' = acked /\ undone' = undone
  BY DEF Get, TestBuilder, MakeBuilder, Unwrap, outcome, resources
<1>2. CASE Get(t)
  <2> DEFINE z == [task[t] EXCEPT !.conn = Head(pool), !.stage = AfterGet(task[t].kind)]
             r == task[t].repo
  <2>1. /\ task[t].stage = "get" /\ pool # <<>> /\ pool' = Tail(pool) /\ builder' = builder
        /\ task' = [task EXCEPT ![t] = z]
        /\ repo' = IF r = None THEN repo ELSE [repo EXCEPT ![r].conn = Head(pool)]
    BY <1>2 DEF Get
  <2>2. Head(pool) \in Connections /\ pool' \in Seq(Connections)
    BY <1>0, <2>1 DEF Types
  <2>3. /\ z \in Call /\ z.kind = task[t].kind /\ z.repo = task[t].repo /\ z.op = task[t].op
        /\ z.conn = Head(pool) /\ z.stage = AfterGet(task[t].kind)
    BY <1>0, <2>2 DEF Call, AfterGet
  <2> HIDE DEF z
  <2>4. repo' \in [Repos -> Repository]
    BY <1>0, <2>1, <2>2 DEF Types, Repository
  <2>5. Types'
    BY <1>0, <1>1, <2>1, <2>2, <2>3, <2>4 DEF Types
  <2>6. CallFits(t)'
    <3>1. task'[t] = z /\ task[t].kind # "none"
      BY <1>0, <2>1 DEF Types, CallFits, NoTask
    <3>2. z.stage \in {"run", "test"} /\ (z.kind \in {"wrap", "tables"} => z.stage = "run")
      BY <2>3 DEF AfterGet
    <3>3. ~(z.kind = "query" /\ z.repo = None)
      BY <1>0, <2>1, <2>3 DEF CallFits
    <3> QED  BY <1>0, <1>1, <2>1, <2>2, <2>3, <3>1, <3>2, <3>3 DEF CallFits, Mine
  <2> QED  BY <1>0, <1>1, <2>1, <2>3, <2>5, <2>6 DEF Types
<1>3. CASE TestBuilder(t) \/ MakeBuilder(t) \/ Unwrap(t)
  <2>1. /\ repo' = repo /\ builder' \in Nat /\ task[t].stage \in {"test", "make", "unwrap"}
        /\ \E z \in Call :
             /\ task' = [task EXCEPT ![t] = z]
             /\ z.kind = task[t].kind /\ z.repo = task[t].repo /\ z.op = task[t].op
             /\ z.conn = task[t].conn
             /\ z.stage \in {"make", "run"} \/ z.stage = AfterBuilder(task[t].kind)
    <3>1. CASE TestBuilder(t) /\ builder = 0
      <4> DEFINE z == [task[t] EXCEPT !.stage = "make"]
      <4>1. task' = [task EXCEPT ![t] = z] /\ repo' = repo /\ builder' = builder /\ task[t].stage = "test"
        BY <3>1 DEF TestBuilder, resources
      <4>2. z \in Call /\ z.kind = task[t].kind /\ z.repo = task[t].repo /\ z.op = task[t].op
            /\ z.conn = task[t].conn /\ z.stage = "make"
        BY <1>0 DEF Call
      <4> HIDE DEF z
      <4> QED  BY <1>0, <4>1, <4>2 DEF Types
    <3>2. CASE TestBuilder(t) /\ builder # 0
      <4> DEFINE z == [task[t] EXCEPT !.stage = AfterBuilder(task[t].kind), !.builder = builder]
      <4>1. task' = [task EXCEPT ![t] = z] /\ repo' = repo /\ builder' = builder /\ task[t].stage = "test"
        BY <3>2 DEF TestBuilder, resources
      <4>2. builder \in Nat
        BY <1>0 DEF Types
      <4>3. z \in Call /\ z.kind = task[t].kind /\ z.repo = task[t].repo /\ z.op = task[t].op
            /\ z.conn = task[t].conn /\ z.stage = AfterBuilder(task[t].kind)
        BY <1>0, <4>2 DEF Call, AfterBuilder
      <4> HIDE DEF z
      <4> QED  BY <1>0, <4>1, <4>2, <4>3
    <3>3. CASE MakeBuilder(t)
      <4> DEFINE z == [task[t] EXCEPT !.stage = AfterBuilder(task[t].kind), !.builder = builder + 1]
      <4>1. task' = [task EXCEPT ![t] = z] /\ repo' = repo /\ builder' = builder + 1 /\ task[t].stage = "make"
        BY <3>3 DEF MakeBuilder, resources
      <4>2. builder + 1 \in Nat
        BY <1>0 DEF Types
      <4>3. z \in Call /\ z.kind = task[t].kind /\ z.repo = task[t].repo /\ z.op = task[t].op
            /\ z.conn = task[t].conn /\ z.stage = AfterBuilder(task[t].kind)
        BY <1>0, <4>2 DEF Call, AfterBuilder
      <4> HIDE DEF z
      <4> QED  BY <1>0, <4>1, <4>2, <4>3
    <3>4. CASE Unwrap(t)
      <4> DEFINE z == [task[t] EXCEPT !.stage = "run"]
      <4>1. task' = [task EXCEPT ![t] = z] /\ repo' = repo /\ builder' = builder /\ task[t].stage = "unwrap"
        BY <3>4 DEF Unwrap
      <4>2. builder \in Nat
        BY <1>0 DEF Types
      <4>3. z \in Call /\ z.kind = task[t].kind /\ z.repo = task[t].repo /\ z.op = task[t].op
            /\ z.conn = task[t].conn /\ z.stage = "run"
        BY <1>0 DEF Call
      <4> HIDE DEF z
      <4> QED  BY <1>0, <4>1, <4>2, <4>3
    <3> QED  BY <1>3, <3>1, <3>2, <3>3, <3>4
  <2>2. PICK z \in Call :
             /\ task' = [task EXCEPT ![t] = z]
             /\ z.kind = task[t].kind /\ z.repo = task[t].repo /\ z.op = task[t].op
             /\ z.conn = task[t].conn
             /\ z.stage \in {"make", "run"} \/ z.stage = AfterBuilder(task[t].kind)
    BY <2>1
  <2>3. pool' \in Seq(Connections)
    <3>1. CASE Unwrap(t)
      <4>1. task[t].conn \in Connections /\ pool' = Append(pool, task[t].conn)
        BY <1>0, <3>1 DEF Unwrap, CallFits
      <4> QED  BY <1>0, <4>1 DEF Types
    <3>2. CASE TestBuilder(t) \/ MakeBuilder(t)
      BY <1>0, <3>2 DEF TestBuilder, MakeBuilder, resources, Types
    <3> QED  BY <1>3, <3>1, <3>2
  <2>4. Types'
    BY <1>0, <1>1, <2>1, <2>2, <2>3 DEF Types
  <2>5. task'[t] = z /\ \A u \in Threads \ {t} : task'[u] = task[u]
    BY <1>0, <2>2 DEF Types
  <2>6. z.stage \in {"make", "run", "unwrap"} /\ (z.stage = "unwrap" => z.kind = "recorder")
    BY <2>2 DEF AfterBuilder
  <2>7. task[t].kind \notin {"none", "wrap", "tables"}
    BY <1>0, <2>1 DEF CallFits, NoTask
  <2>8. CallFits(t)'
    BY <1>0, <1>1, <2>1, <2>2, <2>5, <2>6, <2>7 DEF CallFits, Mine
  <2> QED  BY <1>1, <2>2, <2>4, <2>5, <2>8
<1> QED  BY <1>2, <1>3

(* What is left of a thread's bodies after a call.                         *)
BodiesTyped(t) ==
  /\ frames' \in [Threads -> Seq(Frame)] /\ Reworked(frames[t], frames'[t])
  /\ acked' \subseteq Writes /\ undone' \subseteq Writes
  /\ throwing' \in [Threads -> BOOLEAN] /\ (throwing'[t] => frames[t] # <<>>)

(* Success or failure of a statement keeps the bodies typed. *)
LEMMA OutcomeTyped ==
  ASSUME Types, NEW t \in Threads, BodiesFit(t), NEW c, NEW writes \in SUBSET Writes,
         Succeeded(t, c, writes) \/ HasFailed(t, c, writes)
  PROVE  BodiesTyped(t)
<1>1. /\ throwing \in [Threads -> BOOLEAN] /\ (throwing[t] => frames[t] # <<>>)
      /\ undone \subseteq Writes /\ acked \subseteq Writes
  BY DEF Types, BodiesFit
<1>2. CASE Succeeded(t, c, writes)
  BY <1>1, <1>2, SucceededIs DEF BodiesTyped
<1>3. CASE HasFailed(t, c, writes)
  BY <1>1, <1>3, HasFailedIs DEF BodiesTyped
<1> QED  BY <1>2, <1>3

(* The last stage: the call is made, and over.                             *)
LEMMA RunsFit ==
  ASSUME Fits, NEW t \in Threads, Query(t) \/ ReadLog(t) \/ TableNames(t)
  PROVE  /\ Types' /\ CallFits(t)' /\ BodiesFit(t)' /\ ops' = ops
         /\ Reworked(frames[t], frames'[t]) /\ task' = [task EXCEPT ![t] = NoTask]
<1>0. Types /\ CallFits(t) /\ BodiesFit(t) /\ task[t] \in Call
  BY DEF Fits, Types
<1>1. /\ repo' = repo /\ builder' = builder /\ started' = started /\ ops' = ops
      /\ task' = [task EXCEPT ![t] = NoTask]
  BY DEF Query, ReadLog, TableNames
<1>2. task[t].conn \in Connections /\ task[t].op \in 1 .. MaxOps
  BY <1>0 DEF Query, ReadLog, TableNames, CallFits, Call
<1>3. BodiesTyped(t)
  <2>1. CASE ReadLog(t) \/ TableNames(t)
    <3>1. frames' = frames /\ acked' = acked /\ undone' = undone
          /\ (throwing' = throwing \/ Thrown(t, frames[t]))
      BY <2>1 DEF ReadLog, TableNames, outcome
    <3>2. throwing' \in [Threads -> BOOLEAN] /\ (throwing'[t] => frames[t] # <<>>)
      <4>1. CASE throwing' = throwing
        BY <1>0, <4>1 DEF Types, BodiesFit
      <4>2. CASE Thrown(t, frames[t])
        BY <1>0, <4>2, ThrownIs
      <4> QED  BY <3>1, <4>1, <4>2
    <3> QED  BY <1>0, <3>1, <3>2, SameBodies DEF Types, BodiesTyped
  <2>2. CASE Query(t)
    <3> DEFINE w == <<task[t].op, 1>>
    <3>1. {w} \in SUBSET Writes /\ throwing \in [Threads -> BOOLEAN] /\ (throwing[t] => frames[t] # <<>>)
          /\ undone \subseteq Writes /\ acked \subseteq Writes
      BY <1>0, <1>2 DEF Writes, Types, BodiesFit
    <3>2. \/ Succeeded(t, task[t].conn, {w})
          \/ HasFailed(t, task[t].conn, {w})
          \/ frames' = frames /\ throwing' = throwing /\ acked' = acked /\ undone' = undone
      BY <2>2 DEF Query, outcome
    <3> HIDE DEF w
    <3>3. CASE frames' = frames /\ throwing' = throwing /\ acked' = acked /\ undone' = undone
      BY <1>0, <3>1, <3>3, SameBodies DEF Types, BodiesTyped
    <3> QED  BY <1>0, <3>1, <3>2, <3>3, OutcomeTyped
  <2> QED  BY <2>1, <2>2
<1>4. pool' \in Seq(Connections)
  <2>1. pool' = pool \/ pool' = Append(pool, task[t].conn)
    BY DEF Query, ReadLog, TableNames
  <2>2. pool \in Seq(Connections)
    BY <1>0 DEF Types
  <2> QED  BY <1>2, <2>1, <2>2
<1>5. kept' \in [Threads -> Pointers]
  <2>1. [conn |-> task[t].conn, builder |-> task[t].builder] \in Pointers
    BY <1>0, <1>2 DEF Pointers, Call
  <2>2. kept' = kept \/ kept' = [kept EXCEPT ![t] = [conn |-> task[t].conn, builder |-> task[t].builder]]
    BY DEF Query, ReadLog, TableNames
  <2> QED  BY <1>0, <2>1, <2>2 DEF Types
<1>6. NoTask \in Call
  BY RepositoryAssumption DEF Call, NoTask
<1>7. Types'
  BY <1>0, <1>1, <1>3, <1>4, <1>5, <1>6 DEF Types, BodiesTyped
<1>8. CallFits(t)'
  BY <1>0, <1>1, NoCallFits DEF Types
<1> QED  BY <1>1, <1>3, <1>7, <1>8, BodiesStillFit DEF BodiesTyped

(* What a thread does with the transactions it is in, and with its models. *)
LEMMA TransactionsFit ==
  ASSUME Fits, NEW t \in Threads,
         \/ \E i \in DOMAIN frames[t] : Commit(t, i) \/ RollBack(t, i) \/ MoveTransaction(t, i)
         \/ Relation(t)
  PROVE  /\ Types' /\ CallFits(t)' /\ BodiesFit(t)' /\ ops <= ops'
         /\ Reworked(frames[t], frames'[t]) /\ task' = task /\ task[t] = NoTask
<1>0. Types /\ BodiesFit(t) /\ ops \in Nat /\ MaxOps \in Nat /\ ops \in 0 .. MaxOps
  BY RepositoryAssumption DEF Fits, Types
<1>1. /\ repo' = repo /\ builder' = builder /\ started' = started /\ pool' = pool
      /\ kept' = kept /\ task' = task /\ task[t] = NoTask
  BY DEF Commit, RollBack, MoveTransaction, Relation, Free, resources
<1>2. ops' = ops \/ (ops < MaxOps /\ ops' = ops + 1)
  BY DEF Commit, RollBack, MoveTransaction, Relation
<1>3. BodiesTyped(t)
  <2>0. /\ throwing \in [Threads -> BOOLEAN] /\ (throwing[t] => frames[t] # <<>>)
        /\ undone \subseteq Writes /\ acked \subseteq Writes
        /\ {} \in SUBSET Writes
    BY <1>0 DEF Types, BodiesFit
  <2>2. ASSUME NEW c, NEW fate \in {"committed", "undone"},
               frames' = [frames EXCEPT ![t] = Settled(t, c, fate)], throwing' = throwing,
               acked' \in {acked, acked \cup Pending(t, c)}, undone' \in {undone, undone \cup Pending(t, c)}
        PROVE  BodiesTyped(t)
    <3>1. Reworked(frames[t], Settled(t, c, fate)) /\ Pending(t, c) \subseteq Writes
      BY <1>0, SettledIs, PendingTyped
    <3> QED  BY <1>0, <2>0, <2>2, <3>1 DEF Types, Reworked, BodiesTyped
  <2>3. ASSUME NEW i \in DOMAIN frames[t], MoveTransaction(t, i)
        PROVE  BodiesTyped(t)
    <3> DEFINE f == frames[t][i]
               gs == [frames[t] EXCEPT ![i].moved = TRUE]
    <3>1. frames' = [frames EXCEPT ![t] = gs] /\ f.kind = "transaction" /\ throwing' = throwing
          /\ acked' = acked /\ undone' = undone
      BY <2>3 DEF MoveTransaction, outcome
    <3>2. f \in Frame /\ frames[t] \in Seq(Frame)
      BY <1>0 DEF Types
    <3>3. [f EXCEPT !.moved = TRUE] \in Frame /\ [f EXCEPT !.moved = TRUE].kind = f.kind
          /\ [f EXCEPT !.moved = TRUE].repo = f.repo /\ [f EXCEPT !.moved = TRUE].tr = f.tr
      BY <3>2 DEF Frame
    <3>4. gs = [frames[t] EXCEPT ![i] = [f EXCEPT !.moved = TRUE]]
      OBVIOUS
    <3>5. gs \in Seq(Frame) /\ Len(gs) = Len(frames[t])
      BY <3>2, <3>3, <3>4
    <3>6. ASSUME NEW j \in 1 .. Len(frames[t])
          PROVE  /\ gs[j].kind = frames[t][j].kind /\ gs[j].repo = frames[t][j].repo
                 /\ gs[j].tr = frames[t][j].tr
                 /\ frames[t][j].kind = "wrap" => gs[j] = frames[t][j]
      BY <3>1, <3>2, <3>3, <3>4
    <3>7. Reworked(frames[t], gs)
      BY <3>5, <3>6 DEF Reworked
    <3> HIDE DEF gs
    <3> QED  BY <1>0, <2>0, <3>1, <3>7 DEF Types, Reworked, BodiesTyped
  <2>4. ASSUME NEW i \in DOMAIN frames[t], Commit(t, i)
        PROVE  BodiesTyped(t)
    <3> DEFINE c == frames[t][i].tr.conn
    <3>1. \/ /\ acked' = acked \cup Pending(t, c) /\ undone' = undone /\ throwing' = throwing
             /\ frames' = [frames EXCEPT ![t] = Settled(t, c, "committed")]
          \/ HasFailed(t, c, {})
      BY <2>4 DEF Commit
    <3> HIDE DEF c
    <3> QED  BY <1>0, <2>0, <2>2, <3>1, OutcomeTyped
  <2>5. ASSUME NEW i \in DOMAIN frames[t], RollBack(t, i)
        PROVE  BodiesTyped(t)
    <3> DEFINE c == frames[t][i].tr.conn
    <3>1. \/ /\ undone' = undone \cup Pending(t, c) /\ acked' = acked /\ throwing' = throwing
             /\ frames' = [frames EXCEPT ![t] = Settled(t, c, "undone")]
          \/ HasFailed(t, c, {})
      BY <2>5 DEF RollBack
    <3> HIDE DEF c
    <3> QED  BY <1>0, <2>0, <2>2, <3>1, OutcomeTyped
  <2>6. CASE Relation(t)
    <3> DEFINE c == kept[t].conn
    <3>1. Succeeded(t, c, {}) \/ HasFailed(t, c, {})
      BY <2>6 DEF Relation
    <3> HIDE DEF c
    <3> QED  BY <1>0, <2>0, <3>1, OutcomeTyped
  <2> QED  BY <2>3, <2>4, <2>5, <2>6
<1>4. ops' \in 0 .. MaxOps /\ ops <= ops'
  BY <1>0, <1>2
<1>5. Types'
  BY <1>0, <1>1, <1>3, <1>4 DEF Types, BodiesTyped
<1>6. CallFits(t)'
  BY <1>1, NoCallFits
<1> QED  BY <1>1, <1>3, <1>4, <1>5, <1>6, BodiesStillFit DEF BodiesTyped

(* A body is entered, or left.                                             *)
LEMMA EntersFit ==
  ASSUME Fits, NEW t \in Threads, EnterWrap(t) \/ EnterTransaction(t)
  PROVE  Types' /\ CallFits(t)' /\ BodiesFit(t)' /\ ops' = ops
<1>0. Types /\ CallFits(t) /\ BodiesFit(t) /\ task[t] \in Call /\ frames[t] \in Seq(Frame)
  BY DEF Fits, Types
<1> DEFINE r == task[t].repo
           f == IF task[t].kind = "wrap" THEN WrapFrame(r)
                ELSE TransactionFrame(r, [conn |-> task[t].conn, builder |-> task[t].builder])
           fs == Append(frames[t], f)
<1>1. /\ builder' = builder /\ started' = started /\ ops' = ops /\ kept' = kept
      /\ acked' = acked /\ undone' = undone /\ task' = [task EXCEPT ![t] = NoTask]
  BY DEF EnterWrap, EnterTransaction, outcome, resources
<1>2. /\ r \in Mine(t) /\ r \in Repos /\ task[t].conn \in Connections
      /\ task[t].kind \in {"wrap", "transaction"}
  BY <1>0 DEF EnterWrap, EnterTransaction, CallFits, Mine
<1>3. f \in Frame /\ f.repo = r /\ (f.kind = "transaction" => f.tr.conn \in Connections)
      /\ (f.kind = "wrap" => f.pending = {})
  BY <1>0, <1>2 DEF Frame, WrapFrame, TransactionFrame, NoModel, Pointers, Call
<1>4. \/ frames' = [frames EXCEPT ![t] = fs] /\ throwing' = throwing /\ repo' = repo /\ pool' = pool
      \/ frames' = frames /\ Thrown(t, frames[t]) /\ FreeConnection(r)
  <2>1. CASE EnterWrap(t)
    BY <2>1 DEF EnterWrap, resources
  <2>2. CASE EnterTransaction(t)
    <3> DEFINE g == TransactionFrame(r, [conn |-> task[t].conn, builder |-> task[t].builder])
    <3>1. PICK o \in BeginTransaction(session[task[t].conn]) :
            IF o.ok
              THEN frames' = [frames EXCEPT ![t] = Append(@, g)] /\ UNCHANGED <<pool, repo, throwing>>
              ELSE FreeConnection(r) /\ Thrown(t, frames[t]) /\ UNCHANGED frames
      BY <2>2 DEF EnterTransaction
    <3>2. f = g
      BY <2>2 DEF EnterTransaction
    <3> HIDE DEF f, g
    <3> QED  BY <3>1, <3>2
  <2> QED  BY <2>1, <2>2
<1> HIDE DEF f
<1>5. NoTask \in Call
  BY RepositoryAssumption DEF Call, NoTask
<1>6. task' \in [Threads -> Call] /\ task'[t] = NoTask
  BY <1>0, <1>1, <1>5 DEF Types
<1>7. CallFits(t)'
  BY <1>6, NoCallFits
<1>8. CASE frames' = [frames EXCEPT ![t] = fs] /\ throwing' = throwing /\ repo' = repo /\ pool' = pool
  <2>1. fs \in Seq(Frame) /\ Len(fs) = Len(frames[t]) + 1 /\ fs[Len(fs)] = f /\ fs # <<>>
        /\ \A i \in 1 .. Len(frames[t]) : fs[i] = frames[t][i]
    BY <1>0, <1>3
  <2> HIDE DEF fs
  <2>2. frames' \in [Threads -> Seq(Frame)] /\ frames'[t] = fs
    BY <1>0, <1>8, <2>1 DEF Types
  <2>3. Types'
    BY <1>0, <1>1, <1>6, <1>8, <2>2 DEF Types
  <2>4. BodiesFit(t)'
    <3>1. ASSUME NEW i \in DOMAIN fs
          PROVE  /\ fs[i].repo \in Mine(t)
                 /\ fs[i].kind = "transaction" => fs[i].tr.conn \in Connections
                 /\ fs[i].kind = "wrap" => fs[i].pending = {}
      <4>1. i \in 1 .. Len(frames[t]) \/ i = Len(fs)
        BY <1>0, <2>1
      <4>2. i \in 1 .. Len(frames[t]) => fs[i] = frames[t][i] /\ i \in DOMAIN frames[t]
        BY <1>0, <2>1
      <4> QED  BY <1>0, <1>2, <1>3, <2>1, <4>1, <4>2 DEF BodiesFit
    <3> QED  BY <2>1, <2>2, <3>1 DEF BodiesFit, Mine
  <2> QED  BY <1>1, <1>7, <2>3, <2>4
<1>9. CASE frames' = frames /\ Thrown(t, frames[t]) /\ FreeConnection(r)
  <2>1. repo' \in [Repos -> Repository] /\ pool' \in Seq(Connections)
    BY <1>0, <1>2, <1>9, FreeConnectionIs
  <2>2. throwing' \in [Threads -> BOOLEAN] /\ (throwing'[t] => frames[t] # <<>>)
    BY <1>0, <1>9, ThrownIs
  <2>3. Types'
    BY <1>0, <1>1, <1>6, <1>9, <2>1, <2>2 DEF Types
  <2>4. BodiesFit(t)'
    BY <1>0, <1>9, <2>2, SameBodies, BodiesStillFit
  <2> QED  BY <1>1, <1>7, <2>3, <2>4
<1> QED  BY <1>4, <1>8, <1>9

(* A body ends. *)
LEMMA LeavesFit ==
  ASSUME Fits, NEW t \in Threads, LeaveBody(t)
  PROVE  Types' /\ CallFits(t)' /\ BodiesFit(t)' /\ ops' = ops
<1>0. Types /\ CallFits(t) /\ BodiesFit(t) /\ frames[t] \in Seq(Frame) /\ frames[t] # <<>> /\ task[t] = NoTask
  BY DEF Fits, Types, LeaveBody
<1> DEFINE f == Last(frames[t])
           rest == Front(frames[t])
<1>1. /\ builder' = builder /\ started' = started /\ ops' = ops /\ kept' = kept
      /\ acked' = acked /\ undone' = undone \cup f.pending /\ task' = task
      /\ frames' = [frames EXCEPT ![t] = rest] /\ FreeConnection(f.repo)
      /\ Thrown(t, rest) \/ (throwing' = throwing /\ ~throwing[t])
  BY DEF LeaveBody
<1>2. /\ f \in Frame /\ f.repo \in Mine(t) /\ f.repo \in Repos
      /\ rest \in Seq(Frame) /\ Len(rest) = Len(frames[t]) - 1
      /\ \A i \in 1 .. Len(rest) : rest[i] = frames[t][i] /\ i \in DOMAIN frames[t]
  BY <1>0 DEF Last, Front, BodiesFit, Mine
<1> HIDE DEF f, rest
<1>3. f.pending \subseteq Writes
  BY <1>2 DEF Frame
<1>4. repo' \in [Repos -> Repository] /\ pool' \in Seq(Connections)
  BY <1>0, <1>1, <1>2, FreeConnectionIs
<1>5. throwing' \in [Threads -> BOOLEAN] /\ (throwing'[t] => rest # <<>>)
  <2>1. CASE Thrown(t, rest)
    BY <1>0, <2>1, ThrownIs
  <2>2. CASE throwing' = throwing /\ ~throwing[t]
    BY <1>0, <2>2 DEF Types
  <2> QED  BY <1>1, <2>1, <2>2
<1>6. frames' \in [Threads -> Seq(Frame)] /\ frames'[t] = rest
  BY <1>0, <1>1, <1>2 DEF Types
<1>7. Types'
  BY <1>0, <1>1, <1>3, <1>4, <1>5, <1>6 DEF Types
<1>8. CallFits(t)'
  BY <1>0, <1>1, NoCallFits
<1>9. BodiesFit(t)'
  BY <1>0, <1>2, <1>5, <1>6 DEF BodiesFit, Mine
<1> QED  BY <1>1, <1>7, <1>8, <1>9

(* Nothing runs at first. *)
LEMMA InitFits == Init => Fits
<1> SUFFICES ASSUME Init PROVE Fits
  OBVIOUS
<1>1. NoTask \in Call /\ NoModel \in Pointers /\ NoRepo \in Repository
  BY RepositoryAssumption DEF Call, NoTask, NoModel, NoRepo, Pointers, Repository
<1>2. [i \in Connections |-> i] \in Seq(Connections)
  BY RepositoryAssumption DEF Connections
<1>3. /\ pool \in Seq(Connections) /\ repo \in [Repos -> Repository] /\ task \in [Threads -> Call]
      /\ kept \in [Threads -> Pointers]
  BY <1>1, <1>2 DEF Init
<1>4. /\ frames \in [Threads -> Seq(Frame)] /\ throwing \in [Threads -> BOOLEAN]
      /\ builder \in Nat /\ started \in BOOLEAN
      /\ acked \subseteq Writes /\ undone \subseteq Writes /\ ops \in 0 .. MaxOps
  <2>1. <<>> \in Seq(Frame) /\ 0 \in 0 .. MaxOps
    BY RepositoryAssumption
  <2> QED  BY <2>1 DEF Init
<1>5. Types
  BY <1>3, <1>4 DEF Types
<1>6. \A t \in Threads : CallFits(t) /\ BodiesFit(t)
  BY DEF Init, CallFits, BodiesFit, NoTask
<1> QED  BY <1>5, <1>6 DEF Fits

(* Every step of a thread keeps its own call and bodies fitting, *)
LEMMA StepFits ==
  ASSUME Fits, NEW t \in Threads, ThreadStep(t)
  PROVE  Types' /\ CallFits(t)' /\ BodiesFit(t)' /\ ops <= ops'
<1>0. Types /\ ops \in Nat /\ (throwing[t] => frames[t] # <<>>)
  BY RepositoryAssumption DEF Fits, Types, BodiesFit
<1>1. ASSUME NEW r \in Repos, NEW q \in Repos,
             \/ Construct(t, r) \/ FreeByHand(t, r) \/ Destroy(t, r) \/ AskMovedFrom(t, r)
             \/ Move(t, r, q) \/ Copy(t, r, q) \/ Throw(t)
      PROVE  Types' /\ CallFits(t)' /\ BodiesFit(t)' /\ ops <= ops'
  BY <1>0, <1>1, ObjectsFit
<1>2. ASSUME \/ \E r \in Repos : \E kind \in {"query", "transaction", "wrap"} : Ask(t, r, kind)
             \/ \E kind \in {"recorder", "tables"} : AskBackend(t, kind)
             \/ \E i \in DOMAIN frames[t] : AskTransaction(t, i)
      PROVE  Types' /\ CallFits(t)' /\ BodiesFit(t)' /\ ops <= ops'
  BY <1>0, <1>2, AsksFit, BodiesStillFit
<1>3. ASSUME Get(t) \/ TestBuilder(t) \/ MakeBuilder(t) \/ Unwrap(t)
      PROVE  Types' /\ CallFits(t)' /\ BodiesFit(t)' /\ ops <= ops'
  BY <1>0, <1>3, StagesFit, SameBodies, BodiesStillFit
<1>4. ASSUME Query(t) \/ ReadLog(t) \/ TableNames(t)
      PROVE  Types' /\ CallFits(t)' /\ BodiesFit(t)' /\ ops <= ops'
  BY <1>0, <1>4, RunsFit
<1>5. ASSUME \/ \E i \in DOMAIN frames[t] : Commit(t, i) \/ RollBack(t, i) \/ MoveTransaction(t, i)
             \/ Relation(t)
      PROVE  Types' /\ CallFits(t)' /\ BodiesFit(t)' /\ ops <= ops'
  BY <1>5, TransactionsFit
<1>6. ASSUME EnterWrap(t) \/ EnterTransaction(t)
      PROVE  Types' /\ CallFits(t)' /\ BodiesFit(t)' /\ ops <= ops'
  BY <1>0, <1>6, EntersFit
<1>7. ASSUME LeaveBody(t)
      PROVE  Types' /\ CallFits(t)' /\ BodiesFit(t)' /\ ops <= ops'
  BY <1>0, <1>7, LeavesFit
<1>8. CASE Throw(t)
  <2>1. PICK r \in Repos : TRUE
    <3>1. frames[t] \in Seq(Frame) /\ frames[t] # <<>>
      BY <1>0, <1>8 DEF Throw, Types
    <3>2. frames[t][1] \in Frame
      BY <3>1
    <3> QED  BY <3>2 DEF Frame
  <2> QED  BY <1>1, <1>8, <2>1
<1> QED  BY <1>1, <1>2, <1>3, <1>4, <1>5, <1>6, <1>7, <1>8 DEF ThreadStep

(* and so every step keeps everything fitting. *)
LEMMA NextFits == Fits /\ [Next]_vars => Fits'
<1> SUFFICES ASSUME Fits, [Next]_vars PROVE Fits'
  OBVIOUS
<1>1. CASE StartThreads
  BY <1>1 DEF StartThreads, Fits, Types, CallFits, BodiesFit, resources, program, outcome, Mine
<1>2. ASSUME NEW t \in Threads, ThreadStep(t) PROVE Fits'
  <2>1. Types' /\ CallFits(t)' /\ BodiesFit(t)' /\ ops <= ops'
    BY <1>2, StepFits
  <2>2. ops' \in Nat
    BY <2>1, RepositoryAssumption DEF Types
  <2>3. \A u \in Threads \ {t} : CallFits(u)' /\ BodiesFit(u)'
    BY <1>2, <2>1, <2>2, Locality, OthersFit
  <2> QED  BY <2>1, <2>3 DEF Fits
<1>3. CASE UNCHANGED vars
  BY <1>3 DEF vars, Fits, Types, CallFits, BodiesFit, resources, program, outcome, Mine
<1> QED  BY <1>1, <1>2, <1>3 DEF Next

(* Whatever the programs do, and whatever the engines do to them, every    *)
(* variable of theirs has its type.                                        *)
THEOREM ProgramsTyped == Spec => []TypeOK
<1>1. Init => Fits
  BY InitFits
<1>2. Fits /\ [Next]_vars => Fits'
  BY NextFits
<1>3. Fits => TypeOK
  <2> SUFFICES ASSUME Fits PROVE TypeOK
    OBVIOUS
  <2>1. repo \in [Repos -> [live : BOOLEAN, bound : BOOLEAN, conn : Connections \cup {Null}]]
    BY DEF Fits, Types, Repository
  <2>2. ASSUME NEW t \in Threads
        PROVE  /\ \A i \in DOMAIN frames[t] : frames[t][i] \in Frame
               /\ task[t].stage \in {"none", "get", "test", "make", "unwrap", "run"}
               /\ throwing[t] => frames[t] # <<>>
    <3>1. frames[t] \in Seq(Frame) /\ task[t] \in Call
      BY DEF Fits, Types
    <3> QED  BY <3>1 DEF Fits, BodiesFit, Call
  <2> QED  BY <2>1, <2>2 DEF Fits, Types, TypeOK, Frame
<1> QED  BY <1>1, <1>2, <1>3, PTL DEF Spec

-----------------------------------------------------------------------------
(* Before the threads are started, only Main takes steps. *)
LEMMA WhoSteps ==
  ASSUME Fits, NEW t \in Threads, ThreadStep(t), ~started, t # Main, task[t] = NoTask
  PROVE  FALSE
<1>1. task[t].stage = "none" /\ ~Free(t)
  BY DEF NoTask, Free
<1> QED
  BY <1>1 DEF ThreadStep, Construct, FreeByHand, Destroy, AskMovedFrom, Ask, Move, Copy, AskBackend,
     AskTransaction, Commit, RollBack, MoveTransaction, Get, TestBuilder, MakeBuilder, Unwrap,
     EnterWrap, EnterTransaction, Query, Relation, ReadLog, TableNames, Throw, LeaveBody

(* Reworked bodies keep their pointers to the builder. *)
LEMMA FramesOfBuilder ==
  ASSUME Fits, NEW t \in Threads, BuilderFits(t), builder' = builder, Reworked(frames[t], frames'[t])
  PROVE  \A i \in DOMAIN frames'[t] :
           frames'[t][i].kind = "transaction" => frames'[t][i].tr.builder = builder' /\ builder' # 0
<1>1. frames[t] \in Seq(Frame) /\ frames'[t] \in Seq(Frame) /\ Len(frames'[t]) = Len(frames[t])
  BY DEF Fits, Types, Reworked
<1> QED  BY <1>1 DEF BuilderFits, Reworked

(* A step that makes no builder keeps what is said of it. *)
LEMMA BuilderStays ==
  ASSUME Fits, MadeOnce, NEW t \in Threads, ThreadStep(t), ~MakeBuilder(t)
  PROVE  builder' = builder /\ BuilderFits(t)'
<1>0. /\ Types /\ CallFits(t) /\ BodiesFit(t) /\ BuilderFits(t) /\ started' = started
      /\ frames[t] \in Seq(Frame) /\ (~started => t = Main)
  BY Locality, WhoSteps DEF Fits, Types, MadeOnce, BuilderFits
<1>1. ASSUME builder' = builder, kept' = kept, Reworked(frames[t], frames'[t]), task'[t] = NoTask
      PROVE  builder' = builder /\ BuilderFits(t)'
  BY <1>0, <1>1, FramesOfBuilder DEF BuilderFits, NoTask
<1>2. ASSUME NEW r \in Repos, NEW q \in Repos,
             \/ Construct(t, r) \/ FreeByHand(t, r) \/ Destroy(t, r) \/ AskMovedFrom(t, r)
             \/ Move(t, r, q) \/ Copy(t, r, q) \/ Throw(t)
      PROVE  builder' = builder /\ BuilderFits(t)'
  BY <1>0, <1>1, <1>2, ObjectsFit, SameBodies
<1>3. ASSUME \/ \E r \in Repos : \E kind \in {"query", "transaction", "wrap"} : Ask(t, r, kind)
             \/ \E kind \in {"recorder", "tables"} : AskBackend(t, kind)
             \/ \E i \in DOMAIN frames[t] : AskTransaction(t, i)
      PROVE  builder' = builder /\ BuilderFits(t)'
  <2>1. builder' = builder /\ kept' = kept
    BY <1>3 DEF Ask, AskBackend, AskTransaction
  <2>2. Reworked(frames[t], frames'[t])
    BY <1>3, AsksFit
  <2>3. /\ task'[t].builder \in {0, builder} /\ task'[t].stage # "make"
        /\ ~(task'[t].kind = "transaction" /\ task'[t].stage = "run")
    <3>1. CASE \E r \in Repos : \E kind \in {"query", "transaction", "wrap"} : Ask(t, r, kind)
      BY <1>0, <3>1 DEF Ask, AfterGet, Types
    <3>2. CASE \E kind \in {"recorder", "tables"} : AskBackend(t, kind)
      BY <1>0, <3>2 DEF AskBackend, Types, NoTask
    <3>3. CASE \E i \in DOMAIN frames[t] : AskTransaction(t, i)
      BY <1>0, <3>3 DEF AskTransaction, Types, BuilderFits
    <3> QED  BY <1>3, <3>1, <3>2, <3>3
  <2> QED  BY <1>0, <2>1, <2>2, <2>3, FramesOfBuilder DEF BuilderFits
<1>4. ASSUME Get(t) \/ TestBuilder(t) \/ Unwrap(t)
      PROVE  builder' = builder /\ BuilderFits(t)'
  <2>1. builder' = builder /\ kept' = kept /\ frames' = frames
    BY <1>4 DEF Get, TestBuilder, Unwrap, resources
  <2>2. CASE Get(t)
    <3>1. task'[t].builder = 0 /\ task'[t].stage = AfterGet(task[t].kind) /\ task'[t].kind = task[t].kind
      BY <1>0, <2>2 DEF Get, Types, Call, CallFits
    <3> QED  BY <1>0, <2>1, <3>1, FramesOfBuilder, SameBodies DEF BuilderFits, AfterGet
  <2>3. CASE TestBuilder(t)
    <3>1. /\ task'[t].kind = task[t].kind
          /\ IF builder = 0
               THEN task'[t].stage = "make" /\ task'[t].builder = task[t].builder
               ELSE task'[t].stage = AfterBuilder(task[t].kind) /\ task'[t].builder = builder
      BY <1>0, <2>3 DEF TestBuilder, Types, Call
    <3>2. builder = 0 => ~started
      BY DEF MadeOnce
    <3> QED  BY <1>0, <2>1, <3>1, <3>2, FramesOfBuilder, SameBodies DEF BuilderFits, AfterBuilder
  <2>4. CASE Unwrap(t)
    <3>1. task'[t].kind = "recorder" /\ task'[t].stage = "run" /\ task'[t].builder = task[t].builder
      BY <1>0, <2>4 DEF Unwrap, Types, Call, CallFits
    <3> QED  BY <1>0, <2>1, <3>1, FramesOfBuilder, SameBodies DEF BuilderFits
  <2> QED  BY <1>4, <2>2, <2>3, <2>4
<1>5. ASSUME Query(t) \/ ReadLog(t) \/ TableNames(t)
      PROVE  builder' = builder /\ BuilderFits(t)'
  <2>1. builder' = builder /\ Reworked(frames[t], frames'[t]) /\ task'[t] = NoTask
    BY <1>0, <1>5, RunsFit DEF Query, ReadLog, TableNames, Types
  <2>2. kept'[t].builder \in {0, builder}
    BY <1>0, <1>5 DEF Query, ReadLog, TableNames, Types, BuilderFits
  <2> QED  BY <1>0, <2>1, <2>2, FramesOfBuilder DEF BuilderFits, NoTask
<1>6. ASSUME \/ \E i \in DOMAIN frames[t] : Commit(t, i) \/ RollBack(t, i) \/ MoveTransaction(t, i)
             \/ Relation(t)
      PROVE  builder' = builder /\ BuilderFits(t)'
  <2>1. builder' = builder /\ kept' = kept
    BY <1>6 DEF Commit, RollBack, MoveTransaction, Relation
  <2> QED  BY <1>1, <1>6, <2>1, TransactionsFit
<1>7. ASSUME EnterWrap(t)
      PROVE  builder' = builder /\ BuilderFits(t)'
  <2>1. /\ builder' = builder /\ kept' = kept /\ task'[t] = NoTask
        /\ frames'[t] = Append(frames[t], WrapFrame(task[t].repo))
    BY <1>0, <1>7 DEF EnterWrap, Types
  <2>2. WrapFrame(task[t].repo).kind = "wrap"
    BY DEF WrapFrame
  <2> QED  BY <1>0, <2>1, <2>2 DEF BuilderFits, NoTask
<1>8. ASSUME EnterTransaction(t)
      PROVE  builder' = builder /\ BuilderFits(t)'
  <2> DEFINE g == TransactionFrame(task[t].repo, [conn |-> task[t].conn, builder |-> task[t].builder])
  <2>1. /\ builder' = builder /\ kept' = kept /\ task'[t] = NoTask
        /\ task[t].builder = builder /\ builder # 0
    BY <1>0, <1>8 DEF EnterTransaction, Types, BuilderFits
  <2>2. frames'[t] = Append(frames[t], g) \/ frames' = frames
    <3>1. frames' = [frames EXCEPT ![t] = Append(@, g)] \/ frames' = frames
      BY <1>8 DEF EnterTransaction
    <3> QED  BY <1>0, <3>1 DEF Types
  <2>3. g.tr.builder = builder
    BY <2>1 DEF TransactionFrame
  <2> HIDE DEF g
  <2>4. CASE frames' = frames
    BY <1>0, <1>1, <2>1, <2>4, SameBodies
  <2>5. CASE frames'[t] = Append(frames[t], g)
    BY <1>0, <2>1, <2>3, <2>5 DEF BuilderFits, NoTask
  <2> QED  BY <2>2, <2>4, <2>5
<1>9. ASSUME LeaveBody(t)
      PROVE  builder' = builder /\ BuilderFits(t)'
  <2>1. /\ builder' = builder /\ kept' = kept /\ task'[t] = NoTask
        /\ frames'[t] = Front(frames[t]) /\ frames[t] # <<>>
    BY <1>0, <1>9 DEF LeaveBody, Types
  <2>2. \A i \in DOMAIN frames'[t] : i \in DOMAIN frames[t] /\ frames'[t][i] = frames[t][i]
    BY <1>0, <2>1 DEF Front
  <2> QED  BY <1>0, <2>1, <2>2 DEF BuilderFits, NoTask
<1>10. CASE Throw(t)
  BY <1>0, <1>1, <1>10, SameBodies DEF Throw, Free
<1> QED  BY <1>2, <1>3, <1>4, <1>5, <1>6, <1>7, <1>8, <1>9, <1>10 DEF ThreadStep

(* The step that makes it does, because no one else is there to have a     *)
(* pointer to another.                                                     *)
LEMMA BuilderMade ==
  ASSUME Fits, MadeOnce, NEW t \in Threads, MakeBuilder(t)
  PROVE  MadeOnce'
<1>1. /\ Types /\ task[t] \in Call /\ BuilderFits(t) /\ task[t].stage = "make"
      /\ builder = 0 /\ ~started /\ builder' = 1
      /\ started' = started /\ kept' = kept /\ frames' = frames
      /\ task' = [task EXCEPT ![t].stage = AfterBuilder(task[t].kind), ![t].builder = 1]
  <2>1. /\ Types /\ task[t] \in Call /\ BuilderFits(t)
    BY DEF MadeOnce, Fits, Types
  <2>2. task[t].stage = "make" /\ builder = 0 /\ ~started
    BY <2>1 DEF MakeBuilder, BuilderFits
  <2> QED  BY <2>1, <2>2 DEF MakeBuilder, resources
<1>2. t = Main
  BY <1>1 DEF BuilderFits, NoTask
<1>3. ASSUME NEW u \in Threads, u # t PROVE BuilderFits(u)'
  <2>1. BuilderFits(u) /\ task'[u] = task[u] /\ task[u] = NoTask
    BY <1>1, <1>2, <1>3 DEF MadeOnce, BuilderFits, Types
  <2> QED  BY <1>1, <2>1 DEF BuilderFits, NoTask
<1>4. BuilderFits(t)'
  <2>1. task'[t].builder = 1 /\ task'[t].stage = AfterBuilder(task[t].kind)
    BY <1>1 DEF Types, Call
  <2> QED  BY <1>1, <1>2, <2>1 DEF BuilderFits, AfterBuilder
<1> QED  BY <1>1, <1>3, <1>4 DEF MadeOnce

(* So the builder is made once, if at all. *)
LEMMA NextMakesOnce == "cold" \notin Habits /\ Fits /\ MadeOnce /\ [Next]_vars => MadeOnce'
<1> SUFFICES ASSUME "cold" \notin Habits, Fits, MadeOnce, [Next]_vars PROVE MadeOnce'
  OBVIOUS
<1>1. CASE StartThreads
  <2>1. builder # 0 /\ builder' = builder /\ task' = task /\ frames' = frames /\ kept' = kept
        /\ started' /\ ~started
    BY <1>1 DEF StartThreads, program, May
  <2>2. ASSUME NEW t \in Threads PROVE BuilderFits(t)'
    BY <2>1 DEF MadeOnce, BuilderFits
  <2> QED  BY <2>1, <2>2 DEF MadeOnce
<1>2. ASSUME NEW t \in Threads, ThreadStep(t), ~MakeBuilder(t) PROVE MadeOnce'
  <2>1. builder' = builder /\ BuilderFits(t)' /\ Alone(t) /\ started' = started
    BY <1>2, BuilderStays, Locality
  <2>2. ASSUME NEW u \in Threads, u # t PROVE BuilderFits(u)'
    BY <2>1, <2>2 DEF MadeOnce, BuilderFits, Alone
  <2> QED  BY <2>1, <2>2 DEF MadeOnce
<1>3. ASSUME NEW t \in Threads, MakeBuilder(t) PROVE MadeOnce'
  BY <1>3, BuilderMade
<1>4. CASE UNCHANGED vars
  BY <1>4 DEF vars, program, MadeOnce, BuilderFits
<1> QED  BY <1>1, <1>2, <1>3, <1>4 DEF Next

(* When the first query is built before threads are started, every raw     *)
(* pointer to the query builder is to the one the backend owns.            *)
THEOREM BuilderStaysAlive == "cold" \notin Habits => (Spec => []BuilderAlive)
<1> SUFFICES ASSUME "cold" \notin Habits PROVE Spec => []BuilderAlive
  OBVIOUS
<1>1. Init => Fits /\ MadeOnce
  <2> SUFFICES ASSUME Init PROVE MadeOnce
    BY InitFits
  <2> QED  BY DEF Init, MadeOnce, BuilderFits, NoTask, NoModel
<1>2. Fits /\ MadeOnce /\ [Next]_vars => (Fits /\ MadeOnce)'
  BY NextFits, NextMakesOnce
<1>3. Fits /\ MadeOnce => BuilderAlive
  BY DEF MadeOnce, BuilderFits, BuilderAlive, ToSet
<1> QED  BY <1>1, <1>2, <1>3, PTL DEF Spec

-----------------------------------------------------------------------------
(* Whoever holds something holds a connection. *)
LEMMA HoldingTyped ==
  ASSUME Types
  PROVE  /\ holding \in [Holders -> Connections \cup {Null}] /\ pool \in Seq(Connections)
         /\ Null \notin Connections
<1>1. ASSUME NEW x \in Holders
      PROVE  (IF x[1] = "repo" THEN repo[x[2]].conn
              ELSE IF HeldByCall(x[2]) THEN task[x[2]].conn ELSE Null) \in Connections \cup {Null}
  <2>1. CASE x \in {"repo"} \X Repos
    BY <2>1 DEF Types, Repository
  <2>2. CASE x \in {"call"} \X Threads
    <3>1. task[x[2]] \in Call
      BY <2>2 DEF Types
    <3> QED  BY <2>2, <3>1 DEF Call
  <2> QED  BY <2>1, <2>2 DEF Holders
<1>2. Null \notin Connections
  BY DEF Null, Connections
<1> QED  BY <1>1, <1>2 DEF holding, Types

(* Such a move leaves every connection in one place. *)
LEMMA PutKeepsPlaced ==
  ASSUME Types, Types', Placed, NEW x \in Holders, Put(x)
  PROVE  Placed'
<1> DEFINE c == holding[x]
<1>1. /\ holding \in [Holders -> Connections \cup {Null}] /\ pool \in Seq(Connections)
      /\ c \in Connections
  BY HoldingTyped DEF Put
<1>2. /\ pool' = Append(pool, c) /\ holding'[x] = Null
      /\ \A y \in Holders \ {x} : holding'[y] = holding[y]
  BY <1>1 DEF Put
<1>3. /\ DOMAIN pool' = (DOMAIN pool) \cup {Len(pool) + 1} /\ pool'[Len(pool) + 1] = c
      /\ \A i \in DOMAIN pool : pool'[i] = pool[i] /\ i # Len(pool) + 1
  BY <1>1, <1>2
<1>4. \A i \in DOMAIN pool : pool[i] # Null /\ pool[i] # c
  BY <1>1, HoldingTyped DEF Placed, Apart
<1>5. \A y \in Holders \ {x} : holding[y] # c
  BY <1>1, HoldingTyped DEF Placed, Apart
<1>6. Holders' = Holders /\ Null \notin Connections
  BY HoldingTyped
<1> HIDE DEF c
<1>7. Apart'
  BY <1>1, <1>2, <1>3, <1>4, <1>5, <1>6 DEF Placed, Apart
<1>8. ASSUME NEW d \in Connections PROVE Somewhere(d)'
  <2>1. Somewhere(d)
    BY DEF Placed
  <2>2. CASE d = c
    BY <1>3, <2>2 DEF Somewhere
  <2>3. CASE d # c
    BY <1>2, <1>3, <2>1, <2>3 DEF Somewhere, c
  <2> QED  BY <2>2, <2>3
<1> QED  BY <1>7, <1>8 DEF Placed

(* Taking the head of the queue does too, *)
LEMMA TakeKeepsPlaced ==
  ASSUME Types, Types', Placed, NEW x \in Holders, Take(x)
  PROVE  Placed'
<1> DEFINE c == Head(pool)
<1>1. /\ holding \in [Holders -> Connections \cup {Null}] /\ pool \in Seq(Connections)
      /\ c \in Connections /\ pool # <<>> /\ c = pool[1] /\ 1 \in DOMAIN pool
  BY HoldingTyped DEF Take
<1>2. /\ pool' = Tail(pool) /\ holding'[x] = c /\ holding[x] = Null
      /\ \A y \in Holders \ {x} : holding'[y] = holding[y]
  BY <1>1 DEF Take
<1>3. \A i \in DOMAIN pool' : i + 1 \in DOMAIN pool /\ pool'[i] = pool[i + 1] /\ i + 1 # 1 /\ i \in Nat
  BY <1>1, <1>2
<1>4. \A i \in DOMAIN pool : i # 1 => i - 1 \in DOMAIN pool' /\ pool'[i - 1] = pool[i]
  BY <1>1, <1>2
<1>5. \A y \in Holders : holding[y] # c
  BY <1>1 DEF Placed, Apart
<1>6. \A i \in DOMAIN pool' : pool'[i] # c
  BY <1>1, <1>3 DEF Placed, Apart
<1>7. Null \notin Connections
  BY HoldingTyped
<1> HIDE DEF c
<1>8. Apart'
  <2>1. \A i, j \in DOMAIN pool' : pool'[i] = pool'[j] => i = j
    <3> SUFFICES ASSUME NEW i \in DOMAIN pool', NEW j \in DOMAIN pool', pool'[i] = pool'[j] PROVE i = j
      OBVIOUS
    <3>1. i + 1 = j + 1
      BY <1>3 DEF Placed, Apart
    <3> QED  BY <1>3, <3>1
  <2>2. \A y, z \in Holders : holding'[y] = holding'[z] /\ holding'[y] # Null => y = z
    BY <1>2, <1>5 DEF Placed, Apart
  <2>3. \A i \in DOMAIN pool' : \A y \in Holders : pool'[i] # holding'[y]
    BY <1>2, <1>3, <1>6 DEF Placed, Apart
  <2> QED  BY <2>1, <2>2, <2>3 DEF Apart
<1>9. ASSUME NEW d \in Connections PROVE Somewhere(d)'
  <2>1. Somewhere(d)
    BY DEF Placed
  <2>2. CASE d = c
    BY <1>2, <2>2 DEF Somewhere
  <2>3. CASE d # c
    <3>1. CASE \E i \in DOMAIN pool : pool[i] = d
      <4>1. PICK i \in DOMAIN pool : pool[i] = d /\ i # 1
        BY <1>1, <2>3, <3>1
      <4> QED  BY <1>4, <4>1 DEF Somewhere
    <3>2. CASE \E y \in Holders : holding[y] = d
      <4>1. PICK y \in Holders : holding[y] = d
        BY <3>2
      <4>2. y # x
        BY <1>2, <1>7, <4>1
      <4> QED  BY <1>2, <4>1, <4>2 DEF Somewhere
    <3> QED  BY <2>1, <3>1, <3>2 DEF Somewhere
  <2> QED  BY <2>2, <2>3
<1> QED  BY <1>8, <1>9 DEF Placed

(* and so does passing a connection on. *)
LEMMA PassKeepsPlaced ==
  ASSUME Types, Types', Placed, NEW x \in Holders, NEW y \in Holders, Pass(x, y)
  PROVE  Placed'
<1>1. /\ holding \in [Holders -> Connections \cup {Null}] /\ Null \notin Connections
  BY HoldingTyped
<1>2. /\ pool' = pool /\ x # y /\ holding[y] = Null
      /\ holding'[x] = Null /\ holding'[y] = holding[x]
      /\ \A z \in Holders \ {x, y} : holding'[z] = holding[z]
  BY <1>1 DEF Pass
<1>3. Apart'
  BY <1>1, <1>2 DEF Placed, Apart
<1>4. ASSUME NEW d \in Connections PROVE Somewhere(d)'
  <2>1. Somewhere(d)
    BY DEF Placed
  <2> QED  BY <1>1, <1>2, <2>1 DEF Somewhere
<1> QED  BY <1>3, <1>4 DEF Placed

(* A connection that is somewhere, and nowhere else, has one place: the    *)
(* set that the invariant counts is a singleton.                           *)
LEMMA PlacedIsInOnePlace == Types /\ Placed => InOnePlace
<1> SUFFICES ASSUME Types, Placed, NEW c \in Connections PROVE Cardinality(Places(c)) = 1
  BY DEF InOnePlace
<1>1. c # Null /\ Somewhere(c)
  BY HoldingTyped DEF Placed
<1>2. \A r \in Repos : <<"repo", r>> \in Holders /\ holding[<<"repo", r>>] = repo[r].conn
  BY DEF Holders, holding
<1>3. \A t \in Threads : /\ <<"call", t>> \in Holders
                         /\ holding[<<"call", t>>] = IF HeldByCall(t) THEN task[t].conn ELSE Null
  BY DEF Holders, holding
<1>4. \E z : Places(c) = {z}
  <2>1. CASE \E i \in DOMAIN pool : pool[i] = c
    <3>1. PICK i \in DOMAIN pool : pool[i] = c
      BY <2>1
    <3>2. \A j \in DOMAIN pool : pool[j] = c => j = i
      BY <3>1 DEF Placed, Apart
    <3>3. \A x \in Holders : holding[x] # c
      BY <3>1 DEF Placed, Apart
    <3>4. \A r \in Repos : repo[r].conn # c
      BY <1>2, <3>3
    <3>5. \A t \in Threads : HeldByCall(t) => task[t].conn # c
      BY <1>3, <3>3
    <3>6. Places(c) = {<<"pool", i>>}
      BY <3>1, <3>2, <3>4, <3>5 DEF Places
    <3> QED  BY <3>6
  <2>2. CASE \E x \in Holders : holding[x] = c
    <3>1. PICK x \in Holders : holding[x] = c
      BY <2>2
    <3>2. \A y \in Holders : holding[y] = c => y = x
      BY <1>1, <3>1 DEF Placed, Apart
    <3>3. \A i \in DOMAIN pool : pool[i] # c
      BY <3>1 DEF Placed, Apart
    <3>4. \A r \in Repos : repo[r].conn = c => <<"repo", r>> = x
      BY <1>2, <3>2
    <3>5. \A t \in Threads : HeldByCall(t) /\ task[t].conn = c => <<"call", t>> = x
      BY <1>3, <3>2
    <3>6. Places(c) \subseteq {x}
      BY <3>3, <3>4, <3>5 DEF Places
    <3>7. x \in Places(c)
      <4>1. CASE x \in {"repo"} \X Repos
        <5>1. PICK r \in Repos : x = <<"repo", r>>
          BY <4>1
        <5> QED  BY <1>2, <3>1, <5>1 DEF Places
      <4>2. CASE x \in {"call"} \X Threads
        <5>1. PICK t \in Threads : x = <<"call", t>>
          BY <4>2
        <5> QED  BY <1>1, <1>3, <3>1, <5>1 DEF Places
      <4> QED  BY <4>1, <4>2 DEF Holders
    <3> QED  BY <3>6, <3>7
  <2> QED  BY <1>1, <2>1, <2>2 DEF Somewhere
<1> QED  BY <1>4, FS_Singleton
-----------------------------------------------------------------------------

(* What a call holds.                                                      *)
CallHolds(t) == IF HeldByCall(t) THEN task[t].conn ELSE Null
Moved == \/ Stay
         \/ \E x \in Holders : Put(x) \/ Take(x)
         \/ \E x, y \in Holders : Pass(x, y)

(* What each holder holds, *)
LEMMA HoldingOf ==
  /\ \A r \in Repos : <<"repo", r>> \in Holders /\ holding[<<"repo", r>>] = repo[r].conn
  /\ \A t \in Threads : <<"call", t>> \in Holders /\ holding[<<"call", t>>] = CallHolds(t)
  /\ \A x \in Holders : (\E r \in Repos : x = <<"repo", r>>) \/ (\E t \in Threads : x = <<"call", t>>)
<1>1. \A x \in Holders : (\E r \in Repos : x = <<"repo", r>>) \/ (\E t \in Threads : x = <<"call", t>>)
  BY DEF Holders
<1>2. \A r \in Repos : <<"repo", r>> \in Holders
  BY DEF Holders
<1>3. \A t \in Threads : <<"call", t>> \in Holders
  BY DEF Holders
<1> QED  BY <1>1, <1>2, <1>3 DEF holding, CallHolds

(* and what it holds after a step. *)
LEMMA NextHoldingOf ==
  /\ \A r \in Repos : holding'[<<"repo", r>>] = repo'[r].conn
  /\ \A t \in Threads : holding'[<<"call", t>>] = CallHolds(t)'
  /\ holding' = [x \in Holders |-> holding'[x]]
<1>1. \A r \in Repos : <<"repo", r>> \in Holders
  BY DEF Holders
<1>2. \A t \in Threads : <<"call", t>> \in Holders
  BY DEF Holders
<1> QED  BY <1>1, <1>2 DEF holding, CallHolds

(* One Repository, or one call, holds something else than before.          *)
LEMMA RepoHolds ==
  ASSUME NEW r \in Repos, NEW v, repo'[r].conn = v,
         \A q \in Repos \ {r} : repo'[q].conn = repo[q].conn,
         \A u \in Threads : CallHolds(u)' = CallHolds(u)
  PROVE  holding' = [holding EXCEPT ![<<"repo", r>>] = v]
<1>1. holding = [x \in Holders |-> holding[x]]
  BY DEF holding
<1>2. ASSUME NEW x \in Holders
      PROVE  holding'[x] = IF x = <<"repo", r>> THEN v ELSE holding[x]
  <2>1. CASE \E q \in Repos : x = <<"repo", q>>
    BY <2>1, HoldingOf, NextHoldingOf
  <2>2. CASE \E u \in Threads : x = <<"call", u>>
    BY <2>2, HoldingOf, NextHoldingOf
  <2> QED  BY <2>1, <2>2, HoldingOf
<1> QED  BY <1>1, <1>2, NextHoldingOf, HoldingOf

(* A step after which one call holds something else changes holding at     *)
(* that one,                                                               *)
LEMMA CallHoldsOnly ==
  ASSUME NEW t \in Threads, NEW v, CallHolds(t)' = v,
         \A q \in Repos : repo'[q].conn = repo[q].conn,
         \A u \in Threads \ {t} : CallHolds(u)' = CallHolds(u)
  PROVE  holding' = [holding EXCEPT ![<<"call", t>>] = v]
<1>1. holding = [x \in Holders |-> holding[x]]
  BY DEF holding
<1>2. ASSUME NEW x \in Holders
      PROVE  holding'[x] = IF x = <<"call", t>> THEN v ELSE holding[x]
  <2>1. CASE \E q \in Repos : x = <<"repo", q>>
    BY <2>1, HoldingOf, NextHoldingOf
  <2>2. CASE \E u \in Threads : x = <<"call", u>>
    BY <2>2, HoldingOf, NextHoldingOf
  <2> QED  BY <2>1, <2>2, HoldingOf
<1> QED  BY <1>1, <1>2, NextHoldingOf, HoldingOf

(* and one after which nobody does changes nothing. *)
LEMMA NoneHoldsElse ==
  ASSUME \A q \in Repos : repo'[q].conn = repo[q].conn,
         \A u \in Threads : CallHolds(u)' = CallHolds(u)
  PROVE  holding' = holding
<1>1. holding = [x \in Holders |-> holding[x]]
  BY DEF holding
<1>2. ASSUME NEW x \in Holders PROVE holding'[x] = holding[x]
  BY HoldingOf, NextHoldingOf
<1> QED  BY <1>1, <1>2, NextHoldingOf

(* The calls of the other threads go on holding what they hold. *)
LEMMA OthersHold ==
  ASSUME NEW t \in Threads, Alone(t), CallHolds(t)' = CallHolds(t)
  PROVE  \A u \in Threads : CallHolds(u)' = CallHolds(u)
BY DEF Alone, CallHolds, HeldByCall

(* A step that moves neither the queue nor a Repository nor what its call  *)
(* holds moves nothing.                                                    *)
LEMMA OnlyCallMoves ==
  ASSUME NEW t \in Threads, Alone(t), pool' = pool, repo' = repo, CallHolds(t)' = CallHolds(t)
  PROVE  Moved
BY OthersHold, NoneHoldsElse DEF Moved, Stay

(* free_connection puts the connection back, if there is one. *)
LEMMA FreeMoves ==
  ASSUME Types, NEW r \in Repos, FreeConnection(r), \A u \in Threads : CallHolds(u)' = CallHolds(u)
  PROVE  Moved
<1>1. CASE repo[r].bound /\ repo[r].conn # Null
  <2>1. /\ \A q \in Repos \ {r} : repo'[q] = repo[q]
        /\ repo'[r] = [repo[r] EXCEPT !.conn = Null] /\ pool' = Append(pool, repo[r].conn)
    BY <1>1, FreeConnectionIs
  <2>2. repo'[r].conn = Null /\ \A q \in Repos \ {r} : repo'[q].conn = repo[q].conn
    BY <2>1 DEF Types, Repository
  <2>3. holding' = [holding EXCEPT ![<<"repo", r>>] = Null]
    BY <2>2, RepoHolds
  <2>4. Put(<<"repo", r>>)
    BY <1>1, <2>1, <2>3, HoldingOf DEF Put
  <2> QED  BY <2>4, HoldingOf DEF Moved
<1>2. CASE ~(repo[r].bound /\ repo[r].conn # Null)
  <2>1. repo' = repo /\ pool' = pool
    BY <1>2, FreeConnectionIs
  <2> QED  BY <2>1, NoneHoldsElse DEF Moved, Stay
<1> QED  BY <1>1, <1>2

(* The operations of Repository objects: a connection is put back by       *)
(* free_connection and the destructor, passed on by a move, and never      *)
(* duplicated by a copy of one that has none.                              *)
LEMMA ObjectsMove ==
  ASSUME Habits \cap {"copy", "assign"} = {}, Fits, OnLive,
         NEW t \in Threads, NEW r \in Repos, NEW q \in Repos,
         \/ Construct(t, r) \/ FreeByHand(t, r) \/ Destroy(t, r) \/ AskMovedFrom(t, r)
         \/ Move(t, r, q) \/ Copy(t, r, q) \/ Throw(t)
  PROVE  Moved
<1>0. Types /\ repo \in [Repos -> Repository] /\ task' = task
  BY ObjectsFit DEF Fits, Types
<1>1. \A u \in Threads : CallHolds(u)' = CallHolds(u)
  BY <1>0 DEF CallHolds, HeldByCall
<1>2. CASE Construct(t, r)
  <2>1. /\ repo[r].conn = Null /\ pool' = pool /\ repo'[r].conn = Null
        /\ \A p \in Repos \ {r} : repo'[p] = repo[p]
    BY <1>0, <1>2 DEF Construct, OnLive, NewRepo
  <2> QED  BY <1>1, <2>1, NoneHoldsElse DEF Moved, Stay
<1>3. CASE FreeByHand(t, r)
  BY <1>0, <1>1, <1>3, FreeMoves DEF FreeByHand
<1>4. CASE Destroy(t, r)
  <2>1. /\ repo'[r].conn = Null /\ \A p \in Repos \ {r} : repo'[p] = repo[p]
        /\ IF repo[r].conn = Null THEN pool' = pool ELSE pool' = Append(pool, repo[r].conn)
    BY <1>0, <1>4 DEF Destroy, NoRepo
  <2>2. CASE repo[r].conn = Null
    BY <1>1, <2>1, <2>2, NoneHoldsElse DEF Moved, Stay
  <2>3. CASE repo[r].conn # Null
    <3>1. holding' = [holding EXCEPT ![<<"repo", r>>] = Null]
      BY <1>1, <2>1, RepoHolds
    <3>2. Put(<<"repo", r>>)
      BY <2>1, <2>3, <3>1, HoldingOf DEF Put
    <3> QED  BY <3>2, HoldingOf DEF Moved
  <2> QED  BY <2>2, <2>3
<1>5. CASE AskMovedFrom(t, r) \/ Throw(t)
  <2>1. pool' = pool /\ repo' = repo
    BY <1>5 DEF AskMovedFrom, Throw, resources
  <2> QED  BY <1>1, <2>1, NoneHoldsElse DEF Moved, Stay
<1>6. CASE Move(t, r, q)
  <2>1. /\ r # q /\ repo[q].conn = Null /\ pool' = pool
        /\ repo'[q].conn = repo[r].conn /\ repo'[r].conn = Null
        /\ \A p \in Repos \ {r, q} : repo'[p] = repo[p]
    BY <1>0, <1>6 DEF Move, MayOverwrite, May, NoRepo
  <2>2. \A x \in Holders : holding'[x] = IF x = <<"repo", r>> THEN Null
                           ELSE IF x = <<"repo", q>> THEN holding[<<"repo", r>>] ELSE holding[x]
    <3> SUFFICES ASSUME NEW x \in Holders
                 PROVE  holding'[x] = IF x = <<"repo", r>> THEN Null
                           ELSE IF x = <<"repo", q>> THEN holding[<<"repo", r>>] ELSE holding[x]
      OBVIOUS
    <3>1. CASE \E p \in Repos : x = <<"repo", p>>
      <4>1. PICK p \in Repos : x = <<"repo", p>>
        BY <3>1
      <4>2. holding'[x] = repo'[p].conn /\ holding[x] = repo[p].conn /\ holding[<<"repo", r>>] = repo[r].conn
        BY <4>1, HoldingOf, NextHoldingOf
      <4> QED  BY <2>1, <4>1, <4>2
    <3>2. CASE \E u \in Threads : x = <<"call", u>>
      <4>1. PICK u \in Threads : x = <<"call", u>>
        BY <3>2
      <4>2. holding'[x] = CallHolds(u)' /\ holding[x] = CallHolds(u)
        BY <4>1, HoldingOf, NextHoldingOf
      <4> QED  BY <1>1, <4>1, <4>2
    <3> QED  BY <3>1, <3>2, HoldingOf
  <2>3. holding = [x \in Holders |-> holding[x]]
    BY DEF holding
  <2>4. holding' = [holding EXCEPT ![<<"repo", q>>] = holding[<<"repo", r>>], ![<<"repo", r>>] = Null]
    BY <2>2, <2>3, HoldingOf, NextHoldingOf
  <2>5. Pass(<<"repo", r>>, <<"repo", q>>)
    BY <2>1, <2>4, HoldingOf DEF Pass
  <2> QED  BY <2>5, HoldingOf DEF Moved
<1>7. CASE Copy(t, r, q)
  <2>1. /\ repo[r].conn = Null /\ repo[q].conn = Null /\ pool' = pool
        /\ repo'[q].conn = Null /\ \A p \in Repos \ {q} : repo'[p] = repo[p]
    BY <1>0, <1>7 DEF Copy, MayOverwrite, May
  <2> QED  BY <1>1, <2>1, NoneHoldsElse DEF Moved, Stay
<1> QED  BY <1>2, <1>3, <1>4, <1>5, <1>6, <1>7

(* Most stages of a call move nothing. *)
LEMMA CallsMove ==
  ASSUME "tables" \notin Habits, Fits, NEW t \in Threads, Alone(t),
         \/ \E r \in Repos : \E kind \in {"query", "transaction", "wrap"} : Ask(t, r, kind)
         \/ \E kind \in {"recorder", "tables"} : AskBackend(t, kind)
         \/ \E i \in DOMAIN frames[t] : AskTransaction(t, i) \/ Commit(t, i) \/ RollBack(t, i) \/ MoveTransaction(t, i)
         \/ TestBuilder(t) \/ MakeBuilder(t) \/ EnterWrap(t) \/ Query(t) \/ Relation(t) \/ ReadLog(t)
  PROVE  Moved
<1>0. Types /\ CallFits(t) /\ task[t] \in Call /\ task \in [Threads -> Call]
  BY DEF Fits, Types
<1>1. pool' = pool /\ repo' = repo
  BY DEF Ask, AskBackend, AskTransaction, Commit, RollBack, MoveTransaction, TestBuilder, MakeBuilder,
         EnterWrap, Query, Relation, ReadLog, resources
<1>2. CallHolds(t)' = CallHolds(t)
  <2>1. CASE \E r \in Repos : \E kind \in {"query", "transaction", "wrap"} : Ask(t, r, kind)
    <3>1. task[t] = NoTask /\ task'[t].kind \in {"query", "transaction", "wrap"}
      BY <1>0, <2>1 DEF Ask, Free
    <3> QED  BY <3>1 DEF CallHolds, HeldByCall, NoTask
  <2>2. CASE \E kind \in {"recorder", "tables"} : AskBackend(t, kind)
    <3>1. task[t] = NoTask /\ task'[t].conn = Null
      BY <1>0, <2>2 DEF AskBackend, Free, NoTask
    <3> QED  BY <3>1 DEF CallHolds, HeldByCall, NoTask
  <2>3. CASE \E i \in DOMAIN frames[t] : AskTransaction(t, i)
    <3>1. task[t] = NoTask /\ task'[t].kind = "query"
      BY <1>0, <2>3 DEF AskTransaction, Free
    <3> QED  BY <3>1 DEF CallHolds, HeldByCall, NoTask
  <2>4. CASE \/ \E i \in DOMAIN frames[t] : Commit(t, i) \/ RollBack(t, i) \/ MoveTransaction(t, i)
             \/ Relation(t)
    <3>1. task' = task
      BY <2>4, TransactionsFit
    <3> QED  BY <3>1 DEF CallHolds, HeldByCall
  <2>5. CASE TestBuilder(t) \/ MakeBuilder(t)
    <3>1. /\ task[t].stage \in {"test", "make"} /\ task'[t].kind = task[t].kind
          /\ task'[t].conn = task[t].conn /\ task'[t].stage \in {"make", AfterBuilder(task[t].kind)}
      BY <1>0, <2>5 DEF TestBuilder, MakeBuilder, Call
    <3>2. task[t].kind # "tables"
      BY <1>0, <3>1 DEF CallFits
    <3> QED  BY <3>1, <3>2 DEF CallHolds, HeldByCall, AfterBuilder
  <2>6. CASE EnterWrap(t) \/ Query(t) \/ ReadLog(t)
    <3>1. /\ task'[t] = NoTask /\ task[t].kind \in {"wrap", "query", "recorder"} /\ task[t].stage = "run"
      BY <1>0, <2>6 DEF EnterWrap, Query, ReadLog
    <3> QED  BY <3>1 DEF CallHolds, HeldByCall, NoTask
  <2> QED  BY <2>1, <2>2, <2>3, <2>4, <2>5, <2>6
<1> QED  BY <1>1, <1>2, OnlyCallMoves

(* get_connection takes one, for the Repository or for the call itself. *)
LEMMA GetMoves ==
  ASSUME Fits, NEW t \in Threads, Alone(t), Get(t)
  PROVE  Moved
<1>0. Types /\ CallFits(t) /\ task[t] \in Call /\ task \in [Threads -> Call]
  BY DEF Fits, Types
<1> DEFINE c == Head(pool)
           r == task[t].repo
<1>1. /\ task[t].stage = "get" /\ pool # <<>> /\ pool' = Tail(pool)
      /\ repo' = IF r = None THEN repo ELSE [repo EXCEPT ![r].conn = c]
      /\ task'[t].conn = c /\ task'[t].stage = AfterGet(task[t].kind) /\ task'[t].kind = task[t].kind
  BY <1>0 DEF Get, Call
<1>2. c \in Connections /\ c # Null
  BY <1>0, <1>1, HoldingTyped DEF Types
<1>3. CallHolds(t) = Null
  BY <1>0, <1>1 DEF CallFits, CallHolds, HeldByCall
<1>4. CASE r = None
  <2>1. task[t].kind \in {"recorder", "tables"}
    BY <1>0, <1>1, <1>4 DEF CallFits, Call, NoTask
  <2> HIDE DEF c, r
  <2>2. CallHolds(t)' = c
    <3>1. task[t].kind = "recorder" => task'[t].stage # "run"
      BY <1>1 DEF AfterGet
    <3> QED  BY <1>1, <1>2, <2>1, <3>1 DEF CallHolds, HeldByCall
  <2>3. \A u \in Threads \ {t} : CallHolds(u)' = CallHolds(u)
    BY DEF Alone, CallHolds, HeldByCall
  <2>4. repo' = repo
    BY <1>1, <1>4
  <2>5. holding' = [holding EXCEPT ![<<"call", t>>] = c]
    BY <2>2, <2>3, <2>4, CallHoldsOnly
  <2>6. Take(<<"call", t>>)
    BY <1>1, <1>3, <2>5, HoldingOf DEF Take, c
  <2> QED  BY <2>6, HoldingOf DEF Moved
<1>5. CASE r # None
  <2>1. /\ r \in Repos /\ repo[r].conn = Null /\ task[t].kind \in {"query", "transaction", "wrap"}
    BY <1>0, <1>1, <1>5 DEF CallFits, Mine
  <2>2. CallHolds(t)' = CallHolds(t)
    BY <1>1, <1>3, <2>1 DEF CallHolds, HeldByCall
  <2>3. \A u \in Threads : CallHolds(u)' = CallHolds(u)
    BY <2>2, OthersHold
  <2> HIDE DEF c, r
  <2>4. repo'[r].conn = c /\ \A q \in Repos \ {r} : repo'[q].conn = repo[q].conn
    BY <1>0, <1>1, <1>5, <2>1 DEF Types, Repository
  <2>5. holding' = [holding EXCEPT ![<<"repo", r>>] = c]
    BY <2>1, <2>3, <2>4, RepoHolds
  <2>6. Take(<<"repo", r>>)
    BY <1>1, <2>1, <2>5, HoldingOf DEF Take, c
  <2> QED  BY <2>1, <2>6, HoldingOf DEF Moved
<1> QED  BY <1>4, <1>5

(* A call that gives its connection back puts it in the queue. *)
LEMMA CallGivesBack ==
  ASSUME Types, NEW t \in Threads, Alone(t), HeldByCall(t), CallHolds(t)' = Null,
         pool' = Append(pool, task[t].conn), repo' = repo
  PROVE  Moved
<1>1. \A u \in Threads \ {t} : CallHolds(u)' = CallHolds(u)
  BY DEF Alone, CallHolds, HeldByCall
<1>2. holding' = [holding EXCEPT ![<<"call", t>>] = Null]
  BY <1>1, CallHoldsOnly
<1>3. CallHolds(t) = task[t].conn /\ task[t].conn # Null
  BY DEF CallHolds, HeldByCall
<1>4. Put(<<"call", t>>)
  BY <1>2, <1>3, HoldingOf DEF Put
<1> QED  BY <1>4, HoldingOf DEF Moved

(* The ends of borrowing: the wrapper of migrations(), a transaction that  *)
(* could not begin, get_table_names, the end of a body.                    *)
LEMMA EndsMove ==
  ASSUME "tables" \notin Habits, Fits, NEW t \in Threads, Alone(t),
         Unwrap(t) \/ EnterTransaction(t) \/ TableNames(t) \/ LeaveBody(t)
  PROVE  Moved
<1>0. Types /\ CallFits(t) /\ BodiesFit(t) /\ task[t] \in Call /\ task \in [Threads -> Call]
      /\ frames[t] \in Seq(Frame) /\ Null \notin Connections
  BY HoldingTyped DEF Fits, Types
<1>1. CASE Unwrap(t)
  <2>1. /\ task[t].kind = "recorder" /\ task[t].stage = "unwrap" /\ task[t].conn \in Connections
        /\ pool' = Append(pool, task[t].conn) /\ repo' = repo
        /\ task'[t].kind = "recorder" /\ task'[t].stage = "run"
    BY <1>0, <1>1 DEF Unwrap, CallFits, Call
  <2>2. HeldByCall(t) /\ CallHolds(t)' = Null
    BY <1>0, <2>1 DEF HeldByCall, CallHolds
  <2> QED  BY <1>0, <2>1, <2>2, CallGivesBack
<1>2. CASE EnterTransaction(t)
  <2>1. /\ task[t].kind = "transaction" /\ task'[t] = NoTask /\ task[t].repo \in Repos
    BY <1>0, <1>2 DEF EnterTransaction, CallFits, Mine
  <2>2. CallHolds(t)' = CallHolds(t)
    BY <2>1 DEF CallHolds, HeldByCall, NoTask
  <2>3. (pool' = pool /\ repo' = repo) \/ FreeConnection(task[t].repo)
    BY <1>2 DEF EnterTransaction
  <2>4. \A u \in Threads : CallHolds(u)' = CallHolds(u)
    BY <2>2, OthersHold
  <2> QED  BY <1>0, <2>1, <2>2, <2>3, <2>4, OnlyCallMoves, FreeMoves
<1>3. CASE TableNames(t)
  <2>1. /\ task[t].kind = "tables" /\ task[t].stage = "run" /\ task[t].conn \in Connections
        /\ task'[t] = NoTask /\ repo' = repo
    BY <1>0, <1>3 DEF TableNames, CallFits
  <2>2. pool' = Append(pool, task[t].conn)
    BY <1>3 DEF TableNames, May
  <2>3. HeldByCall(t) /\ CallHolds(t)' = Null
    BY <1>0, <2>1 DEF HeldByCall, CallHolds, NoTask
  <2> QED  BY <1>0, <2>1, <2>2, <2>3, CallGivesBack
<1>4. CASE LeaveBody(t)
  <2>1. FreeConnection(Last(frames[t]).repo) /\ task' = task /\ frames[t] # <<>>
    BY <1>4 DEF LeaveBody
  <2>2. Last(frames[t]).repo \in Repos
    BY <1>0, <2>1 DEF BodiesFit, Last, Mine
  <2>3. \A u \in Threads : CallHolds(u)' = CallHolds(u)
    BY <2>1 DEF CallHolds, HeldByCall
  <2> QED  BY <1>0, <2>1, <2>2, <2>3, FreeMoves
<1> QED  BY <1>1, <1>2, <1>3, <1>4

(* Every step of a thread puts back, takes or passes on one connection at  *)
(* most.                                                                   *)
LEMMA StepMoves ==
  ASSUME Habits \cap {"copy", "assign", "tables"} = {}, Fits, OnLive, NEW t \in Threads, ThreadStep(t)
  PROVE  Moved
<1>1. Alone(t)
  BY Locality
<1>2. ASSUME NEW r \in Repos, NEW q \in Repos,
             \/ Construct(t, r) \/ FreeByHand(t, r) \/ Destroy(t, r) \/ AskMovedFrom(t, r)
             \/ Move(t, r, q) \/ Copy(t, r, q)
      PROVE  Moved
  BY <1>2, ObjectsMove
<1>3. CASE Throw(t)
  <2>1. pool' = pool /\ repo' = repo /\ task' = task
    BY <1>3 DEF Throw, resources
  <2> QED  BY <1>1, <2>1, OnlyCallMoves DEF CallHolds, HeldByCall
<1>4. ASSUME \/ \E r \in Repos : \E kind \in {"query", "transaction", "wrap"} : Ask(t, r, kind)
             \/ \E kind \in {"recorder", "tables"} : AskBackend(t, kind)
             \/ \E i \in DOMAIN frames[t] : AskTransaction(t, i) \/ Commit(t, i) \/ RollBack(t, i) \/ MoveTransaction(t, i)
             \/ TestBuilder(t) \/ MakeBuilder(t) \/ EnterWrap(t) \/ Query(t) \/ Relation(t) \/ ReadLog(t)
      PROVE  Moved
  BY <1>1, <1>4, CallsMove
<1>5. ASSUME Get(t) PROVE Moved
  BY <1>1, <1>5, GetMoves
<1>6. ASSUME Unwrap(t) \/ EnterTransaction(t) \/ TableNames(t) \/ LeaveBody(t) PROVE Moved
  BY <1>1, <1>6, EndsMove
<1> QED  BY <1>2, <1>3, <1>4, <1>5, <1>6 DEF ThreadStep

(* None of these loses a connection, or puts it in two places. *)
LEMMA MovedKeepsPlaced ==
  ASSUME Types, Types', Placed, Moved
  PROVE  Placed'
<1>1. CASE Stay
  BY <1>1 DEF Stay, Placed, Apart, Somewhere
<1> QED  BY <1>1, PutKeepsPlaced, TakeKeepsPlaced, PassKeepsPlaced DEF Moved

(* Objects with a connection, or a call on them, stay alive.               *)
LEMMA StepKeepsLive ==
  ASSUME Fits, OnLive, NEW t \in Threads, ThreadStep(t)
  PROVE  OnLive'
<1>0. /\ Types /\ CallFits(t) /\ BodiesFit(t) /\ Alone(t) /\ repo \in [Repos -> Repository]
      /\ task \in [Threads -> Call] /\ Types' /\ CallFits(t)'
      /\ \A u \in Threads : task'[u].repo # None => task'[u].repo \in Mine(u)
  <2>1. Fits'
    BY NextFits DEF Next
  <2> QED  BY <2>1, Locality DEF Fits, Types, CallFits, Mine
<1>1. SUFFICES /\ \A r \in Mine(t) : repo'[r].conn # Null => repo'[r].live
               /\ task'[t].repo # None => repo'[task'[t].repo].live
  <2>1. \A r \in Repos : r \in Mine(t) \/ repo'[r] = repo[r]
    BY <1>0 DEF Alone
  <2>2. \A u \in Threads \ {t} : task'[u] = task[u] /\ Mine(u) \cap Mine(t) = {} /\ Mine(u) \subseteq Repos
    BY <1>0 DEF Alone, Mine
  <2> QED  BY <1>0, <2>1, <2>2 DEF OnLive
<1>2. \/ \A r \in Mine(t) : repo'[r].live = repo[r].live /\ (repo'[r].conn # Null => repo[r].live)
      \/ task'[t].repo = None /\ \A r \in Mine(t) : repo'[r].conn # Null => repo'[r].live
  <2>1. ASSUME NEW r \in Repos, Construct(t, r) \/ Destroy(t, r)
        PROVE  task'[t].repo = None /\ \A p \in Mine(t) : repo'[p].conn # Null => repo'[p].live
    <3>1. task'[t] = NoTask
      BY <2>1 DEF Construct, Destroy, Free, program
    <3>2. repo' = [repo EXCEPT ![r] = NewRepo] \/ repo' = [repo EXCEPT ![r] = NoRepo]
      BY <2>1 DEF Construct, Destroy
    <3> QED  BY <1>0, <3>1, <3>2 DEF OnLive, NewRepo, NoRepo, NoTask, Mine
  <2>2. ASSUME NEW r \in Repos, NEW q \in Repos, Move(t, r, q) \/ Copy(t, r, q)
        PROVE  task'[t].repo = None /\ \A p \in Mine(t) : repo'[p].conn # Null => repo'[p].live
    <3>1. task'[t] = NoTask
      BY <2>2 DEF Move, Copy, Free, program
    <3>2. /\ repo[r].live
          /\ \/ repo' = [repo EXCEPT ![q] = repo[r], ![r] = [NoRepo EXCEPT !.live = TRUE]]
             \/ repo' = [repo EXCEPT ![q] = repo[r]]
      BY <2>2 DEF Move, Copy
    <3>3. [NoRepo EXCEPT !.live = TRUE].live = TRUE /\ NoTask.repo = None
      BY DEF NoRepo, NoTask
    <3>4. ASSUME NEW p \in Repos, repo'[p].conn # Null PROVE repo'[p].live
      <4>1. repo'[p] \in {repo[p], repo[r], [NoRepo EXCEPT !.live = TRUE]}
        BY <1>0, <3>2
      <4> QED  BY <3>2, <3>3, <3>4, <4>1 DEF OnLive
    <3> QED  BY <3>1, <3>3, <3>4 DEF Mine
  <2>3. ASSUME NEW r \in Repos, FreeConnection(r)
        PROVE  \A p \in Mine(t) : repo'[p].live = repo[p].live /\ (repo'[p].conn # Null => repo[p].live)
    <3>1. /\ \A p \in Repos \ {r} : repo'[p] = repo[p]
          /\ repo'[r] = [repo[r] EXCEPT !.conn = Null] \/ repo'[r] = repo[r]
      BY <1>0, <2>3, FreeConnectionIs
    <3>2. repo'[r].live = repo[r].live /\ (repo'[r].conn # Null => repo'[r] = repo[r])
      <4>1. repo[r] \in Repository
        BY <1>0
      <4> QED  BY <3>1, <4>1 DEF Repository
    <3> QED  BY <3>1, <3>2 DEF OnLive, Mine
  <2>4. ASSUME repo' = repo
        PROVE  \A p \in Mine(t) : repo'[p].live = repo[p].live /\ (repo'[p].conn # Null => repo[p].live)
    BY <2>4 DEF OnLive, Mine
  <2>5. ASSUME Get(t)
        PROVE  \A p \in Mine(t) : repo'[p].live = repo[p].live /\ (repo'[p].conn # Null => repo[p].live)
    <3>1. repo' = IF task[t].repo = None THEN repo ELSE [repo EXCEPT ![task[t].repo].conn = Head(pool)]
      BY <2>5 DEF Get
    <3> QED  BY <1>0, <3>1 DEF OnLive, Mine, CallFits, Repository
  <2>6. ASSUME EnterTransaction(t) PROVE repo' = repo \/ \E r \in Repos : FreeConnection(r)
    <3>1. task[t].repo \in Repos
      BY <1>0, <2>6 DEF EnterTransaction, CallFits, Mine
    <3> QED  BY <2>6, <3>1 DEF EnterTransaction
  <2>7. ASSUME LeaveBody(t) PROVE \E r \in Repos : FreeConnection(r)
    <3>1. frames[t] \in Seq(Frame) /\ frames[t] # <<>> /\ FreeConnection(Last(frames[t]).repo)
      BY <1>0, <2>7 DEF LeaveBody, Types
    <3>2. Last(frames[t]).repo \in Repos
      BY <1>0, <3>1 DEF BodiesFit, Last, Mine
    <3> QED  BY <3>1, <3>2
  <2>8. ASSUME NEW r \in Repos, FreeByHand(t, r) PROVE FreeConnection(r)
    BY <2>8 DEF FreeByHand
  <2>9. ASSUME \/ \E r \in Repos : AskMovedFrom(t, r)
               \/ \E r \in Repos : \E kind \in {"query", "transaction", "wrap"} : Ask(t, r, kind)
               \/ \E kind \in {"recorder", "tables"} : AskBackend(t, kind)
               \/ \E i \in DOMAIN frames[t] : AskTransaction(t, i) \/ Commit(t, i) \/ RollBack(t, i) \/ MoveTransaction(t, i)
               \/ TestBuilder(t) \/ MakeBuilder(t) \/ Unwrap(t) \/ EnterWrap(t) \/ Query(t) \/ Relation(t)
               \/ ReadLog(t) \/ TableNames(t) \/ Throw(t)
        PROVE  repo' = repo
    BY <2>9 DEF AskMovedFrom, Ask, AskBackend, AskTransaction, Commit, RollBack, MoveTransaction,
       TestBuilder, MakeBuilder, Unwrap, EnterWrap, Query, Relation, ReadLog, TableNames, Throw, resources
  <2> QED  BY <2>1, <2>2, <2>3, <2>4, <2>5, <2>6, <2>7, <2>8, <2>9 DEF ThreadStep
<1>3. task'[t].repo \in {None, task[t].repo} \/ (task'[t].repo # None => repo[task'[t].repo].live)
  <2>1. ASSUME NEW r \in Repos, NEW kind, Ask(t, r, kind) PROVE repo[task'[t].repo].live
    BY <1>0, <2>1 DEF Ask
  <2>2. ASSUME \/ \E r \in Repos : Construct(t, r) \/ FreeByHand(t, r) \/ Destroy(t, r) \/ AskMovedFrom(t, r)
               \/ \E r \in Repos, q \in Repos : Move(t, r, q) \/ Copy(t, r, q)
               \/ Throw(t) \/ LeaveBody(t) \/ Relation(t)
               \/ \E i \in DOMAIN frames[t] : Commit(t, i) \/ RollBack(t, i) \/ MoveTransaction(t, i)
        PROVE  task' = task
    BY <2>2 DEF Construct, FreeByHand, Destroy, AskMovedFrom, Move, Copy, Throw, LeaveBody, Relation,
       Commit, RollBack, MoveTransaction, program
  <2>3. ASSUME \/ EnterWrap(t) \/ EnterTransaction(t) \/ Query(t) \/ ReadLog(t) \/ TableNames(t)
               \/ \E kind \in {"recorder", "tables"} : AskBackend(t, kind)
               \/ \E i \in DOMAIN frames[t] : AskTransaction(t, i)
        PROVE  task'[t].repo = None
    <3>1. CASE \E kind \in {"recorder", "tables"} : AskBackend(t, kind)
      BY <1>0, <3>1 DEF AskBackend, NoTask
    <3>2. CASE \E i \in DOMAIN frames[t] : AskTransaction(t, i)
      BY <1>0, <3>2 DEF AskTransaction
    <3>3. CASE EnterWrap(t) \/ EnterTransaction(t) \/ Query(t) \/ ReadLog(t) \/ TableNames(t)
      <4>1. task' = [task EXCEPT ![t] = NoTask]
        BY <3>3 DEF EnterWrap, EnterTransaction, Query, ReadLog, TableNames
      <4> QED  BY <1>0, <4>1 DEF NoTask
    <3> QED  BY <2>3, <3>1, <3>2, <3>3
  <2>4. ASSUME Get(t) \/ TestBuilder(t) \/ MakeBuilder(t) \/ Unwrap(t)
        PROVE  task'[t].repo = task[t].repo
    BY <2>4, StagesFit
  <2> QED  BY <2>1, <2>2, <2>3, <2>4 DEF ThreadStep
<1> QED  BY <1>0, <1>2, <1>3 DEF OnLive, Mine

(* At first, all connections are in the queue, each once. *)
LEMMA InitPlaced == Init => Placed /\ OnLive
<1> SUFFICES ASSUME Init PROVE Placed /\ OnLive
  OBVIOUS
<1>1. \A r \in Repos : repo[r].conn = Null
  BY DEF Init, NoRepo
<1>2. \A t \in Threads : task[t] = NoTask /\ CallHolds(t) = Null
  BY DEF Init, CallHolds, HeldByCall, NoTask
<1>3. \A x \in Holders : holding[x] = Null
  BY <1>1, <1>2, HoldingOf
<1>4. pool = [i \in Connections |-> i] /\ DOMAIN pool = Connections /\ Null \notin Connections
  BY DEF Init, Connections, Null
<1>5. Placed
  BY <1>3, <1>4 DEF Placed, Apart, Somewhere
<1> QED  BY <1>1, <1>2, <1>5 DEF OnLive, NoTask

(* Every step keeps each connection in one place. *)
LEMMA NextPlaced ==
  Habits \cap {"copy", "assign", "tables"} = {} /\ Fits /\ Placed /\ OnLive /\ [Next]_vars => (Placed /\ OnLive)'
<1> SUFFICES ASSUME Habits \cap {"copy", "assign", "tables"} = {}, Fits, Placed, OnLive, [Next]_vars
             PROVE  (Placed /\ OnLive)'
  OBVIOUS
<1>1. Types /\ Types'
  BY NextFits DEF Fits
<1>2. ASSUME NEW t \in Threads, ThreadStep(t) PROVE (Placed /\ OnLive)'
  BY <1>1, <1>2, StepMoves, MovedKeepsPlaced, StepKeepsLive
<1>3. CASE StartThreads \/ UNCHANGED vars
  <2>1. pool' = pool /\ repo' = repo /\ task' = task
    BY <1>3 DEF StartThreads, vars, resources, program
  <2>2. \A t \in Threads : CallHolds(t)' = CallHolds(t)
    BY <2>1 DEF CallHolds, HeldByCall
  <2>3. Moved
    BY <2>1, <2>2, NoneHoldsElse DEF Moved, Stay
  <2> QED  BY <1>1, <2>1, <2>3, MovedKeepsPlaced DEF OnLive
<1> QED  BY <1>2, <1>3 DEF Next

(* In programs that do not copy a Repository with a connection or move to  *)
(* one, and whose get_table_names do not fail, every connection is in the  *)
(* pool, with one live Repository or with one call of the backend, and in  *)
(* one of these only, whatever else they do (repository.h:29-32,           *)
(* backend.h:61-64).                                                       *)
THEOREM OwnersDisjoint ==
  Habits \cap {"copy", "assign", "tables"} = {} => (Spec => []InOnePlace)
<1> SUFFICES ASSUME Habits \cap {"copy", "assign", "tables"} = {} PROVE Spec => []InOnePlace
  OBVIOUS
<1>1. Init => Fits /\ Placed /\ OnLive
  BY InitFits, InitPlaced
<1>2. Fits /\ Placed /\ OnLive /\ [Next]_vars => (Fits /\ Placed /\ OnLive)'
  BY NextFits, NextPlaced
<1>3. Fits /\ Placed /\ OnLive => InOnePlace
  BY PlacedIsInOnePlace DEF Fits
<1> QED  BY <1>1, <1>2, <1>3, PTL DEF Spec

-----------------------------------------------------------------------------
(* What programs over the ORM find in their connections and in the         *)
(* database.  Each connection is followed: above, that it is in one place; *)
(* here, that every transaction is on the connection of its own            *)
(* Repository, so that no two threads ever share a session.  Each session  *)
(* is then in the state that the bodies of its thread say it is in, and    *)
(* each write is pending, in the database, undone or not made yet.         *)

(* The bodies and the call of a thread, and the connections of its         *)
(* Repositories: a transaction is on the connection its Repository still   *)
(* has, no other body of the thread is on that Repository, and a call past *)
(* its first stage uses the connection of a Repository of the thread's     *)
(* own.                                                                    *)
Own(t) ==
  /\ \A i \in DOMAIN frames[t] : frames[t][i].kind = "transaction" =>
       /\ repo[frames[t][i].repo].conn = frames[t][i].tr.conn
       /\ \A j \in DOMAIN frames[t] : i < j => frames[t][j].repo # frames[t][i].repo
  /\ task[t].kind \in {"transaction", "wrap"} => ~InTransaction(t, task[t].repo)
  /\ task[t].kind \in {"transaction", "wrap"} /\ task[t].stage # "get" => task[t].conn = repo[task[t].repo].conn
  /\ task[t].kind = "query" /\ task[t].stage # "get" => \E r \in Mine(t) : repo[r].conn = task[t].conn

(* The log of migrations is read before threads are started, with the      *)
(* connection back in the pool.                                            *)
LogReader ==
  \A t \in Threads :
    /\ ~started /\ t # Main => task[t] = NoTask /\ frames[t] = <<>>
    /\ task[t].kind = "recorder" => t = Main /\ ~started
    /\ task[t].kind = "recorder" /\ task[t].stage = "run" => \E i \in DOMAIN pool : pool[i] = task[t].conn

Owned == (\A t \in Threads : Own(t)) /\ LogReader
-----------------------------------------------------------------------------
(* The Repository of an open transaction has its connection. *)
LEMMA InTransactionHolds ==
  ASSUME Fits, OnLive, NEW t \in Threads, Own(t), NEW r, InTransaction(t, r)
  PROVE  r \in Mine(t) /\ repo[r].conn \in Connections /\ repo[r].conn # Null /\ repo[r].live
<1>1. PICK i \in DOMAIN frames[t] : frames[t][i].kind = "transaction" /\ frames[t][i].repo = r
  BY DEF InTransaction
<1>2. r \in Mine(t) /\ repo[r].conn \in Connections
  BY <1>1 DEF Fits, BodiesFit, Own
<1>3. Null \notin Connections
  BY HoldingTyped DEF Fits
<1> QED  BY <1>2, <1>3 DEF OnLive, Mine

(* A step that keeps the bodies, and the connections of the Repositories   *)
(* they are on, keeps what is said of the bodies.                          *)
LEMMA OwnAfter ==
  ASSUME Fits, NEW t \in Threads, Own(t), Reworked(frames[t], frames'[t]),
         \A r \in Repos : InTransaction(t, r) => repo'[r].conn = repo[r].conn
  PROVE  /\ \A r : InTransaction(t, r)' = InTransaction(t, r)
         /\ \A i \in DOMAIN frames'[t] : frames'[t][i].kind = "transaction" =>
              /\ repo'[frames'[t][i].repo].conn = frames'[t][i].tr.conn
              /\ \A j \in DOMAIN frames'[t] : i < j => frames'[t][j].repo # frames'[t][i].repo
         /\ task'[t] = NoTask => Own(t)'
<1> DEFINE fs == frames[t]
           gs == frames'[t]
<1>1. /\ DOMAIN fs = DOMAIN gs
      /\ \A i \in DOMAIN fs : gs[i].kind = fs[i].kind /\ gs[i].repo = fs[i].repo /\ gs[i].tr = fs[i].tr
      /\ \A i \in DOMAIN fs : fs[i].repo \in Repos
  <2>1. fs \in Seq(Frame) /\ gs \in Seq(Frame) /\ Len(gs) = Len(fs)
    BY DEF Fits, Types, Reworked
  <2>2. DOMAIN fs = 1 .. Len(fs) /\ DOMAIN gs = 1 .. Len(fs)
    BY <2>1
  <2>3. \A i \in DOMAIN fs : fs[i].repo \in Repos
    BY DEF Fits, BodiesFit, Mine
  <2> QED  BY <2>2, <2>3 DEF Reworked
<1>2. \A r : InTransaction(t, r)' = InTransaction(t, r)
  BY <1>1 DEF InTransaction
<1>3. ASSUME NEW i \in DOMAIN gs, gs[i].kind = "transaction"
      PROVE  /\ repo'[gs[i].repo].conn = gs[i].tr.conn
             /\ \A j \in DOMAIN gs : i < j => gs[j].repo # gs[i].repo
  <2>1. InTransaction(t, fs[i].repo)
    BY <1>1, <1>3 DEF InTransaction
  <2>2. repo[fs[i].repo].conn = fs[i].tr.conn /\ \A j \in DOMAIN fs : i < j => fs[j].repo # fs[i].repo
    BY <1>1, <1>3 DEF Own
  <2> QED  BY <1>1, <2>1, <2>2
<1> HIDE DEF fs
<1>4. ASSUME task'[t] = NoTask PROVE Own(t)'
  BY <1>3, <1>4 DEF Own, NoTask
<1> QED  BY <1>2, <1>3, <1>4

(* The other threads keep what is theirs. *)
LEMMA OthersOwn ==
  ASSUME Fits, NEW t \in Threads, Alone(t), NEW u \in Threads \ {t}, Own(u)
  PROVE  Own(u)'
<1>1. task'[u] = task[u] /\ frames'[u] = frames[u] /\ \A r \in Mine(u) : repo'[r] = repo[r]
  BY DEF Alone, Mine
<1>2. \A i \in DOMAIN frames[u] : frames[u][i].repo \in Mine(u)
  BY DEF Fits, BodiesFit
<1>3. task[u].kind \in {"transaction", "wrap"} => task[u].repo \in Mine(u)
  BY DEF Fits, CallFits
<1>4. Mine(u)' = Mine(u)
  BY DEF Mine
<1>5. \A r : InTransaction(u, r)' = InTransaction(u, r)
  BY <1>1 DEF InTransaction
<1> QED  BY <1>1, <1>2, <1>3, <1>4, <1>5 DEF Own

(* The operations of Repository objects are not used on one whose          *)
(* transaction is open.                                                    *)
LEMMA ObjectsOwn ==
  ASSUME Habits \subseteq {"cold"}, Fits, OnLive,
         NEW t \in Threads, Own(t), NEW r \in Repos, NEW q \in Repos,
         \/ Construct(t, r) \/ FreeByHand(t, r) \/ Destroy(t, r) \/ AskMovedFrom(t, r)
         \/ Move(t, r, q) \/ Copy(t, r, q) \/ Throw(t)
  PROVE  Own(t)'
<1>0. /\ Types /\ repo \in [Repos -> Repository] /\ frames' = frames /\ task'[t] = NoTask
      /\ Reworked(frames[t], frames'[t])
  BY ObjectsFit, SameBodies DEF Fits, Types
<1>1. ASSUME NEW p \in Repos, InTransaction(t, p) PROVE repo'[p] = repo[p]
  <2>1. repo[p].live
    BY <1>1, InTransactionHolds
  <2>2. Entered(t, p)
    BY <1>1 DEF InTransaction, Entered
  <2>3. CASE Construct(t, r)
    BY <1>0, <2>1, <2>3 DEF Construct
  <2>4. CASE Destroy(t, r)
    BY <1>0, <2>2, <2>4 DEF Destroy
  <2>5. CASE FreeByHand(t, r)
    <3>1. p # r
      BY <1>1, <2>5 DEF FreeByHand, May
    <3> QED  BY <1>0, <2>5, <3>1, FreeConnectionIs DEF FreeByHand
  <2>6. CASE AskMovedFrom(t, r) \/ Throw(t)
    BY <2>6 DEF AskMovedFrom, Throw, resources
  <2>7. CASE Move(t, r, q)
    <3>1. p # r /\ p # q
      BY <1>1, <2>7 DEF Move, MayOverwrite, May
    <3> QED  BY <1>0, <2>7, <3>1 DEF Move
  <2>8. CASE Copy(t, r, q)
    <3>1. p # q
      BY <1>1, <2>8 DEF Copy, MayOverwrite, May
    <3> QED  BY <1>0, <2>8, <3>1 DEF Copy
  <2> QED  BY <2>3, <2>4, <2>5, <2>6, <2>7, <2>8
<1> QED  BY <1>0, <1>1, OwnAfter

(* A call starts with the connection of its Repository. *)
LEMMA AsksOwn ==
  ASSUME Habits \subseteq {"cold"}, Fits, NEW t \in Threads, Own(t),
         \/ \E r \in Repos : \E kind \in {"query", "transaction", "wrap"} : Ask(t, r, kind)
         \/ \E kind \in {"recorder", "tables"} : AskBackend(t, kind)
         \/ \E i \in DOMAIN frames[t] : AskTransaction(t, i)
  PROVE  Own(t)'
<1>0. Types /\ task \in [Threads -> Call] /\ repo' = repo /\ Reworked(frames[t], frames'[t]) /\ Mine(t)' = Mine(t)
  BY AsksFit DEF Fits, Types, Ask, AskBackend, AskTransaction, resources, Mine
<1>1. /\ \A r : InTransaction(t, r)' = InTransaction(t, r)
      /\ \A i \in DOMAIN frames'[t] : frames'[t][i].kind = "transaction" =>
           /\ repo'[frames'[t][i].repo].conn = frames'[t][i].tr.conn
           /\ \A j \in DOMAIN frames'[t] : i < j => frames'[t][j].repo # frames'[t][i].repo
  BY <1>0, OwnAfter
<1>2. ASSUME NEW r \in Repos, NEW kind \in {"query", "transaction", "wrap"}, Ask(t, r, kind) PROVE Own(t)'
  <2>1. /\ r \in Mine(t) /\ (kind # "query" => ~InTransaction(t, r))
        /\ task'[t].kind = kind /\ task'[t].repo = r /\ task'[t].conn = repo[r].conn
    BY <1>0, <1>2 DEF Ask, May
  <2> QED  BY <1>0, <1>1, <2>1 DEF Own
<1>3. ASSUME NEW kind \in {"recorder", "tables"}, AskBackend(t, kind) PROVE Own(t)'
  <2>1. task'[t].kind = kind
    BY <1>0, <1>3 DEF AskBackend, NoTask
  <2> QED  BY <1>1, <2>1 DEF Own
<1>4. ASSUME NEW i \in DOMAIN frames[t], AskTransaction(t, i) PROVE Own(t)'
  <2>1. task'[t].kind = "query" /\ frames[t][i].kind = "transaction" /\ task'[t].conn = frames[t][i].tr.conn
    BY <1>0, <1>4 DEF AskTransaction
  <2>2. frames[t][i].repo \in Mine(t) /\ repo[frames[t][i].repo].conn = frames[t][i].tr.conn
    BY <2>1 DEF Own, Fits, BodiesFit
  <2> QED  BY <1>0, <1>1, <2>1, <2>2 DEF Own
<1> QED  BY <1>2, <1>3, <1>4

(* The connection that a call waits for is given to its Repository too. *)
LEMMA StagesOwn ==
  ASSUME Fits, OnLive, NEW t \in Threads, Own(t), Get(t) \/ TestBuilder(t) \/ MakeBuilder(t) \/ Unwrap(t)
  PROVE  Own(t)'
<1>0. /\ Types /\ CallFits(t) /\ task \in [Threads -> Call] /\ repo \in [Repos -> Repository]
      /\ frames' = frames /\ Reworked(frames[t], frames'[t]) /\ Mine(t)' = Mine(t)
      /\ task'[t].kind = task[t].kind /\ task'[t].repo = task[t].repo
  BY StagesFit, SameBodies DEF Fits, Types, Mine
<1>1. ASSUME Get(t) PROVE Own(t)'
  <2> DEFINE r == task[t].repo
  <2>1. /\ repo' = IF r = None THEN repo ELSE [repo EXCEPT ![r].conn = Head(pool)]
        /\ task'[t].conn = Head(pool) /\ task[t].stage = "get"
    BY <1>0, <1>1 DEF Get
  <2>2. r # None => r \in Mine(t) /\ r \in Repos /\ repo[r].conn = Null
    BY <1>0, <2>1 DEF CallFits, Mine
  <2>3. task[t].kind \in {"query", "transaction", "wrap"} => r # None
    BY <1>0, <2>1 DEF CallFits
  <2> HIDE DEF r
  <2>4. \A p \in Repos : InTransaction(t, p) => repo'[p].conn = repo[p].conn
    BY <1>0, <2>1, <2>2, InTransactionHolds
  <2>5. r # None => repo'[r].conn = Head(pool)
    BY <1>0, <2>1, <2>2 DEF Repository
  <2>6. /\ \A p : InTransaction(t, p)' = InTransaction(t, p)
        /\ \A i \in DOMAIN frames'[t] : frames'[t][i].kind = "transaction" =>
             /\ repo'[frames'[t][i].repo].conn = frames'[t][i].tr.conn
             /\ \A j \in DOMAIN frames'[t] : i < j => frames'[t][j].repo # frames'[t][i].repo
    BY <1>0, <2>4, OwnAfter
  <2> QED  BY <1>0, <2>1, <2>2, <2>3, <2>5, <2>6 DEF Own, r
<1>2. ASSUME TestBuilder(t) \/ MakeBuilder(t) \/ Unwrap(t) PROVE Own(t)'
  <2>1. repo' = repo /\ task'[t].conn = task[t].conn /\ task[t].stage # "get"
    BY <1>0, <1>2 DEF TestBuilder, MakeBuilder, Unwrap, resources, Call
  <2>2. /\ \A p : InTransaction(t, p)' = InTransaction(t, p)
        /\ \A i \in DOMAIN frames'[t] : frames'[t][i].kind = "transaction" =>
             /\ repo'[frames'[t][i].repo].conn = frames'[t][i].tr.conn
             /\ \A j \in DOMAIN frames'[t] : i < j => frames'[t][j].repo # frames'[t][i].repo
    BY <1>0, <2>1, OwnAfter
  <2> QED  BY <1>0, <2>1, <2>2 DEF Own
<1> QED  BY <1>1, <1>2

(* A body begins on a Repository that is in no transaction. *)
LEMMA EntersOwn ==
  ASSUME Fits, NEW t \in Threads, Own(t), EnterWrap(t) \/ EnterTransaction(t)
  PROVE  Own(t)'
<1>0. /\ Types /\ CallFits(t) /\ task \in [Threads -> Call] /\ repo \in [Repos -> Repository]
      /\ frames \in [Threads -> Seq(Frame)] /\ frames[t] \in Seq(Frame)
      /\ task' = [task EXCEPT ![t] = NoTask]
  BY DEF Fits, Types, EnterWrap, EnterTransaction
<1> DEFINE r == task[t].repo
           f == IF task[t].kind = "wrap" THEN WrapFrame(r)
                ELSE TransactionFrame(r, [conn |-> task[t].conn, builder |-> task[t].builder])
           fs == frames[t]
           gs == Append(fs, f)
<1>1. /\ task'[t] = NoTask /\ r \in Mine(t) /\ r \in Repos
      /\ ~InTransaction(t, r) /\ task[t].conn = repo[r].conn
  BY <1>0 DEF Own, EnterWrap, EnterTransaction, CallFits, Mine
<1>2. \/ repo' = repo /\ frames'[t] = gs
      \/ FreeConnection(r) /\ frames' = frames
  <2>1. CASE EnterWrap(t)
    BY <1>0, <2>1 DEF EnterWrap, resources
  <2>2. CASE EnterTransaction(t)
    <3> DEFINE g == TransactionFrame(r, [conn |-> task[t].conn, builder |-> task[t].builder])
    <3>1. \/ frames' = [frames EXCEPT ![t] = Append(@, g)] /\ repo' = repo
          \/ FreeConnection(r) /\ frames' = frames
      BY <2>2 DEF EnterTransaction
    <3>2. f = g
      BY <2>2 DEF EnterTransaction
    <3> HIDE DEF f, g
    <3> QED  BY <1>0, <3>1, <3>2
  <2> QED  BY <2>1, <2>2
<1>3. f.repo = r /\ (f.kind = "transaction" => f.tr.conn = task[t].conn)
  BY DEF WrapFrame, TransactionFrame
<1> HIDE DEF r, f
<1>4. CASE FreeConnection(r) /\ frames' = frames
  <2>1. \A p \in Repos : InTransaction(t, p) => repo'[p] = repo[p]
    BY <1>0, <1>1, <1>4, FreeConnectionIs
  <2> QED  BY <1>0, <1>1, <1>4, <2>1, SameBodies, OwnAfter
<1>5. CASE repo' = repo /\ frames'[t] = gs
  <2>1. /\ DOMAIN gs = DOMAIN fs \cup {Len(fs) + 1} /\ Len(fs) \in Nat /\ DOMAIN fs = 1 .. Len(fs)
        /\ gs[Len(fs) + 1] = f /\ \A i \in DOMAIN fs : gs[i] = fs[i]
    BY <1>0
  <2>2. \A i \in DOMAIN fs : fs[i].kind = "transaction" => fs[i].repo # r
    BY <1>1 DEF InTransaction
  <2> HIDE DEF gs
  <2>3. ASSUME NEW i \in DOMAIN gs, gs[i].kind = "transaction"
        PROVE  /\ repo[gs[i].repo].conn = gs[i].tr.conn
               /\ \A j \in DOMAIN gs : i < j => gs[j].repo # gs[i].repo
    <3>1. CASE i \in DOMAIN fs
      BY <1>3, <2>1, <2>2, <2>3, <3>1 DEF Own
    <3>2. CASE i = Len(fs) + 1
      BY <1>1, <1>3, <2>1, <2>3, <3>2
    <3> QED  BY <2>1, <3>1, <3>2
  <2> HIDE DEF fs
  <2> QED  BY <1>1, <1>5, <2>3 DEF Own, NoTask
<1> QED  BY <1>2, <1>4, <1>5

(* The body that ends is the last one on its Repository, so freeing its    *)
(* connection takes none from another.                                     *)
LEMMA LeavesOwn ==
  ASSUME Fits, NEW t \in Threads, Own(t), LeaveBody(t)
  PROVE  Own(t)'
<1>0. /\ Types /\ frames \in [Threads -> Seq(Frame)] /\ frames[t] \in Seq(Frame) /\ frames[t] # <<>>
      /\ task'[t] = NoTask /\ BodiesFit(t)
  BY DEF Fits, Types, LeaveBody
<1> DEFINE fs == frames[t]
           gs == Front(frames[t])
           n == Len(frames[t])
           r == fs[n].repo
<1>1. /\ frames'[t] = gs /\ FreeConnection(r) /\ n \in Nat \ {0} /\ DOMAIN gs = 1 .. (n - 1)
      /\ DOMAIN fs = 1 .. n /\ \A i \in DOMAIN gs : gs[i] = fs[i] /\ i \in DOMAIN fs /\ i < n
  BY <1>0 DEF LeaveBody, Last, Front
<1>2. r \in Repos /\ \A i \in DOMAIN fs : fs[i].repo \in Repos
  BY <1>0, <1>1 DEF BodiesFit, Mine
<1>3. \A p \in Repos \ {r} : repo'[p] = repo[p]
  BY <1>0, <1>1, <1>2, FreeConnectionIs
<1> HIDE DEF gs, n
<1>4. ASSUME NEW i \in DOMAIN gs, gs[i].kind = "transaction"
      PROVE  /\ repo'[gs[i].repo].conn = gs[i].tr.conn
             /\ \A j \in DOMAIN gs : i < j => gs[j].repo # gs[i].repo
  <2>1. gs[i] = fs[i] /\ i \in DOMAIN fs /\ i < n /\ n \in DOMAIN fs
    BY <1>1
  <2>2. /\ repo[fs[i].repo].conn = fs[i].tr.conn
        /\ \A j \in DOMAIN fs : i < j => fs[j].repo # fs[i].repo
    BY <1>4, <2>1 DEF Own
  <2>3. fs[i].repo # r
    BY <2>1, <2>2
  <2>4. \A j \in DOMAIN gs : gs[j] = fs[j] /\ j \in DOMAIN fs
    BY <1>1
  <2> HIDE DEF r, fs
  <2>5. repo'[fs[i].repo] = repo[fs[i].repo]
    BY <1>2, <1>3, <2>1, <2>3
  <2> QED  BY <2>1, <2>2, <2>4, <2>5
<1> QED  BY <1>0, <1>1, <1>4 DEF Own, NoTask

(* Every step of a thread keeps what is said of its own bodies and calls. *)
LEMMA StepOwns ==
  ASSUME Habits \subseteq {"cold"}, Fits, OnLive, NEW t \in Threads, Own(t), ThreadStep(t)
  PROVE  Own(t)'
<1>0. Types /\ task \in [Threads -> Call]
  BY DEF Fits, Types
<1>1. ASSUME NEW r \in Repos, NEW q \in Repos,
             \/ Construct(t, r) \/ FreeByHand(t, r) \/ Destroy(t, r) \/ AskMovedFrom(t, r)
             \/ Move(t, r, q) \/ Copy(t, r, q)
      PROVE  Own(t)'
  BY <1>1, ObjectsOwn
<1>2. ASSUME \/ \E r \in Repos : \E kind \in {"query", "transaction", "wrap"} : Ask(t, r, kind)
             \/ \E kind \in {"recorder", "tables"} : AskBackend(t, kind)
             \/ \E i \in DOMAIN frames[t] : AskTransaction(t, i)
      PROVE  Own(t)'
  BY <1>2, AsksOwn
<1>3. ASSUME Get(t) \/ TestBuilder(t) \/ MakeBuilder(t) \/ Unwrap(t) PROVE Own(t)'
  BY <1>3, StagesOwn
<1>4. ASSUME Query(t) \/ ReadLog(t) \/ TableNames(t) PROVE Own(t)'
  <2>1. repo' = repo /\ Reworked(frames[t], frames'[t]) /\ task'[t] = NoTask
    BY <1>0, <1>4, RunsFit DEF Query, ReadLog, TableNames
  <2> QED  BY <2>1, OwnAfter
<1>5. ASSUME \/ \E i \in DOMAIN frames[t] : Commit(t, i) \/ RollBack(t, i) \/ MoveTransaction(t, i)
             \/ Relation(t)
      PROVE  Own(t)'
  <2>1. repo' = repo /\ Reworked(frames[t], frames'[t]) /\ task'[t] = NoTask
    BY <1>5, TransactionsFit DEF Commit, RollBack, MoveTransaction, Relation, resources
  <2> QED  BY <2>1, OwnAfter
<1>6. ASSUME EnterWrap(t) \/ EnterTransaction(t) PROVE Own(t)'
  BY <1>6, EntersOwn
<1>7. ASSUME LeaveBody(t) PROVE Own(t)'
  BY <1>7, LeavesOwn
<1>8. CASE Throw(t)
  <2>1. repo' = repo /\ frames' = frames /\ task'[t] = NoTask
    BY <1>8 DEF Throw, resources, Free
  <2> QED  BY <1>0, <2>1, SameBodies, OwnAfter
<1> QED  BY <1>1, <1>2, <1>3, <1>4, <1>5, <1>6, <1>7, <1>8 DEF ThreadStep

(* What the call of a thread is after a step of the thread. *)
LEMMA TaskAfter ==
  ASSUME Fits, NEW t \in Threads, ThreadStep(t)
  PROVE  \/ task'[t] = NoTask /\ ops <= ops'
         \/ /\ task'[t].kind = task[t].kind /\ task'[t].op = task[t].op /\ task[t].kind # "none" /\ ops' = ops
            /\ task'[t].kind = "recorder" /\ task'[t].stage = "run" => Unwrap(t)
         \/ /\ task'[t].op = ops + 1 /\ ops' = ops + 1 /\ ops < MaxOps /\ task[t] = NoTask
            /\ task'[t].kind = "recorder" => Free(t) /\ (~started \/ May("migrate")) /\ task'[t].stage = "get"
<1>0. Types /\ task \in [Threads -> Call] /\ CallFits(t) /\ ops \in Nat
  BY RepositoryAssumption DEF Fits, Types
<1>1. ASSUME NEW r \in Repos, NEW q \in Repos,
             \/ Construct(t, r) \/ FreeByHand(t, r) \/ Destroy(t, r) \/ AskMovedFrom(t, r)
             \/ Move(t, r, q) \/ Copy(t, r, q)
      PROVE  task'[t] = NoTask /\ ops <= ops'
  BY <1>0, <1>1, ObjectsFit
<1>2. ASSUME NEW r \in Repos, NEW kind \in {"query", "transaction", "wrap"}, Ask(t, r, kind)
      PROVE  /\ task'[t].op = ops + 1 /\ ops' = ops + 1 /\ ops < MaxOps /\ task[t] = NoTask
             /\ task'[t].kind # "recorder"
  BY <1>0, <1>2 DEF Ask, Free
<1>3. ASSUME NEW kind \in {"recorder", "tables"}, AskBackend(t, kind)
      PROVE  /\ task'[t].op = ops + 1 /\ ops' = ops + 1 /\ ops < MaxOps /\ task[t] = NoTask
             /\ task'[t].kind = "recorder" => Free(t) /\ (~started \/ May("migrate")) /\ task'[t].stage = "get"
  BY <1>0, <1>3 DEF AskBackend, Free, NoTask
<1>4. ASSUME NEW i \in DOMAIN frames[t], AskTransaction(t, i)
      PROVE  /\ task'[t].op = ops + 1 /\ ops' = ops + 1 /\ ops < MaxOps /\ task[t] = NoTask
             /\ task'[t].kind # "recorder"
  BY <1>0, <1>4 DEF AskTransaction, Free
<1>5. ASSUME Get(t) \/ TestBuilder(t) \/ MakeBuilder(t) \/ Unwrap(t)
      PROVE  /\ task'[t].kind = task[t].kind /\ task'[t].op = task[t].op /\ task[t].kind # "none" /\ ops' = ops
             /\ task'[t].kind = "recorder" /\ task'[t].stage = "run" => Unwrap(t)
  <2>1. task'[t].kind = task[t].kind /\ task'[t].op = task[t].op /\ ops' = ops
    BY <1>5, StagesFit
  <2>2. task[t].kind # "none"
    BY <1>0, <1>5 DEF CallFits, NoTask, Get, TestBuilder, MakeBuilder, Unwrap
  <2>3. task[t].kind = "recorder" /\ ~Unwrap(t) => task'[t].stage # "run"
    BY <1>0, <1>5 DEF Get, TestBuilder, MakeBuilder, AfterGet, AfterBuilder, Call
  <2> QED  BY <2>1, <2>2, <2>3
<1>6. ASSUME Query(t) \/ ReadLog(t) \/ TableNames(t) PROVE task'[t] = NoTask /\ ops <= ops'
  BY <1>0, <1>6, RunsFit
<1>7. ASSUME \/ \E i \in DOMAIN frames[t] : Commit(t, i) \/ RollBack(t, i) \/ MoveTransaction(t, i)
             \/ Relation(t)
      PROVE  task'[t] = NoTask /\ ops <= ops'
  BY <1>7, TransactionsFit
<1>8. ASSUME EnterWrap(t) \/ EnterTransaction(t) \/ LeaveBody(t) \/ Throw(t) PROVE task'[t] = NoTask /\ ops <= ops'
  BY <1>0, <1>8 DEF EnterWrap, EnterTransaction, LeaveBody, Throw, Free
<1> QED  BY <1>1, <1>2, <1>3, <1>4, <1>5, <1>6, <1>7, <1>8 DEF ThreadStep

(* The log of migrations is read by Main alone. *)
LEMMA StepKeepsLogReader ==
  ASSUME Habits \subseteq {"cold"}, Fits, LogReader, NEW t \in Threads, ThreadStep(t)
  PROVE  LogReader'
<1>1. Alone(t) /\ started' = started /\ (~started => t = Main)
  BY Locality, WhoSteps DEF LogReader
<1>2. ASSUME NEW u \in Threads, u # t
      PROVE  /\ ~started' /\ u # Main => task'[u] = NoTask /\ frames'[u] = <<>>
             /\ task'[u].kind # "recorder"
  <2>1. task'[u] = task[u] /\ frames'[u] = frames[u]
    BY <1>1, <1>2 DEF Alone
  <2> QED  BY <1>1, <1>2, <2>1 DEF LogReader
<1>3. /\ task'[t].kind = "recorder" => t = Main /\ ~started
      /\ task'[t].kind = "recorder" /\ task'[t].stage = "run" => Unwrap(t)
  BY <1>1, TaskAfter DEF LogReader, May, NoTask, Free
<1>4. Unwrap(t) => \E i \in DOMAIN pool' : pool'[i] = task'[t].conn
  <2> SUFFICES ASSUME Unwrap(t) PROVE \E i \in DOMAIN pool' : pool'[i] = task'[t].conn
    OBVIOUS
  <2>1. pool \in Seq(Connections) /\ task \in [Threads -> Call] /\ task[t].conn \in Connections
    BY DEF Fits, Types, Unwrap, CallFits
  <2>2. pool' = Append(pool, task[t].conn) /\ task'[t].conn = task[t].conn
    BY <2>1 DEF Unwrap, Call
  <2>3. Len(pool) + 1 \in DOMAIN pool' /\ pool'[Len(pool) + 1] = task[t].conn
    BY <2>1, <2>2
  <2> QED  BY <2>2, <2>3
<1> QED  BY <1>1, <1>2, <1>3, <1>4 DEF LogReader

(* Every step keeps it all. *)
LEMMA NextOwned ==
  Habits \subseteq {"cold"} /\ Fits /\ OnLive /\ Owned /\ [Next]_vars => Owned'
<1> SUFFICES ASSUME Habits \subseteq {"cold"}, Fits, OnLive, Owned, [Next]_vars PROVE Owned'
  OBVIOUS
<1>1. ASSUME NEW t \in Threads, ThreadStep(t) PROVE Owned'
  <2>1. \A u \in Threads \ {t} : Own(u)'
    BY <1>1, Locality, OthersOwn DEF Owned
  <2> QED  BY <1>1, <2>1, StepOwns, StepKeepsLogReader DEF Owned
<1>2. CASE StartThreads
  <2>1. /\ repo' = repo /\ frames' = frames /\ task' = task /\ pool' = pool /\ started' /\ task[Main] = NoTask
    BY <1>2 DEF StartThreads, resources, program, Free
  <2>2. \A t \in Threads : task[t].kind # "recorder"
    BY <2>1 DEF Owned, LogReader, NoTask
  <2> QED  BY <2>1, <2>2 DEF Owned, LogReader, Own, InTransaction, Mine
<1>3. CASE UNCHANGED vars
  BY <1>3 DEF vars, resources, program, Owned, LogReader, Own, InTransaction, Mine
<1> QED  BY <1>1, <1>2, <1>3 DEF Next
-----------------------------------------------------------------------------

(* The programs these theorems are about, each condition the subject of a  *)
(* violation run or a hazard: no habit but starting threads early, a       *)
(* server that stays, and a SQLite that is not busy at a COMMIT.           *)
Disciplined ==
  /\ Habits \subseteq {"cold"}
  /\ \A d \in Engines : Reliable(d) /\ (d = "sqlite" => "commit" \notin Faults[d])

(* What a body says of the session of its connection: while the            *)
(* transaction is open, the session is in it and has written what the body *)
(* has pending; afterwards there is none.                                  *)
IsTransaction(f, c) == f.kind = "transaction" /\ f.tr.conn = c
NoneOn(c) == \A t \in Threads : \A i \in DOMAIN frames[t] : ~IsTransaction(frames[t][i], c)
FrameFits(f, x) ==
  IF f.fate = "open" THEN InsideTransaction(x) /\ x.work = f.pending ELSE Idle(x) /\ f.pending = {}

(* Every session is in the state its body says, and clean when no body is  *)
(* on it.                                                                  *)
SessionsFit ==
  /\ session \in [Connections -> Sessions]
  /\ \A c \in Connections : NoneOn(c) => Clean(session[c])
  /\ \A t \in Threads : \A i \in DOMAIN frames[t] :
       frames[t][i].kind = "transaction" => FrameFits(frames[t][i], session[frames[t][i].tr.conn])

(* A write that has not been made yet, and one of a call that has not run. *)
NeverUsed(w) == w \notin undone /\ \A c \in Connections : w \notin session[c].work \cup session[c].db
Unused(op) == NeverUsed(<<op, 1>>)
UnusedNext(w) == w \notin undone' /\ \A c \in Connections : w \notin session'[c].work \cup session'[c].db
(* A write is pending on one connection at most, and then it is neither in *)
(* the database nor undone.                                                *)
WritesApart ==
  /\ \A c, d \in Connections : session[c].work \cap session[d].db = {}
  /\ \A c, d \in Connections : c # d => session[c].work \cap session[d].work = {}
  /\ \A c \in Connections : session[c].work \cap undone = {}
(* Every call has a write of its own.                                      *)
OpsApart ==
  /\ \A op \in (ops + 1) .. MaxOps : Unused(op)
  /\ \A t \in Threads : task[t].kind # "none" => Unused(task[t].op)
  /\ \A t, u \in Threads : t # u /\ task[t].kind # "none" /\ task[u].kind # "none" => task[t].op # task[u].op

(* The sessions and the writes, and where the connections are.             *)
Bookkeeping == SessionsFit /\ WritesApart /\ OpsApart /\ Durable /\ NoResidue
Placement == Fits /\ Placed /\ OnLive /\ Owned
-----------------------------------------------------------------------------
(* Two Repositories never have the same connection. *)
LEMMA OneRepository ==
  ASSUME Placed, NEW p \in Repos, NEW q \in Repos, repo[p].conn = repo[q].conn, repo[p].conn # Null
  PROVE  p = q
<1> DEFINE y == <<"repo", p>>
           z == <<"repo", q>>
<1>1. y \in Holders /\ z \in Holders /\ holding[y] = holding[z] /\ holding[y] # Null
  BY HoldingOf
<1> HIDE DEF y, z
<1>2. y = z
  BY <1>1 DEF Placed, Apart
<1>3. <<"repo", p>> = <<"repo", q>>
  BY <1>2 DEF y, z
<1> QED  BY <1>3

(* A connection that a thread holds has no transaction of another thread's *)
(* on it, and one of its own at most.                                      *)
LEMMA HeldHasOne ==
  ASSUME Placement, NEW t \in Threads, NEW r \in Mine(t), repo[r].conn # Null
  PROVE  /\ \A u \in Threads \ {t} : \A i \in DOMAIN frames[u] : ~IsTransaction(frames[u][i], repo[r].conn)
         /\ \A i, j \in DOMAIN frames[t] :
              IsTransaction(frames[t][i], repo[r].conn) /\ IsTransaction(frames[t][j], repo[r].conn) => i = j
<1>1. \A p, q \in Repos : repo[p].conn = repo[q].conn /\ repo[p].conn # Null => p = q
  BY OneRepository DEF Placement
<1>2. \A u \in Threads : BodiesFit(u) /\ Own(u)
  BY DEF Placement, Fits, Owned
<1>3. ASSUME NEW u \in Threads, NEW i \in DOMAIN frames[u], IsTransaction(frames[u][i], repo[r].conn)
      PROVE  frames[u][i].repo = r /\ frames[u][i].repo \in Mine(u)
  <2>1. frames[u][i].repo \in Mine(u) /\ repo[frames[u][i].repo].conn = repo[r].conn
    BY <1>2, <1>3 DEF BodiesFit, Own, IsTransaction
  <2> QED  BY <1>1, <2>1 DEF Mine
<1>4. \A u \in Threads \ {t} : r \notin Mine(u)
  BY DEF Mine
<1>5. ASSUME NEW i \in DOMAIN frames[t], NEW j \in DOMAIN frames[t],
             IsTransaction(frames[t][i], repo[r].conn), IsTransaction(frames[t][j], repo[r].conn)
      PROVE  i = j
  <2>1. frames[t][i].repo = r /\ frames[t][j].repo = r
    BY <1>3, <1>5
  <2>2. frames[t] \in Seq(Frame)
    BY DEF Placement, Fits, Types
  <2>3. ~(i < j) /\ ~(j < i)
    BY <1>2, <1>5, <2>1 DEF Own, IsTransaction
  <2>4. i \in Nat /\ j \in Nat
    BY <2>2
  <2> QED  BY <2>3, <2>4
<1> QED  BY <1>3, <1>4, <1>5

(* One in the pool, or with a call of the backend, has none.               *)
LEMMA LentHasNone ==
  ASSUME Placement, NEW c \in Connections,
         (\E i \in DOMAIN pool : pool[i] = c) \/ (\E t \in Threads : HeldByCall(t) /\ task[t].conn = c)
  PROVE  NoneOn(c)
<1>1. c # Null
  BY HoldingTyped DEF Placement, Fits
<1>2. ASSUME NEW r \in Repos, repo[r].conn = c PROVE FALSE
  <2>1. CASE \E i \in DOMAIN pool : pool[i] = c
    BY <1>2, <2>1, HoldingOf DEF Placement, Placed, Apart
  <2>2. CASE \E t \in Threads : HeldByCall(t) /\ task[t].conn = c
    <3>1. PICK t \in Threads : HeldByCall(t) /\ task[t].conn = c
      BY <2>2
    <3>2. holding[<<"call", t>>] = c /\ <<"call", t>> \in Holders
      BY <3>1, HoldingOf DEF CallHolds
    <3>3. holding[<<"repo", r>>] = c /\ <<"repo", r>> \in Holders
      BY <1>2, HoldingOf
    <3> QED  BY <1>1, <3>2, <3>3 DEF Placement, Placed, Apart
  <2> QED  BY <2>1, <2>2
<1>3. \A t \in Threads : BodiesFit(t) /\ Own(t)
  BY DEF Placement, Fits, Owned
<1> QED  BY <1>2, <1>3 DEF NoneOn, IsTransaction, BodiesFit, Own, Mine

(* The session of a connection that a thread holds: in the transaction of  *)
(* one of its bodies, or idle, and clean unless there is such a body.      *)
OpenOn(t, c, k) ==
  /\ k \in DOMAIN frames[t] /\ IsTransaction(frames[t][k], c) /\ frames[t][k].fate = "open"
  /\ InsideTransaction(session[c]) /\ session[c].work = frames[t][k].pending
  /\ \A i \in DOMAIN frames[t] : IsTransaction(frames[t][i], c) => i = k
NoneOpenOn(t, c) ==
  /\ Idle(session[c])
  /\ \A i \in DOMAIN frames[t] : IsTransaction(frames[t][i], c) => frames[t][i].fate # "open" /\ frames[t][i].pending = {}
  /\ (\A i \in DOMAIN frames[t] : ~IsTransaction(frames[t][i], c)) => Clean(session[c])
NotOthers(t, c) == \A u \in Threads \ {t} : \A i \in DOMAIN frames[u] : ~IsTransaction(frames[u][i], c)

(* Of the connections a thread holds, each is in one of these two states,  *)
(* and no transaction of another thread is on it.                          *)
LEMMA SessionOfHeld ==
  ASSUME Placement, SessionsFit, NEW t \in Threads, NEW r \in Mine(t), NEW c, c = repo[r].conn, c # Null
  PROVE  NotOthers(t, c) /\ (NoneOpenOn(t, c) \/ \E k : OpenOn(t, c, k))
<1>1. /\ NotOthers(t, c)
      /\ \A i, j \in DOMAIN frames[t] :
           IsTransaction(frames[t][i], c) /\ IsTransaction(frames[t][j], c) => i = j
  BY HeldHasOne DEF NotOthers
<1>2. c \in Connections
  BY DEF Placement, Fits, Types, Repository, Mine
<1>3. CASE \E k \in DOMAIN frames[t] : IsTransaction(frames[t][k], c)
  <2>1. PICK k \in DOMAIN frames[t] : IsTransaction(frames[t][k], c)
    BY <1>3
  <2>2. FrameFits(frames[t][k], session[c])
    BY <2>1 DEF SessionsFit, IsTransaction
  <2>3. frames[t][k].fate = "open" => OpenOn(t, c, k)
    BY <1>1, <2>1, <2>2 DEF OpenOn, FrameFits
  <2>4. frames[t][k].fate # "open" => NoneOpenOn(t, c)
    BY <1>1, <2>1, <2>2 DEF NoneOpenOn, FrameFits
  <2> QED  BY <1>1, <2>3, <2>4
<1>4. CASE \A k \in DOMAIN frames[t] : ~IsTransaction(frames[t][k], c)
  <2>1. NoneOn(c)
    BY <1>1, <1>4 DEF NoneOn, NotOthers
  <2>2. Clean(session[c])
    BY <1>2, <2>1 DEF SessionsFit
  <2>3. NoneOpenOn(t, c)
    BY <1>4, <2>2 DEF NoneOpenOn, Clean, Idle
  <2> QED  BY <1>1, <2>3
<1> QED  BY <1>3, <1>4

(* What the ORM does to the bodies of an open transaction: the sets and    *)
(* sequences of the model are about that one body,                         *)
LEMMA OpenParts ==
  ASSUME NEW t \in Threads, NEW c, NEW k, OpenOn(t, c, k)
  PROVE  (\E f \in ToSet(frames[t]) : IsOpen(f, c)) /\ Pending(t, c) = session[c].work
<1> DEFINE fs == frames[t]
<1>1. /\ k \in DOMAIN fs /\ fs[k].pending = session[c].work
      /\ \A i \in DOMAIN fs : IsOpen(fs[i], c) <=> i = k
  BY DEF OpenOn, IsOpen, IsTransaction
<1>2. \A i \in DOMAIN fs : fs[i] \in ToSet(fs)
  BY DEF ToSet
<1>3. {g \in ToSet(fs) : IsOpen(g, c)} = {fs[k]}
  BY <1>1, <1>2 DEF ToSet
<1> QED  BY <1>1, <1>2, <1>3 DEF Pending

(* whose fate changes when it ends, *)
LEMMA OpenSettledIs ==
  ASSUME Types, NEW t \in Threads, NEW c, NEW k, OpenOn(t, c, k), NEW fate, NEW gs, gs = Settled(t, c, fate)
  PROVE  /\ DOMAIN gs = DOMAIN frames[t]
         /\ gs[k].kind = "transaction" /\ gs[k].tr.conn = c /\ gs[k].fate = fate /\ gs[k].pending = {}
         /\ \A i \in DOMAIN frames[t] \ {k} : gs[i] = frames[t][i]
<1>1. k \in DOMAIN frames[t] /\ \A i \in DOMAIN frames[t] : IsOpen(frames[t][i], c) <=> i = k
  BY DEF OpenOn, IsOpen, IsTransaction
<1>2. frames[t][k] \in Frame /\ frames[t][k].kind = "transaction" /\ frames[t][k].tr.conn = c
  BY DEF Types, OpenOn, IsTransaction
<1>3. gs[k] = [frames[t][k] EXCEPT !.fate = fate, !.pending = {}]
  BY <1>1 DEF Settled
<1> QED  BY <1>1, <1>2, <1>3 DEF Settled, Frame

(* and which gathers what is written in it. *)
LEMMA OpenWrittenIs ==
  ASSUME NEW t \in Threads, NEW c, NEW k, OpenOn(t, c, k), NEW W, NEW gs, gs = Written(t, c, W)
  PROVE  /\ DOMAIN gs = DOMAIN frames[t]
         /\ gs[k] = [frames[t][k] EXCEPT !.pending = @ \cup W]
         /\ \A i \in DOMAIN frames[t] \ {k} : gs[i] = frames[t][i]
<1>1. k \in DOMAIN frames[t] /\ \A i \in DOMAIN frames[t] : IsOpen(frames[t][i], c) <=> i = k
  BY DEF OpenOn, IsOpen, IsTransaction
<1> QED  BY <1>1 DEF Written

(* With none open, there is nothing pending and nothing to settle. *)
LEMMA NoneOpenParts ==
  ASSUME Types, NEW t \in Threads, NEW c, NoneOpenOn(t, c)
  PROVE  /\ ~\E f \in ToSet(frames[t]) : IsOpen(f, c)
         /\ Pending(t, c) = {}
         /\ \A fate : Settled(t, c, fate) = frames[t]
<1> DEFINE fs == frames[t]
<1>1. \A i \in DOMAIN fs : ~IsOpen(fs[i], c)
  BY DEF NoneOpenOn, IsOpen, IsTransaction
<1>2. \A f \in ToSet(fs) : ~IsOpen(f, c)
  BY <1>1 DEF ToSet
<1>3. fs = [i \in DOMAIN fs |-> fs[i]]
  BY DEF Types
<1>4. \A fate : Settled(t, c, fate) = frames[t]
  BY <1>1, <1>3 DEF Settled
<1> QED  BY <1>2, <1>4 DEF Pending

(* A step that changes one session, and the bodies of one thread that are  *)
(* on its connection.                                                      *)
BodiesFollow(t, c, x) ==
  /\ \A i \in DOMAIN frames[t] : frames[t][i].kind = "transaction" /\ frames[t][i].tr.conn # c
       => i \in DOMAIN frames'[t] /\ frames'[t][i] = frames[t][i]
  /\ \A i \in DOMAIN frames'[t] : frames'[t][i].kind = "transaction" =>
       IF frames'[t][i].tr.conn = c THEN FrameFits(frames'[t][i], x)
         ELSE i \in DOMAIN frames[t] /\ frames'[t][i] = frames[t][i]
  /\ (\A i \in DOMAIN frames'[t] : ~IsTransaction(frames'[t][i], c)) => Clean(x)

(* Such a step keeps every session in agreement with the bodies.           *)
LEMMA SessionAfter ==
  ASSUME SessionsFit, NEW t \in Threads, Alone(t), NEW c \in Connections, NotOthers(t, c),
         NEW x \in Sessions, session' = [session EXCEPT ![c] = x], BodiesFollow(t, c, x)
  PROVE  SessionsFit'
<1> USE DEF BodiesFollow
<1>1. /\ session' \in [Connections -> Sessions] /\ session'[c] = x
      /\ \A d \in Connections \ {c} : session'[d] = session[d]
  BY DEF SessionsFit
<1>2. \A u \in Threads \ {t} : frames'[u] = frames[u]
  BY DEF Alone
<1>3. ASSUME NEW d \in Connections, NoneOn(d)' PROVE Clean(session'[d])
  <2>0. \A u \in Threads : \A i \in DOMAIN frames'[u] : ~IsTransaction(frames'[u][i], d)
    BY <1>3 DEF NoneOn, IsTransaction
  <2>1. CASE d = c
    BY <1>1, <2>0, <2>1
  <2>2. CASE d # c
    <3>1. \A i \in DOMAIN frames[t] : ~IsTransaction(frames[t][i], d)
      BY <2>0, <2>2 DEF IsTransaction
    <3>2. \A u \in Threads \ {t} : \A i \in DOMAIN frames[u] : ~IsTransaction(frames[u][i], d)
      BY <1>2, <2>0
    <3>3. NoneOn(d)
      BY <3>1, <3>2 DEF NoneOn
    <3> QED  BY <1>1, <2>2, <3>3 DEF SessionsFit
  <2> QED  BY <2>1, <2>2
<1>4. ASSUME NEW u \in Threads, NEW i \in DOMAIN frames'[u], frames'[u][i].kind = "transaction"
      PROVE  FrameFits(frames'[u][i], session'[frames'[u][i].tr.conn])
  <2>1. CASE u = t /\ frames'[u][i].tr.conn = c
    BY <1>1, <1>4, <2>1
  <2>2. CASE u = t /\ frames'[u][i].tr.conn # c
    <3>1. frames'[t][i] = frames[t][i] /\ frames[t][i].tr.conn # c /\ i \in DOMAIN frames[t]
      BY <1>4, <2>2
    <3>2. session'[frames[t][i].tr.conn] = session[frames[t][i].tr.conn]
      BY <3>1 DEF SessionsFit
    <3> QED  BY <1>4, <2>2, <3>1, <3>2 DEF SessionsFit
  <2>3. CASE u # t
    <3>1. frames'[u] = frames[u] /\ frames[u][i].tr.conn # c /\ i \in DOMAIN frames[u]
      BY <1>2, <1>4, <2>3 DEF NotOthers, IsTransaction
    <3>2. session'[frames[u][i].tr.conn] = session[frames[u][i].tr.conn]
      BY <3>1 DEF SessionsFit
    <3> QED  BY <1>4, <3>1, <3>2 DEF SessionsFit
  <2> QED  BY <2>1, <2>2, <2>3
<1>5. Connections' = Connections /\ Sessions' = Sessions
  OBVIOUS
<1> QED  BY <1>1, <1>3, <1>4 DEF SessionsFit

(* What the end of the transaction, a write in it, and a call outside of   *)
(* one leave behind.                                                       *)
LEMMA OpenSettled ==
  ASSUME Types, SessionsFit, NEW t \in Threads, Alone(t), NEW c \in Connections, NotOthers(t, c),
         NEW k, OpenOn(t, c, k),
         NEW x \in Sessions, session' = [session EXCEPT ![c] = x], Idle(x),
         NEW fate, fate # "open", frames' = [frames EXCEPT ![t] = Settled(t, c, fate)]
  PROVE  SessionsFit'
<1>1. frames'[t] = Settled(t, c, fate)
  BY DEF Types
<1>2. /\ DOMAIN frames'[t] = DOMAIN frames[t]
      /\ frames'[t][k].kind = "transaction" /\ frames'[t][k].tr.conn = c
      /\ frames'[t][k].fate = fate /\ frames'[t][k].pending = {}
      /\ \A i \in DOMAIN frames[t] \ {k} : frames'[t][i] = frames[t][i]
  BY <1>1, OpenSettledIs
<1>3. /\ k \in DOMAIN frames[t] /\ frames[t][k].tr.conn = c
      /\ \A i \in DOMAIN frames[t] \ {k} : ~IsTransaction(frames[t][i], c)
  BY DEF OpenOn, IsTransaction
<1>4. FrameFits(frames'[t][k], x)
  BY <1>2 DEF FrameFits
<1>5. BodiesFollow(t, c, x)
  BY <1>2, <1>3, <1>4 DEF BodiesFollow, IsTransaction
<1> QED  BY <1>5, SessionAfter

(* A write in the transaction leaves it open. *)
LEMMA OpenWritten ==
  ASSUME Types, SessionsFit, NEW t \in Threads, Alone(t), NEW c \in Connections, NotOthers(t, c),
         NEW k, OpenOn(t, c, k), NEW W,
         NEW x \in Sessions, session' = [session EXCEPT ![c] = x],
         InsideTransaction(x), x.work = session[c].work \cup W,
         frames' = [frames EXCEPT ![t] = Written(t, c, W)]
  PROVE  SessionsFit'
<1>1. /\ DOMAIN frames'[t] = DOMAIN frames[t] /\ k \in DOMAIN frames[t]
      /\ frames'[t][k] = [frames[t][k] EXCEPT !.pending = @ \cup W]
      /\ \A i \in DOMAIN frames[t] \ {k} : frames'[t][i] = frames[t][i] /\ ~IsTransaction(frames[t][i], c)
  <2>1. frames'[t] = Written(t, c, W)
    BY DEF Types
  <2>2. k \in DOMAIN frames[t] /\ \A i \in DOMAIN frames[t] \ {k} : ~IsTransaction(frames[t][i], c)
    BY DEF OpenOn
  <2>3. /\ DOMAIN Written(t, c, W) = DOMAIN frames[t]
        /\ Written(t, c, W)[k] = [frames[t][k] EXCEPT !.pending = @ \cup W]
        /\ \A i \in DOMAIN frames[t] \ {k} : Written(t, c, W)[i] = frames[t][i]
    BY OpenWrittenIs
  <2> QED  BY <2>1, <2>2, <2>3
<1>2. frames[t][k] \in Frame
  BY <1>1 DEF Types
<1>a. /\ frames[t][k].kind = "transaction" /\ frames[t][k].tr.conn = c
      /\ frames[t][k].fate = "open" /\ frames[t][k].pending = session[c].work
  BY DEF OpenOn, IsTransaction
<1>3. /\ frames'[t][k].kind = "transaction" /\ frames'[t][k].tr.conn = c /\ frames[t][k].tr.conn = c
      /\ frames'[t][k].fate = "open" /\ frames'[t][k].pending = session[c].work \cup W
  BY <1>1, <1>2, <1>a DEF Frame
<1>4. FrameFits(frames'[t][k], x)
  BY <1>3 DEF FrameFits
<1>5. BodiesFollow(t, c, x)
  BY <1>1, <1>3, <1>4 DEF BodiesFollow, IsTransaction
<1> QED  BY <1>5, SessionAfter

(* A call outside of one leaves the connection outside of one. *)
LEMMA NoneOpenStays ==
  ASSUME SessionsFit, NEW t \in Threads, Alone(t), NEW c \in Connections, NotOthers(t, c),
         NoneOpenOn(t, c), frames'[t] = frames[t],
         NEW x \in Sessions, session' = [session EXCEPT ![c] = x],
         Idle(x), Clean(session[c]) => Clean(x)
  PROVE  SessionsFit'
<1>1. \A i \in DOMAIN frames[t] : IsTransaction(frames[t][i], c) => FrameFits(frames[t][i], x)
  BY DEF NoneOpenOn, FrameFits
<1>2. (\A i \in DOMAIN frames[t] : ~IsTransaction(frames[t][i], c)) => Clean(x)
  BY DEF NoneOpenOn
<1>3. BodiesFollow(t, c, x)
  BY <1>1, <1>2 DEF BodiesFollow, IsTransaction
<1> QED  BY <1>3, SessionAfter

(* What becomes of the writes in a session x of connection c, of which W   *)
(* are new.                                                                *)
Books(c, x, W) ==
  /\ session' = [session EXCEPT ![c] = x]
  /\ x.work \subseteq session[c].work \cup W
  /\ session[c].db \subseteq x.db /\ x.db \subseteq session[c].db \cup session[c].work \cup W
  /\ x.work \cap x.db = {}
  /\ acked' \subseteq acked \cup x.db
  /\ undone' \subseteq undone \cup session[c].work \cup W
  /\ (undone' \ undone) \cap (x.work \cup x.db) = {}

(* A step of t writes nothing, or the one write of the call it ends; the   *)
(* rest stays unused.                                                      *)
Spends(t, W) == W # {} => W = {<<task[t].op, 1>>} /\ task[t].kind # "none" /\ task'[t] = NoTask
Spares(W) == \A w : NeverUsed(w) /\ w \notin W => UnusedNext(w)

(* A step that keeps such books keeps writes apart, what was acknowledged, *)
(* and what was undone.                                                    *)
LEMMA BooksKept ==
  ASSUME SessionsFit, WritesApart, Durable, NoResidue, NEW c \in Connections, NEW x \in Sessions,
         NEW W, \A w \in W : NeverUsed(w), Books(c, x, W)
  PROVE  /\ WritesApart' /\ Durable' /\ NoResidue'
         /\ Spares(W)
<1>1. session'[c] = x /\ \A d \in Connections \ {c} : session'[d] = session[d]
  BY DEF SessionsFit, Books
<1>2. /\ \A d \in Connections : session'[d].work \subseteq session[d].work \cup W
      /\ \A d \in Connections : session[d].db \subseteq session'[d].db
      /\ \A d \in Connections \ {c} : session'[d].work = session[d].work /\ session'[d].db = session[d].db
  BY <1>1 DEF Books
<1>3. WritesApart'
  <2>1. ASSUME NEW d \in Connections, NEW e \in Connections PROVE session'[d].work \cap session'[e].db = {}
    <3>1. CASE d = c /\ e = c
      BY <1>1, <3>1 DEF Books
    <3>2. CASE d # c /\ e = c
      BY <1>1, <1>2, <3>2 DEF Books, WritesApart, NeverUsed
    <3>3. CASE d = c /\ e # c
      BY <1>1, <1>2, <3>3 DEF Books, WritesApart, NeverUsed
    <3>4. CASE d # c /\ e # c
      BY <1>2, <3>4 DEF WritesApart
    <3> QED  BY <3>1, <3>2, <3>3, <3>4
  <2>2. ASSUME NEW d \in Connections, NEW e \in Connections, d # e PROVE session'[d].work \cap session'[e].work = {}
    BY <1>2, <2>2 DEF WritesApart, NeverUsed
  <2>3. ASSUME NEW d \in Connections PROVE session'[d].work \cap undone' = {}
    <3>1. CASE d = c
      BY <1>1, <3>1 DEF Books, WritesApart, NeverUsed
    <3>2. CASE d # c
      BY <1>1, <1>2, <3>2 DEF Books, WritesApart, NeverUsed
    <3> QED  BY <3>1, <3>2
  <2> QED  BY <2>1, <2>2, <2>3 DEF WritesApart
<1>4. Durable'
  <2>1. \A d \in Connections : session[d].db \subseteq session'[d].db
    BY <1>2
  <2>2. x.db \subseteq Database'
    BY <1>1 DEF Database
  <2>3. Database \subseteq Database'
    BY <2>1 DEF Database
  <2> QED  BY <2>2, <2>3 DEF Durable, Books
<1>5. NoResidue'
  <2> SUFFICES ASSUME NEW w \in undone', NEW d \in Connections, w \in session'[d].db PROVE FALSE
    BY DEF NoResidue, Database
  <2>0. \A e \in Connections : session[e].db \cap undone = {}
    BY DEF NoResidue, Database
  <2>1. CASE d = c
    BY <1>1, <2>0, <2>1 DEF Books, WritesApart, NeverUsed
  <2>2. CASE d # c
    BY <1>2, <2>0, <2>2 DEF Books, WritesApart, NeverUsed
  <2> QED  BY <2>1, <2>2
<1>6. ASSUME NEW w, NeverUsed(w), w \notin W PROVE UnusedNext(w)
  <2>1. w \notin undone'
    BY <1>6 DEF NeverUsed, Books
  <2>2. ASSUME NEW d \in Connections PROVE w \notin session'[d].work \cup session'[d].db
    BY <1>1, <1>2, <1>6 DEF NeverUsed, Books
  <2> QED  BY <2>1, <2>2 DEF UnusedNext
<1> QED  BY <1>3, <1>4, <1>5, <1>6 DEF Spares

(* Arithmetic: what comes after a later number comes after an earlier one. *)
LEMMA Later ==
  ASSUME NEW a \in Int, NEW b \in Int, NEW m \in Int, a <= b, NEW n \in (b + 1) .. m
  PROVE  n \in (a + 1) .. m /\ n > a
OBVIOUS

(* The write of a call that has not run is on no connection yet, and no    *)
(* two calls have the same.                                                *)
LEMMA OpsAfter ==
  ASSUME Fits, OpsApart, NEW t \in Threads, ThreadStep(t), NEW W, Spends(t, W), Spares(W)
  PROVE  OpsApart'
<1>0. Alone(t) /\ ops \in Nat /\ MaxOps \in Nat /\ \A u \in Threads : task[u].kind # "none" => task[u].op \in 1 .. ops
  BY Locality, RepositoryAssumption DEF Fits, Types, CallFits
<1>1. \A op : <<op, 1>> \notin W => (Unused(op) => UnusedNext(<<op, 1>>))
  BY DEF Unused, Spares
<1>2. \/ task'[t] = NoTask /\ ops <= ops'
      \/ W = {} /\ task'[t].kind = task[t].kind /\ task'[t].op = task[t].op /\ task[t].kind # "none" /\ ops' = ops
      \/ W = {} /\ task'[t].op = ops + 1 /\ ops' = ops + 1 /\ ops < MaxOps
  BY TaskAfter DEF NoTask, Spends
<1>3. ops <= ops' /\ ops' \in Int
  <2>1. ops' \in 0 .. MaxOps
    BY NextFits DEF Next, Fits, Types
  <2> QED  BY <1>0, <1>2, <2>1
<1>4. ASSUME NEW n, n \in (ops' + 1) .. MaxOps PROVE UnusedNext(<<n, 1>>)
  <2>0. ops \in Int /\ MaxOps \in Int /\ ops' \in Int /\ ops <= ops'
    BY <1>0, <1>3
  <2>1. n \in (ops + 1) .. MaxOps /\ n > ops
    BY <2>0, <1>4, Later
  <2>2. <<n, 1>> \notin W
    BY <1>0, <2>1 DEF Spends
  <2> QED  BY <1>1, <2>1, <2>2 DEF OpsApart
<1>5. ASSUME NEW u \in Threads \ {t}, task'[u].kind # "none"
      PROVE  task'[u] = task[u] /\ UnusedNext(<<task'[u].op, 1>>) /\ task'[u].op <= ops
  <2>1. task'[u] = task[u] /\ Unused(task[u].op)
    BY <1>0, <1>5 DEF Alone, OpsApart
  <2>2. <<task[u].op, 1>> \notin W
    BY <1>5, <2>1 DEF OpsApart, Spends
  <2> QED  BY <1>0, <1>1, <1>5, <2>1, <2>2
<1>a. \A u, v \in Threads \ {t} : u # v /\ task'[u].kind # "none" /\ task'[v].kind # "none" => task'[u].op # task'[v].op
  BY <1>5 DEF OpsApart
<1>6. CASE task'[t] = NoTask
  <2>1. task'[t].kind = "none"
    BY <1>6 DEF NoTask
  <2> QED  BY <1>4, <1>5, <1>a, <2>1 DEF OpsApart, NoTask, Unused, NeverUsed, UnusedNext
<1>7. CASE W = {} /\ task'[t].kind = task[t].kind /\ task'[t].op = task[t].op /\ task[t].kind # "none" /\ ops' = ops
  <2>1. UnusedNext(<<task'[t].op, 1>>)
    BY <1>1, <1>7 DEF OpsApart
  <2> QED  BY <1>4, <1>5, <1>7, <1>a, <2>1 DEF OpsApart, Unused, NeverUsed, UnusedNext
<1>8. CASE W = {} /\ task'[t].op = ops + 1 /\ ops' = ops + 1 /\ ops < MaxOps
  <2>1. UnusedNext(<<task'[t].op, 1>>)
    BY <1>0, <1>1, <1>8 DEF OpsApart
  <2>2. \A u \in Threads \ {t} : task'[u].kind # "none" => task'[u].op # task'[t].op
    <3> SUFFICES ASSUME NEW u \in Threads \ {t}, task'[u].kind # "none" PROVE task'[u].op # task'[t].op
      OBVIOUS
    <3>1. task'[u] = task[u]
      BY <1>5
    <3> QED  BY <1>0, <1>8, <3>1
  <2> QED  BY <1>4, <1>5, <1>a, <2>1, <2>2 DEF OpsApart, Unused, NeverUsed, UnusedNext
<1> QED  BY <1>2, <1>6, <1>7, <1>8
-----------------------------------------------------------------------------
(* The fields of a session that was rolled back, *)
LEMMA UndoneParts ==
  ASSUME NEW x \in Sessions
  PROVE  /\ Undone(x) \in Sessions /\ Undone(x).work = {} /\ Undone(x).db = x.db
         /\ Clean(Undone(x)) /\ Idle(Undone(x))
BY DEF Undone, Sessions, Clean, Idle

(* and of one that has written. *)
LEMMA MoreParts ==
  ASSUME NEW x \in Sessions, NEW W \in SUBSET WriteStatements
  PROVE  LET y == [x EXCEPT !.work = @ \cup W]
             z == [x EXCEPT !.db = @ \cup W]
         IN  /\ y \in Sessions /\ y.work = x.work \cup W /\ y.db = x.db
             /\ InsideTransaction(x) => InsideTransaction(y)
             /\ z \in Sessions /\ z.work = x.work /\ z.db = x.db \cup W
             /\ Idle(x) => Idle(z)
             /\ Clean(x) => Clean(z)
BY DEF Sessions, InsideTransaction, Idle, Clean, Sqlite

(* One statement of the program, in a transaction and outside of one. *)
LEMMA StatementOutcome ==
  ASSUME NEW x \in Sessions, Reliable(x.dbms), NEW st, NEW W,
         (st \in WriteStatements /\ W = {st}) \/ (st = <<"SELECT">> /\ W = {}),
         NEW o \in RunQuery(<<st>>, x)
  PROVE  /\ InsideTransaction(x) => o = Done([x EXCEPT !.work = @ \cup W]) \/ o = Failed(Undone(x))
         /\ Idle(x) => o = Done([x EXCEPT !.db = @ \cup W]) \/ o = Failed(Undone(x))
<1>1. CASE st \in WriteStatements /\ W = {st}
  <2>1. <<st>> \in Seq(WriteStatements) /\ ToSet(<<st>>) = {st}
    BY <1>1 DEF ToSet
  <2>2. InsideTransaction(x) => o = Done(Wrote(x, <<st>>)) \/ o = Failed(Undone(x))
    BY <2>1, QueryInTransaction
  <2>3. Wrote(x, <<st>>) = [x EXCEPT !.work = @ \cup W]
    BY <1>1, <2>1 DEF Wrote
  <2>4. Idle(x) => o = Done([x EXCEPT !.db = @ \cup W]) \/ o = Failed(Undone(x))
    BY <1>1, QueryIdle
  <2> QED  BY <2>2, <2>3, <2>4
<1>2. CASE st = <<"SELECT">> /\ W = {}
  <2>1. [x EXCEPT !.work = @ \cup W] = x /\ [x EXCEPT !.db = @ \cup W] = x
    BY <1>2 DEF Sessions
  <2> QED  BY <1>2, <2>1, ReadInTransaction, QueryIdle
<1> QED  BY <1>1, <1>2
-----------------------------------------------------------------------------

(* Every session is of an engine that stays. *)
LEMMA SessionIs ==
  ASSUME Disciplined, SessionsFit, NEW c \in Connections
  PROVE  /\ session[c] \in Sessions /\ Reliable(session[c].dbms)
         /\ Sqlite(session[c]) => "commit" \notin Faults[session[c].dbms]
BY DEF Disciplined, SessionsFit, Sessions, Sqlite

(* A connection that t may use: one of a Repository of its own.            *)
Usable(t, c) == c # Null /\ \E r \in Mine(t) : repo[r].conn = c

(* A thread finds such a connection in one of the two states. *)
LEMMA UsableIs ==
  ASSUME Placement, SessionsFit, NEW t \in Threads, NEW c, Usable(t, c)
  PROVE  c \in Connections /\ NotOthers(t, c) /\ (NoneOpenOn(t, c) \/ \E k : OpenOn(t, c, k))
<1>1. PICK r \in Mine(t) : repo[r].conn = c /\ c # Null
  BY DEF Usable
<1>2. c \in Connections
  BY <1>1 DEF Placement, Fits, Types, Repository, Mine
<1> QED  BY <1>1, <1>2, SessionOfHeld

(* A statement on it, whether it succeeds or fails: the bodies of the      *)
(* thread still say what the session is in, and the books are kept.        *)
LEMMA StatementKeeps ==
  ASSUME Disciplined, Placement, SessionsFit, WritesApart, Durable, NoResidue,
         NEW t \in Threads, Alone(t), NEW c, Usable(t, c),
         NEW st, NEW W \in SUBSET WriteStatements,
         (st \in WriteStatements /\ W = {st}) \/ (st = <<"SELECT">> /\ W = {}),
         \A w \in W : NeverUsed(w),
         NEW o \in RunQuery(<<st>>, session[c]), session' = [session EXCEPT ![c] = o.s],
         IF o.ok THEN Succeeded(t, c, W) ELSE HasFailed(t, c, W)
  PROVE  SessionsFit' /\ o.s \in Sessions /\ Books(c, o.s, W)
<1> DEFINE x == session[c]
           y == [x EXCEPT !.work = @ \cup W]
           z == [x EXCEPT !.db = @ \cup W]
<1>0. Types /\ c \in Connections /\ NotOthers(t, c) /\ (NoneOpenOn(t, c) \/ \E k : OpenOn(t, c, k))
  BY UsableIs DEF Placement, Fits
<1>1. /\ x \in Sessions /\ Reliable(x.dbms)
      /\ x.work \cap x.db = {} /\ W \cap (x.work \cup x.db) = {} /\ undone \cap x.db = {}
  BY <1>0, SessionIs DEF WritesApart, NeverUsed, NoResidue, Database
<1>2. /\ y \in Sessions /\ y.work = x.work \cup W /\ y.db = x.db /\ (InsideTransaction(x) => InsideTransaction(y))
      /\ z \in Sessions /\ z.work = x.work /\ z.db = x.db \cup W
      /\ (Idle(x) => Idle(z)) /\ (Clean(x) => Clean(z))
  <2> HIDE DEF x
  <2> QED  BY <1>1, MoreParts
<1>3. /\ Undone(x) \in Sessions /\ Undone(x).work = {} /\ Undone(x).db = x.db
      /\ Clean(Undone(x)) /\ Idle(Undone(x))
  <2> HIDE DEF x
  <2> QED  BY <1>1, UndoneParts
<1>4. /\ InsideTransaction(x) => o = Done(y) \/ o = Failed(Undone(x))
      /\ Idle(x) => o = Done(z) \/ o = Failed(Undone(x))
  <2>1. o \in RunQuery(<<st>>, x)
    OBVIOUS
  <2> HIDE DEF x
  <2> QED  BY <1>1, <2>1, StatementOutcome
<1> HIDE DEF x, y, z
<1>5. session[c] = x
  BY DEF x
<1>6. CASE \E k : OpenOn(t, c, k)
  <2>1. PICK k : OpenOn(t, c, k)
    BY <1>6
  <2>2. /\ \E f \in ToSet(frames[t]) : IsOpen(f, c)
        /\ Pending(t, c) = x.work
    BY <1>5, <2>1, OpenParts
  <2>3. InsideTransaction(x)
    BY <1>5, <2>1 DEF OpenOn
  <2>4. CASE o = Done(y)
    <3>1. o.ok /\ o.s = y
      BY <2>4, OutcomeParts
    <3>2. frames' = [frames EXCEPT ![t] = Written(t, c, W)] /\ acked' = acked /\ undone' = undone
      BY <2>2, <3>1 DEF Succeeded
    <3>3. SessionsFit'
      BY <1>0, <1>2, <1>5, <2>1, <2>3, <3>1, <3>2, OpenWritten
    <3>4. Books(c, y, W)
      BY <1>1, <1>2, <1>5, <3>1, <3>2 DEF Books
    <3> QED  BY <1>2, <3>1, <3>3, <3>4
  <2>5. CASE o = Failed(Undone(x))
    <3>1. ~o.ok /\ o.s = Undone(x)
      BY <2>5, OutcomeParts
    <3>2. /\ frames' = [frames EXCEPT ![t] = Settled(t, c, "undone")]
          /\ acked' = acked /\ undone' = undone \cup W \cup x.work
      BY <2>2, <3>1 DEF HasFailed
    <3>3. SessionsFit'
      BY <1>0, <1>3, <2>1, <3>1, <3>2, OpenSettled
    <3>4. Books(c, Undone(x), W)
      BY <1>1, <1>3, <1>5, <3>1, <3>2 DEF Books
    <3> QED  BY <1>3, <3>1, <3>3, <3>4
  <2> QED  BY <1>4, <2>3, <2>4, <2>5
<1>7. CASE NoneOpenOn(t, c)
  <2>1. /\ ~\E f \in ToSet(frames[t]) : IsOpen(f, c)
        /\ Pending(t, c) = {} /\ Settled(t, c, "undone") = frames[t]
    BY <1>0, <1>7, NoneOpenParts
  <2>2. Idle(x) /\ x.work = {}
    BY <1>5, <1>7 DEF NoneOpenOn, Idle
  <2>3. CASE o = Done(z)
    <3>1. o.ok /\ o.s = z
      BY <2>3, OutcomeParts
    <3>2. frames' = frames /\ acked' = acked \cup W /\ undone' = undone
      BY <2>1, <3>1 DEF Succeeded
    <3>3. SessionsFit'
      BY <1>0, <1>2, <1>5, <1>7, <2>2, <3>1, <3>2, NoneOpenStays
    <3>4. Books(c, z, W)
      BY <1>1, <1>2, <1>5, <2>2, <3>1, <3>2 DEF Books
    <3> QED  BY <1>2, <3>1, <3>3, <3>4
  <2>4. CASE o = Failed(Undone(x))
    <3>1. ~o.ok /\ o.s = Undone(x)
      BY <2>4, OutcomeParts
    <3>2. frames'[t] = frames[t] /\ acked' = acked /\ undone' = undone \cup W
      BY <1>0, <2>1, <3>1 DEF HasFailed, Types
    <3>3. SessionsFit'
      BY <1>0, <1>3, <1>7, <3>1, <3>2, NoneOpenStays
    <3>4. Books(c, Undone(x), W)
      BY <1>1, <1>3, <1>5, <2>2, <3>1, <3>2 DEF Books
    <3> QED  BY <1>3, <3>1, <3>3, <3>4
  <2> QED  BY <1>4, <2>2, <2>3, <2>4
<1> QED  BY <1>0, <1>6, <1>7

(* A step with nothing to do with sessions: the transactions are the same. *)
Alike(f, g) == f.kind = g.kind /\ f.tr = g.tr /\ f.fate = g.fate /\ f.pending = g.pending
SameTransactions(t) ==
  /\ \A i \in DOMAIN frames[t] : frames[t][i].kind = "transaction"
       => i \in DOMAIN frames'[t] /\ Alike(frames[t][i], frames'[t][i])
  /\ \A i \in DOMAIN frames'[t] : frames'[t][i].kind = "transaction"
       => i \in DOMAIN frames[t] /\ Alike(frames[t][i], frames'[t][i])

(* A step that leaves sessions and transactions alone keeps them in        *)
(* agreement.                                                              *)
LEMMA SameSessions ==
  ASSUME SessionsFit, NEW t \in Threads, Alone(t), session' = session, SameTransactions(t)
  PROVE  SessionsFit'
<1>1. \A u \in Threads \ {t} : frames'[u] = frames[u]
  BY DEF Alone
<1>2. ASSUME NEW d \in Connections, NoneOn(d)' PROVE Clean(session[d])
  <2>0. \A u \in Threads : \A i \in DOMAIN frames'[u] : ~IsTransaction(frames'[u][i], d)
    BY <1>2 DEF NoneOn, IsTransaction
  <2>1. \A i \in DOMAIN frames[t] : ~IsTransaction(frames[t][i], d)
    BY <2>0 DEF IsTransaction, SameTransactions, Alike
  <2>2. NoneOn(d)
    BY <1>1, <2>0, <2>1 DEF NoneOn
  <2> QED  BY <2>2 DEF SessionsFit
<1>3. ASSUME NEW u \in Threads, NEW i \in DOMAIN frames'[u], frames'[u][i].kind = "transaction"
      PROVE  FrameFits(frames'[u][i], session[frames'[u][i].tr.conn])
  <2>1. i \in DOMAIN frames[u] /\ Alike(frames[u][i], frames'[u][i])
    BY <1>1, <1>3 DEF SameTransactions, Alike
  <2>2. FrameFits(frames[u][i], session[frames[u][i].tr.conn])
    BY <1>3, <2>1 DEF Alike, SessionsFit
  <2> QED  BY <2>1, <2>2 DEF Alike, FrameFits
<1>4. Connections' = Connections /\ Sessions' = Sessions
  OBVIOUS
<1> QED  BY <1>2, <1>3 DEF SessionsFit

(* What the other invariants need to know of a step of t.                  *)
Booked(t) ==
  \E c \in Connections, x \in Sessions : \E W : Books(c, x, W) /\ Spends(t, W) /\ \A w \in W : NeverUsed(w)
Quiet == session' = session /\ acked' = acked /\ undone' = undone

(* It has nothing to book. *)
LEMMA QuietIsBooked ==
  ASSUME SessionsFit, WritesApart, NEW t \in Threads, Quiet
  PROVE  Booked(t)
<1>1. PICK c \in Connections : TRUE
  BY RepositoryAssumption DEF Connections
<1>2. session[c] \in Sessions /\ session = [session EXCEPT ![c] = session[c]]
  BY DEF SessionsFit
<1>3. Books(c, session[c], {})
  BY <1>1, <1>2 DEF Quiet, Books, WritesApart
<1> QED  BY <1>2, <1>3 DEF Booked, Spends

(* The other invariants follow from the two facts about the step. *)
LEMMA KeptAfter ==
  ASSUME Fits, Bookkeeping, NEW t \in Threads, ThreadStep(t), SessionsFit', Booked(t)
  PROVE  Bookkeeping'
<1>1. PICK c \in Connections, x \in Sessions : \E W : Books(c, x, W) /\ Spends(t, W) /\ \A w \in W : NeverUsed(w)
  BY DEF Booked
<1>2. PICK W : Books(c, x, W) /\ Spends(t, W) /\ \A w \in W : NeverUsed(w)
  BY <1>1
<1>3. WritesApart' /\ Durable' /\ NoResidue' /\ Spares(W)
  BY <1>2, BooksKept DEF Bookkeeping
<1>4. OpsApart'
  BY <1>2, <1>3, OpsAfter DEF Bookkeeping
<1> QED  BY <1>3, <1>4 DEF Bookkeeping
-----------------------------------------------------------------------------
(* The calls that run statements.                                          *)
LEMMA QueryKeeps ==
  ASSUME Disciplined, Placement, Bookkeeping, NEW t \in Threads, Alone(t), Query(t)
  PROVE  SessionsFit' /\ Booked(t)
<1> DEFINE c == task[t].conn
           w == <<task[t].op, 1>>
<1>0. /\ Types /\ CallFits(t) /\ Own(t) /\ task \in [Threads -> Call] /\ ops \in Nat
      /\ task[t].kind = "query" /\ task[t].stage = "run" /\ task' = [task EXCEPT ![t] = NoTask]
  BY RepositoryAssumption DEF Placement, Fits, Types, Owned, Query
<1>1. task'[t] = NoTask /\ c \in Connections /\ c # Null /\ task[t].op \in Nat
  <2>1. c \in Connections /\ task[t].op \in 1 .. ops /\ Null \notin Connections
    BY <1>0, HoldingTyped DEF CallFits, Placement, Fits
  <2>2. task'[t] = NoTask
    BY <1>0
  <2> QED  BY <1>0, <2>1, <2>2
<1>2. Usable(t, c)
  BY <1>0, <1>1 DEF Own, Usable
<1>3. w \in WriteStatements /\ NeverUsed(w)
  BY <1>0, <1>1 DEF WriteStatements, Bookkeeping, OpsApart, Unused
<1>4. Spends(t, {w})
  BY <1>0, <1>1 DEF Spends
<1>5. CASE \E o \in RunQuery(<<w>>, session[c]) :
             /\ session' = [session EXCEPT ![c] = o.s]
             /\ IF o.ok THEN Succeeded(t, c, {w}) ELSE HasFailed(t, c, {w})
  <2> HIDE DEF c, w
  <2>1. PICK o \in RunQuery(<<w>>, session[c]) :
             /\ session' = [session EXCEPT ![c] = o.s]
             /\ IF o.ok THEN Succeeded(t, c, {w}) ELSE HasFailed(t, c, {w})
    BY <1>5
  <2>2. {w} \in SUBSET WriteStatements /\ \A v \in {w} : NeverUsed(v)
    BY <1>3
  <2>3. SessionsFit' /\ o.s \in Sessions /\ Books(c, o.s, {w})
    BY <1>2, <1>3, <2>1, <2>2, StatementKeeps DEF Bookkeeping
  <2> QED  BY <1>1, <1>4, <2>2, <2>3 DEF Booked
<1>6. CASE UNCHANGED <<session, frames, throwing, outcome>>
  <2>1. Quiet /\ SameTransactions(t)
    BY <1>6 DEF Quiet, outcome, SameTransactions, Alike
  <2> QED  BY <2>1, SameSessions, QuietIsBooked DEF Quiet, Bookkeeping
<1> QED  BY <1>5, <1>6 DEF Query

(* A lazy relation, read while the thread still has the connection. *)
LEMMA RelationKeeps ==
  ASSUME Disciplined, Placement, Bookkeeping, NEW t \in Threads, Alone(t), Relation(t)
  PROVE  SessionsFit' /\ Booked(t)
<1> DEFINE c == kept[t].conn
<1>1. PICK o \in RunQuery(<<<<"SELECT">>>>, session[c]) :
             /\ session' = [session EXCEPT ![c] = o.s]
             /\ IF o.ok THEN Succeeded(t, c, {}) ELSE HasFailed(t, c, {})
  BY DEF Relation
<1>2. Usable(t, c)
  <2>1. c # Null /\ c \in Held(t) /\ task[t] = NoTask
    BY DEF Relation, Free, May, Disciplined
  <2>2. ~HeldByCall(t)
    BY <2>1 DEF HeldByCall, NoTask
  <2> QED  BY <2>1, <2>2 DEF Held, Usable
<1> HIDE DEF c
<1>3. SessionsFit' /\ o.s \in Sessions /\ Books(c, o.s, {})
  <2>1. {} \in SUBSET WriteStatements /\ \A v \in {} : NeverUsed(v)
    OBVIOUS
  <2> QED  BY <1>1, <1>2, <2>1, StatementKeeps DEF Bookkeeping
<1>4. c \in Connections
  BY <1>2, UsableIs DEF Bookkeeping
<1> QED  BY <1>3, <1>4 DEF Booked, Spends

(* A call of the backend runs its one statement on a connection that has   *)
(* no transaction, and leaves it as it was.                                *)
LEMMA BackendCallsKeep ==
  ASSUME Disciplined, Placement, Bookkeeping, NEW t \in Threads, Alone(t), ReadLog(t) \/ TableNames(t)
  PROVE  SessionsFit' /\ Booked(t)
<1> DEFINE c == task[t].conn
<1>1. PICK o \in RunQuery(<<<<"SELECT">>>>, session[c]) : session' = [session EXCEPT ![c] = o.s]
  BY DEF ReadLog, TableNames
<1>2. c \in Connections /\ NoneOn(c)
  <2>1. c \in Connections /\ c # Null
    <3>1. CallFits(t) /\ Null \notin Connections
      BY HoldingTyped DEF Placement, Fits
    <3> QED  BY <3>1 DEF CallFits, ReadLog, TableNames
  <2>2. CASE ReadLog(t)
    <3>1. \E i \in DOMAIN pool : pool[i] = c
      BY <2>2 DEF ReadLog, Placement, Owned, LogReader
    <3> QED  BY <2>1, <3>1, LentHasNone
  <2>3. CASE TableNames(t)
    <3>1. HeldByCall(t)
      BY <2>1, <2>3 DEF TableNames, HeldByCall
    <3> QED  BY <2>1, <3>1, LentHasNone
  <2> QED  BY <2>2, <2>3
<1> HIDE DEF c
<1>3. session[c] \in Sessions /\ Clean(session[c]) /\ Reliable(session[c].dbms)
  BY <1>2, SessionIs DEF Bookkeeping, SessionsFit
<1>4. o.s = session[c]
  BY <1>1, <1>3, QueryAlone, OutcomeParts
<1>5. session' = session
  BY <1>1, <1>2, <1>4 DEF Bookkeeping, SessionsFit
<1>6. Quiet /\ SameTransactions(t)
  BY <1>5 DEF Quiet, ReadLog, TableNames, outcome, SameTransactions, Alike
<1> QED  BY <1>5, <1>6, SameSessions, QuietIsBooked DEF Bookkeeping
-----------------------------------------------------------------------------
(* An open transaction of the thread's own ends.                           *)
LEMMA OwnBodies ==
  ASSUME Placement, NEW t \in Threads, NEW i \in DOMAIN frames[t], frames[t][i].kind = "transaction"
  PROVE  Usable(t, frames[t][i].tr.conn)
<1>1. BodiesFit(t) /\ Own(t) /\ Null \notin Connections
  BY HoldingTyped DEF Placement, Fits, Owned
<1>2. /\ frames[t][i].repo \in Mine(t) /\ repo[frames[t][i].repo].conn = frames[t][i].tr.conn
      /\ frames[t][i].tr.conn \in Connections
  BY <1>1 DEF BodiesFit, Own
<1> QED  BY <1>1, <1>2 DEF Usable

(* The transaction of a body that has not ended is open in the session     *)
(* too.                                                                    *)
LEMMA OpenTransaction ==
  ASSUME Placement, SessionsFit, NEW t \in Threads,
         NEW i \in DOMAIN frames[t], frames[t][i].kind = "transaction", frames[t][i].fate = "open"
  PROVE  \E k : OpenOn(t, frames[t][i].tr.conn, k)
<1>1. ~NoneOpenOn(t, frames[t][i].tr.conn)
  BY DEF NoneOpenOn, IsTransaction
<1> QED  BY <1>1, OwnBodies, UsableIs

(* Transaction::commit: done, or undone with the exception. *)
LEMMA CommitKeeps ==
  ASSUME Disciplined, Placement, Bookkeeping, NEW t \in Threads, Alone(t), NEW i \in DOMAIN frames[t], Commit(t, i)
  PROVE  SessionsFit' /\ Booked(t)
<1> DEFINE c == frames[t][i].tr.conn
           x == session[c]
<1>1. /\ frames[t][i].kind = "transaction" /\ frames[t][i].fate = "open"
      /\ SessionsFit /\ Types
  BY DEF Commit, May, Disciplined, Bookkeeping, Placement, Fits
<1>2. PICK o \in EndTransaction(x) :
        /\ session' = [session EXCEPT ![c] = o.s]
        /\ IF o.ok
             THEN /\ acked' = acked \cup Pending(t, c)
                  /\ frames' = [frames EXCEPT ![t] = Settled(t, c, "committed")]
                  /\ undone' = undone
             ELSE HasFailed(t, c, {})
  BY DEF Commit
<1>3. c \in Connections /\ NotOthers(t, c)
  BY <1>1, OwnBodies, UsableIs
<1>4. PICK k : OpenOn(t, c, k)
  BY <1>1, OpenTransaction
<1> HIDE DEF c
<1>5. Pending(t, c) = x.work /\ InsideTransaction(x)
  BY <1>4, OpenParts DEF OpenOn
<1>6. /\ x \in Sessions /\ Reliable(x.dbms) /\ (Sqlite(x) => "commit" \notin Faults[x.dbms])
      /\ x.work \cap x.db = {} /\ undone \cap x.db = {}
  BY <1>1, <1>3, SessionIs DEF Bookkeeping, WritesApart, NoResidue, Database
<1>7. session[c] = x
  OBVIOUS
<1> HIDE DEF x
<1>8. Spends(t, {}) /\ \A w \in {} : NeverUsed(w)
  BY DEF Spends
<1>9. CASE o = Done(Kept(x))
  <2>1. o.ok /\ o.s = Kept(x)
    BY <1>9, OutcomeParts
  <2>2. /\ Kept(x) \in Sessions /\ Kept(x).work = {} /\ Kept(x).db = x.db \cup x.work /\ Idle(Kept(x))
    BY <1>6 DEF Kept, Sessions, Idle
  <2>3. /\ frames' = [frames EXCEPT ![t] = Settled(t, c, "committed")]
        /\ acked' = acked \cup x.work /\ undone' = undone
    BY <1>2, <1>5, <2>1
  <2>4. SessionsFit'
    BY <1>1, <1>2, <1>3, <1>4, <2>1, <2>2, <2>3, OpenSettled
  <2>5. Books(c, Kept(x), {})
    BY <1>2, <1>7, <2>1, <2>2, <2>3 DEF Books
  <2> QED  BY <1>3, <1>8, <2>2, <2>4, <2>5 DEF Booked
<1>10. CASE \/ o = Failed(Undone(x))
            \/ o = Failed([Undone(x) EXCEPT !.flag = TRUE]) /\ ~Sqlite(x)
  <2> DEFINE y == o.s
  <2>1. ~o.ok /\ (y = Undone(x) \/ (y = [Undone(x) EXCEPT !.flag = TRUE] /\ ~Sqlite(x)))
    BY <1>10, OutcomeParts
  <2>2. y \in Sessions /\ y.work = {} /\ y.db = x.db /\ Idle(y)
    BY <1>6, <2>1 DEF Undone, Sessions, Idle, Sqlite
  <2>3. /\ frames' = [frames EXCEPT ![t] = Settled(t, c, "undone")]
        /\ acked' = acked /\ undone' = undone \cup x.work
    BY <1>2, <1>5, <2>1 DEF HasFailed
  <2>a. session' = [session EXCEPT ![c] = y]
    BY <1>2
  <2> HIDE DEF y
  <2>4. SessionsFit'
    BY <1>1, <1>3, <1>4, <2>a, <2>2, <2>3, OpenSettled
  <2>5. Books(c, y, {})
    BY <1>6, <1>7, <2>a, <2>2, <2>3 DEF Books
  <2> QED  BY <1>3, <1>8, <2>2, <2>4, <2>5 DEF Booked
<1> QED  BY <1>5, <1>6, <1>9, <1>10, EndOutcome

(* Transaction::rollback. *)
LEMMA RollBackKeeps ==
  ASSUME Disciplined, Placement, Bookkeeping, NEW t \in Threads, Alone(t), NEW i \in DOMAIN frames[t], RollBack(t, i)
  PROVE  SessionsFit' /\ Booked(t)
<1> DEFINE c == frames[t][i].tr.conn
           x == session[c]
<1>1. /\ frames[t][i].kind = "transaction" /\ frames[t][i].fate = "open"
      /\ SessionsFit /\ Types
  BY DEF RollBack, May, Disciplined, Bookkeeping, Placement, Fits
<1>2. PICK o \in RollbackTransaction(x) :
        /\ session' = [session EXCEPT ![c] = o.s]
        /\ IF o.ok
             THEN /\ undone' = undone \cup Pending(t, c)
                  /\ frames' = [frames EXCEPT ![t] = Settled(t, c, "undone")]
                  /\ acked' = acked
             ELSE HasFailed(t, c, {})
  BY DEF RollBack
<1>3. c \in Connections /\ NotOthers(t, c)
  BY <1>1, OwnBodies, UsableIs
<1>4. PICK k : OpenOn(t, c, k)
  BY <1>1, OpenTransaction
<1> HIDE DEF c
<1>5. Pending(t, c) = x.work /\ InsideTransaction(x)
  BY <1>4, OpenParts DEF OpenOn
<1>6. x \in Sessions /\ Reliable(x.dbms) /\ undone \cap x.db = {} /\ x.work \cap x.db = {}
  BY <1>1, <1>3, SessionIs DEF Bookkeeping, NoResidue, Database, WritesApart
<1>7. session[c] = x
  OBVIOUS
<1> HIDE DEF x
<1>8. o.ok /\ o.s = Undone(x)
  BY <1>2, <1>5, <1>6, LastRollbacks, OutcomeParts
<1>9. /\ Undone(x) \in Sessions /\ Undone(x).work = {} /\ Undone(x).db = x.db /\ Idle(Undone(x))
  BY <1>6, UndoneParts
<1>10. SessionsFit'
  BY <1>1, <1>2, <1>3, <1>4, <1>8, <1>9, OpenSettled
<1>11. Books(c, Undone(x), {})
  BY <1>2, <1>5, <1>6, <1>7, <1>8, <1>9 DEF Books
<1>12. Spends(t, {}) /\ \A w \in {} : NeverUsed(w)
  BY DEF Spends
<1> QED  BY <1>3, <1>9, <1>10, <1>11, <1>12 DEF Booked

(* The body that was opened last ends.                                     *)
LEMMA LeaveBodyKeeps ==
  ASSUME Disciplined, Placement, Bookkeeping, NEW t \in Threads, Alone(t), LeaveBody(t)
  PROVE  SessionsFit' /\ Booked(t)
<1> DEFINE n == Len(frames[t])
           f == frames[t][n]
           c == f.tr.conn
           x == session[c]
<1>0. /\ SessionsFit /\ Types /\ BodiesFit(t) /\ frames[t] \in Seq(Frame) /\ frames[t] # <<>>
  BY DEF LeaveBody, Bookkeeping, Placement, Fits, Types
<1>1. /\ n \in DOMAIN frames[t] /\ f = Last(frames[t]) /\ DOMAIN frames'[t] = DOMAIN frames[t] \ {n}
      /\ \A i \in DOMAIN frames'[t] : frames'[t][i] = frames[t][i]
  <2>1. frames'[t] = Front(frames[t])
    BY <1>0 DEF LeaveBody, Types
  <2> QED  BY <1>0, <2>1 DEF Front, Last
<1>2. undone' = undone \cup f.pending /\ acked' = acked
  BY <1>1 DEF LeaveBody
<1> HIDE DEF n
<1>3. CASE f.kind = "wrap"
  <2>1. session' = session /\ f.pending = {}
    BY <1>0, <1>1, <1>3 DEF LeaveBody, BodiesFit
  <2>2. Quiet /\ SameTransactions(t)
    BY <1>1, <1>2, <1>3, <2>1 DEF Quiet, SameTransactions, Alike
  <2> QED  BY <2>1, <2>2, SameSessions, QuietIsBooked DEF Bookkeeping
<1>4. CASE f.kind = "transaction"
  <2>1. c \in Connections /\ NotOthers(t, c)
        /\ \A i \in DOMAIN frames[t] : IsTransaction(frames[t][i], c) => i = n
    <3>1. Usable(t, c)
      BY <1>1, <1>4, OwnBodies
    <3>2. PICK r \in Mine(t) : repo[r].conn = c /\ c # Null
      BY <3>1 DEF Usable
    <3>3. IsTransaction(frames[t][n], c)
      BY <1>1, <1>4 DEF IsTransaction
    <3> QED  BY <1>0, <1>1, <3>1, <3>2, <3>3, UsableIs, HeldHasOne
  <2>2. FrameFits(f, x) /\ x \in Sessions /\ Reliable(x.dbms) /\ undone \cap x.db = {} /\ x.work \cap x.db = {}
    <3>1. FrameFits(f, x)
      BY <1>0, <1>1, <1>4 DEF SessionsFit
    <3>2. /\ x \in Sessions /\ Reliable(x.dbms) /\ undone \cap x.db = {} /\ x.work \cap x.db = {}
      BY <1>0, <2>1, SessionIs DEF Bookkeeping, NoResidue, Database, WritesApart
    <3> QED  BY <3>1, <3>2
  <2>3. /\ Idle(x) \/ InsideTransaction(x)
        /\ f.pending \subseteq x.work
    BY <2>2 DEF FrameFits, Idle
  <2>4. \E o \in RollbackTransaction(x) \cup BodyThrew(x) \cup BodyReturned(x) : session' = [session EXCEPT ![c] = o.s]
    BY <1>1, <1>4 DEF LeaveBody
  <2>5. session[c] = x
    OBVIOUS
  <2> HIDE DEF f, c, x
  <2>6. session' = [session EXCEPT ![c] = Undone(x)]
    BY <2>2, <2>3, <2>4, LastRollbacks, OutcomeParts
  <2>7. /\ Undone(x) \in Sessions /\ Undone(x).work = {} /\ Undone(x).db = x.db
        /\ Clean(Undone(x)) /\ Idle(Undone(x))
    BY <2>2, UndoneParts
  <2>8. BodiesFollow(t, c, Undone(x))
    <3>1. \A i \in DOMAIN frames'[t] : ~IsTransaction(frames'[t][i], c)
      BY <1>1, <2>1
    <3>2. IsTransaction(frames[t][n], c)
      BY <1>4 DEF f, c, IsTransaction
    <3> QED  BY <1>1, <2>7, <3>1, <3>2 DEF BodiesFollow, IsTransaction
  <2>9. SessionsFit'
    BY <1>0, <2>1, <2>6, <2>7, <2>8, SessionAfter
  <2>10. Books(c, Undone(x), {})
    BY <1>2, <2>2, <2>3, <2>5, <2>6, <2>7 DEF Books
  <2>11. Spends(t, {}) /\ \A w \in {} : NeverUsed(w)
    BY DEF Spends
  <2> QED  BY <2>1, <2>7, <2>9, <2>10, <2>11 DEF Booked
<1>5. f.kind \in {"wrap", "transaction"}
  <2>1. f \in Frame
    BY <1>0, <1>1
  <2> QED  BY <2>1 DEF Frame
<1> QED  BY <1>3, <1>4, <1>5

(* A body begins: nothing was open on the connection.                      *)
LEMMA EnterTransactionKeeps ==
  ASSUME Disciplined, Placement, Bookkeeping, NEW t \in Threads, Alone(t), EnterTransaction(t)
  PROVE  SessionsFit' /\ Booked(t)
<1> DEFINE r == task[t].repo
           c == task[t].conn
           x == session[c]
           y == [x EXCEPT !.flag = TRUE, !.engine = "open"]
           f == TransactionFrame(r, [conn |-> c, builder |-> task[t].builder])
           n == Len(frames[t])
<1>0. /\ SessionsFit /\ Types /\ CallFits(t) /\ BodiesFit(t) /\ Own(t)
      /\ frames[t] \in Seq(Frame) /\ Null \notin Connections
      /\ task[t].kind = "transaction" /\ task[t].stage = "run"
  BY HoldingTyped DEF EnterTransaction, Bookkeeping, Placement, Fits, Owned, Types
<1>1. r \in Mine(t) /\ c \in Connections /\ c # Null /\ repo[r].conn = c /\ ~InTransaction(t, r)
  BY <1>0 DEF CallFits, Own
<1>2. NotOthers(t, c) /\ \A i \in DOMAIN frames[t] : ~IsTransaction(frames[t][i], c)
  <2>1. Usable(t, c)
    BY <1>1 DEF Usable
  <2>2. ASSUME NEW i \in DOMAIN frames[t], IsTransaction(frames[t][i], c) PROVE FALSE
    <3>1. frames[t][i].repo \in Mine(t) /\ repo[frames[t][i].repo].conn = repo[r].conn
      BY <1>0, <1>1, <2>2 DEF BodiesFit, Own, IsTransaction
    <3>2. frames[t][i].repo = r
      BY <1>1, <3>1, OneRepository DEF Mine, Placement
    <3> QED  BY <1>1, <2>2, <3>2 DEF InTransaction, IsTransaction
  <2> QED  BY <1>0, <2>1, <2>2, UsableIs
<1>3. Clean(x) /\ x \in Sessions /\ Reliable(x.dbms)
  <2>1. NoneOn(c)
    BY <1>2 DEF NoneOn, NotOthers
  <2> QED  BY <1>0, <1>1, <2>1, SessionIs DEF SessionsFit
<1>4. PICK o \in BeginTransaction(x) :
        /\ session' = [session EXCEPT ![c] = o.s]
        /\ o.ok => frames' = [frames EXCEPT ![t] = Append(@, f)]
  BY DEF EnterTransaction
<1>5. acked' = acked /\ undone' = undone
  BY DEF EnterTransaction, outcome
<1>6. /\ f.kind = "transaction" /\ f.tr.conn = c /\ f.fate = "open" /\ f.pending = {}
  BY DEF TransactionFrame
<1>7. session[c] = x
  OBVIOUS
<1> HIDE DEF x, f, c, r
<1>8. o.ok /\ o.s = y
  BY <1>3, <1>4, BeginOutcome, OutcomeParts
<1>9. y \in Sessions /\ InsideTransaction(y) /\ y.work = {} /\ y.db = x.db
  BY <1>3 DEF Sessions, InsideTransaction, Clean
<1> HIDE DEF y
<1>10. /\ n \in Nat /\ DOMAIN frames[t] = 1 .. n /\ DOMAIN frames'[t] = 1 .. (n + 1)
       /\ frames'[t][n + 1] = f /\ \A i \in 1 .. n : frames'[t][i] = frames[t][i]
  <2>1. frames'[t] = Append(frames[t], f)
    BY <1>0, <1>4, <1>8 DEF Types
  <2> QED  BY <1>0, <2>1
<1> HIDE DEF n
<1>11. BodiesFollow(t, c, y)
  <2>1. IsTransaction(frames'[t][n + 1], c) /\ FrameFits(frames'[t][n + 1], y) /\ n + 1 \in DOMAIN frames'[t]
    BY <1>6, <1>9, <1>10 DEF FrameFits, IsTransaction
  <2>2. \A i \in DOMAIN frames'[t] : i = n + 1 \/ i \in 1 .. n
    BY <1>10
  <2>3. \A i \in 1 .. n : i \in DOMAIN frames'[t] /\ i \in DOMAIN frames[t]
    BY <1>10
  <2>4. frames'[t][n + 1].tr.conn = c
    BY <1>6, <1>10
  <2> QED  BY <1>2, <1>10, <2>1, <2>2, <2>3, <2>4 DEF BodiesFollow, IsTransaction
<1>12. SessionsFit'
  BY <1>0, <1>1, <1>2, <1>4, <1>8, <1>9, <1>11, SessionAfter
<1>13. Books(c, y, {})
  BY <1>4, <1>5, <1>7, <1>8, <1>9 DEF Books
<1>14. Spends(t, {}) /\ \A w \in {} : NeverUsed(w)
  BY DEF Spends
<1> QED  BY <1>1, <1>9, <1>12, <1>13, <1>14 DEF Booked
-----------------------------------------------------------------------------
(* Everything else leaves the sessions alone.                              *)
LEMMA QuietSteps ==
  ASSUME Disciplined, Fits, NEW t \in Threads,
         \/ \E r \in Repos :
              \/ Construct(t, r) \/ FreeByHand(t, r) \/ Destroy(t, r) \/ AskMovedFrom(t, r)
              \/ \E kind \in {"query", "transaction", "wrap"} : Ask(t, r, kind)
              \/ \E q \in Repos : Move(t, r, q) \/ Copy(t, r, q)
         \/ \E kind \in {"recorder", "tables"} : AskBackend(t, kind)
         \/ \E i \in DOMAIN frames[t] : AskTransaction(t, i) \/ MoveTransaction(t, i)
         \/ Get(t) \/ TestBuilder(t) \/ MakeBuilder(t) \/ Unwrap(t) \/ EnterWrap(t) \/ Throw(t)
  PROVE  Quiet /\ SameTransactions(t)
<1>0. frames \in [Threads -> Seq(Frame)] /\ frames[t] \in Seq(Frame)
  BY DEF Fits, Types
<1>a. frames' = frames => SameTransactions(t)
  BY DEF SameTransactions, Alike
<1> USE DEF Quiet, program, resources, outcome
<1>1. CASE \E r \in Repos :
             \/ Construct(t, r) \/ FreeByHand(t, r) \/ Destroy(t, r) \/ AskMovedFrom(t, r)
             \/ \E kind \in {"query", "transaction", "wrap"} : Ask(t, r, kind)
             \/ \E q \in Repos : Move(t, r, q) \/ Copy(t, r, q)
  BY <1>1, <1>a DEF Construct, FreeByHand, Destroy, AskMovedFrom, Ask, Move, Copy
<1>2. CASE \E kind \in {"recorder", "tables"} : AskBackend(t, kind)
  BY <1>2, <1>a DEF AskBackend
<1>3. ASSUME NEW i \in DOMAIN frames[t], AskTransaction(t, i) \/ MoveTransaction(t, i)
      PROVE  Quiet /\ SameTransactions(t)
  <2>1. Quiet
    BY <1>3 DEF AskTransaction, MoveTransaction
  <2>2. frames[t][i] \in Frame
    BY <1>0
  <2>3. \/ frames[t][i].fate = "open" /\ frames' = [frames EXCEPT ![t][i].fate = "open"]
        \/ frames' = [frames EXCEPT ![t][i].moved = TRUE]
    BY <1>3 DEF AskTransaction, MoveTransaction, May, Disciplined
  <2>4. DOMAIN frames'[t] = DOMAIN frames[t] /\ \A j \in DOMAIN frames[t] \ {i} : frames'[t][j] = frames[t][j]
    BY <1>0, <2>3
  <2>5. Alike(frames[t][i], frames'[t][i])
    <3>1. \/ frames[t][i].fate = "open" /\ frames'[t][i] = [frames[t][i] EXCEPT !.fate = "open"]
          \/ frames'[t][i] = [frames[t][i] EXCEPT !.moved = TRUE]
      BY <1>0, <2>3
    <3> QED  BY <2>2, <3>1 DEF Frame, Alike
  <2> QED  BY <2>1, <2>4, <2>5 DEF SameTransactions, Alike
<1>4. CASE Get(t) \/ TestBuilder(t) \/ MakeBuilder(t) \/ Unwrap(t) \/ Throw(t)
  BY <1>4, <1>a DEF Get, TestBuilder, MakeBuilder, Unwrap, Throw
<1>5. CASE EnterWrap(t)
  <2> DEFINE n == Len(frames[t])
             f == WrapFrame(task[t].repo)
  <2>1. Quiet
    BY <1>5 DEF EnterWrap
  <2>2. frames'[t] = Append(frames[t], f) /\ f.kind = "wrap"
    BY <1>0, <1>5 DEF EnterWrap, WrapFrame
  <2> HIDE DEF f
  <2>3. /\ n \in Nat /\ DOMAIN frames[t] = 1 .. n /\ DOMAIN frames'[t] = 1 .. (n + 1)
        /\ frames'[t][n + 1] = f /\ \A i \in 1 .. n : frames'[t][i] = frames[t][i]
    BY <1>0, <2>2
  <2> HIDE DEF n
  <2>4. /\ \A i \in DOMAIN frames'[t] : i = n + 1 \/ i \in 1 .. n
        /\ \A i \in 1 .. n : i \in DOMAIN frames'[t] /\ i \in DOMAIN frames[t]
    BY <2>3
  <2> QED  BY <2>1, <2>2, <2>3, <2>4 DEF SameTransactions, Alike
<1> QED  BY <1>1, <1>2, <1>3, <1>4, <1>5

(* Every step of a thread keeps the sessions and the books. *)
LEMMA StepKeeps ==
  ASSUME Disciplined, Placement, Bookkeeping, NEW t \in Threads, ThreadStep(t)
  PROVE  Bookkeeping'
<1>0. Alone(t) /\ Fits /\ SessionsFit /\ WritesApart
  BY Locality DEF Placement, Bookkeeping
<1>1. CASE \/ Query(t) \/ Relation(t) \/ ReadLog(t) \/ TableNames(t) \/ LeaveBody(t) \/ EnterTransaction(t)
           \/ \E i \in DOMAIN frames[t] : Commit(t, i) \/ RollBack(t, i)
  <2>1. SessionsFit' /\ Booked(t)
    BY <1>0, <1>1, QueryKeeps, RelationKeeps, BackendCallsKeep, LeaveBodyKeeps, EnterTransactionKeeps,
       CommitKeeps, RollBackKeeps
  <2> QED  BY <1>0, <2>1, KeptAfter
<1>2. CASE \/ \E r \in Repos :
                \/ Construct(t, r) \/ FreeByHand(t, r) \/ Destroy(t, r) \/ AskMovedFrom(t, r)
                \/ \E kind \in {"query", "transaction", "wrap"} : Ask(t, r, kind)
                \/ \E q \in Repos : Move(t, r, q) \/ Copy(t, r, q)
           \/ \E kind \in {"recorder", "tables"} : AskBackend(t, kind)
           \/ \E i \in DOMAIN frames[t] : AskTransaction(t, i) \/ MoveTransaction(t, i)
           \/ Get(t) \/ TestBuilder(t) \/ MakeBuilder(t) \/ Unwrap(t) \/ EnterWrap(t) \/ Throw(t)
  <2>1. Quiet /\ SameTransactions(t)
    BY <1>0, <1>2, QuietSteps
  <2>2. SessionsFit' /\ Booked(t)
    BY <1>0, <2>1, SameSessions, QuietIsBooked DEF Quiet
  <2> QED  BY <1>0, <2>2, KeptAfter
<1> QED  BY <1>1, <1>2 DEF ThreadStep

(* So does every step. *)
LEMMA NextKept == Disciplined /\ Placement /\ Bookkeeping /\ [Next]_vars => Bookkeeping'
<1> SUFFICES ASSUME Disciplined, Placement, Bookkeeping, [Next]_vars PROVE Bookkeeping'
  OBVIOUS
<1>1. ASSUME NEW t \in Threads, ThreadStep(t) PROVE Bookkeeping'
  BY <1>1, StepKeeps
<1>2. CASE StartThreads \/ UNCHANGED vars
  <2>1. session' = session /\ frames' = frames /\ task' = task /\ acked' = acked /\ undone' = undone /\ ops' = ops
    BY <1>2 DEF StartThreads, vars, resources, program, outcome
  <2>2. SessionsFit'
    BY <2>1 DEF Bookkeeping, SessionsFit, NoneOn
  <2>3. WritesApart' /\ OpsApart'
    BY <2>1 DEF Bookkeeping, WritesApart, OpsApart, Unused, NeverUsed
  <2>4. Durable' /\ NoResidue'
    BY <2>1 DEF Bookkeeping, Durable, NoResidue, Database
  <2> QED  BY <2>2, <2>3, <2>4 DEF Bookkeeping
<1> QED  BY <1>1, <1>2 DEF Next

(* At first there are no writes and no transactions. *)
LEMMA InitKept == Init => Owned /\ Bookkeeping
<1> SUFFICES ASSUME Init PROVE Owned /\ Bookkeeping
  OBVIOUS
<1>1. \A t \in Threads : task[t] = NoTask /\ frames[t] = <<>> /\ DOMAIN frames[t] = {}
  BY DEF Init
<1>2. Owned
  BY <1>1 DEF Owned, Own, LogReader, NoTask
<1>3. PICK d \in Engines : session = [c \in Connections |-> Fresh(d)]
  BY DEF Init
<1>4. /\ Fresh(d) \in Sessions /\ Clean(Fresh(d)) /\ Fresh(d).work = {} /\ Fresh(d).db = {}
  BY DEF Fresh, Sessions, Clean
<1>5. \A c \in Connections : session[c] = Fresh(d)
  BY <1>3
<1>6. acked = {} /\ undone = {}
  BY DEF Init
<1>7. SessionsFit
  BY <1>1, <1>3, <1>4, <1>5 DEF SessionsFit
<1>8. WritesApart /\ Durable /\ NoResidue
  BY <1>4, <1>5, <1>6 DEF WritesApart, Durable, NoResidue, Database
<1>9. \A w : NeverUsed(w)
  BY <1>4, <1>5, <1>6 DEF NeverUsed
<1>10. OpsApart
  BY <1>1, <1>9 DEF OpsApart, Unused, NoTask
<1> QED  BY <1>2, <1>7, <1>8, <1>10 DEF Bookkeeping
-----------------------------------------------------------------------------
(* The inductive invariant: where the connections are, what each session   *)
(* is in, and where each write is.                                         *)
LEMMA KeptIsInvariant == Disciplined => (Spec => [](Placement /\ Bookkeeping))
<1> SUFFICES ASSUME Disciplined PROVE Spec => [](Placement /\ Bookkeeping)
  OBVIOUS
<1>1. Init => Placement /\ Bookkeeping
  BY InitFits, InitPlaced, InitKept DEF Placement
<1>2. Placement /\ Bookkeeping /\ [Next]_vars => (Placement /\ Bookkeeping)'
  <2> SUFFICES ASSUME Placement, Bookkeeping, [Next]_vars PROVE (Placement /\ Bookkeeping)'
    OBVIOUS
  <2>1. Habits \subseteq {"cold"} /\ Habits \cap {"copy", "assign", "tables"} = {}
    BY DEF Disciplined
  <2>2. Placement'
    BY <2>1, NextFits, NextPlaced, NextOwned DEF Placement
  <2> QED  BY <2>2, NextKept
<1> QED  BY <1>1, <1>2, PTL DEF Spec

(* CleanHandover, for any number of threads, connections, Repositories and *)
(* calls: whichever bodies were left by exceptions, a thread that gets a   *)
(* connection finds no transaction on it (repository.cpp:16-48).           *)
THEOREM HandedOverClean == Disciplined => (Spec => []CleanHandover)
<1>1. Placement /\ Bookkeeping => CleanHandover
  <2> SUFFICES ASSUME Placement, Bookkeeping, NEW i \in DOMAIN pool PROVE ~session[pool[i]].flag /\ session[pool[i]].engine = "auto"
    BY DEF CleanHandover
  <2>1. pool[i] \in Connections
    BY DEF Placement, Fits, Types
  <2>2. NoneOn(pool[i])
    BY <2>1, LentHasNone
  <2> QED  BY <2>1, <2>2 DEF Bookkeeping, SessionsFit, Clean
<1> QED  BY <1>1, KeptIsInvariant, PTL

(* Durable: what a call outside of a transaction, or a commit, has         *)
(* reported as done is in the database, and stays.                         *)
THEOREM AckedIsDurable == Disciplined => (Spec => []Durable)
<1>1. Bookkeeping => Durable
  BY DEF Bookkeeping
<1> QED  BY <1>1, KeptIsInvariant, PTL

(* NoResidue: nothing of a body that did not commit is ever in the         *)
(* database.                                                               *)
THEOREM UndoneLeavesNothing == Disciplined => (Spec => []NoResidue)
<1>1. Bookkeeping => NoResidue
  BY DEF Bookkeeping
<1> QED  BY <1>1, KeptIsInvariant, PTL
=============================================================================
