----------------------------- MODULE SchemaLaws -----------------------------
(***************************************************************************)
(* The two schemas of SchemaOperations side by side.  Operations succeed   *)
(* one after the other, each on the project state and on the catalog, and  *)
(* in between the application puts rows into the tables.  What migrations  *)
(* need of them is that the state the ORM computes is the schema the       *)
(* engine has, that backward undoes forward, and that the engine takes     *)
(* what the ORM has accepted.                                              *)
(***************************************************************************)
EXTENDS SchemaOperations

CONSTANTS
    Operations,    \* Operations[d]: the operations to choose from on engine d
    Values,        \* what the application stores, see Takes
    MaxDepth,      \* bound: operations in a row
    MaxRows        \* bound: rows of a table

ASSUME LawsAssumption ==
    /\ DOMAIN Operations \subseteq {"sqlite", "postgresql"}
    /\ \A d \in DOMAIN Operations : \A op \in Operations[d] : Constructible(op)
    /\ Values \subseteq Types \X STRING
    /\ MaxDepth \in Nat /\ MaxRows \in Nat

VARIABLES
    state,         \* the project state
    catalog,       \* the schema the engine has, and what is in its tables
    last,          \* the last operation, and state and schema before it
    depth          \* operations so far

vars == <<dbms, state, catalog, last, depth>>

Nothing == [op |-> [kind |-> "none"], state |-> NoSchema, schema |-> NoSchema]

Init ==
    /\ dbms \in DOMAIN Operations
    /\ state = NoSchema /\ catalog = NoSchema
    /\ last = Nothing
    /\ depth = 0

(* The loop body of Migration::apply_unsafe. *)
Apply(op) ==
    LET updated == UpdateState(op, state)
        done == Forward(op, state, updated.v, catalog)
    IN  /\ depth < MaxDepth
        /\ updated.ok
        /\ done.ok
        /\ state' = updated.v
        /\ catalog' = done.v
        /\ last' = [op |-> op, state |-> state, schema |-> Schema(catalog)]
        /\ depth' = depth + 1
        /\ UNCHANGED dbms

(* The application inserts a row, of any values that the table takes; a    *)
(* key or a counter is given a new one.  SQLite takes any value in any     *)
(* column.                                                                 *)
Numbers(column) == column.primary \/ column.type \in Serial

Fill(t) ==
    LET tab == catalog[t]
        n == Len(tab.rows) + 1
    IN  /\ n <= MaxRows
        /\ \E row \in [DOMAIN tab.cols -> Values \cup {Null, Counted(n)}] :
             /\ \A c \in DOMAIN tab.cols :
                  /\ Numbers(tab.cols[c]) <=> row[c] = Counted(n)
                  /\ Sqlite \/ Fits(row[c], tab.cols[c].type)
                  /\ Holds(Append(tab.rows, row), c, tab.cols[c])
             /\ catalog' = [catalog EXCEPT ![t].rows = Append(@, row)]
        /\ UNCHANGED <<dbms, state, last, depth>>

Next ==
    \/ \E op \in Operations[dbms] : Apply(op)
    \/ \E t \in DOMAIN catalog : Fill(t)

Spec == Init /\ [][Next]_vars
-----------------------------------------------------------------------------
(* The state update_state computes without asking the engine describes the *)
(* schema that forward has left in the engine: a database that has come    *)
(* here by migrations is the one that create_table would make of the state *)
(* now.  SQLite's editor rebuilds tables from that state, so whatever it   *)
(* has wrong ends up in the database.                                      *)
StateIsCatalog == Schema(catalog) = Described(state)

(* PostgreSQL casts what a column holds to the type it is given, and takes *)
(* the type only if every value fits: a bigint may have become too big for *)
(* the int it was.                                                         *)
ValuesFit(op, to, cat) ==
    op.kind = "alter_column" /\ ~Sqlite =>
      LET tab == cat[op.table]
      IN  Castable(tab.rows, op.column, tab.cols[op.column].type,
                   to[op.table].cols[op.column].type)

(* Backward undoes forward: given the states Migration::rollback_unsafe    *)
(* gives it, it succeeds and restores the schema of before, with any rows  *)
(* in the tables whose values fit a type that is taken back.               *)
BackwardUndoes ==
    last # Nothing /\ ValuesFit(last.op, last.state, catalog) =>
      LET r == Backward(last.op, state, last.state, catalog)
      IN  r.ok /\ Schema(r.v) = last.schema

(* An operation on a column that its constructor and update_state have     *)
(* accepted goes through in the engine, with any rows in the table whose   *)
(* values fit the type the column is given.                                *)
OnColumn(op) == op.kind \in {"add_column", "drop_column", "alter_column", "rename_column"}

AcceptedGoesThrough ==
    \A op \in Operations[dbms] :
      LET updated == UpdateState(op, state)
      IN  OnColumn(op) /\ updated.ok /\ ValuesFit(op, updated.v, catalog) =>
            Forward(op, state, updated.v, catalog).ok
-----------------------------------------------------------------------------
(* The operations the theorems are about.                                  *)

(* The columns that come, go or change, and the definitions they have.     *)
Moved(ops) ==
    {op.column : op \in {o \in ops : OnColumn(o)}}
      \cup {op.new : op \in {o \in ops : o.kind = "rename_column"}}

Defs(ops) ==
    {op.def : op \in {o \in ops : o.kind \in {"add_column", "alter_column"}}}
      \cup UNION {{op.cols[c] : c \in DOMAIN op.cols \cap Moved(ops)} :
                    op \in {o \in ops : o.kind = "create_table"}}

(* No foreign key is on such a column, and PostgreSQL's editor is asked    *)
(* for no change of definition that it leaves out: every operation is      *)
(* Exact wherever it goes through.                                         *)
Traceable(d, ops) ==
    /\ \A op \in ops :
         /\ op.kind \in Kinds
         /\ op.kind = "create_table" => op.fks \cap Moved(ops) = {}
         /\ op.kind = "alter_column" /\ d = "postgresql" =>
              \A was \in Defs(ops) : ExactAlter(was, op.def)

(* Besides: every table keeps a column; a column that moves neither counts *)
(* nor is a key nor unique, says whether it may be NULL, and has a default *)
(* if not; and PostgreSQL is only asked for types it has, and for casts,   *)
(* forwards or backwards, that it makes unasked.                           *)
Ordinary(d, ops) ==
    /\ Traceable(d, ops)
    /\ \A op \in ops :
         /\ op.kind = "create_table" => ~(DOMAIN op.cols \subseteq Moved(ops))
         /\ op.kind = "rename_table" => {"table", "new"} \subseteq DOMAIN op
    /\ \A def \in Defs(ops) :
         /\ def.auto = FALSE /\ def.primary = FALSE /\ def.unique = FALSE
         /\ def.null = "yes" \/ (def.null = "no" /\ def.default # NoDefault)
    /\ d = "postgresql" =>
         \A was, def \in Defs(ops) :
           /\ ExactAlter(was, def)
           /\ def.type \notin Serial \cup {"double"} /\ Casts(was.type, def.type)
=============================================================================
