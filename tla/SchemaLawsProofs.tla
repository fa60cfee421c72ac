-------------------------- MODULE SchemaLawsProofs --------------------------
(***************************************************************************)
(* The laws of SchemaLaws for all operations that are Traceable, and for   *)
(* all that are Ordinary: in any number, over any tables and columns, with *)
(* any definitions.                                                        *)
(***************************************************************************)
EXTENDS SchemaLaws, SchemaOperationsProofs, TLAPS

(* The columns that move are no foreign keys, and are defined as some      *)
(* operation has defined them.                                             *)
TrackedTable(ops, table) ==
    /\ table.fks \cap Moved(ops) = {}
    /\ \A c \in DOMAIN table.cols \cap Moved(ops) : table.cols[c] \in Defs(ops)

Tracked(ops, st) == \A t \in DOMAIN st : TrackedTable(ops, st[t])

(* What operations name and define.                                        *)
LEMMA MovedIs ==
  ASSUME NEW ops, NEW op \in ops
  PROVE  /\ OnColumn(op) => op.column \in Moved(ops)
         /\ op.kind = "rename_column" => op.new \in Moved(ops)
         /\ op.kind \in {"add_column", "alter_column"} => op.def \in Defs(ops)
BY DEF Moved, Defs, OnColumn

(* A table that is created is such a table.                                *)
LEMMA CreatedIsTracked ==
  ASSUME NEW d, NEW ops, Traceable(d, ops), NEW op \in ops, op.kind = "create_table"
  PROVE  TrackedTable(ops, [cols |-> op.cols, fks |-> op.fks])
<1>1. op.fks \cap Moved(ops) = {}
  BY DEF Traceable
<1>2. \A c \in DOMAIN op.cols \cap Moved(ops) : op.cols[c] \in Defs(ops)
  BY DEF Defs
<1> QED  BY <1>1, <1>2 DEF TrackedTable

(* A table that changes by an operation on a column stays so.              *)
LEMMA TrackedWith ==
  ASSUME NEW ops, NEW cols, NEW fks, TrackedTable(ops, [cols |-> cols, fks |-> fks]),
         NEW c, NEW def \in Defs(ops)
  PROVE  /\ TrackedTable(ops, [cols |-> With(cols, c, def), fks |-> fks])
         /\ TrackedTable(ops, [cols |-> Without(cols, c), fks |-> fks])
BY DEF TrackedTable, With, Without, Restrict

(* And when one goes.                                                      *)
LEMMA TrackedWithout ==
  ASSUME NEW ops, NEW cols, NEW fks, TrackedTable(ops, [cols |-> cols, fks |-> fks]), NEW c
  PROVE  TrackedTable(ops, [cols |-> Without(cols, c), fks |-> fks])
BY DEF TrackedTable, Without, Restrict

(* update_state keeps every table so.                                      *)
LEMMA TrackedStays ==
  ASSUME NEW d, NEW ops, Traceable(d, ops), NEW op \in ops,
         NEW st, IsState(st), Tracked(ops, st), UpdateState(op, st).ok
  PROVE  Tracked(ops, UpdateState(op, st).v)
<1> DEFINE u == UpdateState(op, st).v
           t == op.table
<1>0. op.kind \in Kinds
  BY DEF Traceable
<1>1. CASE op.kind = "create_table"
  <2> DEFINE table == [cols |-> op.cols, fks |-> op.fks]
  <2>1. u = With(st, t, table)
    BY <1>1 DEF UpdateState, CreateTableState, Returns
  <2>2. TrackedTable(ops, table)
    BY <1>1, CreatedIsTracked
  <2> HIDE DEF u, table
  <2> QED  BY <2>1, <2>2 DEF With, Tracked, u
<1>2. CASE op.kind = "drop_table"
  <2>1. u = Without(st, t)
    BY <1>2 DEF UpdateState, DropTableState, Returns
  <2> HIDE DEF u
  <2> QED  BY <2>1 DEF Without, Restrict, Tracked, u
<1>3. CASE op.kind = "rename_table"
  <2>1. t \in DOMAIN st /\ u = With(Without(st, t), op.new, st[t])
    BY <1>3 DEF UpdateState, RenameTableState, When, Given, Returns, Throws, HasTable
  <2> HIDE DEF u
  <2> QED  BY <2>1 DEF With, Without, Restrict, Tracked, u
<1>4. CASE op.kind \notin {"create_table", "drop_table", "rename_table"}
  <2> DEFINE cols == st[t].cols
             c == op.column
             now == CASE op.kind \in {"add_column", "alter_column"} -> With(cols, c, op.def)
                      [] op.kind = "drop_column" -> Without(cols, c)
                      [] op.kind = "rename_column" -> With(Without(cols, c), op.new, cols[c])
             table == [cols |-> now, fks |-> st[t].fks]
  <2>1. /\ t \in DOMAIN st
        /\ c \in DOMAIN cols <=> op.kind # "add_column"
        /\ Rebuilt(st, u, t, table)
    BY <1>0, <1>4, ColumnStateIs
  <2> HIDE DEF u
  <2>2. st[t] = [cols |-> cols, fks |-> st[t].fks] /\ TrackedTable(ops, st[t])
    BY <2>1 DEF IsState, Tracked
  <2>3. c \in Moved(ops)
    BY <1>0, <1>4, MovedIs DEF Kinds, OnColumn
  <2>4. TrackedTable(ops, table)
    <3>1. CASE op.kind \in {"add_column", "alter_column"}
      <4>1. now = With(cols, c, op.def) /\ op.def \in Defs(ops)
        BY <3>1, MovedIs
      <4> HIDE DEF cols, now
      <4> QED  BY <2>2, <4>1, TrackedWith DEF table
    <3>2. CASE op.kind = "drop_column"
      <4>1. now = Without(cols, c)
        BY <3>2
      <4> HIDE DEF cols, now
      <4> QED  BY <2>2, <4>1, TrackedWithout DEF table
    <3>3. CASE op.kind = "rename_column"
      <4>1. now = With(Without(cols, c), op.new, cols[c])
        BY <3>3
      <4>2. cols[c] \in Defs(ops)
        BY <2>1, <2>2, <2>3, <3>3 DEF TrackedTable
      <4> HIDE DEF cols, now
      <4>3. TrackedTable(ops, [cols |-> Without(cols, c), fks |-> st[t].fks])
        BY <2>2, TrackedWithout
      <4> QED  BY <4>1, <4>2, <4>3, TrackedWith DEF table
    <3> QED  BY <1>0, <1>4, <3>1, <3>2, <3>3 DEF Kinds
  <2> HIDE DEF table
  <2> QED  BY <2>1, <2>4 DEF Rebuilt, Tracked, u
<1> QED  BY <1>1, <1>2, <1>3, <1>4

(* Every operation is exact.                                               *)
LEMMA TracedIsExact ==
  ASSUME dbms \in {"sqlite", "postgresql"}, NEW ops, Traceable(dbms, ops), NEW op \in ops,
         NEW st, IsState(st), Tracked(ops, st), UpdateState(op, st).ok
  PROVE  Exact(op, st, Sqlite)
<1>0. op.kind \in Kinds
  BY DEF Traceable
<1>1. CASE op.kind \in {"create_table", "drop_table", "rename_table", "add_column"}
  BY <1>0, <1>1 DEF Exact
<1>2. CASE op.kind \in {"drop_column", "alter_column", "rename_column"}
  <2>1. /\ op.table \in DOMAIN st
        /\ op.column \in DOMAIN st[op.table].cols
    BY <1>0, <1>2, ColumnStateIs
  <2>2. op.column \in Moved(ops)
    BY <1>2, MovedIs DEF OnColumn
  <2>3. /\ op.column \notin st[op.table].fks
        /\ st[op.table].cols[op.column] \in Defs(ops)
    BY <2>1, <2>2 DEF Tracked, TrackedTable
  <2>4. op.kind = "alter_column" /\ ~Sqlite => ExactAlter(st[op.table].cols[op.column], op.def)
    BY <2>3 DEF Traceable, Sqlite
  <2> QED  BY <1>0, <2>3, <2>4 DEF Exact
<1> QED  BY <1>0, <1>1, <1>2 DEF Kinds

-----------------------------------------------------------------------------
(* A row of the application's does not change the schema.                  *)
LEMMA FilledIs ==
  ASSUME IsCatalog(catalog), NEW t \in DOMAIN catalog, Fill(t)
  PROVE  LET tab == catalog[t]
         IN  \E row : /\ DOMAIN row = DOMAIN tab.cols
                      /\ \A c \in DOMAIN tab.cols : Holds(Append(tab.rows, row), c, tab.cols[c])
                      /\ Rebuilt(catalog, catalog', t,
                                 Table(tab.cols, tab.fks, Append(tab.rows, row)))
<1>1. PICK row :
        /\ DOMAIN row = DOMAIN catalog[t].cols
        /\ \A c \in DOMAIN catalog[t].cols :
             Holds(Append(catalog[t].rows, row), c, catalog[t].cols[c])
        /\ catalog' = [catalog EXCEPT ![t].rows = Append(@, row)]
  BY DEF Fill
<1>2. catalog[t] = Table(catalog[t].cols, catalog[t].fks, catalog[t].rows)
  BY DEF IsCatalog, IsTable
<1> DEFINE more == Append(catalog[t].rows, row)
<1>3. catalog' = [catalog EXCEPT ![t].rows = more]
  BY <1>1
<1> HIDE DEF more
<1>4. catalog'[t] = Table(catalog[t].cols, catalog[t].fks, more)
  BY <1>2, <1>3 DEF Table
<1>5. Rebuilt(catalog, catalog', t, Table(catalog[t].cols, catalog[t].fks, more))
  BY <1>3, <1>4 DEF Rebuilt
<1> QED  BY <1>1, <1>5 DEF more

(* The invariant of the first law: catalog and state say the same of       *)
(* tables that are tracked.                                                *)
TracedInv ==
    /\ dbms \in DOMAIN Operations
    /\ IsState(state) /\ IsCatalog(catalog)
    /\ Mirrors(catalog, state)
    /\ Tracked(Operations[dbms], state)

(* What the laws assume of the operations, on each of the engines.         *)
AllTraceable == \A d \in DOMAIN Operations : Traceable(d, Operations[d])
AllOrdinary == \A d \in DOMAIN Operations : Ordinary(d, Operations[d])

(* Only the engine decides how a column is stored.                         *)
LEMMA MirrorsStays ==
  ASSUME dbms' = dbms, Mirrors(catalog', state')
  PROVE  Mirrors(catalog, state)'
BY DEF Mirrors, StoredColumns, Stored, StoredType, Sqlite, Serial

(* It holds of two empty schemas.                                          *)
LEMMA TracedInit == Init => TracedInv
BY DEF Init, TracedInv, IsState, IsCatalog, Mirrors, Tracked, NoSchema

(* An operation keeps it, being exact.                                     *)
LEMMA TracedApply ==
  ASSUME AllTraceable, TracedInv, NEW op \in Operations[dbms], Apply(op)
  PROVE  TracedInv'
<1> DEFINE u == UpdateState(op, state)
           r == Forward(op, state, u.v, catalog)
<1>1. u.ok /\ r.ok /\ state' = u.v /\ catalog' = r.v /\ dbms' = dbms
  BY DEF Apply
<1>2. Traceable(dbms, Operations[dbms]) /\ dbms \in {"sqlite", "postgresql"}
  BY LawsAssumption DEF AllTraceable, TracedInv
<1>3. Exact(op, state, Sqlite)
  BY <1>1, <1>2, TracedIsExact DEF TracedInv
<1>4. Mirrors(r.v, u.v) /\ IsState(u.v) /\ IsCatalog(r.v)
  BY <1>1, <1>3, ForwardMirrors DEF TracedInv
<1>5. Tracked(Operations[dbms], u.v)
  BY <1>1, <1>2, TrackedStays DEF TracedInv
<1> HIDE DEF u, r
<1>6. /\ Mirrors(catalog', state') /\ IsState(state') /\ IsCatalog(catalog')
      /\ Tracked(Operations[dbms'], state')
  BY <1>1, <1>4, <1>5
<1>7. Mirrors(catalog, state)'
  BY <1>1, <1>6, MirrorsStays
<1>8. dbms' \in DOMAIN Operations
  BY <1>1 DEF TracedInv
<1> QED  BY <1>6, <1>7, <1>8 DEF TracedInv

(* Rows keep it.                                                           *)
LEMMA TracedFill ==
  ASSUME TracedInv, NEW t \in DOMAIN catalog, Fill(t)
  PROVE  TracedInv'
<1>0. PICK row : Rebuilt(catalog, catalog', t,
                         Table(catalog[t].cols, catalog[t].fks, Append(catalog[t].rows, row)))
  BY FilledIs DEF TracedInv
<1> DEFINE tab == Table(catalog[t].cols, catalog[t].fks, Append(catalog[t].rows, row))
<1>1. dbms' = dbms /\ state' = state /\ Rebuilt(catalog, catalog', t, tab)
  BY <1>0 DEF Fill
<1>2. IsTable(tab) /\ tab.cols = catalog[t].cols /\ tab.fks = catalog[t].fks
  BY DEF IsTable, Table
<1> HIDE DEF tab
<1>3. Mirrors(catalog', state') /\ IsCatalog(catalog')
  BY <1>1, <1>2 DEF Rebuilt, Mirrors, IsCatalog, TracedInv
<1>4. Mirrors(catalog, state)'
  BY <1>1, <1>3, MirrorsStays
<1>5. /\ dbms' \in DOMAIN Operations /\ IsState(state')
      /\ Tracked(Operations[dbms'], state')
  BY <1>1 DEF TracedInv
<1> QED  BY <1>3, <1>4, <1>5 DEF TracedInv

(* So it holds throughout.                                                 *)
LEMMA TracedInvariance == AllTraceable => (Spec => []TracedInv)
<1> SUFFICES ASSUME AllTraceable PROVE Spec => []TracedInv
  OBVIOUS
<1>1. Init => TracedInv
  BY TracedInit
<1>2. TracedInv /\ [Next]_vars => TracedInv'
  <2> SUFFICES ASSUME TracedInv, [Next]_vars PROVE TracedInv'
    OBVIOUS
  <2>1. ASSUME NEW op \in Operations[dbms], Apply(op) PROVE TracedInv'
    BY <2>1, TracedApply
  <2>2. ASSUME NEW t \in DOMAIN catalog, Fill(t) PROVE TracedInv'
    BY <2>2, TracedFill
  <2>3. CASE UNCHANGED vars
    <3>1. dbms' = dbms /\ state' = state /\ catalog' = catalog
      BY <2>3 DEF vars
    <3>2. Mirrors(catalog', state')
      BY <3>1 DEF TracedInv
    <3>3. Mirrors(catalog, state)'
      BY <3>1, <3>2, MirrorsStays
    <3> QED  BY <3>1, <3>3 DEF TracedInv
  <2> QED  BY <2>1, <2>2, <2>3 DEF Next
<1> QED  BY <1>1, <1>2, PTL DEF Spec

(* On operations that are traceable, the state update_state computes is    *)
(* what the engine has: no foreign key is on a column that goes or is      *)
(* renamed, and PostgreSQL's editor leaves nothing out.                    *)
THEOREM StateTellsTheCatalog == AllTraceable => (Spec => []StateIsCatalog)
<1> SUFFICES ASSUME AllTraceable PROVE Spec => []StateIsCatalog
  OBVIOUS
<1>1. TracedInv => StateIsCatalog
  BY MirrorsIs DEF TracedInv, StateIsCatalog
<1> QED  BY <1>1, TracedInvariance, PTL
-----------------------------------------------------------------------------
(* What keeps the engine from refusing an operation on a column: a table   *)
(* can be created again without the columns that move, and what is in its  *)
(* rows keeps to its constraints.                                          *)
KeptTable(ops, table) ==
    /\ TrackedTable(ops, table)
    /\ Creatable(table)
    /\ ~(DOMAIN table.cols \subseteq Moved(ops))

Kept(ops, st) == \A t \in DOMAIN st : KeptTable(ops, st[t])

FitRows(cols, rows) ==
    /\ \E n \in Nat : DOMAIN rows = 1 .. n
    /\ rows = [i \in DOMAIN rows |-> rows[i]]
    /\ \A i \in DOMAIN rows : DOMAIN rows[i] = DOMAIN cols
    /\ \A c \in DOMAIN cols : Holds(rows, c, cols[c])

RowsFit(cat) == \A t \in DOMAIN cat : FitRows(cat[t].cols, cat[t].rows)

OrdinaryOn(ops) == dbms \in {"sqlite", "postgresql"} /\ Ordinary(dbms, ops)

(* A definition that an operation gives to a column.                       *)
LEMMA DefsAreOrdinary ==
  ASSUME NEW ops, OrdinaryOn(ops), NEW def \in Defs(ops)
  PROVE  /\ Definable(def)
         /\ def.primary = FALSE /\ Stored(def).primary = FALSE
         /\ def.null \in {"yes", "no"}
         /\ def.null = "no" => def.default # NoDefault
         /\ Stored(def).notnull = (def.null = "no") /\ Stored(def).default = def.default
         /\ def.unique = FALSE /\ Stored(def).unique = FALSE
         /\ StoredType(def) = def.type /\ Stored(def).type = def.type
<1>1. /\ def.auto = FALSE /\ def.primary = FALSE /\ def.unique = FALSE
      /\ def.null = "yes" \/ (def.null = "no" /\ def.default # NoDefault)
      /\ ~Sqlite => def.type \notin Serial \cup {"double"}
  BY DEF OrdinaryOn, Ordinary, Sqlite
<1>2. StoredType(def) = def.type
  BY <1>1 DEF StoredType
<1> QED  BY <1>1, <1>2 DEF Definable, Stored

(* Ordinary operations are traceable.                                      *)
LEMMA OrdinaryIsTraceable ==
  ASSUME NEW ops, OrdinaryOn(ops) PROVE Traceable(dbms, ops)
BY DEF OrdinaryOn, Ordinary

(* Such a table stays one when a column comes, changes or goes.            *)
LEMMA KeptWith ==
  ASSUME NEW ops, OrdinaryOn(ops), NEW cols, NEW fks,
         KeptTable(ops, [cols |-> cols, fks |-> fks]),
         NEW c \in Moved(ops), NEW def \in Defs(ops)
  PROVE  KeptTable(ops, [cols |-> With(cols, c, def), fks |-> fks])
<1> DEFINE now == With(cols, c, def)
<1>1. /\ DOMAIN now = DOMAIN cols \cup {c} /\ now[c] = def
      /\ \A x \in DOMAIN cols \ {c} : now[x] = cols[x]
  BY DEF With
<1>2. Definable(def) /\ def.primary = FALSE
  BY DefsAreOrdinary
<1>3. /\ \A x \in DOMAIN cols : Definable(cols[x])
      /\ \A x, y \in Primary(cols) : x = y
      /\ fks \subseteq DOMAIN cols
      /\ ~(DOMAIN cols \subseteq Moved(ops))
  BY DEF KeptTable, Creatable
<1>4. TrackedTable(ops, [cols |-> now, fks |-> fks])
  BY TrackedWith DEF KeptTable
<1> HIDE DEF now
<1>5. Primary(now) \subseteq Primary(cols)
  BY <1>1, <1>2 DEF Primary
<1>6. \A x \in DOMAIN now : Definable(now[x])
  BY <1>1, <1>2, <1>3
<1>7. fks \subseteq DOMAIN now /\ DOMAIN now # {} /\ ~(DOMAIN now \subseteq Moved(ops))
  BY <1>1, <1>3
<1>8. \A x, y \in Primary(now) : x = y
  BY <1>3, <1>5
<1>9. Creatable([cols |-> now, fks |-> fks])
  BY <1>6, <1>7, <1>8 DEF Creatable
<1> QED  BY <1>4, <1>7, <1>9 DEF KeptTable, now

(* And when one goes; it was no foreign key.                               *)
LEMMA KeptWithout ==
  ASSUME NEW ops, NEW cols, NEW fks, KeptTable(ops, [cols |-> cols, fks |-> fks]),
         NEW c \in Moved(ops)
  PROVE  /\ KeptTable(ops, [cols |-> Without(cols, c), fks |-> fks])
         /\ c \notin fks /\ fks \ {c} = fks
<1> DEFINE now == Without(cols, c)
<1>1. /\ DOMAIN now = DOMAIN cols \ {c}
      /\ \A x \in DOMAIN now : now[x] = cols[x]
  BY DEF Without, Restrict
<1>2. /\ \A x \in DOMAIN cols : Definable(cols[x])
      /\ \A x, y \in Primary(cols) : x = y
      /\ fks \subseteq DOMAIN cols
      /\ ~(DOMAIN cols \subseteq Moved(ops)) /\ fks \cap Moved(ops) = {}
  BY DEF KeptTable, TrackedTable, Creatable
<1>3. TrackedTable(ops, [cols |-> now, fks |-> fks])
  BY TrackedWithout DEF KeptTable
<1> HIDE DEF now
<1>4. Primary(now) \subseteq Primary(cols)
  BY <1>1 DEF Primary
<1>5. \A x \in DOMAIN now : Definable(now[x])
  BY <1>1, <1>2
<1>6. /\ fks \subseteq DOMAIN now /\ DOMAIN now # {} /\ ~(DOMAIN now \subseteq Moved(ops))
      /\ c \notin fks
  BY <1>1, <1>2
<1>7. \A x, y \in Primary(now) : x = y
  BY <1>2, <1>4
<1>8. Creatable([cols |-> now, fks |-> fks])
  BY <1>5, <1>6, <1>7 DEF Creatable
<1> QED  BY <1>3, <1>6, <1>8 DEF KeptTable, now

(* The rows of a catalog fit if those of the table that changes do.        *)
LEMMA RowsRebuilt ==
  ASSUME NEW cat, RowsFit(cat), NEW t, NEW v, NEW tab, Rebuilt(cat, v, t, tab),
         FitRows(tab.cols, tab.rows)
  PROVE  RowsFit(v)
BY DEF RowsFit, Rebuilt

(* Constraints go with the values.                                         *)
LEMMA HoldsAlike ==
  ASSUME NEW rows, NEW x, NEW column, Holds(rows, x, column), NEW others, NEW y,
         DOMAIN others = DOMAIN rows, \A i \in DOMAIN rows : others[i][y] = rows[i][x]
  PROVE  Holds(others, y, column)
<1>1. ~Nullable(column) => \A i \in DOMAIN others : others[i][y] # Null
  BY DEF Holds
<1>2. column.unique \/ column.primary => ~Repeats(others, y)
  BY DEF Holds, Repeats
<1> QED  BY <1>1, <1>2 DEF Holds

(* A column that is neither a key nor unique has one constraint.           *)
LEMMA HoldsPlain ==
  ASSUME NEW rows, NEW c, NEW column, column.unique = FALSE, column.primary = FALSE,
         column.notnull => \A i \in DOMAIN rows : rows[i][c] # Null
  PROVE  Holds(rows, c, column)
BY DEF Holds, Nullable

(* And it says so of what is in it.                                        *)
LEMMA HoldsMandatory ==
  ASSUME NEW rows, NEW c, NEW column, Holds(rows, c, column), column.notnull
  PROVE  \A i \in DOMAIN rows : rows[i][c] # Null
BY DEF Holds, Nullable

(* A cast makes no NULL, and no default is one.                            *)
LEMMA CastNull ==
  ASSUME NEW value, NEW from, NEW to, Cast(value, from, to) = Null
  PROVE  value = Null
BY DEF Cast, Null

LEMMA DefaultNull == ASSUME NEW default PROVE Default(default) # Null
BY DEF Default, Null

(* One more row.                                                           *)
LEMMA FitAppended ==
  ASSUME NEW cols, NEW rows, FitRows(cols, rows), NEW row, DOMAIN row = DOMAIN cols,
         \A c \in DOMAIN cols : Holds(Append(rows, row), c, cols[c])
  PROVE  FitRows(cols, Append(rows, row))
<1>1. PICK n \in Nat : DOMAIN rows = 1 .. n
  BY DEF FitRows
<1> DEFINE S == {rows[i] : i \in 1 .. n} \cup {row}
<1>2. rows = [i \in 1 .. n |-> rows[i]] /\ \A i \in 1 .. n : rows[i] \in S
  BY <1>1 DEF FitRows
<1> HIDE DEF S
<1>3. rows \in [1 .. n -> S]
  BY <1>2
<1>4. rows \in Seq(S) /\ Len(rows) = n
  BY <1>3
<1>5. row \in S
  BY DEF S
<1>6. /\ DOMAIN Append(rows, row) = 1 .. (n + 1)
      /\ Append(rows, row) = [i \in DOMAIN Append(rows, row) |-> Append(rows, row)[i]]
      /\ \A i \in 1 .. n : Append(rows, row)[i] = rows[i]
      /\ Append(rows, row)[n + 1] = row
  <2> DEFINE more == Append(rows, row)
  <2>1. more \in Seq(S) /\ Len(more) = n + 1
    BY <1>4, <1>5
  <2>2. (\A i \in 1 .. n : more[i] = rows[i]) /\ more[n + 1] = row
    BY <1>4, <1>5
  <2> HIDE DEF more
  <2>3. DOMAIN more = 1 .. (n + 1) /\ more = [i \in DOMAIN more |-> more[i]]
    BY <2>1
  <2> QED  BY <2>2, <2>3 DEF more
<1>7. \A i \in DOMAIN Append(rows, row) : DOMAIN Append(rows, row)[i] = DOMAIN cols
  <2> SUFFICES ASSUME NEW i \in 1 .. (n + 1) PROVE DOMAIN Append(rows, row)[i] = DOMAIN cols
    BY <1>6
  <2>1. i \in 1 .. n \/ i = n + 1
    OBVIOUS
  <2> QED  BY <1>1, <1>6, <2>1 DEF FitRows
<1> QED  BY <1>6, <1>7 DEF FitRows

-----------------------------------------------------------------------------
(* A schema the engine has and the state that describes it.                *)
SchemaFits(ops, cat, st) ==
    /\ IsState(st) /\ IsCatalog(cat)
    /\ Mirrors(cat, st)
    /\ Kept(ops, st)
    /\ RowsFit(cat)

(* What is known of one of its tables.                                     *)
LEMMA TableFits ==
  ASSUME NEW ops, NEW cat, NEW st, SchemaFits(ops, cat, st), NEW t \in DOMAIN st
  PROVE  /\ t \in DOMAIN cat /\ HasTable(cat, t)
         /\ cat[t].cols = StoredColumns(st[t].cols)
         /\ \A c \in DOMAIN st[t].cols : cat[t].cols[c] = Stored(st[t].cols[c])
         /\ DOMAIN cat[t].cols = DOMAIN st[t].cols
         /\ cat[t].fks = st[t].fks /\ IsTable(cat[t])
         /\ KeptTable(ops, [cols |-> st[t].cols, fks |-> st[t].fks])
         /\ FitRows(cat[t].cols, cat[t].rows)
<1>1. t \in DOMAIN cat /\ cat[t].cols = StoredColumns(st[t].cols) /\ cat[t].fks = st[t].fks
  BY DEF SchemaFits, Mirrors
<1>2. st[t] = [cols |-> st[t].cols, fks |-> st[t].fks]
  BY DEF SchemaFits, IsState
<1>3. KeptTable(ops, [cols |-> st[t].cols, fks |-> st[t].fks])
  BY <1>2 DEF SchemaFits, Kept
<1> QED  BY <1>1, <1>3 DEF SchemaFits, RowsFit, IsCatalog, StoredColumns, HasTable

(* A column that is added has what it needs.                               *)
LEMMA AddGoes ==
  ASSUME NEW ops, OrdinaryOn(ops), NEW cat, NEW st, SchemaFits(ops, cat, st),
         NEW t \in DOMAIN st, NEW c, c \notin DOMAIN st[t].cols, NEW def \in Defs(ops)
  PROVE  LET r == SqlAddColumn(t, c, def, cat) IN r.ok /\ RowsFit(r.v)
<1>0. /\ t \in DOMAIN cat /\ HasTable(cat, t) /\ DOMAIN cat[t].cols = DOMAIN st[t].cols
      /\ KeptTable(ops, [cols |-> st[t].cols, fks |-> st[t].fks])
      /\ FitRows(cat[t].cols, cat[t].rows)
  BY TableFits
<1> DEFINE tab == cat[t]
           column == Stored(def)
           rows == AddedRows(tab.rows, c, column)
           new == Table(With(tab.cols, c, column), tab.fks, rows)
           r == SqlAddColumn(t, c, def, cat)
<1>1. /\ t \in DOMAIN cat /\ HasTable(cat, t) /\ c \notin DOMAIN tab.cols
      /\ FitRows(tab.cols, tab.rows)
  BY <1>0
<1>2. /\ Definable(def) /\ column.primary = FALSE /\ column.unique = FALSE
      /\ column.notnull => column.default # NoDefault
  BY DefsAreOrdinary
<1>3. Addable(column, tab)
  BY <1>2 DEF Addable
<1>4. ~HasColumn(cat, t, c)
  BY <1>1 DEF HasColumn
<1>5. /\ DOMAIN rows = DOMAIN tab.rows /\ rows = [i \in DOMAIN rows |-> rows[i]]
      /\ \A i \in DOMAIN rows :
           /\ DOMAIN rows[i] = DOMAIN tab.cols \cup {c}
           /\ rows[i][c] = Supplied(column, i)
           /\ \A x \in DOMAIN tab.cols : rows[i][x] = tab.rows[i][x]
  BY <1>1 DEF AddedRows, FitRows, With
<1>6. column.notnull => \A i \in DOMAIN rows : rows[i][c] # Null
  BY <1>2, <1>5, DefaultNull DEF Supplied
<1> HIDE DEF column, rows
<1>7. Holds(rows, c, column)
  BY <1>2, <1>6, HoldsPlain
<1>8. r.ok /\ r.v = With(cat, t, new)
  BY <1>1, <1>2, <1>3, <1>4, <1>7, SqlAddColumnIs DEF column, rows
<1>9. FitRows(With(tab.cols, c, column), rows)
  <2>1. \A x \in DOMAIN tab.cols : Holds(rows, x, tab.cols[x])
    BY <1>1, <1>5, HoldsAlike DEF FitRows
  <2>2. \A x \in DOMAIN With(tab.cols, c, column) : Holds(rows, x, With(tab.cols, c, column)[x])
    BY <1>7, <2>1 DEF With
  <2>3. DOMAIN With(tab.cols, c, column) = DOMAIN tab.cols \cup {c}
    BY DEF With
  <2> QED  BY <1>1, <1>5, <2>2, <2>3 DEF FitRows
<1>10. new.cols = With(tab.cols, c, column) /\ new.rows = rows
  BY DEF Table
<1> HIDE DEF new, r
<1>11. RowsFit(r.v)
  BY <1>1, <1>8, <1>9, <1>10, RebuiltIs, RowsRebuilt DEF SchemaFits
<1> QED  BY <1>8, <1>11 DEF r

(* A table is left behind by a column that is dropped.                     *)
LEMMA DropGoes ==
  ASSUME NEW ops, OrdinaryOn(ops), NEW cat, NEW st, SchemaFits(ops, cat, st),
         NEW t \in DOMAIN st, NEW c \in DOMAIN st[t].cols, c \in Moved(ops)
  PROVE  LET r == DropColumn(t, st[t], c, cat) IN r.ok /\ RowsFit(r.v)
<1> DEFINE cols == st[t].cols
           tab == cat[t]
           r == DropColumn(t, st[t], c, cat)
           left == StoredColumns(Without(cols, c))
<1>1. /\ t \in DOMAIN cat /\ HasTable(cat, t) /\ DOMAIN tab.cols = DOMAIN cols
      /\ tab.cols = StoredColumns(cols)
      /\ KeptTable(ops, [cols |-> cols, fks |-> st[t].fks])
      /\ FitRows(tab.cols, tab.rows)
  BY TableFits
<1>2. Without(tab.cols, c) = left
  BY <1>1, StoredWith
<1>3. /\ DOMAIN left = DOMAIN cols \ {c}
      /\ \A x \in DOMAIN left : left[x] = tab.cols[x]
  BY <1>1, <1>2 DEF Without, Restrict
<1> HIDE DEF left
<1>4. ASSUME NEW rows, DOMAIN rows = DOMAIN tab.rows, rows = [i \in DOMAIN rows |-> rows[i]],
             \A i \in DOMAIN rows : /\ DOMAIN rows[i] = DOMAIN left
                                    /\ \A x \in DOMAIN left : rows[i][x] = tab.rows[i][x]
      PROVE  FitRows(left, rows)
  <2>1. \A x \in DOMAIN left : Holds(tab.rows, x, left[x])
    BY <1>1, <1>3 DEF FitRows
  <2>2. \A x \in DOMAIN left : Holds(rows, x, left[x])
    BY <1>4, <2>1, HoldsAlike
  <2> QED  BY <1>1, <1>4, <2>2 DEF FitRows
<1>5. CASE Sqlite
  <2> DEFINE table == [cols |-> Without(cols, c), fks |-> st[t].fks \ {c}]
             source == Itself(DOMAIN cols \ {c})
             rows == CopiedRows(tab.rows, left, source, {})
             new == Table(left, table.fks, rows)
  <2>1. r = RecreateTable(t, table, source, {}, cat)
    BY <1>5 DEF DropColumn, SqliteDropColumn
  <2>2. Creatable(table)
    <3>1. KeptTable(ops, [cols |-> Without(cols, c), fks |-> st[t].fks])
          /\ st[t].fks \ {c} = st[t].fks
      BY <1>1, KeptWithout
    <3>2. KeptTable(ops, table)
      BY <3>1
    <3> HIDE DEF table
    <3> QED  BY <3>2 DEF KeptTable
  <2>3. /\ Range(source) \subseteq DOMAIN tab.cols /\ DOMAIN source = DOMAIN left
        /\ \A x \in DOMAIN source : source[x] = x
    BY <1>1, <1>3 DEF Itself, Range
  <2> HIDE DEF source
  <2>4. /\ DOMAIN rows = DOMAIN tab.rows /\ rows = [i \in DOMAIN rows |-> rows[i]]
        /\ \A i \in DOMAIN rows : /\ DOMAIN rows[i] = DOMAIN left
                                  /\ \A x \in DOMAIN left : rows[i][x] = tab.rows[i][x]
    BY <2>3 DEF CopiedRows
  <2> HIDE DEF rows
  <2>5. FitRows(left, rows)
    BY <1>4, <2>4
  <2>6. table.cols = Without(cols, c) /\ StoredColumns(table.cols) = left
    BY DEF left
  <2>7. new.cols = left /\ new.rows = rows
    BY DEF Table
  <2> HIDE DEF table, r
  <2>8. \A x \in DOMAIN source : Holds(rows, x, left[x])
    BY <2>3, <2>5 DEF FitRows
  <2>9. r.ok /\ r.v = With(cat, t, new)
    BY <1>1, <2>1, <2>2, <2>3, <2>6, <2>8, RecreateTableIs DEF rows
  <2> HIDE DEF new
  <2> QED  BY <1>1, <2>5, <2>7, <2>9, RebuiltIs, RowsRebuilt DEF SchemaFits, r
<1>6. CASE ~Sqlite
  <2> DEFINE rows == RowsWithout(tab.rows, c)
             new == Table(Without(tab.cols, c), tab.fks \ {c}, rows)
  <2>1. r = SqlDropColumn(t, c, cat)
    BY <1>6 DEF DropColumn
  <2>2. HasColumn(cat, t, c)
    BY <1>1 DEF HasColumn
  <2> HIDE DEF r
  <2>3. r.ok /\ r.v = With(cat, t, new)
    BY <2>1, <2>2, SqlDropColumnIs
  <2>4. /\ DOMAIN rows = DOMAIN tab.rows /\ rows = [i \in DOMAIN rows |-> rows[i]]
        /\ \A i \in DOMAIN rows : /\ DOMAIN rows[i] = DOMAIN left
                                  /\ \A x \in DOMAIN left : rows[i][x] = tab.rows[i][x]
    BY <1>1, <1>3 DEF RowsWithout, FitRows, Without, Restrict
  <2> HIDE DEF rows
  <2>5. FitRows(left, rows)
    BY <1>4, <2>4
  <2>6. new.cols = left /\ new.rows = rows
    BY <1>2 DEF Table
  <2> HIDE DEF new
  <2> QED  BY <1>1, <2>3, <2>5, <2>6, RebuiltIs, RowsRebuilt DEF SchemaFits, r
<1> QED  BY <1>5, <1>6

(* What becomes of the rows when a column is renamed, cast and filled: the *)
(* other columns keep their values, and a NULL was one before.             *)
LEMMA AlteredRowsAre ==
  ASSUME NEW cols, NEW rows, FitRows(cols, rows), NEW old \in DOMAIN cols,
         NEW new, old = new \/ new \notin DOMAIN cols, NEW col, NEW was, NEW def
  PROVE  LET before == RenamedRows(rows, old, new)
             after == AlteredRows(before, new, col, was, def)
             left == (DOMAIN cols \ {old}) \cup {new}
         IN  /\ DOMAIN before = DOMAIN rows /\ \A i \in DOMAIN rows : before[i][new] = rows[i][old]
             /\ DOMAIN after = DOMAIN rows /\ after = [i \in DOMAIN after |-> after[i]]
             /\ \A i \in DOMAIN rows :
                  /\ DOMAIN after[i] = left
                  /\ \A x \in left \ {new} : after[i][x] = rows[i][x]
                  /\ after[i][new] = Null => rows[i][old] = Null /\ ~Fills(was, def)
             /\ \A from, to : LET cast == CastRows(before, new, from, to)
                              IN  /\ DOMAIN cast = DOMAIN rows
                                  /\ \A i \in DOMAIN rows :
                                       cast[i][new] = Null => rows[i][old] = Null
<1> DEFINE before == RenamedRows(rows, old, new)
           typed == TypedRows(before, new, col, was, def)
           after == AlteredRows(before, new, col, was, def)
           left == (DOMAIN cols \ {old}) \cup {new}
<1>0. rows = [i \in DOMAIN rows |-> rows[i]] /\ \A i \in DOMAIN rows : DOMAIN rows[i] = DOMAIN cols
  BY DEF FitRows
<1>1. /\ DOMAIN before = DOMAIN rows /\ before = [i \in DOMAIN before |-> before[i]]
      /\ \A i \in DOMAIN rows : /\ DOMAIN before[i] = left
                                /\ \A x \in left \ {new} : before[i][x] = rows[i][x]
                                /\ before[i][new] = rows[i][old]
  <2>1. CASE old = new
    BY <1>0, <2>1 DEF RenamedRows
  <2>2. CASE old # new
    BY <1>0, <2>2 DEF RenamedRows, RowsRelabelled, Relabelled, With, Without, Restrict
  <2> QED  BY <2>1, <2>2
<1> HIDE DEF before, left
<1>2. ASSUME NEW from, NEW to
      PROVE  LET cast == CastRows(before, new, from, to)
             IN  /\ DOMAIN cast = DOMAIN rows /\ cast = [i \in DOMAIN cast |-> cast[i]]
                 /\ \A i \in DOMAIN rows : /\ DOMAIN cast[i] = left
                                           /\ \A x \in left \ {new} : cast[i][x] = rows[i][x]
                                           /\ cast[i][new] = Null => rows[i][old] = Null
  <2> DEFINE cast == CastRows(before, new, from, to)
  <2>1. /\ DOMAIN cast = DOMAIN rows /\ cast = [i \in DOMAIN cast |-> cast[i]]
        /\ \A i \in DOMAIN rows : /\ DOMAIN cast[i] = DOMAIN before[i] \cup {new}
                                  /\ \A x \in left \ {new} : cast[i][x] = before[i][x]
                                  /\ cast[i][new] = Cast(before[i][new], from, to)
    BY <1>1 DEF CastRows, With
  <2>2. new \in left
    BY DEF left
  <2> HIDE DEF cast
  <2>3. \A i \in DOMAIN rows : cast[i][new] = Null => rows[i][old] = Null
    BY <1>1, <2>1, CastNull
  <2> QED  BY <1>1, <2>1, <2>2, <2>3 DEF cast
<1>3. /\ DOMAIN typed = DOMAIN rows /\ typed = [i \in DOMAIN typed |-> typed[i]]
      /\ \A i \in DOMAIN rows : /\ DOMAIN typed[i] = left
                                /\ \A x \in left \ {new} : typed[i][x] = rows[i][x]
                                /\ typed[i][new] = Null => rows[i][old] = Null
  <2>1. CASE was.type # def.type
    BY <1>2, <2>1 DEF TypedRows
  <2>2. CASE was.type = def.type
    BY <1>1, <2>2 DEF TypedRows
  <2> QED  BY <2>1, <2>2
<1> HIDE DEF typed
<1>4. /\ DOMAIN after = DOMAIN rows /\ after = [i \in DOMAIN after |-> after[i]]
      /\ \A i \in DOMAIN rows :
           /\ DOMAIN after[i] = left
           /\ \A x \in left \ {new} : after[i][x] = rows[i][x]
           /\ after[i][new] = Null => rows[i][old] = Null /\ ~Fills(was, def)
  <2>1. CASE ~Fills(was, def)
    <3>1. after = typed
      BY <2>1 DEF AlteredRows, typed
    <3> HIDE DEF after
    <3> QED  BY <1>3, <2>1, <3>1
  <2>2. CASE Fills(was, def)
    <3>1. after = FilledRows(typed, new, def.default)
      BY <2>2 DEF AlteredRows, typed
    <3> HIDE DEF after
    <3>2. new \in left
      BY DEF left
    <3>3. /\ DOMAIN after = DOMAIN rows /\ after = [i \in DOMAIN after |-> after[i]]
          /\ \A i \in DOMAIN rows : /\ DOMAIN after[i] = left
                                    /\ \A x \in left \ {new} : after[i][x] = typed[i][x]
      BY <1>3, <3>1, <3>2 DEF FilledRows, With
    <3>4. \A i \in DOMAIN rows : after[i][new] # Null
      BY <1>3, <3>1, DefaultNull DEF FilledRows, With
    <3> QED  BY <1>3, <2>2, <3>3, <3>4
  <2> QED  BY <2>1, <2>2
<1> HIDE DEF after
<1> QED  BY <1>1, <1>2, <1>4 DEF before, after, left

(* A column that is altered or renamed is open to the NULLs it holds, or   *)
(* has a default to put in their place; PostgreSQL casts its values.       *)
LEMMA AlterGoes ==
  ASSUME NEW ops, OrdinaryOn(ops), NEW cat, NEW st, SchemaFits(ops, cat, st),
         NEW t \in DOMAIN st, NEW old \in DOMAIN st[t].cols, old \in Moved(ops),
         NEW new \in Moved(ops), old = new \/ new \notin DOMAIN st[t].cols,
         NEW def \in Defs(ops)
  PROVE  LET r == AlterColumn(t, st[t], old, new, def, cat)
         IN  /\ \/ Sqlite \/ st[t].cols[old].type = def.type
                \/ Castable(cat[t].rows, old, cat[t].cols[old].type, def.type)
                => r.ok
             /\ r.ok => RowsFit(r.v)
<1> DEFINE cols == st[t].cols
           tab == cat[t]
           was == cols[old]
           suits == Sqlite \/ was.type = def.type
                      \/ Castable(tab.rows, old, tab.cols[old].type, def.type)
           r == AlterColumn(t, st[t], old, new, def, cat)
           now == With(Without(cols, old), new, def)
           left == StoredColumns(now)
<1>1. /\ t \in DOMAIN cat /\ HasTable(cat, t) /\ IsTable(tab)
      /\ tab.cols = StoredColumns(cols) /\ DOMAIN tab.cols = DOMAIN cols
      /\ KeptTable(ops, [cols |-> cols, fks |-> st[t].fks])
      /\ FitRows(tab.cols, tab.rows)
      /\ tab.cols[old] = Stored(was)
  BY TableFits
<1>2. was \in Defs(ops)
  BY <1>1 DEF KeptTable, TrackedTable
<1>3. /\ was.null \in {"yes", "no"} /\ was.primary = FALSE /\ Stored(was).primary = FALSE
      /\ Stored(was).notnull = (was.null = "no") /\ Stored(was).type = was.type
      /\ Stored(was).unique = FALSE
  BY <1>2, DefsAreOrdinary
<1>4. /\ def.null \in {"yes", "no"} /\ Stored(def).primary = FALSE
      /\ def.null = "no" => def.default # NoDefault
      /\ Stored(def).notnull = (def.null = "no") /\ Stored(def).unique = FALSE
      /\ def.unique = FALSE
  BY DefsAreOrdinary
<1>5. KeptTable(ops, [cols |-> now, fks |-> st[t].fks]) /\ old \notin st[t].fks
  <2> DEFINE less == Without(cols, old)
             keys == st[t].fks
  <2>1. KeptTable(ops, [cols |-> cols, fks |-> keys])
    BY <1>1
  <2> HIDE DEF less, cols, keys
  <2>2. KeptTable(ops, [cols |-> less, fks |-> keys]) /\ old \notin keys
    BY <2>1, KeptWithout DEF less
  <2>3. KeptTable(ops, [cols |-> With(less, new, def), fks |-> keys])
    BY <2>2, KeptWith
  <2> QED  BY <2>2, <2>3 DEF less, keys
<1>6. /\ DOMAIN left = (DOMAIN cols \ {old}) \cup {new} /\ left[new] = Stored(def)
      /\ \A x \in DOMAIN left \ {new} : x \in DOMAIN cols \ {old} /\ left[x] = tab.cols[x]
  BY <1>1 DEF With, Without, Restrict, StoredColumns
<1> HIDE DEF left
(* The values stay where they are or go with the name, and a NULL that is  *)
(* left was one before, and no default has taken its place.                *)
<1> DEFINE Alike(rows) ==
             /\ DOMAIN rows = DOMAIN tab.rows /\ rows = [i \in DOMAIN rows |-> rows[i]]
             /\ \A i \in DOMAIN tab.rows :
                  /\ DOMAIN rows[i] = DOMAIN left
                  /\ \A x \in DOMAIN left \ {new} : rows[i][x] = tab.rows[i][x]
                  /\ rows[i][new] = Null => tab.rows[i][old] = Null /\ ~Fills(was, def)
<1>7. ASSUME NEW rows, Alike(rows) PROVE FitRows(left, rows)
  <2>1. Holds(rows, new, left[new])
    <3>1. ASSUME NEW i \in DOMAIN rows, rows[i][new] = Null, def.null = "no" PROVE FALSE
      <4>1. tab.rows[i][old] = Null /\ ~Fills(was, def)
        BY <1>7, <3>1
      <4>2. was.null = "yes"
        <5>1. Holds(tab.rows, old, Stored(was))
          BY <1>1 DEF FitRows
        <5>2. ~Stored(was).notnull
          BY <1>7, <3>1, <4>1, <5>1, HoldsMandatory
        <5> QED  BY <1>3, <5>2
      <4> QED  BY <1>4, <3>1, <4>1, <4>2 DEF Fills, Closes
    <3>2. Stored(def).notnull => \A i \in DOMAIN rows : rows[i][new] # Null
      BY <1>4, <3>1
    <3>3. Holds(rows, new, Stored(def))
      BY <1>4, <3>2, HoldsPlain
    <3> QED  BY <1>6, <3>3
  <2>2. ASSUME NEW x \in DOMAIN left, x # new PROVE Holds(rows, x, left[x])
    <3>1. Holds(tab.rows, x, left[x])
      BY <1>1, <1>6, <2>2 DEF FitRows
    <3> QED  BY <1>7, <2>2, <3>1, HoldsAlike
  <2>3. \E n \in Nat : DOMAIN rows = 1 .. n
    BY <1>1, <1>7 DEF FitRows
  <2>4. \A x \in DOMAIN left : Holds(rows, x, left[x])
    BY <2>1, <2>2
  <2>5. /\ rows = [i \in DOMAIN rows |-> rows[i]]
        /\ \A i \in DOMAIN rows : DOMAIN rows[i] = DOMAIN left
    BY <1>7
  <2> QED  BY <2>3, <2>4, <2>5 DEF FitRows
<1>8. CASE Sqlite
  <2> DEFINE table == [cols |-> now, fks |-> Renamed(st[t].fks, old, new)]
             source == With(Itself(DOMAIN cols \ {old}), new, old)
             fill == IF Closes(was, def) /\ def.default # NoDefault THEN {new} ELSE {}
             rows == CopiedRows(tab.rows, left, source, fill)
             made == Table(left, table.fks, rows)
  <2>1. r = RecreateTable(t, table, source, fill, cat)
    BY <1>8 DEF AlterColumn, SqliteAlterColumn
  <2>2. Creatable(table)
    <3>1. Renamed(st[t].fks, old, new) = st[t].fks
      BY <1>5, RenamedIs
    <3>2. KeptTable(ops, table)
      BY <1>5, <3>1
    <3> HIDE DEF table
    <3> QED  BY <3>2 DEF KeptTable
  <2>3. /\ DOMAIN source = (DOMAIN cols \ {old}) \cup {new} /\ source[new] = old
        /\ \A x \in DOMAIN source \ {new} : x \in DOMAIN cols \ {old} /\ source[x] = x
    BY DEF With, Itself
  <2> HIDE DEF source
  <2>4. Range(source) \subseteq DOMAIN tab.cols /\ DOMAIN source = DOMAIN left
    BY <1>1, <1>6, <2>3 DEF Range
  <2>5. /\ fill \subseteq {new} /\ (new \in fill <=> Fills(was, def))
        /\ new \in DOMAIN source
    BY <2>3 DEF Fills
  <2> HIDE DEF fill
  <2>6. /\ DOMAIN rows = DOMAIN tab.rows /\ rows = [i \in DOMAIN rows |-> rows[i]]
        /\ \A i \in DOMAIN tab.rows :
             /\ DOMAIN rows[i] = DOMAIN source
             /\ \A x \in DOMAIN source \ {new} : rows[i][x] = tab.rows[i][x]
             /\ rows[i][new] = IF new \in fill /\ tab.rows[i][old] = Null
                                 THEN Default(left[new].default) ELSE tab.rows[i][old]
    BY <2>3, <2>5 DEF CopiedRows
  <2> HIDE DEF rows
  <2>7. Alike(rows)
    <3>1. \A i \in DOMAIN tab.rows :
            rows[i][new] = Null => tab.rows[i][old] = Null /\ ~Fills(was, def)
      BY <2>5, <2>6, DefaultNull
    <3> QED  BY <2>4, <2>6, <3>1
  <2>8. FitRows(left, rows)
    <3> HIDE DEF Alike
    <3> QED  BY <1>7, <2>7
  <2>9. table.cols = now /\ StoredColumns(table.cols) = left
    BY DEF left
  <2>10. made.cols = left /\ made.rows = rows
    BY DEF Table
  <2> HIDE DEF table, r
  <2>11. \A x \in DOMAIN source : Holds(rows, x, left[x])
    BY <2>4, <2>8 DEF FitRows
  <2>12. r.ok /\ r.v = With(cat, t, made)
    BY <1>1, <2>1, <2>2, <2>4, <2>9, <2>11, RecreateTableIs DEF rows
  <2> HIDE DEF made
  <2> QED  BY <1>1, <2>8, <2>10, <2>12, RebuiltIs, RowsRebuilt DEF SchemaFits, r
<1>9. CASE ~Sqlite
  <2> DEFINE col == tab.cols[old]
             before == RenamedRows(tab.rows, old, new)
             cast == CastRows(before, new, col.type, def.type)
             rows == AlteredRows(before, new, col, was, def)
             altered == AlteredColumn(col, was, def)
             made == Table(With(Without(tab.cols, old), new, altered),
                           Renamed(tab.fks, old, new), rows)
  <2>1. r = DefaultAlterColumn(t, st[t], old, new, def, cat)
    BY <1>9 DEF AlterColumn
  <2>2. ExactAlter(was, def) /\ def.type \notin Serial /\ Casts(was.type, def.type)
    BY <1>2, <1>9 DEF OrdinaryOn, Ordinary, Sqlite
  <2>3. col = Stored(was)
    BY <1>1
  <2>4. /\ DOMAIN before = DOMAIN tab.rows
        /\ \A i \in DOMAIN tab.rows : before[i][new] = tab.rows[i][old]
        /\ DOMAIN cast = DOMAIN tab.rows
        /\ \A i \in DOMAIN tab.rows : cast[i][new] = Null => tab.rows[i][old] = Null
        /\ DOMAIN rows = DOMAIN tab.rows /\ rows = [i \in DOMAIN rows |-> rows[i]]
        /\ \A i \in DOMAIN tab.rows :
             /\ DOMAIN rows[i] = (DOMAIN tab.cols \ {old}) \cup {new}
             /\ \A x \in ((DOMAIN tab.cols \ {old}) \cup {new}) \ {new} : rows[i][x] = tab.rows[i][x]
             /\ rows[i][new] = Null => tab.rows[i][old] = Null /\ ~Fills(was, def)
    <3>1. old \in DOMAIN tab.cols /\ (old = new \/ new \notin DOMAIN tab.cols)
      BY <1>1
    <3> HIDE DEF tab, col, was
    <3> QED  BY <1>1, <3>1, AlteredRowsAre
  <2> HIDE DEF before, cast, rows
  <2>5. Alike(rows)
    BY <1>1, <1>6, <2>4
  <2>6. FitRows(left, rows)
    <3> HIDE DEF Alike
    <3> QED  BY <1>7, <2>5
  <2>7. suits => CanCast(before, new, col, was, def)
    <3> SUFFICES ASSUME suits, was.type # def.type
                 PROVE  /\ def.type \notin Serial /\ Casts(col.type, def.type)
                        /\ Castable(before, new, col.type, def.type)
                        /\ Holds(cast, new, [col EXCEPT !.type = def.type])
      BY DEF CanCast, cast
    <3>1. Castable(before, new, col.type, def.type)
      BY <1>9, <2>4 DEF Castable
    <3> DEFINE tcol == [col EXCEPT !.type = def.type]
    <3>2. tcol.unique = FALSE /\ tcol.primary = FALSE /\ tcol.notnull = col.notnull
      BY <1>3, <2>3 DEF Stored
    <3>3. col.notnull => \A i \in DOMAIN cast : cast[i][new] # Null
      <4>1. Holds(tab.rows, old, col)
        BY <1>1 DEF FitRows
      <4>2. col.notnull => \A i \in DOMAIN tab.rows : tab.rows[i][old] # Null
        <5> HIDE DEF col, tab
        <5> QED  BY <4>1, HoldsMandatory
      <4> QED  BY <2>4, <4>2
    <3> HIDE DEF tcol, col
    <3>4. Holds(cast, new, tcol)
      BY <3>2, <3>3, HoldsPlain
    <3>5. Casts(col.type, def.type)
      BY <1>3, <2>2, <2>3
    <3> QED  BY <2>2, <3>1, <3>4, <3>5 DEF tcol
  <2> DEFINE dcol == DefaultedColumn(col, was, def)
  <2>8. dcol.primary = FALSE /\ dcol.unique = FALSE
    BY <1>3, <2>3 DEF DefaultedColumn, TypedColumn, Stored
  <2>9. Fills(was, def) => \A i \in DOMAIN rows : rows[i][new] # Null
    BY <2>4
  <2>10. CanFill(rows, new, col, was, def)
    <3>1. Fills(was, def) => Holds(rows, new, dcol)
      <4> HIDE DEF dcol
      <4> QED  BY <2>8, <2>9, HoldsPlain
    <3> QED  BY <3>1 DEF CanFill
  <2>11. CanClose(rows, new, col, was, def)
    <3>1. was.null # def.null /\ def.null # "yes" => Fills(was, def)
      BY <1>3, <1>4 DEF Fills, Closes
    <3> QED  BY <2>8, <2>9, <3>1 DEF CanClose
  <2>12. CanBeUnique(rows, new, was, def)
    BY <1>4 DEF CanBeUnique, SetsUnique
  <2>13. /\ HasColumn(cat, t, old) /\ (old = new \/ ~HasColumn(cat, t, new))
         /\ tab.cols = [c \in DOMAIN tab.cols |-> tab.cols[c]]
    BY <1>1 DEF HasColumn, HasTable, StoredColumns
  <2>14. (r.ok <=> CanCast(before, new, col, was, def)) /\ (r.ok => Rebuilt(cat, r.v, t, made))
    <3>1. /\ r.ok <=> /\ CanCast(before, new, col, was, def)
                      /\ CanFill(rows, new, col, was, def)
                      /\ CanClose(rows, new, col, was, def)
                      /\ CanBeUnique(rows, new, was, def)
          /\ r.ok => Rebuilt(cat, r.v, t, made)
      BY <1>1, <2>1, <2>13, DefaultAlterColumnIs DEF before, rows
    <3> QED  BY <2>10, <2>11, <2>12, <3>1
  <2>15. With(Without(tab.cols, old), new, altered) = left
    <3>1. altered = Stored(def)
      BY <1>1, <1>9, <2>2, AlteredIsStored
    <3>2. Without(StoredColumns(cols), old) = StoredColumns(Without(cols, old))
      BY StoredWith
    <3>3. left = With(StoredColumns(Without(cols, old)), new, Stored(def))
      BY StoredWith DEF left
    <3> QED  BY <1>1, <3>1, <3>2, <3>3
  <2>16. made.cols = left /\ made.rows = rows
    BY <2>15 DEF Table
  <2> HIDE DEF made, r, suits
  <2>17. r.ok => RowsFit(r.v)
    BY <2>6, <2>14, <2>16, RowsRebuilt DEF SchemaFits
  <2> QED  BY <2>7, <2>14, <2>17 DEF suits, r
<1> QED  BY <1>8, <1>9
-----------------------------------------------------------------------------
(* An operation on a column goes through where the values fit, and leaves  *)
(* rows that do.                                                           *)
LEMMA ColumnGoes ==
  ASSUME NEW ops, OrdinaryOn(ops), NEW cat, NEW st, SchemaFits(ops, cat, st),
         NEW op \in ops, OnColumn(op), UpdateState(op, st).ok
  PROVE  LET u == UpdateState(op, st).v
             r == Forward(op, st, u, cat)
         IN  /\ ValuesFit(op, u, cat) => r.ok
             /\ r.ok => RowsFit(r.v)
             /\ Kept(ops, u)
<1> DEFINE u == UpdateState(op, st).v
           r == Forward(op, st, u, cat)
           t == op.table
           cols == st[t].cols
           c == op.column
           now == CASE op.kind \in {"add_column", "alter_column"} -> With(cols, c, op.def)
                    [] op.kind = "drop_column" -> Without(cols, c)
                    [] op.kind = "rename_column" -> With(Without(cols, c), op.new, cols[c])
           table == [cols |-> now, fks |-> st[t].fks]
<1>0. op.kind \in Kinds /\ op.kind \notin {"create_table", "drop_table", "rename_table"}
  BY DEF OnColumn, Kinds
<1>1. /\ t \in DOMAIN st
      /\ c \in DOMAIN cols <=> op.kind # "add_column"
      /\ op.kind = "rename_column" => op.new \notin DOMAIN cols
      /\ Rebuilt(st, u, t, table)
  BY <1>0, ColumnStateIs DEF SchemaFits
<1>2. c \in Moved(ops) /\ KeptTable(ops, [cols |-> cols, fks |-> st[t].fks])
  BY <1>1, MovedIs, TableFits
<1>3. c \in DOMAIN cols => cols[c] \in Defs(ops)
  BY <1>2 DEF KeptTable, TrackedTable
<1> HIDE DEF u, now
<1>4. u[t].cols = now /\ t \in DOMAIN u
  BY <1>1 DEF Rebuilt
<1> SUFFICES /\ ValuesFit(op, u, cat) => r.ok
             /\ r.ok => RowsFit(r.v)
             /\ KeptTable(ops, table)
  <2>1. KeptTable(ops, table) => Kept(ops, u)
    <3> HIDE DEF table
    <3> QED  BY <1>1 DEF Rebuilt, Kept, SchemaFits
  <2> HIDE DEF r
  <2> QED  BY <2>1 DEF r, u
<1>5. CASE op.kind = "add_column"
  <2>1. now = With(cols, c, op.def) /\ op.def \in Defs(ops)
    BY <1>5, MovedIs DEF now
  <2>2. u[t].cols[c] = op.def /\ HasColumn(u, t, c) /\ HasTable(st, t) /\ c \notin DOMAIN cols
    BY <1>1, <1>4, <1>5, <2>1 DEF With, HasColumn, HasTable
  <2>3. r = SqlAddColumn(t, c, op.def, cat)
    BY <1>5, <2>2 DEF Forward, AddColumnForward, Given
  <2>4. KeptTable(ops, table)
    <3> HIDE DEF cols
    <3> QED  BY <1>2, <2>1, KeptWith
  <2> HIDE DEF r
  <2> QED  BY <1>1, <2>1, <2>2, <2>3, <2>4, AddGoes
<1>6. CASE op.kind = "drop_column"
  <2>1. now = Without(cols, c)
    BY <1>6 DEF now
  <2>2. HasColumn(st, t, c) /\ c \in DOMAIN cols
    BY <1>1, <1>6 DEF HasColumn, HasTable
  <2>3. r = DropColumn(t, st[t], c, cat)
    BY <1>6, <2>2 DEF Forward, DropColumnForward, AddColumnBackward, Given
  <2>4. KeptTable(ops, table)
    <3> HIDE DEF cols
    <3> QED  BY <1>2, <2>1, KeptWithout
  <2> HIDE DEF r
  <2> QED  BY <1>1, <1>2, <2>2, <2>3, <2>4, DropGoes
<1>7. CASE op.kind = "alter_column"
  <2>1. now = With(cols, c, op.def) /\ op.def \in Defs(ops)
    BY <1>7, MovedIs DEF now
  <2>2. u[t].cols[c] = op.def /\ HasColumn(u, t, c) /\ HasColumn(st, t, c) /\ c \in DOMAIN cols
    BY <1>1, <1>4, <1>7, <2>1 DEF With, HasColumn, HasTable
  <2>3. r = AlterColumn(t, st[t], c, c, op.def, cat)
    BY <1>7, <2>2 DEF Forward, AlterColumnForward, Given
  <2>4. KeptTable(ops, table)
    <3> HIDE DEF cols
    <3> QED  BY <1>2, <2>1, KeptWith
  <2>5. ValuesFit(op, u, cat) =>
          Sqlite \/ Castable(cat[t].rows, c, cat[t].cols[c].type, op.def.type)
    BY <1>7, <2>2 DEF ValuesFit
  <2> HIDE DEF r
  <2> QED  BY <1>1, <1>2, <2>1, <2>2, <2>3, <2>4, <2>5, AlterGoes
<1>8. CASE op.kind = "rename_column"
  <2>1. now = With(Without(cols, c), op.new, cols[c]) /\ op.new \in Moved(ops)
    BY <1>8, MovedIs DEF now
  <2>2. /\ u[t].cols[op.new] = cols[c] /\ HasColumn(u, t, op.new) /\ HasColumn(st, t, c)
        /\ c \in DOMAIN cols /\ op.new \notin DOMAIN cols /\ cols[c] \in Defs(ops)
    BY <1>1, <1>3, <1>4, <1>8, <2>1 DEF With, HasColumn, HasTable
  <2>3. r = AlterColumn(t, st[t], c, op.new, cols[c], cat)
    BY <1>8, <2>2 DEF Forward, RenameColumnForward, MoveColumn, Given
  <2>4. KeptTable(ops, table)
    <3> HIDE DEF cols
    <3>1. KeptTable(ops, [cols |-> Without(cols, c), fks |-> st[t].fks])
      BY <1>2, KeptWithout
    <3> QED  BY <2>1, <2>2, <3>1, KeptWith
  <2> HIDE DEF r
  <2> QED  BY <1>1, <1>2, <2>1, <2>2, <2>3, <2>4, AlterGoes
<1> QED  BY <1>5, <1>6, <1>7, <1>8 DEF OnColumn

(* What goes through leaves such a schema, and has found the tables that   *)
(* its backward needs.                                                     *)
Returnable(op, st) ==
    /\ op.kind = "create_table" => ~HasTable(st, op.table)
    /\ op.kind = "drop_table" => HasTable(st, op.table)
    /\ op.kind = "rename_table" => op.new = op.table \/ ~HasTable(st, op.new)

(* Operations on tables included.                                          *)
LEMMA ForwardKeeps ==
  ASSUME NEW ops, OrdinaryOn(ops), NEW cat, NEW st, SchemaFits(ops, cat, st),
         NEW op \in ops, UpdateState(op, st).ok,
         Forward(op, st, UpdateState(op, st).v, cat).ok
  PROVE  LET u == UpdateState(op, st).v
             r == Forward(op, st, u, cat)
         IN  RowsFit(r.v) /\ Kept(ops, u) /\ Returnable(op, st)
<1> DEFINE u == UpdateState(op, st).v
           r == Forward(op, st, u, cat)
           t == op.table
<1>0. op.kind \in Kinds /\ r.ok /\ DOMAIN cat = DOMAIN st
  BY OrdinaryIsTraceable DEF Traceable, SchemaFits, Mirrors
<1>1. CASE op.kind = "create_table"
  <2> DEFINE table == [cols |-> op.cols, fks |-> op.fks]
             tab == Table(StoredColumns(op.cols), op.fks, <<>>)
  <2>1. u = With(st, t, table)
    BY <1>1 DEF UpdateState, CreateTableState, Returns
  <2>2. u[t] = table
    BY <2>1 DEF With
  <2>3. r = Given(HasTable(u, t), SqlCreateTable(t, u[t], cat))
    BY <1>1 DEF Forward, CreateTableForward
  <2>4. r = SqlCreateTable(t, u[t], cat)
    BY <1>0, <2>3 DEF Given, Throws
  <2>5. r.v = With(cat, t, tab) /\ ~HasTable(cat, t) /\ Creatable(table)
    <3>1. table.cols = op.cols /\ table.fks = op.fks
      OBVIOUS
    <3> HIDE DEF r, u, table
    <3>2. /\ r.v = With(cat, t, Table(StoredColumns(table.cols), table.fks, <<>>))
          /\ ~HasTable(cat, t) /\ Creatable(table)
      BY <1>0, <2>2, <2>4 DEF SqlCreateTable, When, Given, Returns, Throws
    <3> QED  BY <3>1, <3>2
  <2>6. KeptTable(ops, table)
    <3>1. TrackedTable(ops, table)
      BY <1>1, CreatedIsTracked, OrdinaryIsTraceable
    <3>2. ~(DOMAIN op.cols \subseteq Moved(ops))
      BY <1>1 DEF OrdinaryOn, Ordinary
    <3> QED  BY <2>5, <3>1, <3>2 DEF KeptTable
  <2>7. FitRows(tab.cols, tab.rows)
    <3>1. tab.rows = <<>> /\ DOMAIN tab.rows = 1 .. 0 /\ 1 .. 0 = {}
      BY DEF Table
    <3> HIDE DEF tab
    <3> QED  BY <3>1 DEF FitRows, Holds, Repeats
  <2> HIDE DEF r, u, tab, table
  <2>8. RowsFit(r.v)
    BY <2>5, <2>7 DEF RowsFit, With, SchemaFits
  <2>9. Kept(ops, u)
    BY <2>1, <2>6 DEF Kept, With, SchemaFits
  <2>10. Returnable(op, st)
    BY <1>0, <1>1, <2>5 DEF Returnable, HasTable
  <2> QED  BY <2>8, <2>9, <2>10 DEF r, u
<1>2. CASE op.kind = "drop_table"
  <2>1. u = Without(st, t)
    BY <1>2 DEF UpdateState, DropTableState, Returns
  <2>2. r = Given(HasTable(st, t), SqlDropTable(t, cat))
    BY <1>2 DEF Forward, DropTableForward
  <2>3. r.v = Without(cat, t) /\ HasTable(st, t)
    <3> HIDE DEF r
    <3> QED  BY <1>0, <2>2, SqlDropTableIs DEF Given, Throws
  <2> HIDE DEF r, u
  <2>4. RowsFit(r.v) /\ Kept(ops, u)
    BY <2>1, <2>3 DEF Without, Restrict, RowsFit, Kept, SchemaFits
  <2>5. Returnable(op, st)
    BY <1>2, <2>3 DEF Returnable
  <2> QED  BY <2>4, <2>5 DEF r, u
<1>3. CASE op.kind = "rename_table"
  <2>1. t \in DOMAIN st /\ u = With(Without(st, t), op.new, st[t])
    BY <1>3 DEF UpdateState, RenameTableState, When, Given, Returns, Throws, HasTable
  <2>2. r = Given(HasTable(u, op.new) /\ HasTable(st, t), RenameTable(t, op.new, cat))
    BY <1>3 DEF Forward, RenameTableForward
  <2>3. r = RenameTable(t, op.new, cat)
    BY <1>0, <2>2 DEF Given, Throws
  <2> HIDE DEF r, u
  <2>4. Kept(ops, u)
    BY <2>1 DEF With, Without, Restrict, Kept, SchemaFits
  <2>5. RowsFit(r.v) /\ Returnable(op, st)
    <3>1. CASE t = op.new
      <4>1. r.v = cat
        BY <2>3, <3>1 DEF RenameTable, Returns
      <4> QED  BY <1>3, <3>1, <4>1 DEF SchemaFits, Returnable
    <3>2. CASE t # op.new
      <4>1. r.v = With(Without(cat, t), op.new, cat[t]) /\ ~HasTable(cat, op.new)
        BY <1>0, <2>3, <3>2, SqlRenameTableIs DEF RenameTable, r
      <4>2. RowsFit(r.v)
        BY <1>0, <2>1, <4>1 DEF With, Without, Restrict, RowsFit, SchemaFits
      <4> QED  BY <1>0, <1>3, <4>1, <4>2 DEF Returnable, HasTable
    <3> QED  BY <3>1, <3>2
  <2> QED  BY <2>4, <2>5 DEF r, u
<1>4. CASE OnColumn(op)
  <2>1. Returnable(op, st)
    BY <1>4 DEF Returnable, OnColumn
  <2>2. RowsFit(r.v) /\ Kept(ops, u)
    BY <1>4, ColumnGoes
  <2> HIDE DEF r, u
  <2> QED  BY <2>1, <2>2 DEF r, u
<1> QED  BY <1>0, <1>1, <1>2, <1>3, <1>4 DEF Kinds, OnColumn

(* And backward goes through where forward has.                            *)
LEMMA BackwardGoes ==
  ASSUME NEW ops, OrdinaryOn(ops), NEW st, IsState(st), Kept(ops, st),
         NEW op \in ops, UpdateState(op, st).ok, Returnable(op, st),
         NEW cat, SchemaFits(ops, cat, UpdateState(op, st).v), ValuesFit(op, st, cat)
  PROVE  Backward(op, UpdateState(op, st).v, st, cat).ok
<1> DEFINE u == UpdateState(op, st).v
           r == Backward(op, u, st, cat)
           t == op.table
<1>0. op.kind \in Kinds /\ DOMAIN cat = DOMAIN u
  BY OrdinaryIsTraceable DEF Traceable, SchemaFits, Mirrors
<1>1. CASE op.kind = "create_table"
  <2>1. u = With(st, t, [cols |-> op.cols, fks |-> op.fks])
    BY <1>1 DEF UpdateState, CreateTableState, Returns
  <2>2. r = Given(HasTable(u, t), SqlDropTable(t, cat))
    BY <1>1 DEF Backward, CreateTableBackward
  <2> HIDE DEF r, u
  <2>3. t \in DOMAIN u
    BY <2>1 DEF With
  <2>4. r.ok
    BY <1>0, <2>2, <2>3, SqlDropTableIs DEF Given, HasTable
  <2> QED  BY <2>4 DEF r, u
<1>2. CASE op.kind = "drop_table"
  <2>1. u = Without(st, t) /\ t \in DOMAIN st
    BY <1>2 DEF UpdateState, DropTableState, Returns, Returnable, HasTable
  <2>2. r = Given(HasTable(st, t), SqlCreateTable(t, st[t], cat))
    BY <1>2 DEF Backward, DropTableBackward
  <2> HIDE DEF r, u
  <2>3. t \notin DOMAIN u
    BY <2>1 DEF Without, Restrict
  <2>4. Creatable(st[t])
    BY <2>1 DEF Kept, KeptTable
  <2>5. r.ok
    BY <1>0, <2>1, <2>2, <2>3, <2>4, SqlCreateTableIs DEF Given, HasTable
  <2> QED  BY <2>5 DEF r, u
<1>3. CASE op.kind = "rename_table"
  <2>1. t \in DOMAIN st /\ u = With(Without(st, t), op.new, st[t])
    BY <1>3 DEF UpdateState, RenameTableState, When, Given, Returns, Throws, HasTable
  <2>2. Swapped(op).table = op.new /\ Swapped(op).new = t
    BY <1>3 DEF OrdinaryOn, Ordinary, Swapped
  <2>3. r = RenameTableForward(Swapped(op), u, st, cat)
    BY <1>3 DEF Backward, RenameTableBackward
  <2> HIDE DEF r, u
  <2>4. op.new \in DOMAIN u /\ (op.new # t => t \notin DOMAIN u)
    BY <2>1 DEF With, Without, Restrict
  <2>5. r = RenameTable(op.new, t, cat)
    BY <2>1, <2>2, <2>3, <2>4 DEF RenameTableForward, Given, HasTable
  <2>6. r.ok
    BY <1>0, <2>4, <2>5, SqlRenameTableIs DEF RenameTable, Returns, HasTable
  <2> QED  BY <2>6 DEF r, u
<1>4. CASE OnColumn(op)
  <2> DEFINE cols == st[t].cols
             c == op.column
             now == CASE op.kind \in {"add_column", "alter_column"} -> With(cols, c, op.def)
                      [] op.kind = "drop_column" -> Without(cols, c)
                      [] op.kind = "rename_column" -> With(Without(cols, c), op.new, cols[c])
             table == [cols |-> now, fks |-> st[t].fks]
  <2>1. /\ t \in DOMAIN st
        /\ c \in DOMAIN cols <=> op.kind # "add_column"
        /\ op.kind = "rename_column" => op.new \notin DOMAIN cols
        /\ Rebuilt(st, u, t, table)
    BY <1>0, <1>4, ColumnStateIs DEF OnColumn
  <2>2. KeptTable(ops, st[t]) /\ c \in Moved(ops)
    BY <1>4, <2>1, MovedIs DEF Kept
  <2>3. c \in DOMAIN cols => cols[c] \in Defs(ops)
    BY <2>2 DEF KeptTable, TrackedTable
  <2> HIDE DEF u, now
  <2>4. u[t].cols = now /\ t \in DOMAIN u
    BY <2>1 DEF Rebuilt
  <2>5. SchemaFits(ops, cat, u)
    BY DEF u
  <2>6. r.ok
    <3>1. CASE op.kind = "add_column"
      <4>1. now = With(cols, c, op.def)
        BY <3>1 DEF now
      <4>2. c \in DOMAIN u[t].cols /\ HasColumn(u, t, c)
        BY <2>4, <4>1 DEF With, HasColumn, HasTable
      <4>3. r = DropColumn(t, u[t], c, cat)
        BY <3>1, <4>2 DEF Backward, AddColumnBackward, Given
      <4> HIDE DEF r
      <4> QED  BY <2>2, <2>4, <2>5, <4>2, <4>3, DropGoes
    <3>2. CASE op.kind = "drop_column"
      <4>1. now = Without(cols, c)
        BY <3>2 DEF now
      <4>2. c \notin DOMAIN u[t].cols /\ HasColumn(st, t, c)
        BY <2>1, <2>4, <3>2, <4>1 DEF Without, Restrict, HasColumn, HasTable
      <4>3. r = SqlAddColumn(t, c, cols[c], cat) /\ cols[c] \in Defs(ops)
        BY <2>1, <2>3, <3>2, <4>2 DEF Backward, DropColumnBackward, Given
      <4> HIDE DEF r, cols
      <4> QED  BY <2>4, <2>5, <4>2, <4>3, AddGoes
    <3>3. CASE op.kind = "alter_column"
      <4>1. now = With(cols, c, op.def)
        BY <3>3 DEF now
      <4>2. c \in DOMAIN u[t].cols /\ HasColumn(u, t, c) /\ HasColumn(st, t, c)
        BY <2>1, <2>4, <3>3, <4>1 DEF With, HasColumn, HasTable
      <4>3. r = AlterColumn(t, u[t], c, c, cols[c], cat) /\ cols[c] \in Defs(ops)
        BY <2>1, <2>3, <3>3, <4>2 DEF Backward, AlterColumnBackward, AlterColumnForward, Given
      <4>4. Sqlite \/ Castable(cat[t].rows, c, cat[t].cols[c].type, cols[c].type)
        BY <3>3 DEF ValuesFit
      <4> HIDE DEF r, cols
      <4> QED  BY <2>2, <2>4, <2>5, <4>2, <4>3, <4>4, AlterGoes
    <3>4. CASE op.kind = "rename_column"
      <4>1. now = With(Without(cols, c), op.new, cols[c]) /\ op.new \in Moved(ops)
        BY <3>4, MovedIs DEF now
      <4>2. /\ op.new \in DOMAIN u[t].cols /\ c \notin DOMAIN u[t].cols
            /\ HasColumn(u, t, op.new) /\ HasColumn(st, t, c)
        BY <2>1, <2>4, <3>4, <4>1 DEF With, Without, Restrict, HasColumn, HasTable
      <4>3. r = AlterColumn(t, u[t], op.new, c, cols[c], cat) /\ cols[c] \in Defs(ops)
        BY <2>1, <2>3, <3>4, <4>2 DEF Backward, RenameColumnBackward, MoveColumn, Given
      <4>4. u[t].cols[op.new] = cols[c]
        BY <2>4, <4>1 DEF With
      <4> HIDE DEF r, cols
      <4> QED  BY <2>2, <2>4, <2>5, <4>1, <4>2, <4>3, <4>4, AlterGoes
    <3> QED  BY <1>4, <3>1, <3>2, <3>3, <3>4 DEF OnColumn
  <2> QED  BY <2>6 DEF r, u
<1> QED  BY <1>0, <1>1, <1>2, <1>3, <1>4 DEF Kinds, OnColumn
-----------------------------------------------------------------------------
(* The last operation, and what its backward goes back to.                 *)
LastFits ==
    /\ last.op \in Operations[dbms]
    /\ UpdateState(last.op, last.state).ok
    /\ state = UpdateState(last.op, last.state).v
    /\ IsState(last.state) /\ Kept(Operations[dbms], last.state)
    /\ Returnable(last.op, last.state)
    /\ last.schema = Described(last.state)

(* The invariant of the other two laws.                                    *)
OrdinaryInv ==
    /\ TracedInv
    /\ Kept(Operations[dbms], state)
    /\ RowsFit(catalog)
    /\ last # Nothing => LastFits

(* What the assumptions say of the engine there is.                        *)
LEMMA OrdinaryHere ==
  ASSUME AllOrdinary, TracedInv
  PROVE  /\ AllTraceable
         /\ OrdinaryOn(Operations[dbms]) /\ Traceable(dbms, Operations[dbms])
<1>1. dbms \in DOMAIN Operations /\ dbms \in {"sqlite", "postgresql"}
  BY LawsAssumption DEF TracedInv
<1> QED  BY <1>1 DEF AllOrdinary, AllTraceable, OrdinaryOn, Ordinary

(* State and catalog are as the lemmas ask.                                *)
LEMMA OrdinaryFits ==
  ASSUME OrdinaryInv
  PROVE  SchemaFits(Operations[dbms], catalog, state)
BY DEF OrdinaryInv, TracedInv, SchemaFits

(* The invariant holds of two empty schemas.                               *)
LEMMA OrdinaryInit == Init => OrdinaryInv
<1> SUFFICES ASSUME Init PROVE OrdinaryInv
  OBVIOUS
<1>1. Kept(Operations[dbms], state) /\ RowsFit(catalog)
  BY DEF Init, NoSchema, Kept, RowsFit
<1> QED  BY <1>1, TracedInit DEF Init, OrdinaryInv

(* Only the engine decides what it takes.                                  *)
LEMMA KeptStays ==
  ASSUME dbms' = dbms
  PROVE  /\ Kept(Operations[dbms'], state') => Kept(Operations[dbms], state)'
         /\ Kept(Operations[dbms'], last'.state) => Kept(Operations[dbms], last.state)'
         /\ last'.schema = Described(last'.state) => (last.schema = Described(last.state))'
<1>1. Kept(Operations[dbms'], state') => Kept(Operations[dbms], state)'
  BY DEF Kept, KeptTable, Creatable, Definable, StoredType, Sqlite
<1>2. Kept(Operations[dbms'], last'.state) => Kept(Operations[dbms], last.state)'
  BY DEF Kept, KeptTable, Creatable, Definable, StoredType, Sqlite
<1>3. last'.schema = Described(last'.state) => (last.schema = Described(last.state))'
  BY DEF Described, StoredColumns, Stored, StoredType, Sqlite
<1> QED  BY <1>1, <1>2, <1>3

(* An operation keeps it.                                                  *)
LEMMA OrdinaryApply ==
  ASSUME AllOrdinary, OrdinaryInv, NEW op \in Operations[dbms], Apply(op)
  PROVE  OrdinaryInv'
<1> DEFINE ops == Operations[dbms]
           u == UpdateState(op, state)
           r == Forward(op, state, u.v, catalog)
<1>1. /\ u.ok /\ r.ok /\ state' = u.v /\ catalog' = r.v /\ dbms' = dbms
      /\ last' = [op |-> op, state |-> state, schema |-> Schema(catalog)]
  BY DEF Apply
<1>2. TracedInv /\ OrdinaryOn(ops) /\ AllTraceable /\ SchemaFits(ops, catalog, state)
  BY OrdinaryHere, OrdinaryFits DEF OrdinaryInv
<1>3. RowsFit(r.v) /\ Kept(ops, u.v) /\ Returnable(op, state)
  BY <1>1, <1>2, ForwardKeeps
<1>4. TracedInv'
  BY <1>2, TracedApply
<1>5. Schema(catalog) = Described(state) /\ IsState(state) /\ Kept(ops, state)
  BY <1>2, MirrorsIs DEF SchemaFits
<1>6. /\ last'.op = op /\ last'.state = state /\ last'.schema = Described(last'.state)
  BY <1>1, <1>5
<1> HIDE DEF u, r
<1>7. /\ Kept(Operations[dbms'], state') /\ RowsFit(catalog')
      /\ Kept(Operations[dbms'], last'.state)
  BY <1>1, <1>3, <1>5, <1>6
<1>8. LastFits'
  BY <1>1, <1>3, <1>5, <1>6, <1>7, KeptStays DEF LastFits, u
<1> QED  BY <1>1, <1>4, <1>7, <1>8, KeptStays DEF OrdinaryInv

(* Rows keep it: the engine takes only those that keep to the constraints. *)
LEMMA OrdinaryFill ==
  ASSUME OrdinaryInv, NEW t \in DOMAIN catalog, Fill(t)
  PROVE  OrdinaryInv'
<1> DEFINE was == catalog[t]
<1>0. PICK row : /\ DOMAIN row = DOMAIN was.cols
                 /\ \A c \in DOMAIN was.cols : Holds(Append(was.rows, row), c, was.cols[c])
                 /\ Rebuilt(catalog, catalog', t,
                            Table(was.cols, was.fks, Append(was.rows, row)))
  BY FilledIs DEF OrdinaryInv, TracedInv
<1> DEFINE tab == Table(was.cols, was.fks, Append(was.rows, row))
<1>1. /\ dbms' = dbms /\ state' = state /\ last' = last
      /\ Rebuilt(catalog, catalog', t, tab)
  BY <1>0 DEF Fill
<1>2. TracedInv'
  BY TracedFill DEF OrdinaryInv
<1>3. RowsFit(catalog')
  <2>1. FitRows(was.cols, Append(was.rows, row))
    BY <1>0, FitAppended DEF OrdinaryInv, RowsFit
  <2>2. FitRows(tab.cols, tab.rows)
    BY <2>1 DEF Table
  <2> HIDE DEF tab
  <2> QED  BY <1>1, <2>2, RowsRebuilt DEF OrdinaryInv
<1>4. Kept(Operations[dbms], state)'
  BY <1>1, KeptStays DEF OrdinaryInv
<1>5. ASSUME last # Nothing PROVE LastFits'
  BY <1>1, <1>5, KeptStays DEF OrdinaryInv, LastFits
<1> QED  BY <1>1, <1>2, <1>3, <1>4, <1>5 DEF OrdinaryInv

(* So it holds throughout.                                                 *)
LEMMA OrdinaryInvariance == AllOrdinary => (Spec => []OrdinaryInv)
<1> SUFFICES ASSUME AllOrdinary PROVE Spec => []OrdinaryInv
  OBVIOUS
<1>1. Init => OrdinaryInv
  BY OrdinaryInit
<1>2. OrdinaryInv /\ [Next]_vars => OrdinaryInv'
  <2> SUFFICES ASSUME OrdinaryInv, [Next]_vars PROVE OrdinaryInv'
    OBVIOUS
  <2>1. ASSUME NEW op \in Operations[dbms], Apply(op) PROVE OrdinaryInv'
    BY <2>1, OrdinaryApply
  <2>2. ASSUME NEW t \in DOMAIN catalog, Fill(t) PROVE OrdinaryInv'
    BY <2>2, OrdinaryFill
  <2>3. CASE UNCHANGED vars
    <3>1. dbms' = dbms /\ state' = state /\ catalog' = catalog /\ last' = last
      BY <2>3 DEF vars
    <3>2. Mirrors(catalog, state)'
      BY <3>1, MirrorsStays DEF OrdinaryInv, TracedInv
    <3>3. TracedInv'
      BY <3>1, <3>2 DEF OrdinaryInv, TracedInv
    <3>4. Kept(Operations[dbms], state)'
      BY <3>1, KeptStays DEF OrdinaryInv
    <3>5. ASSUME last # Nothing PROVE LastFits'
      BY <3>1, <3>5, KeptStays DEF OrdinaryInv, LastFits
    <3> QED  BY <3>1, <3>3, <3>4, <3>5 DEF OrdinaryInv
  <2> QED  BY <2>1, <2>2, <2>3 DEF Next
<1> QED  BY <1>1, <1>2, PTL DEF Spec

(* On ordinary operations backward undoes forward: it goes through and     *)
(* restores the schema, with any rows in the tables.  Where PostgreSQL is  *)
(* to take a type back, every value in the column must fit the old one.    *)
THEOREM UndoneByBackward == AllOrdinary => (Spec => []BackwardUndoes)
<1> SUFFICES ASSUME AllOrdinary PROVE Spec => []BackwardUndoes
  OBVIOUS
<1>1. ASSUME OrdinaryInv PROVE BackwardUndoes
  <2> DEFINE ops == Operations[dbms]
  <2> SUFFICES ASSUME last # Nothing, ValuesFit(last.op, last.state, catalog)
               PROVE  /\ Backward(last.op, state, last.state, catalog).ok
                      /\ Schema(Backward(last.op, state, last.state, catalog).v) = last.schema
    BY DEF BackwardUndoes
  <2>1. LastFits /\ OrdinaryOn(ops) /\ Traceable(dbms, ops)
    BY <1>1, OrdinaryHere DEF OrdinaryInv
  <2>2. SchemaFits(ops, catalog, UpdateState(last.op, last.state).v)
    BY <1>1, <2>1, OrdinaryFits DEF LastFits
  <2>3. Backward(last.op, state, last.state, catalog).ok
    BY <2>1, <2>2, BackwardGoes DEF LastFits
  <2>4. Reversible(last.op, last.state, Sqlite)
    <3> DEFINE op == last.op
               st == last.state
    <3>1. op.kind \in Kinds /\ op \in ops
      BY <2>1 DEF Traceable, LastFits
    <3>2. OnColumn(op) => op.table \in DOMAIN st /\ op.column \notin st[op.table].fks
      <4> SUFFICES ASSUME OnColumn(op)
                   PROVE  op.table \in DOMAIN st /\ op.column \notin st[op.table].fks
        OBVIOUS
      <4>1. op.table \in DOMAIN st
        BY <2>1, <3>1, ColumnStateIs DEF LastFits, OnColumn
      <4> QED  BY <2>1, <3>1, <4>1, MovedIs DEF LastFits, Kept, KeptTable, TrackedTable
    <3>3. op.kind = "rename_column" => op.new \notin st[op.table].fks
      BY <2>1, <3>1, <3>2, MovedIs DEF LastFits, Kept, KeptTable, TrackedTable, OnColumn
    <3>4. op.kind = "alter_column" /\ ~Sqlite => ExactAlter(op.def, st[op.table].cols[op.column])
      <4> SUFFICES ASSUME op.kind = "alter_column", ~Sqlite
                   PROVE  ExactAlter(op.def, st[op.table].cols[op.column])
        OBVIOUS
      <4>1. op.column \in DOMAIN st[op.table].cols
        BY <2>1, <3>1, ColumnStateIs DEF LastFits
      <4>2. st[op.table].cols[op.column] \in Defs(ops) /\ op.def \in Defs(ops)
        BY <2>1, <3>1, <3>2, <4>1, MovedIs DEF LastFits, Kept, KeptTable, TrackedTable, OnColumn
      <4> QED  BY <2>1, <4>2 DEF OrdinaryOn, Ordinary, Sqlite
    <3>5. op.kind = "rename_table" => {"table", "new"} \subseteq DOMAIN op
      BY <2>1, <3>1 DEF OrdinaryOn, Ordinary
    <3> QED  BY <2>1, <3>1, <3>2, <3>3, <3>4, <3>5 DEF Reversible, Returnable, LastFits, OnColumn
  <2>5. /\ Schema(catalog) = Described(UpdateState(last.op, last.state).v)
        /\ IsCatalog(catalog)
    BY <2>2, MirrorsIs DEF SchemaFits
  <2>6. Schema(Backward(last.op, state, last.state, catalog).v) = Described(last.state)
    BY <2>1, <2>3, <2>4, <2>5, BackwardIsExact DEF LastFits
  <2> QED  BY <2>1, <2>3, <2>6 DEF LastFits
<1>2. OrdinaryInv => BackwardUndoes
  BY <1>1
<1> QED  BY <1>2, OrdinaryInvariance, PTL

(* And the engine takes every operation on a column that update_state has  *)
(* accepted, with any rows in the table.  Where PostgreSQL is to give the  *)
(* column another type, every value in it must fit that one.               *)
THEOREM AcceptedIsTaken == AllOrdinary => (Spec => []AcceptedGoesThrough)
<1> SUFFICES ASSUME AllOrdinary PROVE Spec => []AcceptedGoesThrough
  OBVIOUS
<1>1. OrdinaryInv => AcceptedGoesThrough
  BY OrdinaryHere, OrdinaryFits, ColumnGoes DEF OrdinaryInv, AcceptedGoesThrough
<1> QED  BY <1>1, OrdinaryInvariance, PTL
=============================================================================
