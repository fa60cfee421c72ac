-------------------------- MODULE SchemaOperations --------------------------
(***************************************************************************)
(* The operations a migration is made of (src/db/operations), and what the *)
(* schema editors of the two engines turn them into.                       *)
(*                                                                         *)
(* A schema maps the name of a table to its columns, each with its         *)
(* definition, and to the columns that are foreign keys.  The ORM computes *)
(* one, the project state, by update_state; the engine keeps another, its  *)
(* catalog, and changes it by the statements of forward and backward.      *)
(*                                                                         *)
(* A column of the project state is a ColumnState: its type, whether null  *)
(* is allowed ("yes", "no", or "unset": the optional has no value), the    *)
(* default, unique, primary and auto.  A table of the catalog also has     *)
(* rows, each with a value in every column: what an engine takes depends   *)
(* on them.                                                                *)
(*                                                                         *)
(* A result is [ok, v]; ~ok is an exception.                               *)
(***************************************************************************)
EXTENDS Integers, FiniteSets, SequencesExt

VARIABLE dbms      \* "sqlite" | "postgresql"; no step changes it

Sqlite == dbms = "sqlite"

Returns(v) == [ok |-> TRUE, v |-> v]
Throws == [ok |-> FALSE, v |-> <<>>]
Given(guard, r) == IF guard THEN r ELSE Throws
When(guard, v) == Given(guard, Returns(v))

(* One more statement after r, if it is needed. *)
Also(r, needed, F(_)) == IF r.ok /\ needed THEN F(r.v) ELSE r

NoSchema == <<>>
NoDefault == ""

Without(f, x) == Restrict(f, DOMAIN f \ {x})
With(f, x, v) == [y \in DOMAIN f \cup {x} |-> IF y = x THEN v ELSE f[y]]

HasTable(sc, t) == t \in DOMAIN sc
HasColumn(sc, t, c) == HasTable(sc, t) /\ c \in DOMAIN sc[t].cols

SetColumn(sc, t, c, def) == With(sc, t, [sc[t] EXCEPT !.cols = With(@, c, def)])
EraseColumn(sc, t, c) == With(sc, t, [sc[t] EXCEPT !.cols = Without(@, c)])

Relabelled(f, old, new) == With(Without(f, old), new, f[old])
Renamed(fks, old, new) == {IF c = old THEN new ELSE c : c \in fks}
-----------------------------------------------------------------------------
(* sql_column: what a CREATE TABLE or an ADD COLUMN makes of a column of   *)
(* the project state.  Each editor has its own type for a column that      *)
(* counts; PostgreSQL's switch has no breaks, so every one is a bigserial. *)
Serial == {"smallserial", "serial", "bigserial"}
Textual == {"text", "varchar"}

StoredType(def) ==
    CASE def.auto /\ Sqlite /\ def.type \in Serial \cup {"smallint", "bigint"} -> "int"
      [] def.auto /\ ~Sqlite /\ def.type \in {"smallint", "int", "bigint"} -> "bigserial"
      [] OTHER -> def.type

(* Otherwise sql_column_autoincrement_check throws, or the engine does:    *)
(* PostgreSQL has no type DOUBLE, and its serial types bring a default.    *)
Definable(def) ==
    /\ def.auto => IF Sqlite THEN StoredType(def) = "int" /\ def.primary
                             ELSE StoredType(def) \in Serial
    /\ ~Sqlite => /\ def.type # "double"
                  /\ StoredType(def) \in Serial => def.default = NoDefault

Stored(def) ==
    [type |-> StoredType(def), notnull |-> def.null = "no", default |-> def.default,
     unique |-> def.unique, primary |-> def.primary]

StoredColumns(cols) == [c \in DOMAIN cols |-> Stored(cols[c])]

(* The schema that create_table would build from a project state, and the  *)
(* one the engine has.                                                     *)
Described(st) == [t \in DOMAIN st |-> [cols |-> StoredColumns(st[t].cols), fks |-> st[t].fks]]
Schema(cat) == [t \in DOMAIN cat |-> [cols |-> cat[t].cols, fks |-> cat[t].fks]]

Nullable(column) == ~column.notnull /\ ~column.primary
Primary(cols) == {c \in DOMAIN cols : cols[c].primary}
-----------------------------------------------------------------------------
(* What the rows hold.  A value is a pair: NULL, a default, a number from  *)
(* a counter, or one that the application has stored, which begins with    *)
(* the narrowest type that it can be cast to.  A default fits where it is  *)
(* used.                                                                   *)
Null == <<"null", "">>
Default(default) == <<"default", default>>
Counted(n) == <<"counted", n>>

Types == {"bool", "varchar", "text", "smallint", "int", "bigint", "real",
          "date", "time", "datetime"}

Takes(type) ==
    CASE type \in {"smallint", "smallserial"} -> {"smallint"}
      [] type \in {"int", "serial"} -> {"smallint", "int"}
      [] type \in {"bigint", "bigserial"} -> {"smallint", "int", "bigint"}
      [] type = "real" -> {"smallint", "int", "bigint", "real"}
      [] type = "datetime" -> {"date", "datetime"}
      [] type = "varchar" -> Types \ {"text"}
      [] type = "text" -> Types
      [] OTHER -> {type}

Fits(value, type) == value[1] \in {"null", "default", "counted"} \cup Takes(type)

(* The casts that PostgreSQL makes unasked when it assigns.                *)
Integral == {"smallint", "int", "bigint"}

Casts(from, to) ==
    \/ from = to \/ to \in Textual
    \/ from \in Serial \cup Integral \cup {"real"} /\ to \in Integral \cup {"real"}
    \/ <<from, to>> \in {<<"date", "datetime">>, <<"datetime", "date">>, <<"datetime", "time">>}

(* A cast that rounds can make two values the same: at worst it does.      *)
Cast(value, from, to) ==
    IF value[1] \in {"null", "default", "counted"} \/ from = to THEN value
    ELSE IF from = "datetime" /\ to \in {"date", "time"} THEN <<to, "rounded">>
    ELSE IF to = "real" \/ (from = "real" /\ to \in Integral) THEN <<value[1], "rounded">>
    ELSE value

Castable(rows, c, from, to) ==
    \A i \in DOMAIN rows : Fits(Cast(rows[i][c], from, to), to)

CastRows(rows, c, from, to) ==
    [i \in DOMAIN rows |-> With(rows[i], c, Cast(rows[i][c], from, to))]

Repeats(rows, c) ==
    \E i, j \in DOMAIN rows : i # j /\ rows[i][c] = rows[j][c] /\ rows[i][c] # Null

(* The constraints of a column hold of the rows. *)
Holds(rows, c, column) ==
    /\ ~Nullable(column) => \A i \in DOMAIN rows : rows[i][c] # Null
    /\ column.unique \/ column.primary => ~Repeats(rows, c)
-----------------------------------------------------------------------------
(* What the engines make of a statement. *)
Creatable(table) ==
    /\ \A c \in DOMAIN table.cols : Definable(table.cols[c])
    /\ \A c, d \in Primary(table.cols) : c = d
    /\ table.fks \subseteq DOMAIN table.cols
    /\ Sqlite => DOMAIN table.cols # {}

Table(cols, fks, rows) == [cols |-> cols, fks |-> fks, rows |-> rows]

SqlCreateTable(t, table, cat) ==
    When(~HasTable(cat, t) /\ Creatable(table),
         With(cat, t, Table(StoredColumns(table.cols), table.fks, <<>>)))

SqlDropTable(t, cat) == When(HasTable(cat, t), Without(cat, t))

SqlRenameTable(old, new, cat) ==
    When(HasTable(cat, old) /\ ~HasTable(cat, new),
         With(Without(cat, old), new, cat[old]))

(* SQLite adds no keys, and no mandatory column without a default, not     *)
(* even to an empty table; PostgreSQL looks at what comes into the rows.   *)
Addable(column, table) ==
    IF Sqlite
      THEN ~column.primary /\ ~column.unique /\ (column.notnull => column.default # NoDefault)
      ELSE column.primary => Primary(table.cols) = {}

Supplied(column, n) ==
    IF column.default # NoDefault THEN Default(column.default)
    ELSE IF column.type \in Serial THEN Counted(n) ELSE Null

AddedRows(rows, c, column) == [i \in DOMAIN rows |-> With(rows[i], c, Supplied(column, i))]

SqlAddColumn(t, c, def, cat) ==
    LET tab == cat[t]
        column == Stored(def)
    IN  When(/\ Definable(def)
             /\ HasTable(cat, t) /\ ~HasColumn(cat, t, c)
             /\ Addable(column, tab)
             /\ Holds(AddedRows(tab.rows, c, column), c, column),
             With(cat, t, Table(With(tab.cols, c, column), tab.fks,
                                AddedRows(tab.rows, c, column))))

SqlDropColumn(t, c, cat) ==
    LET tab == cat[t]
    IN  When(HasColumn(cat, t, c),
             With(cat, t, Table(Without(tab.cols, c), tab.fks \ {c},
                                [i \in DOMAIN tab.rows |-> Without(tab.rows[i], c)])))

SqlRenameColumn(t, old, new, cat) ==
    LET tab == cat[t]
    IN  When(HasColumn(cat, t, old) /\ ~HasColumn(cat, t, new),
             With(cat, t, Table(Relabelled(tab.cols, old, new), Renamed(tab.fks, old, new),
                                [i \in DOMAIN tab.rows |-> Relabelled(tab.rows[i], old, new)])))

(* The forms of PostgreSQL's ALTER TABLE ... ALTER COLUMN.  A type goes in *)
(* if there is a cast to it that needs no USING, if it takes every value   *)
(* there is, and if what is unique stays so.                               *)
SqlSetType(t, c, type, cat) ==
    LET tab == cat[t]
        from == tab.cols[c].type
        column == [tab.cols[c] EXCEPT !.type = type]
        rows == CastRows(tab.rows, c, from, type)
    IN  When(/\ HasColumn(cat, t, c)
             /\ type \notin Serial /\ Casts(from, type)
             /\ Castable(tab.rows, c, from, type)
             /\ Holds(rows, c, column),
             With(cat, t, Table(With(tab.cols, c, column), tab.fks, rows)))

SqlSetDefault(t, c, default, cat) ==
    When(HasColumn(cat, t, c),
         SetColumn(cat, t, c, [cat[t].cols[c] EXCEPT !.default = default]))

FilledRows(rows, c, default) ==
    [i \in DOMAIN rows |-> IF rows[i][c] = Null THEN With(rows[i], c, Default(default)) ELSE rows[i]]

SqlUpdateWithDefault(t, c, default, cat) ==
    LET tab == cat[t]
        rows == FilledRows(tab.rows, c, default)
    IN  When(HasColumn(cat, t, c) /\ Holds(rows, c, tab.cols[c]),
             With(cat, t, Table(tab.cols, tab.fks, rows)))

SqlSetNotNull(t, c, notnull, cat) ==
    When(/\ HasColumn(cat, t, c)
         /\ IF notnull THEN \A i \in DOMAIN cat[t].rows : cat[t].rows[i][c] # Null
                       ELSE ~cat[t].cols[c].primary,
         SetColumn(cat, t, c, [cat[t].cols[c] EXCEPT !.notnull = notnull]))

SqlCreateUnique(t, c, cat) ==
    When(HasColumn(cat, t, c) /\ ~Repeats(cat[t].rows, c),
         SetColumn(cat, t, c, [cat[t].cols[c] EXCEPT !.unique = TRUE]))
-----------------------------------------------------------------------------
(* The schema editors.  SQLite's builds a table anew from the state it is  *)
(* given, copies into each column the one it comes from, in `coalesced'    *)
(* with a value in place of NULL, and puts the new table in the old one's  *)
(* place.                                                                  *)
CopiedRows(rows, cols, source, coalesced) ==
    [i \in DOMAIN rows |->
       [c \in DOMAIN source |->
          IF c \in coalesced /\ rows[i][source[c]] = Null
            THEN Default(cols[c].default) ELSE rows[i][source[c]]]]

RecreateTable(t, table, source, coalesced, cat) ==
    LET cols == StoredColumns(table.cols)
        rows == CopiedRows(cat[t].rows, cols, source, coalesced)
    IN  When(/\ HasTable(cat, t)
             /\ Creatable(table)
             /\ DOMAIN source \subseteq DOMAIN cols
             /\ Range(source) \subseteq DOMAIN cat[t].cols
             /\ \A c \in DOMAIN source : Holds(rows, c, cols[c]),
             With(cat, t, Table(cols, table.fks, rows)))

Itself(cs) == [c \in cs |-> c]

(* Slip: the column is left among those to copy. *)
SqliteDropColumnCopiesIt(t, table, c, cat) ==
    RecreateTable(t, table, Itself(DOMAIN table.cols), {}, cat)

SqliteDropColumn(t, table, c, cat) ==
    RecreateTable(t, [cols |-> Without(table.cols, c), fks |-> table.fks \ {c}],
                  Itself(DOMAIN table.cols \ {c}), {}, cat)

(* A column that was declared NULL and no longer is. *)
Closes(was, def) == was.null = "yes" /\ def.null # "yes"

(* Slip: the rows that hold NULL are copied as they are. *)
SqliteAlterColumnCopiesNulls(t, table, old, new, def, cat) ==
    RecreateTable(t, [cols |-> With(Without(table.cols, old), new, def),
                      fks |-> Renamed(table.fks, old, new)],
                  With(Itself(DOMAIN table.cols \ {old}), new, old), {}, cat)

SqliteAlterColumn(t, table, old, new, def, cat) ==
    RecreateTable(t, [cols |-> With(Without(table.cols, old), new, def),
                      fks |-> Renamed(table.fks, old, new)],
                  With(Itself(DOMAIN table.cols \ {old}), new, old),
                  IF Closes(table.cols[old], def) /\ def.default # NoDefault THEN {new} ELSE {},
                  cat)

(* PostgreSQL's runs the statements the two column states differ by.  A    *)
(* default goes in when the column is closed to NULL, and never comes out; *)
(* neither do a unique constraint and a primary key: constraint_names is   *)
(* empty.                                                                  *)
DefaultAlterColumn(t, table, old, new, def, cat) ==
    LET was == table.cols[old]
        closes == Closes(was, def)
        renamed == Also(Returns(cat), old # new,
                        LAMBDA x : SqlRenameColumn(t, old, new, x))
        typed == Also(renamed, was.type # def.type,
                      LAMBDA x : SqlSetType(t, new, def.type, x))
        defaulted == Also(typed, closes /\ def.default \notin {was.default, NoDefault},
                          LAMBDA x : SqlSetDefault(t, new, def.default, x))
        updated == Also(defaulted, closes /\ def.default # NoDefault,
                        LAMBDA x : SqlUpdateWithDefault(t, new, def.default, x))
        nulled == Also(updated, was.null # def.null,
                       LAMBDA x : SqlSetNotNull(t, new, def.null # "yes", x))
    IN  Also(nulled, def.unique /\ (~was.unique \/ (was.primary /\ ~def.primary)),
             LAMBDA x : SqlCreateUnique(t, new, x))

DropColumn(t, table, c, cat) ==
    IF Sqlite THEN SqliteDropColumn(t, table, c, cat) ELSE SqlDropColumn(t, c, cat)

AlterColumn(t, table, old, new, def, cat) ==
    IF Sqlite
      THEN SqliteAlterColumn(t, table, old, new, def, cat)
      ELSE DefaultAlterColumn(t, table, old, new, def, cat)

RenameTable(old, new, cat) ==
    IF old = new THEN Returns(cat) ELSE SqlRenameTable(old, new, cat)
-----------------------------------------------------------------------------
(* The operations.  For each: what it does to the project state, and the   *)
(* statements that do and undo it; `from' and `to' are the states before   *)
(* and after the step that is taken.                                       *)
CreateTableState(op, st) == Returns(With(st, op.table, [cols |-> op.cols, fks |-> op.fks]))
CreateTableForward(op, from, to, cat) ==
    Given(HasTable(to, op.table), SqlCreateTable(op.table, to[op.table], cat))
CreateTableBackward(op, from, to, cat) ==
    Given(HasTable(from, op.table), SqlDropTable(op.table, cat))

DropTableState(op, st) == Returns(Without(st, op.table))
DropTableForward(op, from, to, cat) ==
    Given(HasTable(from, op.table), SqlDropTable(op.table, cat))
DropTableBackward(op, from, to, cat) ==
    Given(HasTable(to, op.table), SqlCreateTable(op.table, to[op.table], cat))

RenameTableState(op, st) ==
    When(HasTable(st, op.table), With(Without(st, op.table), op.new, st[op.table]))
RenameTableForward(op, from, to, cat) ==
    Given(HasTable(to, op.new) /\ HasTable(from, op.table), RenameTable(op.table, op.new, cat))
Swapped(op) == [op EXCEPT !.table = op.new, !.new = op.table]
RenameTableBackward(op, from, to, cat) == RenameTableForward(Swapped(op), from, to, cat)

(* The constructors of AddColumn and AlterColumn throw otherwise: they ask *)
(* whether null has a value, not which.                                    *)
Constructible(op) ==
    op.kind \in {"add_column", "alter_column"} =>
      op.def.null # "unset" \/ op.def.default # NoDefault

(* Slip: a column that is there already is overwritten. *)
AddColumnStateOverwrites(op, st) ==
    When(HasTable(st, op.table), SetColumn(st, op.table, op.column, op.def))

AddColumnState(op, st) ==
    When(HasTable(st, op.table) /\ ~HasColumn(st, op.table, op.column),
         SetColumn(st, op.table, op.column, op.def))
AddColumnForward(op, from, to, cat) ==
    Given(HasColumn(to, op.table, op.column) /\ HasTable(from, op.table),
          SqlAddColumn(op.table, op.column, to[op.table].cols[op.column], cat))
AddColumnBackward(op, from, to, cat) ==
    Given(HasColumn(from, op.table, op.column),
          DropColumn(op.table, from[op.table], op.column, cat))

(* A foreign key on the column stays in the state. *)
DropColumnState(op, st) ==
    When(HasColumn(st, op.table, op.column), EraseColumn(st, op.table, op.column))
DropColumnForward(op, from, to, cat) == AddColumnBackward(op, from, to, cat)
DropColumnBackward(op, from, to, cat) ==
    Given(HasColumn(to, op.table, op.column),
          SqlAddColumn(op.table, op.column, to[op.table].cols[op.column], cat))

(* Slip: the definition is taken from the state that is being left. *)
AlterColumnBackwardStale(op, from, to, cat) ==
    Given(HasColumn(from, op.table, op.column),
          AlterColumn(op.table, from[op.table], op.column, op.column,
                      from[op.table].cols[op.column], cat))

AlterColumnState(op, st) ==
    When(HasColumn(st, op.table, op.column), SetColumn(st, op.table, op.column, op.def))
AlterColumnForward(op, from, to, cat) ==
    Given(HasColumn(from, op.table, op.column) /\ HasColumn(to, op.table, op.column),
          AlterColumn(op.table, from[op.table], op.column, op.column,
                      to[op.table].cols[op.column], cat))
AlterColumnBackward(op, from, to, cat) == AlterColumnForward(op, from, to, cat)

(* Slip: the old name is not erased. *)
RenameColumnStateKeepsOld(op, st) ==
    When(HasColumn(st, op.table, op.column) /\ ~HasColumn(st, op.table, op.new),
         SetColumn(st, op.table, op.new, st[op.table].cols[op.column]))

RenameColumnState(op, st) ==
    When(HasColumn(st, op.table, op.column) /\ ~HasColumn(st, op.table, op.new),
         With(st, op.table, [st[op.table] EXCEPT !.cols = Relabelled(@, op.column, op.new)]))
MoveColumn(t, old, new, from, to, cat) ==
    Given(HasColumn(from, t, old) /\ HasColumn(to, t, new),
          AlterColumn(t, from[t], old, new, to[t].cols[new], cat))
RenameColumnForward(op, from, to, cat) ==
    MoveColumn(op.table, op.column, op.new, from, to, cat)
RenameColumnBackward(op, from, to, cat) ==
    MoveColumn(op.table, op.new, op.column, from, to, cat)
-----------------------------------------------------------------------------
(* IOperation: the virtual calls. *)
UpdateState(op, st) ==
    CASE op.kind = "create_table" -> CreateTableState(op, st)
      [] op.kind = "drop_table" -> DropTableState(op, st)
      [] op.kind = "rename_table" -> RenameTableState(op, st)
      [] op.kind = "add_column" -> AddColumnState(op, st)
      [] op.kind = "drop_column" -> DropColumnState(op, st)
      [] op.kind = "alter_column" -> AlterColumnState(op, st)
      [] op.kind = "rename_column" -> RenameColumnState(op, st)

Forward(op, from, to, cat) ==
    CASE op.kind = "create_table" -> CreateTableForward(op, from, to, cat)
      [] op.kind = "drop_table" -> DropTableForward(op, from, to, cat)
      [] op.kind = "rename_table" -> RenameTableForward(op, from, to, cat)
      [] op.kind = "add_column" -> AddColumnForward(op, from, to, cat)
      [] op.kind = "drop_column" -> DropColumnForward(op, from, to, cat)
      [] op.kind = "alter_column" -> AlterColumnForward(op, from, to, cat)
      [] op.kind = "rename_column" -> RenameColumnForward(op, from, to, cat)

Backward(op, from, to, cat) ==
    CASE op.kind = "create_table" -> CreateTableBackward(op, from, to, cat)
      [] op.kind = "drop_table" -> DropTableBackward(op, from, to, cat)
      [] op.kind = "rename_table" -> RenameTableBackward(op, from, to, cat)
      [] op.kind = "add_column" -> AddColumnBackward(op, from, to, cat)
      [] op.kind = "drop_column" -> DropColumnBackward(op, from, to, cat)
      [] op.kind = "alter_column" -> AlterColumnBackward(op, from, to, cat)
      [] op.kind = "rename_column" -> RenameColumnBackward(op, from, to, cat)

(* Migration::update_state: the operations one after the other. *)
Updated(r, op) == IF r.ok THEN UpdateState(op, r.v) ELSE r

UpdateAll(operations, st) ==
    LET after[n \in 0 .. Len(operations)] ==
          IF n = 0 THEN Returns(st) ELSE Updated(after[n - 1], operations[n])
    IN  after[Len(operations)]

(* MigrationExecutor::create_initial_state: the migrations of a sequence   *)
(* one after the other, from nothing.                                      *)
Migrated(r, operations) == IF r.ok THEN UpdateAll(operations, r.v) ELSE r

MigrateAll(body, names) ==
    LET after[n \in 0 .. Len(names)] ==
          IF n = 0 THEN Returns(NoSchema) ELSE Migrated(after[n - 1], body[names[n]])
    IN  after[Len(names)]
-----------------------------------------------------------------------------
(* What the project state is right about, for the proofs.  An operation is *)
(* exact where it does to the engine's schema what it does to the state,   *)
(* and reversible where its backward takes that back.  Neither looks at    *)
(* the engine: what they leave out is listed among the hazards.            *)
Kinds ==
    {"create_table", "drop_table", "rename_table",
     "add_column", "drop_column", "alter_column", "rename_column"}

(* PostgreSQL's editor turns a column defined as `was' into one defined as *)
(* `def': it sets no counter, drops no default and no constraint, and sets *)
(* a default only where it closes the column to NULL.                      *)
ExactAlter(was, def) ==
    /\ def.auto = was.auto /\ (def.auto => def.type = was.type)
    /\ def.null # was.null => def.null \in {"yes", "no"}
    /\ def.default # was.default => Closes(was, def) /\ def.default # NoDefault
    /\ def.unique # was.unique => was.unique = FALSE /\ def.unique = TRUE
    /\ def.primary = was.primary

(* The state keeps a foreign key whose column goes or is renamed.          *)
Exact(op, st, rebuilds) ==
    /\ op.kind \in Kinds
    /\ op.kind \in {"drop_column", "rename_column"} => op.column \notin st[op.table].fks
    /\ op.kind = "alter_column" =>
         rebuilds \/ ExactAlter(st[op.table].cols[op.column], op.def)

(* update_state creates a table over one that is there, and renames one    *)
(* over another; the engine does not.                                      *)
Reversible(op, st, rebuilds) ==
    /\ op.kind \in Kinds
    /\ op.kind = "create_table" => ~HasTable(st, op.table)
    /\ op.kind = "rename_table" =>
         /\ {"table", "new"} \subseteq DOMAIN op
         /\ op.new = op.table \/ ~HasTable(st, op.new)
    /\ op.kind \in {"add_column", "rename_column"} => op.column \notin st[op.table].fks
    /\ op.kind = "rename_column" => op.new \notin st[op.table].fks
    /\ op.kind = "alter_column" =>
         rebuilds \/ ExactAlter(op.def, st[op.table].cols[op.column])
=============================================================================
