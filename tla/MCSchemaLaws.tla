---------------------------- MODULE MCSchemaLaws ----------------------------
(* SchemaLaws for TLC: two table names, three column names, and column     *)
(* definitions that differ in type, in null and in the default.            *)
EXTENDS SchemaLaws

Tables == {"A", "B"}
Columns == {"x", "y", "z"}

Column(type, null, default) ==
    [type |-> type, null |-> null, default |-> default,
     unique |-> FALSE, primary |-> FALSE, auto |-> FALSE]

(* A table is created with a counting primary key, which is a foreign key  *)
(* too, and one more column, under the one name; it has the other by being *)
(* renamed.                                                                *)
Key == [Column("int", "unset", "") EXCEPT !.primary = TRUE, !.auto = TRUE]

Create(def) ==
    [kind : {"create_table"}, table : {"A"}, cols : {[x |-> Key, y |-> def]}, fks : {{"x"}}]

OnTables ==
    [kind : {"drop_table"}, table : Tables]
      \cup [kind : {"rename_table"}, table : Tables, new : Tables]

OnColumns(cs, adds, alters) ==
    [kind : {"add_column"}, table : Tables, column : cs, def : adds]
      \cup [kind : {"alter_column"}, table : Tables, column : cs, def : alters]
      \cup [kind : {"drop_column"}, table : Tables, column : cs]
      \cup [kind : {"rename_column"}, table : Tables, column : cs, new : cs]

(* On both engines null is set and no column is unique. *)
SqliteAlters == {Column("text", "yes", ""), Column("int", "no", "d"), Column("int", "yes", "e")}

(* PostgreSQL: all columns have the same default; an int may become a      *)
(* bigint and a bigint an int, where its values fit.                       *)
PgAlters == {Column("bigint", "yes", "d"), Column("int", "no", "d")}

(* No operation on the key. *)
PlainOperations ==
    [d \in {"sqlite", "postgresql"} |->
       IF d = "sqlite"
         THEN Create(Column("int", "yes", "")) \cup OnTables
                \cup OnColumns({"y", "z"}, {Column("int", "yes", ""), Column("int", "no", "d")},
                                SqliteAlters)
         ELSE Create(Column("int", "yes", "d")) \cup OnTables
                \cup OnColumns({"y", "z"}, {Column("int", "yes", "d"), Column("int", "no", "d")},
                                PgAlters)]

(* One value that an int takes, and one that only a bigint does.           *)
SmallAndBig == {<<"int", "v">>, <<"bigint", "w">>}

On(d, operations) == d :> operations

(* A new column that is mandatory and has no default. *)
MandatoryOperations ==
    On("postgresql", Create(Column("int", "yes", ""))
                       \cup OnColumns({"y", "z"}, {Column("int", "no", "")}, {}))

(* What the theorems ask of operations holds of these.                     *)
ASSUME OperationsAssumption ==
    \A d \in DOMAIN PlainOperations : Ordinary(d, PlainOperations[d])
=============================================================================
