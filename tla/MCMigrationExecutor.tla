------------------------ MODULE MCMigrationExecutor ------------------------
(* MigrationExecutor for TLC: one table, three columns, four migrations.   *)
EXTENDS MigrationExecutor

Column(type) ==
    [type |-> type, null |-> "yes", default |-> "d",
     unique |-> FALSE, primary |-> FALSE, auto |-> FALSE]
Key == [Column("int") EXCEPT !.null = "unset", !.default = "", !.primary = TRUE, !.auto = TRUE]

CreateA ==
    [kind |-> "create_table", table |-> "A", cols |-> [x |-> Key, y |-> Column("int")], fks |-> {"x"}]
AddZ == [kind |-> "add_column", table |-> "A", column |-> "z", def |-> Column("int")]
AlterY == [kind |-> "alter_column", table |-> "A", column |-> "y", def |-> Column("bigint")]
RenameZ == [kind |-> "rename_column", table |-> "A", column |-> "z", new |-> "w"]
DropY == [kind |-> "drop_column", table |-> "A", column |-> "y"]
RenameA == [kind |-> "rename_table", table |-> "A", new |-> "B"]

(* Migrations of one and of several operations. *)
Bodies ==
    (1 :> <<CreateA>>) @@ (2 :> <<AddZ, AlterY>>) @@ (3 :> <<RenameZ, DropY, RenameA>>)

(* Some operations that can be run twice without an error of their own. *)
RepeatableBodies == (1 :> <<CreateA>>) @@ (2 :> <<AlterY>>) @@ (3 :> <<AddZ>>)

OneDisk == {1 .. 3}
UpgradeDisks == {{1, 2}, {1, 2, 3}}

Apply(to) == [direction |-> "apply", to |-> to]
RollBack(to) == [direction |-> "rollback", to |-> to]

AllEngines == {"sqlite", "postgresql"}

(* Every target: none, each of the three migrations, and one that is not   *)
(* there.                                                                  *)
AllCalls == {Apply(to) : to \in 0 .. 4} \cup {RollBack(to) : to \in 0 .. 4}
ApplyCalls == {Apply(0), Apply(2)}

(* What the theorems ask of a program holds of these.                      *)
ASSUME ProgramAssumption == InStep /\ Lawful
=============================================================================
