-------------------------- MODULE MigrationHistory --------------------------
(***************************************************************************)
(* What the migrations of a program promise about its database: the log of *)
(* applied migrations grows by the next one or shrinks by the last one,    *)
(* and in the same step the schema becomes that of the migrations logged.  *)
(***************************************************************************)
EXTENDS SchemaOperations

CONSTANTS
    Body,          \* Body[m]: the operations of migration m
    Order          \* the migrations, by name

VARIABLES
    log,           \* the rows of xalwart_migrations
    schema         \* the schema the engine has

vars == <<dbms, log, schema>>

(* The schema of a sequence of migrations applied one after the other. *)
SchemaOf(names) == MigrateAll(Body, names)

Init == log = <<>> /\ schema = NoSchema

Extend == Len(log) < Len(Order) /\ log' = Append(log, Order[Len(log) + 1])

Retract == log # <<>> /\ log' = Front(log)

Next ==
    /\ Extend \/ Retract
    /\ SchemaOf(log').ok /\ schema' = Described(SchemaOf(log').v)
    /\ UNCHANGED dbms

Spec == Init /\ [][Next]_vars
=============================================================================
