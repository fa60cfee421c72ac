-------------------------- MODULE MCConnectionPool --------------------------
(* ConnectionPool for TLC: one of the threads uses a Repository inside the *)
(* wrap of another, and so holds a connection while it asks for a second.  *)
EXTENDS ConnectionPool

OneNests ==
    LET nester == CHOOSE t \in Threads : TRUE
    IN  [t \in Threads |-> IF t = nester THEN 2 ELSE 1]
=============================================================================
