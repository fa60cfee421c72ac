-------------------------- MODULE MCRepositoryUse --------------------------
(* RepositoryUse for TLC: the main thread has two Repositories and may     *)
(* hold two connections, another thread has one of each.                   *)
EXTENDS RepositoryUse, TLC

CONSTANTS r1, r2, r3, other

OwnerOf == [r \in {r1, r2, r3} |-> IF r = r3 THEN other ELSE Main]
MayHold == (Main :> 2) @@ (other :> 1)

StatementsFail == [d \in {"sqlite", "postgresql"} |-> {"statement"}]
=============================================================================
