----------------------- MODULE MCTransactionSessions -----------------------
(* TransactionSessions for TLC: the calls and faults of each engine.       *)
EXTENDS TransactionSessions

Both == {"sqlite", "postgresql"}

For(d, sqlite, postgresql) == IF d = "sqlite" THEN sqlite ELSE postgresql

(* SQLite ends a transaction by itself; PostgreSQL refuses a commit.       *)
UsualFaults == [d \in Both |-> For(d, {"statement", "full"}, {"statement", "commit"})]

(* Each engine is left the calls that work there: those that do not are    *)
(* the subject of the other runs.                                          *)
SoundPlainCalls ==
    [d \in Both |-> For(d, {"query", "update_batch", "migration"},
                          {"query", "insert_pk", "migration"})]
SoundBodyCalls == [d \in Both |-> For(d, {"query"}, {"query", "insert_pk"})]

OnSqlite(what) == [d \in {"sqlite"} |-> what]

NoFaults == OnSqlite({})
NoCalls == OnSqlite({})
StatementFails == OnSqlite({"statement"})
InsertPk == OnSqlite({"insert_pk"})
Batches == OnSqlite({"query", "update_batch"})
=============================================================================
