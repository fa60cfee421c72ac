SPECIFICATION Spec
CONSTANTS
    r1 = r1
    r2 = r2
    r3 = r3
    other = other
    Engines = {"sqlite", "postgresql"}
    Faults <- StatementsFail
    Threads = {main, other}
    Main = main
    Repos = {r1, r2, r3}
    Owner <- OwnerOf
    PoolSize = 2
    MaxHeld <- MayHold
    Habits = {"tables"}
    MaxOps = 3
    None = None
INVARIANT InOnePlace
