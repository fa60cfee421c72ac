SPECIFICATION Spec
CONSTANTS
    Operations <- PlainOperations
    Values <- SmallAndBig
    MaxRows = 2
    MaxDepth = 5
INVARIANTS StateIsCatalog BackwardUndoes AcceptedGoesThrough
CHECK_DEADLOCK FALSE
