SPECIFICATION Spec
CONSTANTS
    Operations <- MandatoryOperations
    Values <- SmallAndBig
    MaxRows = 1
    MaxDepth = 3
INVARIANT AcceptedGoesThrough
CHECK_DEADLOCK FALSE
