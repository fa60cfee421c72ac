CONSTANTS
    Ids <- TwoIds
    Names <- TwoNames
    Databases <- Families
    Habits = {}
    MaxSteps = 2
SPECIFICATION Spec
INVARIANT ManyToManyIsRelated
