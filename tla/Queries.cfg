CONSTANTS
    Ids <- TwoIds
    Names <- TwoNames
    Databases <- Families
    Habits = {}
    MaxSteps = 4
SPECIFICATION Spec
INVARIANTS
    TypeOK
    AnswerIsAsked
    RelatedAsOfNow
PROPERTIES
    NullModelsStayOut
    DeletesWhatItSelects
