SPECIFICATION Spec
CONSTANTS
    InstShiftAmt = 2
    ChoiceSize = 2
    GlobalSize = 2
    CtrBits = 2
    RegSpace = 4
    CondPcs <- Conditionals
    UncondPcs <- Unconditionals
    MaxLookup = 10
INVARIANTS LearnsInFour LearnedIsKept
PROPERTY HistoryHoldsOutcomes
CHECK_DEADLOCK FALSE
