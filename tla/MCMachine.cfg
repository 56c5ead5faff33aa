SPECIFICATION Spec
CONSTANTS
    Programs <- MCPrograms
    Names <- MCNames
    MaxWord = 1000
INVARIANTS
    StackBalanced
    FlagsTaken
    ComputesSource
PROPERTY ProgramEnds
CHECK_DEADLOCK FALSE
