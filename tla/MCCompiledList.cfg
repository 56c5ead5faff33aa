SPECIFICATION Spec
CONSTANTS
    Programs <- UsualPrograms
    MaxLoops = 2
    MaxNodes = 7
    MaxPassed = 12
    Odd = {}
INVARIANT RangesRewound
PROPERTY EveryElementOnce
CHECK_DEADLOCK FALSE
