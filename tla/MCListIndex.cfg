SPECIFICATION Spec
CONSTANTS
    Name <- MCName
    Constant <- MCConstant
    Programs <- UsualPrograms
    Path <- MCPath
    Value <- MCValue
    MaxSets = 2
    MaxItems = 4
    MaxLists = 3
    Odd = {}
INVARIANTS ReadsAsDocumented SetExact PushAndTailExact
CHECK_DEADLOCK FALSE
