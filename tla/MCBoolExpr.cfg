SPECIFICATION Spec
CONSTANTS
    Exprs <- PlainExprs
    Vars = {"x", "y"}
    Values <- MCValues
    Inputs <- MCInputs
    Matching <- MCMatching
    MaxRefs = 2
    Odd = {}
INVARIANT AsSpecified
CHECK_DEADLOCK FALSE
