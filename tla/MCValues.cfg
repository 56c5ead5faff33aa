SPECIFICATION Spec
CONSTANTS
    Literal = {l}
    Made = {m1, m2, m3}
    falsevalue = falsevalue
    Params <- MCParams
    Keyword = "k"
    Names = {"x", "p"}
    Started = {"x"}
    LoopNames = {"i"}
    Odd = {}
    MaxCalls = 4
VIEW WithoutResult
SYMMETRY Symmetry
INVARIANTS NothingDangles OwnersCounted
CHECK_DEADLOCK FALSE
