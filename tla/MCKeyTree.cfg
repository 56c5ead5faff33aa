SPECIFICATION Spec
CONSTANTS
    Key <- MCKeys
    Data = {"d", "e"}
    Uses <- AllUses
INVARIANTS OrderKept BalanceKept BindExact
PROPERTIES UnbindSparesOthers UnbindDataExact
CHECK_DEADLOCK FALSE
