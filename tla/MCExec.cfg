SPECIFICATION Spec
CONSTANTS
    Msgs = {m1, m2}
    NoMsg = NoMsg
    MaxDepth = 4
    MaxScopes = 4
INVARIANTS JmpListLive ScopesKept
PROPERTY NoSaveSkipped
SYMMETRY MsgSymmetry
CHECK_DEADLOCK FALSE
