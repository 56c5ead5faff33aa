SPECIFICATION Spec
CONSTANTS
    Msgs = {m1, m2}
    Files = {f1, f2}
    PageSize = 12
    MaxPages = 1
    MaxSaves = 4
    Programs <- Apart
SYMMETRY Symmetry
INVARIANTS ActiveHandled FilesListed
CHECK_DEADLOCK FALSE
