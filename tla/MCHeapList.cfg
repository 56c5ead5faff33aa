SPECIFICATION HeapSpec
CONSTANTS
    Handle = {1, 2, 3, 4, 5}
    NULL = NULL
    PoolSize = 2
    PoolStep = 1
    FreeLen = 1
    List = {a, b}
    Data = {d, e}
    Users <- StacksAndQueues
    LastPool = 2
VIEW WithoutHandles
SYMMETRY Symmetry
INVARIANTS
    NoAliasing Accounting NoDanglingPool ArraysLargeEnough
    NodesOwned
PROPERTIES PoolSpec OperationsExact
CHECK_DEADLOCK FALSE
