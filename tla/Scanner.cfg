SPECIFICATION Spec
CONSTANTS
    MaxDepth = 4
    MaxText = 2
    Odd = {}
INVARIANTS TokensAsSpecified TextsAsSpecified CommasAsSpecified
CHECK_DEADLOCK FALSE
