SPECIFICATION Spec
CONSTANTS
    Main = "main"
    Texts <- SmallTexts
    Installed = {"b"}
    MaxImports = 4
INVARIANTS NoStatementLost OrderKept EvaluatedOnce BlocksWhole InStep
CHECK_DEADLOCK FALSE
