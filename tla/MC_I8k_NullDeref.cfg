CONSTANTS
    Lines <- MCLines
    Num <- MCNum
    ReadFails = FALSE
    Garbage = {0}
    Used <- MCUsedNoButtons
    MaxEnv = 2
    MaxUpdates = 3
SPECIFICATION Spec
INVARIANTS
    NoNullDeref
CHECK_DEADLOCK FALSE
