CONSTANTS
    Lines <- MCLines
    Num <- MCNum
    ReadFails = TRUE
    Garbage = {0}
    Used <- MCUsedNoButtons
    MaxEnv = 2
    MaxUpdates = 3
SPECIFICATION Spec
INVARIANTS
    PrintsLastRead
CHECK_DEADLOCK FALSE
