CONSTANTS
    a = a
    b = b
    NameTok = {a, b}
    NUL = NUL
    Bad = Bad
    None = None
    CardVals <- MCCardVals
    NameLists <- MCNameLists
    MaxChanges = 3
SPECIFICATION Spec
CHECK_DEADLOCK FALSE
INVARIANT TracksLateWM
