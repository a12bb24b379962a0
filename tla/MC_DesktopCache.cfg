CONSTANTS
    a = a
    b = b
    NameTok = {a, b}
    NUL = NUL
    Bad = Bad
    None = None
    CardVals <- MCCardVals
    NameLists <- MCNameLists
    MaxChanges = 3
SPECIFICATION Spec
INVARIANT TypeOK
INVARIANT CacheFresh
INVARIANT NameDerived
PROPERTY ImplementsAbstractCache
CHECK_DEADLOCK FALSE
