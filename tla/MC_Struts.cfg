CONSTANTS
    DW = 8
    DH = 6
    Geoms <- MCGeoms
    Aligns <- MCAligns
    WMs <- MCWMs
    RuntimeTweaks = TRUE
    StrutAtom = TRUE
    PartialAtom = TRUE
    MaxCalls = 3
SPECIFICATION Spec
INVARIANTS
    StrutsClamped
    StrutCoversWindow
CHECK_DEADLOCK FALSE
PROPERTY
    AxisStable
