CONSTANTS
    r = r
    k = k
    c1 = c1
    c2 = c2
    Root = r
    Conky = k
    Clients = {c1, c2}
    Desktop <- MCDesktopRoot
    Parent <- MCParent
    Hinted <- MCHintedNoDesktop
    Geom <- MCGeom
    Events <- MCEvents
    Eager = TRUE
    AttrGarbage <- MCAttrGarbage
    Coords <- MCCoords
    MaxEvents = 2
    MaxEnv = 2
SPECIFICATION Spec
INVARIANTS
    TypeOK
    NeverTargetsOverlay
CHECK_DEADLOCK FALSE
