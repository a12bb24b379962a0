CONSTANTS
    r = r
    k = k
    c1 = c1
    c2 = c2
    Root = r
    Conky = k
    Clients = {c1, c2}
    Desktop <- MCDesktopRoot
    Parent <- MCParent
    Hinted <- MCHintedNoDesktop
    Geom <- MCGeom
    Events <- MCEventsInterior
    Eager = FALSE
    AttrGarbage <- MCAttrGarbage
    Coords <- MCCoords
    MaxEvents = 1
    MaxEnv = 0
SPECIFICATION Spec
INVARIANT ForwardsToTopmost
CHECK_DEADLOCK FALSE
