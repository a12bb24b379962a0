CONSTANTS
    r = r  o = o  a = a  b = b  h = h
    Win <- MCWin
    Root = r
    Kids <- MCKids
    Size <- MCSize
    OverrideRedirect = {o}
    InitMapped = {r, o, a, h}
    DisplaySize = "display"
    VRootsAtom = TRUE
    VRoots <- MCVRoots
    CurDeskAtom = TRUE
    CurDesk = 0
    NoProp = NoProp
    Xinerama = TRUE
    Heads <- MCHeads
    HeadIndex = 0
    MaxWM = 2
    HintSets <- MCHintSets
    Builds <- MCBuilds
    WMs = {"fluxbox", "openbox"}
SPECIFICATION SetupSpec
INVARIANTS ResolvesLikeDescent HintsAdditive InputSelectedOnce ParentRelativeChain
CHECK_DEADLOCK FALSE
