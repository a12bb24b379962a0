--------------------------- MODULE DesktopResolver ---------------------------
(***************************************************************************)
(* The desktop resolver of src/src/output/x11.cc, run by x11_init_window:  *)
(* VRootWindowOfScreen picks the root to draw under, and                   *)
(* find_desktop_window descends from it twice with                         *)
(* find_desktop_window_impl, first for a child of the display's size, then *)
(* (after update_x11_workarea) from that result for a child of the         *)
(* workarea's size.  Every XQueryTree and XGetWindowAttributes is a round   *)
(* trip, so the window manager may map, unmap or destroy windows between   *)
(* any two of them.                                                        *)
(*                                                                         *)
(* Window sizes are abstracted to the few values the comparisons tell      *)
(* apart (the display's size, a Xinerama head's size, any other).          *)
(***************************************************************************)
EXTENDS Integers, Sequences, SequencesExt, Relation

CONSTANTS
    Win,           \* the windows of the screen
    Root,          \* RootWindowOfScreen
    Kids,          \* Kids[w]: the children of w, bottom to top (XQueryTree)
    Size,          \* Size[w]: the width and height of w
    OverrideRedirect, \* the windows with override_redirect set
    InitMapped,    \* the windows mapped when conky starts
    DisplaySize,   \* DisplayWidth x DisplayHeight
    VRootsAtom,    \* XInternAtom("_NET_VIRTUAL_ROOTS", True) is not None
    VRoots,        \* the windows of _NET_VIRTUAL_ROOTS (format 32)
    CurDeskAtom,   \* XInternAtom("_NET_CURRENT_DESKTOP", True) is not None
    CurDesk,       \* _NET_CURRENT_DESKTOP on the root, or NoProp
    NoProp,
    Xinerama,      \* XineramaQueryExtension and XineramaIsActive succeed
    Heads,         \* the sizes of the heads XineramaQueryScreens reports
    HeadIndex,     \* the head_index setting
    MaxWM          \* bound on the window manager's steps

ASSUME ResolverAssumptions ==
    /\ Root \in Win
    /\ Kids \in [Win -> Seq(Win)]
    /\ Xinerama \in BOOLEAN /\ VRootsAtom \in BOOLEAN /\ CurDeskAtom \in BOOLEAN
    /\ Heads \in Seq(Range(Size) \cup {DisplaySize})
    /\ HeadIndex \in Int /\ MaxWM \in Nat

\* The loop bound of find_desktop_window_impl.
MaxLevels == 10
XA_WINDOW == 33

\* w lies in the subtree of u (u itself included): the transitive closure of
\* the parent relation of Kids.
ChildRel == [p \in Win \X Win |-> p[1] \in Range(Kids[p[2]])]
UnderRel == ReflexiveTransitiveClosure(ChildRel, Win)
Under(w, u) == UnderRel[w, u]

VARIABLES
    alive,     \* the windows that exist
    mapped,    \* the windows the WM has mapped
    pc,        \* "vroot", "query", "check", "free", "workarea", "done", "crashed"
    root,      \* window.root, the result of VRootWindowOfScreen
    pass,      \* 1: the display-size call of the impl, 2: the workarea call
    win,       \* the impl's win
    lvl,       \* the impl's loop counter i
    kids,      \* the impl's children[0..n-1]
    kidsState, \* "uninit", "live", or "freed" (XFree(children) was called)
    j,         \* the impl's loop counter j
    desk1,     \* the result of the first call of the impl
    workarea,  \* the size of the global workarea
    desktop,   \* window.desktop
    fault,     \* "none", or what the impl read that XQueryTree did not give
    quiet,     \* history: the WM took no step since conky began to resolve
    nWM

vars == <<alive, mapped, pc, root, pass, win, lvl, kids, kidsState, j, desk1,
          workarea, desktop, fault, quiet, nWM>>
wmVars == <<alive, mapped, nWM>>

-----------------------------------------------------------------------------
\* map_state == IsViewable: the window and all its ancestors are mapped.
Viewable(w) == \A u \in Win : Under(w, u) => u \in mapped

\* XQueryTree on a live window: its live children, bottom to top.
LiveKids(w) == SelectSeq(Kids[w], LAMBDA c : c \in alive)

\* The test of find_desktop_window_impl on child c for size s: the
\* attributes can be read (c exists), it is viewable, not override-redirect
\* and of size s.
Matches(c, s) ==
    c \in alive /\ Viewable(c) /\ c \notin OverrideRedirect /\ Size[c] = s

\* x11_atom_window_list: the items only when actual_format equals XA_WINDOW.
AtomWindowList(items, format) ==
    IF format = XA_WINDOW /\ Len(items) > 0 THEN items ELSE << >>

\* The target size of the current call of the impl.
Target == IF pass = 1 THEN DisplaySize ELSE workarea

\* The end of a call of the impl: win is its result.
EndCall ==
    IF pass = 1
    THEN /\ desk1' = win /\ pc' = "workarea"
         /\ UNCHANGED desktop
    ELSE /\ desktop' = win /\ pc' = "done"
         /\ UNCHANGED desk1

-----------------------------------------------------------------------------
Init ==
    /\ alive = Win
    /\ mapped = InitMapped
    /\ pc = "vroot"
    /\ root = Root /\ pass = 1 /\ win = Root /\ lvl = 0
    /\ kids = << >> /\ kidsState = "uninit" /\ j = 0
    /\ desk1 = Root /\ workarea = DisplaySize /\ desktop = Root
    /\ fault = "none" /\ quiet = TRUE /\ nWM = 0

\* VRootWindowOfScreen, then the start of the first call of the impl.
VRoot ==
    /\ pc = "vroot"
    /\ LET vr == AtomWindowList(VRoots, 32)
       IN IF ~VRootsAtom \/ vr = << >> \/ ~CurDeskAtom
          THEN /\ root' = Root /\ pc' = "query"
               /\ win' = Root /\ UNCHANGED fault
          ELSE IF CurDesk = NoProp
          THEN \* *cardinal with cardinal == nullptr
               /\ pc' = "crashed" /\ fault' = "null_cardinal"
               /\ UNCHANGED <<root, win>>
          ELSE LET r == IF CurDesk >= 0 /\ Len(vr) > CurDesk
                        THEN vr[CurDesk + 1] ELSE Root
               IN /\ root' = r /\ win' = r /\ pc' = "query"
                  /\ UNCHANGED fault
    /\ UNCHANGED <<wmVars, pass, lvl, kids, kidsState, j, desk1, workarea,
                   desktop, quiet>>

\* XQueryTree(display, win, ...): on success children and n are set; on
\* failure (win was destroyed) they keep what they held, which is
\* uninitialised at i = 0 and the freed array of level i - 1 after.
QueryTree ==
    /\ pc = "query"
    /\ IF win \in alive
       THEN /\ kids' = LiveKids(win) /\ kidsState' = "live"
            /\ j' = 0 /\ pc' = "check"
            /\ UNCHANGED fault
       ELSE IF kidsState = "uninit"
       THEN \* garbage n and children: a crash, or n read as 0
            /\ fault' = "uninit"
            /\ \/ pc' = "crashed" /\ UNCHANGED <<kids, j>>
               \/ pc' = "free" /\ kids' = << >> /\ j' = 0
            /\ UNCHANGED kidsState
       ELSE \* the freed array is read again and XFree'd a second time
            /\ fault' = "double_free" /\ pc' = "crashed"
            /\ UNCHANGED <<kids, kidsState, j>>
    /\ UNCHANGED <<wmVars, root, pass, win, lvl, desk1, workarea, desktop,
                   quiet>>

\* Mutant: the loop over the children without its break (the last match wins).
CheckChildNoBreak ==
    /\ pc = "check"
    /\ IF j < Len(kids)
       THEN /\ win' = IF Matches(kids[j + 1], Target) THEN kids[j + 1] ELSE win
            /\ j' = j + 1 /\ UNCHANGED pc
       ELSE pc' = "free" /\ UNCHANGED <<win, j>>
    /\ UNCHANGED <<wmVars, root, pass, lvl, kids, kidsState, desk1, workarea,
                   desktop, fault, quiet>>

\* One iteration of the loop over the children: the first match wins.
CheckChild ==
    /\ pc = "check"
    /\ IF j < Len(kids)
       THEN IF Matches(kids[j + 1], Target)
            THEN win' = kids[j + 1] /\ pc' = "free" /\ UNCHANGED j
            ELSE j' = j + 1 /\ UNCHANGED <<win, pc>>
       ELSE pc' = "free" /\ UNCHANGED <<win, j>>
    /\ UNCHANGED <<wmVars, root, pass, lvl, kids, kidsState, desk1, workarea,
                   desktop, fault, quiet>>

\* XFree(children); if (j == n) break; then i++ and the test i < 10.
FreeKids ==
    /\ pc = "free"
    /\ kidsState' = "freed"
    /\ IF j = Len(kids) \/ lvl + 1 = MaxLevels
       THEN EndCall /\ UNCHANGED lvl
       ELSE lvl' = lvl + 1 /\ pc' = "query" /\ UNCHANGED <<desk1, desktop>>
    /\ UNCHANGED <<wmVars, root, pass, win, kids, j, workarea, fault, quiet>>

\* update_x11_workarea: the display, or the head_index-th Xinerama head
\* when the extension is active, XineramaQueryScreens answers and the index
\* is in range; then the second call of the impl starts from desk1.
UpdateWorkarea ==
    /\ pc = "workarea"
    /\ workarea' \in IF Xinerama /\ HeadIndex \in 0..Len(Heads) - 1
                     THEN {Heads[HeadIndex + 1], DisplaySize}  \* si may be nullptr
                     ELSE {DisplaySize}
    /\ pass' = 2 /\ win' = desk1 /\ lvl' = 0 /\ kidsState' = "uninit"
    /\ pc' = "query"
    /\ UNCHANGED <<wmVars, root, kids, j, desk1, desktop, fault, quiet>>

\* The window manager maps, unmaps or destroys a window (with its subtree).
WMStep(alive2, mapped2) ==
    /\ nWM < MaxWM
    /\ <<alive2, mapped2>> # <<alive, mapped>>
    /\ alive' = alive2 /\ mapped' = mapped2
    /\ nWM' = nWM + 1
    /\ quiet' = (quiet /\ pc = "vroot")
    /\ UNCHANGED <<pc, root, pass, win, lvl, kids, kidsState, j, desk1,
                   workarea, desktop, fault>>
WMMap(w) == WMStep(alive, mapped \cup {w})
WMUnmap(w) == WMStep(alive, mapped \ {w})
WMDestroy(w) == w # Root /\ WMStep({u \in alive : ~Under(u, w)}, mapped)

Resolve == VRoot \/ QueryTree \/ CheckChild \/ FreeKids \/ UpdateWorkarea

Next ==
    \/ Resolve
    \/ \E w \in alive \ {Root} : WMMap(w) \/ WMUnmap(w) \/ WMDestroy(w)

Spec == Init /\ [][Next]_vars

-----------------------------------------------------------------------------
(* Properties                                                              *)

\* The descent of find_desktop_window_impl from w for size s on the current
\* windows, written as a function of the level: at most MaxLevels times,
\* move to the lowest viewable, non-override-redirect child of size s.
Descend(w, s) ==
    LET step[k \in 0..MaxLevels] ==
          IF k = 0 THEN w
          ELSE LET p == step[k - 1]
                   m == {i \in 1..Len(LiveKids(p)) : Matches(LiveKids(p)[i], s)}
               IN IF m = {} THEN p ELSE LiveKids(p)[Min(m)]
    IN step[MaxLevels]

\* Spec 4.3 (b) as find_desktop_window implements it: when the windows did
\* not change while conky resolved, window.desktop is the descent for the
\* workarea's size from the descent for the display's size from the root,
\* the first match winning at each level, whatever the round trips of
\* XQueryTree, XGetWindowAttributes and XFree in between.
ResolvesLikeDescent ==
    pc = "done" /\ quiet =>
        desktop = Descend(Descend(root, DisplaySize), workarea)

\* find_desktop_window_impl only reads the children and n that XQueryTree
\* gave it, and frees each array once.
OnlyQueriedChildren == fault = "none"

=============================================================================
