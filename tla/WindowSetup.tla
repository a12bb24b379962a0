----------------------------- MODULE WindowSetup -----------------------------
(***************************************************************************)
(* x11_init_window of src/src/output/x11.cc, composed with the resolver it *)
(* runs first (DesktopResolver): once window.root and window.desktop are   *)
(* known, conky either creates its own window (override-redirect under the *)
(* desktop window, or managed under the root with WM hints, a window type  *)
(* and the hint properties) or draws to the desktop window, then selects   *)
(* its core and XInput event masks.  The lua configuration, the build      *)
(* flags and the server's extensions are read once, in this one call.      *)
(*                                                                         *)
(* ATOM(x) interns with only_if_exists False, so it is never None and the  *)
(* code's "!= None" tests always pass.                                     *)
(***************************************************************************)
EXTENDS DesktopResolver, Bags

CONSTANTS
    HintSets,   \* the own_window_hints values the configuration may hold
    Builds,     \* the builds: [argb, xinput, mouse, xshape, xfixes] flags
    WMs         \* the window managers (info.system.wm)

ASSUME SetupAssumptions ==
    /\ Builds \subseteq [argb : BOOLEAN, xinput : BOOLEAN, mouse : BOOLEAN, xshape : BOOLEAN,
                         xfixes : BOOLEAN]

\* The values of own_window_type, and the hints in the order the code tests
\* them.
Types == {"normal", "desktop", "dock", "panel", "utility", "override"}
HintOrder == << "undecorated", "below", "above", "sticky", "skip_taskbar",
                "skip_pager" >>

\* The properties x11_init_window writes on a managed window, besides the
\* ICCCM ones of XmbSetWMProperties.
PropAtoms == {"_NET_WM_WINDOW_TYPE", "_MOTIF_WM_HINTS", "_WIN_LAYER",
              "_NET_WM_STATE", "_NET_WM_DESKTOP"}
NoProps == [a \in PropAtoms |-> << >>]

\* The uninitialised XRectangle of the utility branch: zero-sized, or any
\* other rectangle the stack happens to hold.
UninitRect == {"empty", "rect"}

VARIABLES
    created,   \* window_created
    cfg,       \* own, own_window_type and own_window_hints as read
    xwin,      \* conky's own window on the server, or NoWin
    masks,     \* the event masks selected, and the window they are on
    haveArgb,  \* the global have_argb_visual
    bgPC,      \* set_transparent_background: "idle", "walk", "done"
    bgParent,  \* its parent: the window it works on
    bgHops,    \* its loop counter i
    bg,        \* what it set on conky's window: "none", "argb", "colour"
    relative,  \* the windows it set to ParentRelative
    bgFault    \* XFree of the children XQueryTree did not set

setupVars == <<created, cfg, xwin, masks, haveArgb>>
bgVars == <<bgPC, bgParent, bgHops, bg, relative, bgFault>>
allVars == <<vars, setupVars, bgVars>>

\* The loop bound of set_transparent_background.
MaxHops == 50

\* XQueryTree's parent_return for a window of the tree.
ParentOf(w) == CHOOSE u \in Win : w \in Range(Kids[u])

-----------------------------------------------------------------------------
\* The switch on own_window_type for _NET_WM_WINDOW_TYPE.
TypeAtom(t) ==
    CASE t = "desktop" -> "_NET_WM_WINDOW_TYPE_DESKTOP"
      [] t \in {"dock", "panel"} -> "_NET_WM_WINDOW_TYPE_DOCK"
      [] t = "utility" -> "_NET_WM_WINDOW_TYPE_UTILITY"
      [] OTHER -> "_NET_WM_WINDOW_TYPE_NORMAL"

\* The CARD32 0xFFFFFFFF of the sticky hint (all desktops), held as the
\* 32-bit two's complement value TLC can represent.
AllDesktops == -1

Replace(a, v) == [atom |-> a, mode |-> "replace", vals |-> v]
Append1(a, v) == [atom |-> a, mode |-> "append", vals |-> << v >>]

\* Mutant: the sticky state written with PropModeReplace.
HintCallsStickyReplace(h) ==
    CASE h = "undecorated" -> << Replace("_MOTIF_WM_HINTS", << 2, 0, 0, 0, 0 >>) >>
      [] h = "below" -> << Append1("_WIN_LAYER", 0),
                           Append1("_NET_WM_STATE", "_NET_WM_STATE_BELOW") >>
      [] h = "above" -> << Append1("_WIN_LAYER", 6),
                           Append1("_NET_WM_STATE", "_NET_WM_STATE_ABOVE") >>
      [] h = "sticky" -> << Append1("_NET_WM_DESKTOP", AllDesktops),
                            Replace("_NET_WM_STATE", << "_NET_WM_STATE_STICKY" >>) >>
      [] h = "skip_taskbar" ->
            << Append1("_NET_WM_STATE", "_NET_WM_STATE_SKIP_TASKBAR") >>
      [] h = "skip_pager" ->
            << Append1("_NET_WM_STATE", "_NET_WM_STATE_SKIP_PAGER") >>

\* The XChangeProperty calls of one set hint: the Motif hints replaced, the
\* layer, desktop and state atoms appended.
HintCalls(h) ==
    CASE h = "undecorated" -> << Replace("_MOTIF_WM_HINTS", << 2, 0, 0, 0, 0 >>) >>
      [] h = "below" -> << Append1("_WIN_LAYER", 0),
                           Append1("_NET_WM_STATE", "_NET_WM_STATE_BELOW") >>
      [] h = "above" -> << Append1("_WIN_LAYER", 6),
                           Append1("_NET_WM_STATE", "_NET_WM_STATE_ABOVE") >>
      [] h = "sticky" -> << Append1("_NET_WM_DESKTOP", AllDesktops),
                            Append1("_NET_WM_STATE", "_NET_WM_STATE_STICKY") >>
      [] h = "skip_taskbar" ->
            << Append1("_NET_WM_STATE", "_NET_WM_STATE_SKIP_TASKBAR") >>
      [] h = "skip_pager" ->
            << Append1("_NET_WM_STATE", "_NET_WM_STATE_SKIP_PAGER") >>

\* The server's effect of one XChangeProperty.
ApplyCall(p, c) ==
    [p EXCEPT ![c.atom] = IF c.mode = "replace" THEN c.vals ELSE @ \o c.vals]

\* The window type, then the set hints in the code's order.
WindowProps(t, hs) ==
    LET set == SelectSeq(HintOrder, LAMBDA h : h \in hs)
        calls == << Replace("_NET_WM_WINDOW_TYPE", << TypeAtom(t) >>) >>
                 \o FlattenSeq([k \in 1..Len(set) |-> HintCalls(set[k])])
    IN FoldLeft(ApplyCall, NoProps, calls)

\* The input region: the utility branch's region of one uninitialised
\* rectangle, then the empty region of XShapeCombineRectangles for a window
\* that refuses focus when the server has the shape extension.
InputShape(own, t, hs, b, shapeExt, rect) ==
    IF b.xshape /\ "undecorated" \in hs /\ shapeExt
       /\ own /\ (t # "normal" \/ "undecorated" \in hs)
    THEN "empty"
    ELSE IF b.xshape /\ b.xfixes /\ t = "utility" THEN rect ELSE "default"

\* No WM_HINTS, no window, nothing read or selected yet.
NoHints == [input |-> FALSE, state |-> "none"]
NoWin == [parent |-> "none", valid |-> FALSE, visual |-> "default", lowered |-> FALSE,
          origin |-> FALSE, wmHints |-> NoHints, shape |-> "default",
          props |-> NoProps]
NoCfg == [own |-> FALSE, type |-> "none", hints |-> {}, argb |-> FALSE]
NoMasks == [on |-> "none", core |-> {}, xiRoot |-> {}, xiWin |-> {}]

\* The window XCreateWindow makes, with what the code sets on it.
OwnWindow(t, hs, b, shapeExt, rect, wm, vis) ==
    IF t = "override"
    THEN [parent |-> desktop, valid |-> desktop \in alive, visual |-> vis,
          lowered |-> TRUE,
          origin |-> FALSE, wmHints |-> NoHints, shape |-> "default",
          props |-> NoProps]
    ELSE [parent |-> root, valid |-> root \in alive, visual |-> vis,
          lowered |-> FALSE,
          origin |-> t = "dock",
          wmHints |-> [input |-> "undecorated" \notin hs,
                       state |-> IF t \in {"dock", "panel"} /\ wm = "fluxbox"
                                 THEN "Withdrawn" ELSE "Normal"],
          shape |-> InputShape(TRUE, t, hs, b, shapeExt, rect),
          props |-> WindowProps(t, hs)]

\* Mutant: the motion fallback taken whatever XInput did.
InputMaskNoXiOk(own, t, b, xiok) ==
    {"Exposure", "PropertyChange"}
    \cup (IF own THEN {"StructureNotify"}
                      \cup (IF ~b.xinput THEN {"ButtonPress", "ButtonRelease"}
                                         ELSE {})
                 ELSE {})
    \cup (IF b.mouse /\ own /\ t # "desktop"
          THEN {"PointerMotion", "EnterWindow", "LeaveWindow"} ELSE {})

\* input_mask: the core events selected on window.window.  Without XInput
\* in the build the buttons come as core events; with mouse events in the
\* build and XInput not working, motion, enter and leave do, except on a
\* desktop-type window.
InputMask(own, t, b, xiok) ==
    {"Exposure", "PropertyChange"}
    \cup (IF own THEN {"StructureNotify"}
                      \cup (IF ~b.xinput THEN {"ButtonPress", "ButtonRelease"}
                                         ELSE {})
                 ELSE {})
    \cup (IF b.mouse /\ ~xiok /\ own /\ t # "desktop"
          THEN {"PointerMotion", "EnterWindow", "LeaveWindow"} ELSE {})

\* The XInput mask selected on window.root, and the one the same bytes give
\* conky's own window after XI_Motion is cleared and the buttons are set.
XIRootMask(own, b) ==
    {"XI_HierarchyChanged"}
    \cup (IF b.mouse THEN {"XI_Motion"} ELSE {})
    \cup (IF ~own THEN {"XI_ButtonPress", "XI_ButtonRelease"} ELSE {})
XIWinMask(own, b) ==
    (XIRootMask(own, b) \ {"XI_Motion"}) \cup {"XI_ButtonPress", "XI_ButtonRelease"}

-----------------------------------------------------------------------------
SetupInit ==
    /\ Init
    /\ created = FALSE /\ cfg = NoCfg /\ xwin = NoWin /\ masks = NoMasks
    /\ haveArgb = FALSE
    /\ bgPC = "idle" /\ bgParent = "none" /\ bgHops = 0 /\ bg = "none"
    /\ relative = {} /\ bgFault = FALSE

\* The rest of x11_init_window once window.desktop is known: the ARGB visual
\* when use_argb_visual asks for one and get_argb_visual finds one, the
\* window (its own, or the desktop window when own is false), then the
\* XInput selection (its extension and version checks are xiExt) and
\* XSelectInput.
InitWindow ==
    /\ pc = "done" /\ ~created
    /\ \E own \in BOOLEAN, t \in Types, hs \in HintSets, b \in Builds,
          xiExt \in BOOLEAN, shapeExt \in BOOLEAN, rect \in UninitRect,
          wm \in WMs, useArgb \in BOOLEAN, argbVisual \in BOOLEAN :
         LET xiok == b.xinput /\ xiExt
             argb == b.argb /\ own /\ useArgb /\ argbVisual
         IN /\ created' = TRUE
            /\ cfg' = [own |-> own, type |-> t, hints |-> hs, argb |-> b.argb]
            /\ haveArgb' = (haveArgb \/ argb)
            /\ xwin' = IF own
                       THEN OwnWindow(t, hs, b, shapeExt, rect, wm,
                                      IF argb THEN "argb" ELSE "default")
                       ELSE NoWin
            /\ masks' = [on |-> IF own THEN "conky" ELSE desktop,
                         core |-> InputMask(own, t, b, xiok),
                         xiRoot |-> IF xiok THEN XIRootMask(own, b) ELSE {},
                         xiWin |-> IF xiok /\ own THEN XIWinMask(own, b)
                                                ELSE {}]
    /\ UNCHANGED <<vars, bgVars>>

\* set_transparent_background(window.window), as the caller runs it once the
\* own window exists: real transparency with an ARGB visual, else the walk
\* up the parents when set_transparent is on, else an opaque background.
SetTransparentBackground ==
    /\ created /\ cfg.own /\ bgPC = "idle"
    /\ \E setTransparent \in BOOLEAN :
         IF haveArgb
         THEN bg' = "argb" /\ bgPC' = "done" /\ UNCHANGED <<bgParent, bgHops>>
         ELSE IF setTransparent
         THEN bgPC' = "walk" /\ bgParent' = "conky" /\ bgHops' = 0
              /\ UNCHANGED bg
         ELSE /\ bg' = IF cfg.argb THEN "colour" ELSE "none"
              /\ bgPC' = "done" /\ UNCHANGED <<bgParent, bgHops>>
    /\ UNCHANGED <<vars, setupVars, relative, bgFault>>

\* conky's window exists: created under a live parent that still lives.
ConkyAlive == xwin.valid /\ xwin.parent \in alive

\* XQueryTree's parent_return, when the call succeeds.
QueriedParent(p) == IF p = "conky" THEN xwin.parent ELSE ParentOf(p)

\* Mutant: the parent read into the root's variable.
BgHopParentLost ==
    /\ bgPC = "walk"
    /\ IF bgHops < MaxHops /\ bgParent # Root
       THEN /\ relative' = relative \cup {bgParent}
            /\ bgHops' = bgHops + 1
            /\ UNCHANGED <<bgParent, bgFault, bgPC>>
       ELSE bgPC' = "done" /\ UNCHANGED <<bgParent, bgHops, relative, bgFault>>
    /\ UNCHANGED <<vars, setupVars, bg>>

\* One iteration of its loop: ParentRelative on parent, then XQueryTree,
\* whose failure on a destroyed window leaves parent as it was and children
\* uninitialised for the XFree.
BgHop ==
    /\ bgPC = "walk"
    /\ IF bgHops < MaxHops /\ bgParent # Root
       THEN /\ relative' = relative \cup {bgParent}
            /\ bgHops' = bgHops + 1
            /\ IF (bgParent = "conky" /\ ConkyAlive) \/ bgParent \in alive
               THEN bgParent' = QueriedParent(bgParent) /\ UNCHANGED bgFault
               ELSE bgFault' = TRUE /\ UNCHANGED bgParent
            /\ UNCHANGED bgPC
       ELSE bgPC' = "done" /\ UNCHANGED <<bgParent, bgHops, relative, bgFault>>
    /\ UNCHANGED <<vars, setupVars, bg>>

\* The resolver's steps and the WM's, before and after the window exists.
SetupNext ==
    \/ Next /\ UNCHANGED <<setupVars, bgVars>>
    \/ InitWindow
    \/ SetTransparentBackground
    \/ BgHop

SetupSpec == SetupInit /\ [][SetupNext]_allVars

-----------------------------------------------------------------------------
(* Properties                                                              *)

\* The bag of values an atom holds.
Held(p, a) == ToBag(p[a])

\* Spec 8: the translation of own_window_hints is additive and independent
\* of order: on a managed window each hint property holds exactly the
\* values the set hints would write one at a time, since x11_init_window
\* appends to the shared _NET_WM_STATE and _WIN_LAYER instead of replacing.
HintsAdditive ==
    created /\ cfg.own /\ cfg.type # "override" =>
        \A a \in PropAtoms \ {"_NET_WM_WINDOW_TYPE"} :
            Held(xwin.props, a)
              = FoldSet(LAMBDA h, acc : acc (+) Held(WindowProps(cfg.type, {h}), a),
                        EmptyBag, cfg.hints)

\* Every pointer motion and button event reaches conky once: the core masks
\* selected on its window and the XInput masks selected on the root and on
\* its window never both ask for motion, nor both for buttons.
InputSelectedOnce ==
    created =>
        /\ ~("PointerMotion" \in masks.core
             /\ "XI_Motion" \in masks.xiRoot \cup masks.xiWin)
        /\ ~("ButtonPress" \in masks.core /\ "XI_ButtonPress" \in masks.xiWin)

\* Pseudo transparency reaches the root: when the windows did not change
\* since conky began, a finished walk has set ParentRelative on conky's
\* window and on every ancestor of it below the root, and on nothing else.
ParentRelativeChain ==
    bgPC = "done" /\ bgParent # "none" /\ quiet =>
        relative = {"conky"} \cup {u \in Win \ {Root} : Under(xwin.parent, u)}
=============================================================================
