-------------------------- MODULE WindowSetup_proofs --------------------------
(***************************************************************************)
(* Proofs about x11_init_window and set_transparent_background, for every  *)
(* screen, build, configuration and window manager that satisfy the       *)
(* assumptions of DesktopResolver and WindowSetup.                         *)
(***************************************************************************)
EXTENDS WindowSetup, TLAPS

-----------------------------------------------------------------------------
(* Input selection.                                                        *)

\* The core mask asks for motion only when XInput does not work, and for
\* buttons only when XInput is not in the build.
LEMMA CoreMaskFacts ==
    ASSUME NEW own \in BOOLEAN, NEW t, NEW b \in Builds, NEW xiok \in BOOLEAN
    PROVE  /\ "PointerMotion" \in InputMask(own, t, b, xiok) => ~xiok
           /\ "ButtonPress" \in InputMask(own, t, b, xiok) => ~b.xinput
BY SetupAssumptions DEF InputMask

\* The XInput masks: the window's never asks for motion, and the root's
\* asks for it only with mouse events in the build.
LEMMA XIMaskFacts ==
    ASSUME NEW own \in BOOLEAN, NEW b \in Builds
    PROVE  /\ "XI_Motion" \notin XIWinMask(own, b)
           /\ "XI_ButtonPress" \in XIWinMask(own, b)
BY DEF XIWinMask, XIRootMask

\* No step but x11_init_window changes the window or the masks.
LEMMA SetupUnchanged ==
    ASSUME [SetupNext]_allVars, ~InitWindow
    PROVE  UNCHANGED setupVars
BY DEF SetupNext, SetTransparentBackground, BgHop, allVars, setupVars

\* x11_init_window selects each pointer event once: what it selects as a
\* core event it does not also select through XInput.
LEMMA InitWindowSelectsOnce ==
    ASSUME InitWindow
    PROVE  InputSelectedOnce'
<1>1. PICK own \in BOOLEAN, t \in Types, hs \in HintSets, b \in Builds,
           xiExt \in BOOLEAN, shapeExt \in BOOLEAN, rect \in UninitRect,
           wm \in WMs, useArgb \in BOOLEAN, argbVisual \in BOOLEAN :
         LET xiok == b.xinput /\ xiExt
             argb == b.argb /\ own /\ useArgb /\ argbVisual
         IN /\ created' = TRUE
            /\ cfg' = [own |-> own, type |-> t, hints |-> hs, argb |-> b.argb]
            /\ haveArgb' = (haveArgb \/ argb)
            /\ xwin' = IF own
                       THEN OwnWindow(t, hs, b, shapeExt, rect, wm,
                                      IF argb THEN "argb" ELSE "default")
                       ELSE NoWin
            /\ masks' = [on |-> IF own THEN "conky" ELSE desktop,
                         core |-> InputMask(own, t, b, xiok),
                         xiRoot |-> IF xiok THEN XIRootMask(own, b) ELSE {},
                         xiWin |-> IF xiok /\ own THEN XIWinMask(own, b)
                                                ELSE {}]
    BY DEF InitWindow
<1>. DEFINE xiok == b.xinput /\ xiExt
<1>2. xiok \in BOOLEAN /\ b.xinput \in BOOLEAN
    BY SetupAssumptions
<1>5. /\ masks'.core = InputMask(own, t, b, xiok)
      /\ masks'.xiRoot = IF xiok THEN XIRootMask(own, b) ELSE {}
      /\ masks'.xiWin = IF xiok /\ own THEN XIWinMask(own, b) ELSE {}
    BY <1>1
<1>3. ~("PointerMotion" \in masks'.core /\ "XI_Motion" \in masks'.xiRoot \cup masks'.xiWin)
    BY <1>2, <1>5, CoreMaskFacts, XIMaskFacts
<1>4. ~("ButtonPress" \in masks'.core /\ "XI_ButtonPress" \in masks'.xiWin)
    BY <1>2, <1>5, CoreMaskFacts
<1>. QED BY <1>3, <1>4 DEF InputSelectedOnce

\* Whatever the build, the configuration and the server's XInput, conky never
\* receives a pointer motion or a button press both as a core event and as
\* an XInput event: input_mask drops motion when XInput works and buttons
\* when XInput is built in.
THEOREM InputSelectedOnceCorrect == SetupSpec => []InputSelectedOnce
<1>1. SetupInit => InputSelectedOnce
    BY DEF SetupInit, InputSelectedOnce
<1>2. InputSelectedOnce /\ [SetupNext]_allVars => InputSelectedOnce'
    <2>1. CASE InitWindow
        BY <2>1, InitWindowSelectsOnce
    <2>2. CASE ~InitWindow
        BY <2>2, SetupUnchanged DEF InputSelectedOnce, setupVars
    <2>. QED BY <2>1, <2>2
<1>. QED BY <1>1, <1>2, PTL DEF SetupSpec

=============================================================================
