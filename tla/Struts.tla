------------------------------- MODULE Struts -------------------------------
(***************************************************************************)
(* set_struts of src/src/output/x11.cc: the _NET_WM_STRUT and             *)
(* _NET_WM_STRUT_PARTIAL values a dock or panel window of conky writes to  *)
(* reserve a band along one screen edge.  The function is called again     *)
(* whenever the window's geometry changes; it keeps the orientation it     *)
(* chose on its first call in a static (is_wide_window).                   *)
(***************************************************************************)
EXTENDS Integers

CONSTANTS
    DW, DH,          \* DisplayWidth and DisplayHeight of the screen
    Geoms,           \* the window geometries [x, y, w, h] the window may take
    Aligns,          \* the text_alignment values the configuration may hold
    WMs,             \* the window managers conky may run under
    RuntimeTweaks,   \* the build flag ENABLE_RUNTIME_TWEAKS
    StrutAtom,       \* ATOM(_NET_WM_STRUT) is not None
    PartialAtom,     \* ATOM(_NET_WM_STRUT_PARTIAL) is not None
    MaxCalls         \* bound on the calls of set_struts

ASSUME StrutsAssumptions ==
    /\ DW \in Nat /\ DH \in Nat
    /\ Geoms \subseteq [x : Int, y : Int, w : Nat, h : Nat]
    /\ RuntimeTweaks \in BOOLEAN /\ StrutAtom \in BOOLEAN
    /\ PartialAtom \in BOOLEAN
    /\ MaxCalls \in Nat

\* The slots of x11_strut::value, in the order of the 12 longs written.
Edges == {"LEFT", "RIGHT", "TOP", "BOTTOM"}
Slots == Edges \cup {"LEFT_START_Y", "LEFT_END_Y", "RIGHT_START_Y",
                     "RIGHT_END_Y", "TOP_START_X", "TOP_END_X",
                     "BOTTOM_START_X", "BOTTOM_END_X"}

\* The alignments of the text_alignment setting.
TopAligns == {"TOP_LEFT", "TOP_RIGHT", "TOP_MIDDLE"}
BottomAligns == {"BOTTOM_LEFT", "BOTTOM_RIGHT", "BOTTOM_MIDDLE"}
LeftAligns == {"TOP_LEFT", "MIDDLE_LEFT", "BOTTOM_LEFT"}
RightAligns == {"TOP_RIGHT", "MIDDLE_RIGHT", "BOTTOM_RIGHT"}
AllAligns == TopAligns \cup BottomAligns \cup LeftAligns \cup RightAligns
               \cup {"MIDDLE_MIDDLE", "NONE"}

\* (*align & 0b0101) == 0: the middle and none alignments, which touch no
\* edge, have neither low bit of the alignment's encoding set.
HasEdge(a) == a \notin {"MIDDLE_MIDDLE", "NONE"}

NoProp == [s \in Slots |-> -1]

VARIABLES
    geom,       \* window.geometry
    align,      \* text_alignment
    wm,         \* the running window manager (info.system.wm)
    wideInit,   \* the guard of the static: is_wide_window has been initialised
    isWide,     \* static bool is_wide_window
    strut,      \* the _NET_WM_STRUT values on conky's window (first 4 slots)
    partial,    \* the _NET_WM_STRUT_PARTIAL values on conky's window
    lastGeom,   \* the geometry the last write was computed from
    calls

vars == <<geom, align, wm, wideInit, isWide, strut, partial, lastGeom, calls>>

-----------------------------------------------------------------------------
EndX(g) == g.x + g.w
EndY(g) == g.y + g.h

\* std::clamp(v, lo, hi) with lo <= hi.
Clamp(v, lo, hi) == IF v < lo THEN lo ELSE IF hi < v THEN hi ELSE v

\* x11_strut::array(): twelve zeros.
Zero == [s \in Slots |-> 0]

\* Mutant: the right strut without clamping the window's x.
RightBandUnclamped(g) ==
    [Zero EXCEPT !["RIGHT"] = DW - g.x,
                 !["RIGHT_START_Y"] = Clamp(g.y, 0, DH),
                 !["RIGHT_END_Y"] = Clamp(EndY(g), 0, DH)]

\* Mutant: the bottom strut measured from the window's bottom edge.
BottomBandFromEnd(g) ==
    [Zero EXCEPT !["BOTTOM"] = DH - Clamp(EndY(g), 0, DH),
                 !["BOTTOM_START_X"] = Clamp(g.x, 0, DW),
                 !["BOTTOM_END_X"] = Clamp(EndX(g), 0, DW)]

\* The four reservations set_struts writes, each repeated in its branches.
LeftBand(g) ==
    [Zero EXCEPT !["LEFT"] = Clamp(EndX(g), 0, DW),
                 !["LEFT_START_Y"] = Clamp(g.y, 0, DH),
                 !["LEFT_END_Y"] = Clamp(EndY(g), 0, DH)]
RightBand(g) ==
    [Zero EXCEPT !["RIGHT"] = DW - Clamp(g.x, 0, DW),
                 !["RIGHT_START_Y"] = Clamp(g.y, 0, DH),
                 !["RIGHT_END_Y"] = Clamp(EndY(g), 0, DH)]
TopBand(g) ==
    [Zero EXCEPT !["TOP"] = Clamp(EndY(g), 0, DH),
                 !["TOP_START_X"] = Clamp(g.x, 0, DW),
                 !["TOP_END_X"] = Clamp(EndX(g), 0, DW)]
BottomBand(g) ==
    [Zero EXCEPT !["BOTTOM"] = DH - Clamp(g.y, 0, DH),
                 !["BOTTOM_START_X"] = Clamp(g.x, 0, DW),
                 !["BOTTOM_END_X"] = Clamp(EndX(g), 0, DW)]

\* The WMs that honour partial struts ("cutouts"), when the build allows it.
SupportsCutout(w) == RuntimeTweaks /\ w \in {"compiz", "fluxbox", "i3", "kwin"}

\* The cutout branch: a wide window is docked at the top or bottom unless it
\* is aligned in the middle of a side; a thin one at the left or right
\* unless it is aligned in the middle of the top or bottom.
CutoutSizes(g, a, wide) ==
    IF wide
    THEN CASE a \in TopAligns -> TopBand(g)
           [] a \in BottomAligns -> BottomBand(g)
           [] a = "MIDDLE_LEFT" -> LeftBand(g)
           [] a = "MIDDLE_RIGHT" -> RightBand(g)
           [] OTHER -> Zero
    ELSE CASE a \in LeftAligns -> LeftBand(g)
           [] a \in RightAligns -> RightBand(g)
           [] a = "TOP_MIDDLE" -> TopBand(g)
           [] a = "BOTTOM_MIDDLE" -> BottomBand(g)
           [] OTHER -> Zero

\* The branch for spec-compliant WMs: a thin window takes the left or right
\* edge, a wide or square one the top or bottom edge, whichever side the
\* code computes as smaller.
GenericSizes(g) ==
    IF g.w < g.h
    THEN IF EndX(g) < DW - EndX(g) + g.w THEN LeftBand(g) ELSE RightBand(g)
    ELSE IF EndY(g) < DH - EndY(g) + g.h THEN TopBand(g) ELSE BottomBand(g)

\* The static is_wide_window: initialised by the first call that gets past
\* the alignment check of the cutout branch, and kept after.
WideNow(g, w) == g.w > g.h \/ w = "i3"

\* The values set_struts writes: the first four as _NET_WM_STRUT, all twelve
\* as _NET_WM_STRUT_PARTIAL when that atom exists.
Write(sizes) ==
    /\ strut' = [s \in Slots |-> IF s \in Edges THEN sizes[s] ELSE -1]
    /\ partial' = IF PartialAtom THEN sizes ELSE partial

-----------------------------------------------------------------------------
Init ==
    /\ geom \in Geoms
    /\ align \in Aligns
    /\ wm \in WMs
    /\ wideInit = FALSE
    /\ isWide = FALSE
    /\ strut = NoProp
    /\ partial = NoProp
    /\ lastGeom = geom
    /\ calls = 0

\* The window is moved or resized (the text changed size, the configuration
\* was reloaded); the callers then call set_struts again.
Resize(g) ==
    /\ g # geom
    /\ geom' = g
    /\ UNCHANGED <<align, wm, wideInit, isWide, strut, partial, lastGeom, calls>>

\* Mutant: is_wide_window without "static": the orientation is recomputed
\* from the current geometry on every call.
SetStrutsNoStatic ==
    /\ calls < MaxCalls
    /\ calls' = calls + 1
    /\ IF ~StrutAtom \/ (SupportsCutout(wm) /\ ~HasEdge(align))
       THEN UNCHANGED <<wideInit, isWide, strut, partial, lastGeom>>
       ELSE IF SupportsCutout(wm)
       THEN LET wide == WideNow(geom, wm)
            IN /\ wideInit' = TRUE
               /\ isWide' = wide
               /\ Write(CutoutSizes(geom, align, wide))
               /\ lastGeom' = geom
       ELSE /\ Write(GenericSizes(geom))
            /\ lastGeom' = geom
            /\ UNCHANGED <<wideInit, isWide>>
    /\ UNCHANGED <<geom, align, wm>>

\* set_struts, with its early returns: no strut atom, or the cutout branch
\* for an alignment on no edge.
SetStruts ==
    /\ calls < MaxCalls
    /\ calls' = calls + 1
    /\ IF ~StrutAtom \/ (SupportsCutout(wm) /\ ~HasEdge(align))
       THEN UNCHANGED <<wideInit, isWide, strut, partial, lastGeom>>
       ELSE IF SupportsCutout(wm)
       THEN LET wide == IF wideInit THEN isWide ELSE WideNow(geom, wm)
            IN /\ wideInit' = TRUE
               /\ isWide' = wide
               /\ Write(CutoutSizes(geom, align, wide))
               /\ lastGeom' = geom
       ELSE /\ Write(GenericSizes(geom))
            /\ lastGeom' = geom
            /\ UNCHANGED <<wideInit, isWide>>
    /\ UNCHANGED <<geom, align, wm>>

Next ==
    \/ \E g \in Geoms : Resize(g)
    \/ SetStruts

Spec == Init /\ [][Next]_vars

-----------------------------------------------------------------------------
(* Properties                                                              *)

Sizes == [Slots -> Int]

TypeOK ==
    /\ geom \in Geoms /\ align \in Aligns /\ wm \in WMs
    /\ wideInit \in BOOLEAN /\ isWide \in BOOLEAN
    /\ strut \in Sizes /\ partial \in Sizes
    /\ lastGeom \in Geoms
    /\ calls \in 0..MaxCalls

\* The bound of each slot: widths and x positions within the display width,
\* heights and y positions within its height.
Bound(s) ==
    IF s \in {"LEFT", "RIGHT", "TOP_START_X", "TOP_END_X", "BOTTOM_START_X",
              "BOTTOM_END_X"}
    THEN DW ELSE DH

\* Spec 8: every value set_struts writes lies in [0, display width] or
\* [0, display height], whatever the window's geometry, including windows
\* partly or wholly off the screen.
StrutsClamped ==
    \A s \in Slots :
        /\ strut[s] # -1 => strut[s] \in 0..Bound(s)
        /\ partial[s] # -1 => partial[s] \in 0..Bound(s)

\* The geometry lies on the screen.
OnScreen(g) == 0 <= g.x /\ EndX(g) <= DW /\ 0 <= g.y /\ EndY(g) <= DH

\* The band the partial strut reserves contains the window it was computed
\* for, when that window lies on the screen: a dock is never left outside
\* the area it reserves, by any branch of set_struts.
StrutCoversWindow ==
    LET g == lastGeom
        p == partial
    IN p # NoProp /\ OnScreen(g) /\ (\E e \in Edges : p[e] # 0) =>
        \/ /\ p["LEFT"] >= EndX(g)
           /\ p["LEFT_START_Y"] <= g.y /\ EndY(g) <= p["LEFT_END_Y"]
        \/ /\ DW - p["RIGHT"] <= g.x /\ p["RIGHT"] > 0
           /\ p["RIGHT_START_Y"] <= g.y /\ EndY(g) <= p["RIGHT_END_Y"]
        \/ /\ p["TOP"] >= EndY(g)
           /\ p["TOP_START_X"] <= g.x /\ EndX(g) <= p["TOP_END_X"]
        \/ /\ DH - p["BOTTOM"] <= g.y /\ p["BOTTOM"] > 0
           /\ p["BOTTOM_START_X"] <= g.x /\ EndX(g) <= p["BOTTOM_END_X"]

\* The two axes a reservation can lie on.
Vertical == {"LEFT", "RIGHT"}
Horizontal == {"TOP", "BOTTOM"}

\* The partial strut p reserves a non-empty band on an edge of axis E.
Reserves(p, E) == \E e \in E : p[e] > 0

\* Under a WM that honours cutouts, a window resized from thin to wide, or
\* back, keeps its reservation on the axis set_struts chose first: no call
\* replaces a band at the left or right by one at the top or bottom, or the
\* reverse (the static is_wide_window, "so we don't jump between axes for
\* corner alignments").
AxisStable ==
    [][SetStruts /\ SupportsCutout(wm) =>
         /\ ~(Reserves(partial, Vertical) /\ Reserves(partial', Horizontal))
         /\ ~(Reserves(partial, Horizontal) /\ Reserves(partial', Vertical))]_vars

=============================================================================
