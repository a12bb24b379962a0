---------------------------- MODULE Struts_proofs ----------------------------
(***************************************************************************)
(* Proofs about Struts: for every display size and every set of window     *)
(* geometries, set_struts keeps the state well typed, writes only values   *)
(* within the display, and keeps the axis it reserves along.               *)
(***************************************************************************)
EXTENDS Struts, TLAPS

\* A value of x11_strut::array() whose every slot lies within its bound.
Clamped(z) == z \in Sizes /\ \A s \in Slots : z[s] \in 0..Bound(s)

\* The inductive invariant: TypeOK and StrutsClamped.
IInv == TypeOK /\ StrutsClamped

\* What set_struts may compute for a geometry g: one of the four bands, or
\* x11_strut::array() untouched.
Bands(g) == {LeftBand(g), RightBand(g), TopBand(g), BottomBand(g), Zero}

\* The partial strut on the window is the one computed from lastGeom, or
\* has never been written (it is only written when its atom exists).
PartialFromLast ==
    partial = NoProp \/ (PartialAtom /\ partial \in Bands(lastGeom))

\* The bounds of the slots are the display's sizes.
LEMMA BoundNat ==
    ASSUME NEW s \in Slots
    PROVE  Bound(s) \in {DW, DH}
BY DEF Bound

\* x11_strut::array() is within every bound.
LEMMA ZeroClamped == Clamped(Zero)
<1>1. \A s \in Slots : Bound(s) \in Nat
    BY BoundNat, StrutsAssumptions
<1>. QED BY <1>1 DEF Clamped, Zero, Sizes

\* Setting three slots of a clamped array to values within their bounds
\* keeps it clamped.
LEMMA ExceptClamped ==
    ASSUME NEW z, Clamped(z), NEW s1 \in Slots, NEW s2 \in Slots,
           NEW s3 \in Slots, NEW v1 \in 0..Bound(s1), NEW v2 \in 0..Bound(s2),
           NEW v3 \in 0..Bound(s3)
    PROVE  Clamped([z EXCEPT ![s1] = v1, ![s2] = v2, ![s3] = v3])
BY DEF Clamped, Sizes

\* The four bands of set_struts, for any geometry, clamp every slot.
LEMMA BandsClamped ==
    ASSUME NEW g \in Geoms
    PROVE  /\ Clamped(LeftBand(g)) /\ Clamped(RightBand(g))
           /\ Clamped(TopBand(g)) /\ Clamped(BottomBand(g))
<1>1. g.x \in Int /\ g.y \in Int /\ EndX(g) \in Int /\ EndY(g) \in Int
    BY StrutsAssumptions DEF EndX, EndY
<1>2. DW \in Nat /\ DH \in Nat
    BY StrutsAssumptions
<1>3. /\ Clamp(g.x, 0, DW) \in 0..DW /\ Clamp(EndX(g), 0, DW) \in 0..DW
      /\ Clamp(g.y, 0, DH) \in 0..DH /\ Clamp(EndY(g), 0, DH) \in 0..DH
    BY <1>1, <1>2 DEF Clamp
<1>4. /\ DW - Clamp(g.x, 0, DW) \in 0..DW
      /\ DH - Clamp(g.y, 0, DH) \in 0..DH
    BY <1>2, <1>3
<1>5. /\ Bound("LEFT") = DW /\ Bound("RIGHT") = DW
      /\ Bound("TOP_START_X") = DW /\ Bound("TOP_END_X") = DW
      /\ Bound("BOTTOM_START_X") = DW /\ Bound("BOTTOM_END_X") = DW
      /\ Bound("TOP") = DH /\ Bound("BOTTOM") = DH
      /\ Bound("LEFT_START_Y") = DH /\ Bound("LEFT_END_Y") = DH
      /\ Bound("RIGHT_START_Y") = DH /\ Bound("RIGHT_END_Y") = DH
    BY DEF Bound
<1>6. Clamped(LeftBand(g))
    BY <1>3, <1>5, ZeroClamped, ExceptClamped DEF LeftBand, Slots, Edges
<1>7. Clamped(RightBand(g))
    BY <1>3, <1>4, <1>5, ZeroClamped, ExceptClamped DEF RightBand, Slots, Edges
<1>8. Clamped(TopBand(g))
    BY <1>3, <1>5, ZeroClamped, ExceptClamped DEF TopBand, Slots, Edges
<1>9. Clamped(BottomBand(g))
    BY <1>3, <1>4, <1>5, ZeroClamped, ExceptClamped DEF BottomBand, Slots, Edges
<1>. QED BY <1>6, <1>7, <1>8, <1>9

\* Both branches of set_struts compute one of the bands or nothing.
LEMMA SizesChoice ==
    ASSUME NEW g \in Geoms, NEW a, NEW w \in BOOLEAN
    PROVE  /\ CutoutSizes(g, a, w) \in
                {LeftBand(g), RightBand(g), TopBand(g), BottomBand(g), Zero}
           /\ GenericSizes(g) \in
                {LeftBand(g), RightBand(g), TopBand(g), BottomBand(g)}
<1>1. CutoutSizes(g, a, w) \in
          {LeftBand(g), RightBand(g), TopBand(g), BottomBand(g), Zero}
    BY Zenon DEF CutoutSizes
<1>2. GenericSizes(g) \in
          {LeftBand(g), RightBand(g), TopBand(g), BottomBand(g)}
    BY Zenon DEF GenericSizes
<1>. QED BY <1>1, <1>2

\* Whatever set_struts computes is clamped.
LEMMA ComputedClamped ==
    ASSUME NEW g \in Geoms, NEW a, NEW w \in BOOLEAN
    PROVE  Clamped(CutoutSizes(g, a, w)) /\ Clamped(GenericSizes(g))
BY SizesChoice, BandsClamped, ZeroClamped

\* A write of clamped sizes keeps both properties typed and clamped.
LEMMA WriteClamped ==
    ASSUME IInv, NEW z, Clamped(z), Write(z)
    PROVE  /\ strut' \in Sizes /\ partial' \in Sizes
           /\ \A s \in Slots : /\ strut'[s] # -1 => strut'[s] \in 0..Bound(s)
                               /\ partial'[s] # -1 => partial'[s] \in 0..Bound(s)
BY StrutsAssumptions DEF IInv, TypeOK, StrutsClamped, Clamped, Write, Sizes

-----------------------------------------------------------------------------
LEMMA InitIInv == Init => IInv
<1>. SUFFICES ASSUME Init PROVE IInv
    OBVIOUS
<1>1. NoProp \in Sizes
    BY DEF NoProp, Sizes
<1>2. TypeOK
    <2>1. calls \in 0..MaxCalls
        BY StrutsAssumptions DEF Init
    <2>. QED BY <1>1, <2>1 DEF Init, TypeOK
<1>3. StrutsClamped
    BY DEF Init, StrutsClamped, NoProp
<1>. QED BY <1>2, <1>3 DEF IInv

LEMMA NextIInv == IInv /\ [Next]_vars => IInv'
<1>. SUFFICES ASSUME IInv, [Next]_vars PROVE IInv'
    OBVIOUS
<1>1. CASE \E g \in Geoms : Resize(g)
    BY <1>1 DEF Resize, IInv, TypeOK, StrutsClamped
<1>2. CASE SetStruts
    <2>1. calls' \in 0..MaxCalls /\ UNCHANGED <<geom, align, wm>>
        BY <1>2, StrutsAssumptions DEF SetStruts, IInv, TypeOK
    <2>2. CASE ~StrutAtom \/ (SupportsCutout(wm) /\ ~HasEdge(align))
        BY <1>2, <2>1, <2>2 DEF SetStruts, IInv, TypeOK, StrutsClamped
    <2>3. CASE ~(~StrutAtom \/ (SupportsCutout(wm) /\ ~HasEdge(align)))
               /\ SupportsCutout(wm)
        <3>. DEFINE wide == IF wideInit THEN isWide ELSE WideNow(geom, wm)
        <3>1. wide \in BOOLEAN
            BY DEF IInv, TypeOK, WideNow
        <3>2. /\ wideInit' = TRUE /\ isWide' = wide
              /\ Write(CutoutSizes(geom, align, wide)) /\ lastGeom' = geom
            BY <1>2, <2>3 DEF SetStruts
        <3>3. Clamped(CutoutSizes(geom, align, wide))
            BY <3>1, ComputedClamped DEF IInv, TypeOK
        <3>. QED BY <2>1, <3>1, <3>2, <3>3, WriteClamped
                 DEF IInv, TypeOK, StrutsClamped
    <2>4. CASE ~(~StrutAtom \/ (SupportsCutout(wm) /\ ~HasEdge(align)))
               /\ ~SupportsCutout(wm)
        <3>1. /\ Write(GenericSizes(geom)) /\ lastGeom' = geom
              /\ UNCHANGED <<wideInit, isWide>>
            BY <1>2, <2>4 DEF SetStruts
        <3>2. Clamped(GenericSizes(geom))
            BY ComputedClamped DEF IInv, TypeOK
        <3>. QED BY <2>1, <3>1, <3>2, WriteClamped
                 DEF IInv, TypeOK, StrutsClamped
    <2>. QED BY <2>2, <2>3, <2>4
<1>3. CASE UNCHANGED vars
    BY <1>3 DEF vars, IInv, TypeOK, StrutsClamped
<1>. QED BY <1>1, <1>2, <1>3 DEF Next

\* set_struts keeps geometry, alignment, the static and both properties well
\* typed, for every display size and set of geometries.
THEOREM TypeCorrect == Spec => []TypeOK
<1>1. IInv => TypeOK
    BY DEF IInv
<1>. QED BY InitIInv, NextIInv, <1>1, PTL DEF Spec

\* Every value set_struts writes to _NET_WM_STRUT and _NET_WM_STRUT_PARTIAL
\* lies within the display, whatever geometry, alignment and WM it runs
\* under and however often it runs.
THEOREM StrutsClampedCorrect == Spec => []StrutsClamped
<1>1. IInv => StrutsClamped
    BY DEF IInv
<1>. QED BY InitIInv, NextIInv, <1>1, PTL DEF Spec
-----------------------------------------------------------------------------
(* The partial strut covers the window it was computed for.                *)

\* The four ways a partial strut p can reserve a band holding geometry g.
Covers(p, g) ==
    \/ /\ p["LEFT"] >= EndX(g)
       /\ p["LEFT_START_Y"] <= g.y /\ EndY(g) <= p["LEFT_END_Y"]
    \/ /\ DW - p["RIGHT"] <= g.x /\ p["RIGHT"] > 0
       /\ p["RIGHT_START_Y"] <= g.y /\ EndY(g) <= p["RIGHT_END_Y"]
    \/ /\ p["TOP"] >= EndY(g)
       /\ p["TOP_START_X"] <= g.x /\ EndX(g) <= p["TOP_END_X"]
    \/ /\ DH - p["BOTTOM"] <= g.y /\ p["BOTTOM"] > 0
       /\ p["BOTTOM_START_X"] <= g.x /\ EndX(g) <= p["BOTTOM_END_X"]

\* On the screen, clamping leaves each coordinate of the window as it is.
LEMMA OnScreenClamps ==
    ASSUME NEW g \in Geoms, OnScreen(g)
    PROVE  /\ Clamp(g.x, 0, DW) = g.x /\ Clamp(EndX(g), 0, DW) = EndX(g)
           /\ Clamp(g.y, 0, DH) = g.y /\ Clamp(EndY(g), 0, DH) = EndY(g)
           /\ g.x <= DW /\ g.y <= DH
BY StrutsAssumptions DEF OnScreen, Clamp, EndX, EndY

\* Each band computed from an on-screen window covers it, or reserves
\* nothing: the right and bottom bands are empty only for a window of
\* width (height) zero at the right (bottom) edge of the screen.
LEMMA BandCovers ==
    ASSUME NEW g \in Geoms, OnScreen(g), NEW z \in Bands(g),
           \E e \in Edges : z[e] # 0
    PROVE  Covers(z, g)
<1>0. /\ g.x \in Int /\ g.y \in Int /\ g.w \in Nat /\ g.h \in Nat
      /\ DW \in Nat /\ DH \in Nat
    BY StrutsAssumptions
<1>1. CASE z = LeftBand(g)
    <2>1. /\ z["LEFT"] = EndX(g)
          /\ z["LEFT_START_Y"] = g.y /\ z["LEFT_END_Y"] = EndY(g)
        BY <1>1, OnScreenClamps DEF LeftBand, Zero, Slots, Edges
    <2>. QED
        BY <1>0, <2>1 DEF Covers, EndX, EndY
<1>2. CASE z = RightBand(g)
    <2>1. /\ z["RIGHT"] = DW - g.x /\ z["LEFT"] = 0 /\ z["TOP"] = 0
          /\ z["BOTTOM"] = 0
          /\ z["RIGHT_START_Y"] = g.y /\ z["RIGHT_END_Y"] = EndY(g)
        BY <1>2, OnScreenClamps DEF RightBand, Zero, Slots, Edges
    <2>2. z["RIGHT"] # 0
        BY <2>1, Zenon DEF Edges
    <2>. QED
        BY <1>0, <2>1, <2>2 DEF Covers, OnScreen, EndX, EndY
<1>3. CASE z = TopBand(g)
    <2>1. /\ z["TOP"] = EndY(g)
          /\ z["TOP_START_X"] = g.x /\ z["TOP_END_X"] = EndX(g)
        BY <1>3, OnScreenClamps DEF TopBand, Zero, Slots, Edges
    <2>. QED
        BY <1>0, <2>1 DEF Covers, EndX, EndY
<1>4. CASE z = BottomBand(g)
    <2>1. /\ z["BOTTOM"] = DH - g.y /\ z["LEFT"] = 0 /\ z["TOP"] = 0
          /\ z["RIGHT"] = 0
          /\ z["BOTTOM_START_X"] = g.x /\ z["BOTTOM_END_X"] = EndX(g)
        BY <1>4, OnScreenClamps DEF BottomBand, Zero, Slots, Edges
    <2>2. z["BOTTOM"] # 0
        BY <2>1, Zenon DEF Edges
    <2>. QED
        BY <1>0, <2>1, <2>2 DEF Covers, OnScreen, EndX, EndY
<1>5. CASE z = Zero
    BY <1>5 DEF Zero, Slots, Edges
<1>. QED BY <1>1, <1>2, <1>3, <1>4, <1>5 DEF Bands

LEMMA InitPartialFromLast == Init => PartialFromLast
BY DEF Init, PartialFromLast

LEMMA NextPartialFromLast ==
    TypeOK /\ PartialFromLast /\ [Next]_vars => PartialFromLast'
<1>. SUFFICES ASSUME TypeOK, PartialFromLast, [Next]_vars
              PROVE  PartialFromLast'
    OBVIOUS
<1>1. CASE \E g \in Geoms : Resize(g)
    BY <1>1 DEF Resize, PartialFromLast, Bands
<1>2. CASE SetStruts /\ (~StrutAtom \/ (SupportsCutout(wm) /\ ~HasEdge(align)))
    BY <1>2 DEF SetStruts, PartialFromLast, Bands
<1>3. CASE SetStruts /\ ~(~StrutAtom \/ (SupportsCutout(wm) /\ ~HasEdge(align)))
    \* Both branches write sizes computed from geom and set lastGeom to geom.
    <2>1. \E z \in Bands(geom) : Write(z) /\ lastGeom' = geom
        <3>. DEFINE wide == IF wideInit THEN isWide ELSE WideNow(geom, wm)
        <3>1. wide \in BOOLEAN
            BY DEF TypeOK, WideNow
        <3>2. CASE SupportsCutout(wm)
            BY <1>3, <3>1, <3>2, SizesChoice DEF SetStruts, TypeOK, Bands
        <3>3. CASE ~SupportsCutout(wm)
            BY <1>3, <3>3, SizesChoice DEF SetStruts, TypeOK, Bands
        <3>. QED BY <3>2, <3>3
    <2>2. CASE PartialAtom
        BY <2>1, <2>2 DEF Write, PartialFromLast
    <2>3. CASE ~PartialAtom
        \* partial stays NoProp: it was never written.
        BY <2>1, <2>3 DEF Write, PartialFromLast
    <2>. QED BY <2>2, <2>3
<1>3a. CASE UNCHANGED vars
    BY <1>3a DEF vars, PartialFromLast, Bands
<1>. QED BY <1>1, <1>2, <1>3, <1>3a DEF Next

\* Every partial strut set_struts writes for a window that lies on the
\* screen reserves a band along one edge that contains the window, in every
\* branch (cutout with either orientation, spec-compliant WMs), for every
\* display size and geometry; a strut that reserves nothing is allowed.
THEOREM StrutCoversWindowCorrect == Spec => []StrutCoversWindow
<1>1. TypeOK /\ PartialFromLast => StrutCoversWindow
    <2>. SUFFICES ASSUME TypeOK, PartialFromLast, partial # NoProp,
                         OnScreen(lastGeom), \E e \in Edges : partial[e] # 0
                  PROVE  Covers(partial, lastGeom)
        BY DEF StrutCoversWindow, Covers
    <2>. QED BY BandCovers DEF TypeOK, PartialFromLast
<1>. QED BY TypeCorrect, InitPartialFromLast, NextPartialFromLast, <1>1,
            PTL DEF Spec

-----------------------------------------------------------------------------
(* The cutout branch keeps the axis it chose first.                        *)

\* The alignment and orientation for which the cutout branch docks the
\* window at the left or right edge.
VertSel(a, wide) ==
    IF wide THEN a \in {"MIDDLE_LEFT", "MIDDLE_RIGHT"}
            ELSE a \in LeftAligns \cup RightAligns

\* Each band reserves along one axis only.
LEMMA BandAxes ==
    ASSUME NEW g
    PROVE  /\ ~Reserves(LeftBand(g), Horizontal)
           /\ ~Reserves(RightBand(g), Horizontal)
           /\ ~Reserves(TopBand(g), Vertical)
           /\ ~Reserves(BottomBand(g), Vertical)
           /\ ~Reserves(Zero, Vertical) /\ ~Reserves(Zero, Horizontal)
BY DEF Reserves, Vertical, Horizontal, LeftBand, RightBand, TopBand,
       BottomBand, Zero, Slots, Edges

\* Which axis the cutout branch reserves along depends on the alignment and
\* the orientation, never on the geometry.
LEMMA CutoutAxis ==
    ASSUME NEW g, NEW a, NEW wide \in BOOLEAN
    PROVE  /\ VertSel(a, wide) => ~Reserves(CutoutSizes(g, a, wide), Horizontal)
           /\ ~VertSel(a, wide) => ~Reserves(CutoutSizes(g, a, wide), Vertical)
<1>1. CASE wide
    <2>1. CASE a \in {"MIDDLE_LEFT", "MIDDLE_RIGHT"}
        <3>1. CutoutSizes(g, a, wide) \in {LeftBand(g), RightBand(g)}
            BY <1>1, <2>1 DEF CutoutSizes, TopAligns, BottomAligns
        <3>. QED BY <1>1, <2>1, <3>1, BandAxes DEF VertSel
    <2>2. CASE a \notin {"MIDDLE_LEFT", "MIDDLE_RIGHT"}
        <3>1. CutoutSizes(g, a, wide) \in {TopBand(g), BottomBand(g), Zero}
            BY <1>1, <2>2 DEF CutoutSizes
        <3>. QED BY <1>1, <2>2, <3>1, BandAxes DEF VertSel
    <2>. QED BY <2>1, <2>2
<1>2. CASE ~wide
    <2>1. CASE a \in LeftAligns \cup RightAligns
        <3>1. CutoutSizes(g, a, wide) \in {LeftBand(g), RightBand(g)}
            BY <1>2, <2>1 DEF CutoutSizes, LeftAligns, RightAligns
        <3>. QED BY <1>2, <2>1, <3>1, BandAxes DEF VertSel
    <2>2. CASE a \notin LeftAligns \cup RightAligns
        <3>1. CutoutSizes(g, a, wide) \in {TopBand(g), BottomBand(g), Zero}
            BY <1>2, <2>2 DEF CutoutSizes, LeftAligns, RightAligns
        <3>. QED BY <1>2, <2>2, <3>1, BandAxes DEF VertSel
    <2>. QED BY <2>1, <2>2
<1>. QED BY <1>1, <1>2

\* Under a cutout WM the partial strut on the window, once written, is the
\* cutout reservation for lastGeom in the orientation stored in the static;
\* without the atom it is never written.
CutoutFrom ==
    /\ ~PartialAtom => partial = NoProp
    /\ SupportsCutout(wm) /\ partial # NoProp =>
           wideInit /\ partial = CutoutSizes(lastGeom, align, isWide)

LEMMA InitCutoutFrom == Init => CutoutFrom
BY DEF Init, CutoutFrom

LEMMA NextCutoutFrom == CutoutFrom /\ [Next]_vars => CutoutFrom'
<1>. SUFFICES ASSUME CutoutFrom, [Next]_vars PROVE CutoutFrom'
    OBVIOUS
<1>1. CASE \E g \in Geoms : Resize(g)
    BY <1>1 DEF Resize, CutoutFrom
<1>2. CASE SetStruts /\ (~StrutAtom \/ (SupportsCutout(wm) /\ ~HasEdge(align)))
    BY <1>2 DEF SetStruts, CutoutFrom
<1>3. CASE SetStruts /\ ~(~StrutAtom \/ (SupportsCutout(wm) /\ ~HasEdge(align)))
               /\ SupportsCutout(wm)
    <2>. DEFINE wide == IF wideInit THEN isWide ELSE WideNow(geom, wm)
    <2>1. /\ wideInit' = TRUE /\ isWide' = wide
          /\ Write(CutoutSizes(geom, align, wide)) /\ lastGeom' = geom
          /\ UNCHANGED <<align, wm>>
        BY <1>3 DEF SetStruts
    <2>. QED BY <1>3, <2>1 DEF Write, CutoutFrom
<1>4. CASE SetStruts /\ ~(~StrutAtom \/ (SupportsCutout(wm) /\ ~HasEdge(align)))
               /\ ~SupportsCutout(wm)
    <2>1. Write(GenericSizes(geom)) /\ UNCHANGED wm
        BY <1>4 DEF SetStruts
    <2>. QED BY <1>4, <2>1 DEF Write, CutoutFrom
<1>5. CASE UNCHANGED vars
    BY <1>5 DEF vars, CutoutFrom
<1>. QED BY <1>1, <1>2, <1>3, <1>4, <1>5 DEF Next

\* A call in the cutout branch after a write computes the new reservation
\* with the same orientation as the one on the window, so along the same
\* axis.
LEMMA AxisStep ==
    ASSUME TypeOK, CutoutFrom
    PROVE  [SetStruts /\ SupportsCutout(wm) =>
              /\ ~(Reserves(partial, Vertical) /\ Reserves(partial', Horizontal))
              /\ ~(Reserves(partial, Horizontal) /\ Reserves(partial', Vertical))]_vars
<1>. SUFFICES ASSUME SetStruts, SupportsCutout(wm),
                     Reserves(partial, Vertical) \/ Reserves(partial, Horizontal)
              PROVE  /\ Reserves(partial, Vertical) => ~Reserves(partial', Horizontal)
                     /\ Reserves(partial, Horizontal) => ~Reserves(partial', Vertical)
    BY DEF Reserves
<1>1. partial # NoProp
    BY DEF Reserves, NoProp, Vertical, Horizontal, Slots, Edges
<1>2. wideInit /\ partial = CutoutSizes(lastGeom, align, isWide)
    BY <1>1 DEF CutoutFrom
<1>3. isWide \in BOOLEAN
    BY DEF TypeOK
<1>4. CASE ~StrutAtom \/ ~HasEdge(align)
    \* the early returns leave the reservation as it is
    <2>1. partial' = partial
        BY <1>4 DEF SetStruts
    <2>. QED BY <1>2, <1>3, <2>1, CutoutAxis
<1>5. CASE StrutAtom /\ HasEdge(align)
    <2>1. PartialAtom
        BY <1>1 DEF CutoutFrom
    <2>2. partial' = CutoutSizes(geom, align, isWide)
        BY <1>2, <1>5, <2>1 DEF SetStruts, Write
    <2>. QED BY <1>2, <1>3, <2>2, CutoutAxis
<1>. QED BY <1>4, <1>5

\* Under a WM that honours cutouts, set_struts never moves conky's
\* reservation from the left or right edge to the top or bottom, or back,
\* however the window is resized, for every display, geometry and
\* alignment: the orientation is fixed by the first call in the static
\* is_wide_window.
THEOREM AxisStableCorrect == Spec => AxisStable
<1>1. Spec => []CutoutFrom
    BY InitCutoutFrom, NextCutoutFrom, PTL DEF Spec
<1>. QED BY <1>1, TypeCorrect, AxisStep, PTL DEF AxisStable

=============================================================================
