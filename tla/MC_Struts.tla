---------------------------- MODULE MC_Struts ----------------------------
(***************************************************************************)
(* An 8x6 screen and window geometries that reach every branch of          *)
(* set_struts: thin and wide windows flush with a corner, a thin window    *)
(* near the top but away from both sides, and windows that stick out of    *)
(* the screen on the left, right and bottom.                               *)
(***************************************************************************)
EXTENDS Struts

G(x, y, w, h) == [x |-> x, y |-> y, w |-> w, h |-> h]

MCGeoms == {G(0, 0, 2, 4), G(0, 0, 4, 2), G(3, 0, 2, 3), G(-1, 4, 3, 3),
            G(7, 1, 3, 2)}
MCAligns == {"TOP_LEFT", "MIDDLE_RIGHT", "BOTTOM_MIDDLE", "MIDDLE_MIDDLE"}
MCWMs == {"kwin", "i3", "openbox"}
=============================================================================
