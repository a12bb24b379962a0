------------------------- MODULE MC_DesktopResolver -------------------------
(***************************************************************************)
(* A screen with an override-redirect overlay o and two display-sized      *)
(* windows a and b under the root (b unmapped at first), and a head-sized  *)
(* window h inside a: a file manager's desktop on a two-head display.      *)
(***************************************************************************)
EXTENDS DesktopResolver, TLC

CONSTANTS r, o, a, b, h

MCWin == {r, o, a, b, h}
MCKids == (r :> << o, a, b >>) @@ (a :> << h >>) @@ (o :> << >>)
          @@ (b :> << >>) @@ (h :> << >>)
MCSize == (r :> "display") @@ (o :> "display") @@ (a :> "display")
          @@ (b :> "display") @@ (h :> "head")
MCHeads == << "head", "display" >>
MCVRoots == << a >>
=============================================================================
