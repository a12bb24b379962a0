--------------------------- MODULE MC_WindowSetup ---------------------------
(***************************************************************************)
(* The resolver's screen of MC_DesktopResolver, followed by the creation   *)
(* of conky's window: hint sets that share _NET_WM_STATE and _WIN_LAYER,   *)
(* and a build with XInput and mouse events next to one with neither       *)
(* XInput nor XFixes.                                                      *)
(***************************************************************************)
EXTENDS WindowSetup, TLC

CONSTANTS r, o, a, b, h

MCWin == {r, o, a, b, h}
MCKids == (r :> << o, a, b >>) @@ (a :> << h >>) @@ (o :> << >>)
          @@ (b :> << >>) @@ (h :> << >>)
MCSize == (r :> "display") @@ (o :> "display") @@ (a :> "display")
          @@ (b :> "display") @@ (h :> "head")
MCHeads == << "head", "display" >>
MCVRoots == << a >>
MCHintSets == {{}, {"below", "sticky"}, {"undecorated", "above", "skip_pager"},
               {"below", "above", "skip_taskbar", "skip_pager"}}
MCBuilds == {[argb |-> TRUE, xinput |-> TRUE, mouse |-> TRUE, xshape |-> TRUE, xfixes |-> TRUE],
             [argb |-> FALSE, xinput |-> FALSE, mouse |-> TRUE, xshape |-> TRUE, xfixes |-> FALSE]}
=============================================================================
