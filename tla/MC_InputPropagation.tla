------------------------ MODULE MC_InputPropagation ------------------------
(***************************************************************************)
(* Instances of InputPropagation for TLC: a 4x4 screen with conky's window *)
(* in the bottom-right quarter and two clients overlapping at (1,1).       *)
(***************************************************************************)
EXTENDS InputPropagation

CONSTANTS r, k, c1, c2

Rect(x, y, w, h) == [x |-> x, y |-> y, w |-> w, h |-> h]

\* No file manager's desktop window: window.desktop is the root.
MCDesktopRoot == r
MCParent == [w \in Wins \ {Root} |-> r]
MCGeom == [w \in Wins |->
             CASE w = k -> Rect(2, 2, 2, 2)
               [] w = c1 -> Rect(0, 0, 2, 2)
               [] w = c2 -> Rect(1, 1, 2, 2)
               [] OTHER -> Rect(0, 0, 4, 4)]

\* Managed windows: conky's (a normal or dock window) and the clients.
MCHintedNoDesktop == {k, c1, c2}

CoreEv(t, b, x, y) ==
    [kind |-> "core", type |-> t, button |-> b, x |-> x, y |-> y, window |-> r,
     cookie |-> FALSE]
XIEv(t, win, x, y, cookie) ==
    [kind |-> "xi", type |-> t, button |-> 1, x |-> x, y |-> y, window |-> win,
     cookie |-> cookie]

MCEvents ==
    {CoreEv("ButtonPress", 1, 1, 1), CoreEv("ButtonRelease", 1, 2, 2),
     CoreEv("Expose", 0, 1, 1), XIEv("XI_ButtonPress", k, 2, 2, TRUE),
     XIEv("XI_Motion", k, 2, 2, FALSE)}
\* Only events in the interior of the clients, where an inclusive and an
\* exclusive bound agree.
MCEventsInterior == {CoreEv("ButtonPress", 1, 1, 1)}

MCAttrGarbage ==
    {[w |-> 0, h |-> 0, viewable |-> FALSE], [w |-> 4, h |-> 4, viewable |-> TRUE]}
MCCoords == {0, 3}
=============================================================================
