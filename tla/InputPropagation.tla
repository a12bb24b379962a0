-------------------------- MODULE InputPropagation --------------------------
(***************************************************************************)
(* Forwarding of input events that conky does not consume to the window   *)
(* beneath it: propagate_x11_event, propagate_xinput_event, ev_to_mask,    *)
(* query_x11_windows, x11_atom_window_list and query_x11_windows_at_pos of *)
(* src/src/output/x11.cc.                                                  *)
(*                                                                         *)
(* conky handles one event at a time, but every Xlib call is a round trip  *)
(* to a server that other clients change meanwhile: the window manager     *)
(* maps, unmaps, raises and destroys windows between the enumeration of    *)
(* the windows and the hit test of each one.  The handler is therefore     *)
(* split into its server round trips: the enumeration (Receive), one step  *)
(* per window of the hit-test loop (HitTest), and the translation and      *)
(* XSendEvent (Forward).                                                   *)
(*                                                                         *)
(* propagate_x11_event calls query_x11_windows_at_pos without its eager    *)
(* argument, whose default (false, in x11.h) the spec makes opt-in; the    *)
(* enumeration is then the WM's client list read by x11_atom_window_list, *)
(* which its format test at line 1638 always empties.  With Eager = FALSE *)
(* the hit-test loop never runs; Eager = TRUE models the opt-in walk.     *)
(***************************************************************************)
EXTENDS Naturals, Sequences, SequencesExt

CONSTANTS
    Root,         \* window.root
    Desktop,      \* window.desktop (Root itself when there is no desktop window)
    Conky,        \* window.window, conky's own overlay
    Clients,      \* other clients' windows, which the WM may change
    Parent,       \* the window tree: Parent[w] for every window but Root
    Hinted,       \* the windows that carry WM_HINTS
    Geom,         \* absolute geometry [x, y, w, h] of every window
    Events,       \* the events the server may deliver to conky
    Eager,        \* the eager argument query_x11_windows_at_pos is called with
    AttrGarbage,  \* what an uninitialised XWindowAttributes may hold
    Coords,       \* what an uninitialised int coordinate may hold
    MaxEvents,    \* bound on the events delivered
    MaxEnv        \* bound on the WM's changes

Wins == {Root, Desktop, Conky} \cup Clients

\* Atom numbers and formats of the X protocol.
XA_WINDOW == 33
Formats == {0, 8, 16, 32}

CoreInput ==
    {"KeyPress", "KeyRelease", "ButtonPress", "ButtonRelease",
     "MotionNotify", "EnterNotify", "LeaveNotify"}
XIForwarded == {"XI_Motion", "XI_ButtonPress", "XI_ButtonRelease"}

ASSUME InputPropagationAssumptions ==
    /\ Root \notin {Conky} \cup Clients
    /\ Desktop \notin {Conky} \cup Clients
    /\ Conky \notin Clients
    /\ Parent \in [Wins \ {Root} -> Wins]
    /\ Hinted \subseteq Wins \ {Root}
    /\ Geom \in [Wins -> [x : Int, y : Int, w : Nat, h : Nat]]
    /\ Eager \in BOOLEAN
    /\ MaxEvents \in Nat /\ MaxEnv \in Nat

VARIABLES
    exists,     \* server: the window has not been destroyed
    viewable,   \* server: map_state == IsViewable
    stack,      \* server: every window but Root, bottom to top
    wmLists,    \* server: the WM publishes _NET_CLIENT_LIST(_STACKING)
    focus,      \* server: the input focus
    sent,       \* the last synthetic event conky sent, or NoSend
    pc,         \* "idle", or "scan" while the hit-test loop runs
    ev,         \* the event being propagated
    list,       \* the result of query_x11_windows
    idx,        \* the loop index of query_x11_windows_at_pos
    attr,       \* the XWindowAttributes attr of the loop, or Uninit
    below,      \* the windows the hit test accepted
    top,        \* the topmost window under the pointer when the event came
    nEvents, nEnv

vars == <<exists, viewable, stack, wmLists, focus, sent, pc, ev, list, idx,
          attr, below, top, nEvents, nEnv>>
srvVars == <<exists, viewable, stack, wmLists>>

NoEvent == [kind |-> "none", type |-> "none", button |-> 0, x |-> 0, y |-> 0,
            window |-> Root, cookie |-> FALSE]
\* attr before its first successful XGetWindowAttributes.
Uninit == [w |-> -1, h |-> -1, viewable |-> FALSE]
NoSend == [target |-> Root, path |-> "none", x |-> 0, y |-> 0, px |-> 0,
           py |-> 0, mask |-> {}, delivered |-> FALSE, top |-> Root]

-----------------------------------------------------------------------------
(* Server-side helpers.                                                    *)

\* XQueryTree's children of w, bottom to top.
Kids(w) == SelectSeq(stack, LAMBDA c : Parent[c] = w)

\* The window property the WM writes for _NET_CLIENT_LIST(_STACKING): type
\* XA_WINDOW, format 32, the managed clients bottom to top.
ClientListProp ==
    IF wmLists
    THEN [type |-> XA_WINDOW, format |-> 32,
          items |-> SelectSeq(stack, LAMBDA c : c \in Hinted /\ exists[c])]
    ELSE [type |-> 0, format |-> 0, items |-> << >>]

\* A point strictly inside the rectangle of w.
Inside(w, p) ==
    /\ Geom[w].x <= p.x /\ p.x < Geom[w].x + Geom[w].w
    /\ Geom[w].y <= p.y /\ p.y < Geom[w].y + Geom[w].h

\* What the spec asks for: the topmost viewable window under the pointer
\* other than conky's own, else the desktop.
Topmost(p) ==
    LET under == SelectSeq(stack, LAMBDA c : /\ c # Conky /\ exists[c]
                                             /\ viewable[c] /\ Inside(c, p))
    IN IF under = << >> THEN Desktop ELSE Last(under)

-----------------------------------------------------------------------------
(* conky's code.                                                           *)

\* ev_to_mask: the event mask XSendEvent is called with.
EvToMask(type, button) ==
    CASE type = "KeyPress" -> {"KeyPressMask"}
      [] type = "KeyRelease" -> {"KeyReleaseMask"}
      [] type = "ButtonPress" -> {"ButtonPressMask"}
      [] type = "ButtonRelease" ->
            IF button \in 1..5
            THEN {"ButtonReleaseMask", "Button" \o ToString(button) \o "MotionMask"}
            ELSE {"ButtonReleaseMask"}
      [] type = "EnterNotify" -> {"EnterWindowMask"}
      [] type = "LeaveNotify" -> {"LeaveWindowMask"}
      [] type = "MotionNotify" -> {"PointerMotionMask"}
      [] OTHER -> {}

\* x11_atom_window_list: the list is taken only when the read succeeded and
\* actual_format equals XA_WINDOW (the code compares the format, not the
\* type, with XA_WINDOW).
AtomWindowList(prop) ==
    IF prop.format = XA_WINDOW /\ Len(prop.items) > 0 THEN prop.items ELSE << >>

\* The eager fallback of query_x11_windows: a stack of windows, popped at
\* the back; a window whose XQueryTree succeeds pushes its children and is
\* kept when it has WM hints.
\* Mutant: the walk keeps every window it reaches, not only those with WM
\* hints.
RECURSIVE WalkAll(_, _)
WalkAll(queue, result) ==
    IF queue = << >> THEN result
    ELSE LET cur == Last(queue)
         IN IF exists[cur]
            THEN WalkAll(Front(queue) \o Kids(cur), Append(result, cur))
            ELSE WalkAll(Front(queue), result)

RECURSIVE Walk(_, _)
Walk(queue, result) ==
    IF queue = << >> THEN result
    ELSE LET cur == Last(queue)
         IN IF exists[cur]
            THEN Walk(Front(queue) \o Kids(cur),
                      IF cur \in Hinted THEN Append(result, cur) ELSE result)
            ELSE Walk(Front(queue), result)

\* query_x11_windows: _NET_CLIENT_LIST_STACKING, then _NET_CLIENT_LIST, then
\* (when eager) the walk from the virtual root, which is Root since no
\* virtual-root list is ever read.
QueryWindows ==
    LET stacking == AtomWindowList(ClientListProp)
        clients == AtomWindowList(ClientListProp)
    IN CASE stacking # << >> -> stacking
         [] clients # << >> -> clients
         [] Eager -> Walk(<<Root>>, << >>)
         [] OTHER -> << >>

\* The position of the pointer in root coordinates.
RootPos(e) == [x |-> e.x, y |-> e.y]

\* propagate_x11_event and propagate_xinput_event up to the enumeration:
\* an event that is not forwarded returns at once.
Forwardable(e) ==
    \/ e.kind = "core" /\ e.type \in CoreInput
    \/ e.kind = "xi" /\ e.cookie /\ e.type \in XIForwarded

Receive(e) ==
    /\ pc = "idle"
    /\ nEvents < MaxEvents
    /\ Forwardable(e)
    /\ ev' = e
    /\ list' = QueryWindows
    /\ idx' = 1
    /\ below' = << >>
    /\ top' = Topmost(RootPos(e))
    /\ pc' = "scan"
    /\ nEvents' = nEvents + 1
    /\ UNCHANGED <<srvVars, focus, sent, attr, nEnv>>

\* An event propagate_x11_event drops: not one of the seven input types, a
\* GenericEvent of XInput without cookie, or an XInput event other than
\* motion and buttons.
Ignore(e) ==
    /\ pc = "idle"
    /\ nEvents < MaxEvents
    /\ ~Forwardable(e)
    /\ nEvents' = nEvents + 1
    /\ UNCHANGED <<srvVars, focus, sent, pc, ev, list, idx, attr, below, top,
                   nEnv>>

\* One iteration of query_x11_windows_at_pos.  On a destroyed window
\* XTranslateCoordinates fails and leaves pos_x, pos_y uninitialised, and
\* XGetWindowAttributes fails and leaves attr as the previous iteration set
\* it (uninitialised on the first).
HitTest ==
    /\ pc = "scan"
    /\ idx <= Len(list)
    /\ LET w == list[idx]
           p == RootPos(ev)
       IN \E pos \in IF exists[w] THEN {[x |-> Geom[w].x, y |-> Geom[w].y]}
                                  ELSE [x : Coords, y : Coords],
             a \in IF exists[w]
                   THEN {[w |-> Geom[w].w, h |-> Geom[w].h, viewable |-> viewable[w]]}
                   ELSE IF attr = Uninit THEN AttrGarbage ELSE {attr} :
            LET hit == /\ pos.x <= p.x /\ pos.y <= p.y
                       /\ pos.x + a.w >= p.x /\ pos.y + a.h >= p.y
                       /\ a.viewable
            IN /\ attr' = a
               /\ below' = IF hit THEN Append(below, w) ELSE below
    /\ idx' = idx + 1
    /\ UNCHANGED <<srvVars, focus, sent, pc, ev, list, top, nEvents, nEnv>>

\* Mutant: the erase of conky's own window from the hits left out.
HitsKeepConky(b) == b

\* std::remove_if / erase: conky's own window is dropped from the hits.
Hits(b) == Remove(b, Conky)

\* The core path: XTranslateCoordinates(root -> target) when a window was
\* found; it fails and leaves x_root, y_root on a destroyed target.
CoreCoords(p, found, target) ==
    IF found /\ exists[target]
    THEN [x |-> p.x - Geom[target].x, y |-> p.y - Geom[target].y]
    ELSE p

\* The XInput path: ev->pos, or the translation desktop -> ev->event; both
\* are relative to ev->event, the window the event was reported on.
XICoords(e) == [x |-> e.x - Geom[e.window].x, y |-> e.y - Geom[e.window].y]

\* The end of the handler: the last hit becomes the target (else
\* window.desktop on the core path, window.root on the XInput path), the
\* coordinates are translated, the pointer is ungrabbed and the event sent;
\* a core ButtonPress also moves the input focus to the target.
Forward ==
    /\ pc = "scan"
    /\ idx > Len(list)
    /\ LET hits == Hits(below)
           p == RootPos(ev)
           core == ev.kind = "core"
           target == IF hits # << >> THEN Last(hits)
                     ELSE IF core THEN Desktop ELSE Root
           rel == IF core THEN CoreCoords(p, hits # << >>, target) ELSE XICoords(ev)
       IN /\ sent' = [target |-> target, path |-> ev.kind, x |-> rel.x,
                      y |-> rel.y, px |-> p.x, py |-> p.y,
                      mask |-> IF core THEN EvToMask(ev.type, ev.button) ELSE {},
                      delivered |-> exists[target], top |-> top]
          /\ focus' = IF core /\ ev.type = "ButtonPress" /\ exists[target]
                      THEN target ELSE focus
    /\ pc' = "idle"
    /\ UNCHANGED <<srvVars, ev, list, idx, attr, below, top, nEvents,
                   nEnv>>

-----------------------------------------------------------------------------
(* The window manager and the other clients.                               *)

Destroy(w) ==
    /\ nEnv < MaxEnv /\ exists[w]
    /\ exists' = [exists EXCEPT ![w] = FALSE]
    /\ viewable' = [viewable EXCEPT ![w] = FALSE]
    /\ nEnv' = nEnv + 1
    /\ UNCHANGED <<stack, wmLists, focus, sent, pc, ev, list, idx, attr, below,
                   top, nEvents>>

SetMapped(w, b) ==
    /\ nEnv < MaxEnv /\ exists[w] /\ viewable[w] # b
    /\ viewable' = [viewable EXCEPT ![w] = b]
    /\ nEnv' = nEnv + 1
    /\ UNCHANGED <<exists, stack, wmLists, focus, sent, pc, ev, list, idx, attr,
                   below, top, nEvents>>

Raise(w) ==
    /\ nEnv < MaxEnv /\ exists[w] /\ Last(stack) # w
    /\ stack' = Append(Remove(stack, w), w)
    /\ nEnv' = nEnv + 1
    /\ UNCHANGED <<exists, viewable, wmLists, focus, sent, pc, ev, list, idx,
                   attr, below, top, nEvents>>

-----------------------------------------------------------------------------
Init ==
    /\ exists = [w \in Wins |-> TRUE]
    /\ viewable \in {f \in [Wins -> BOOLEAN] : f[Root] /\ f[Desktop] /\ f[Conky]}
    /\ stack \in {s \in [1..Cardinality(Wins \ {Root}) -> Wins \ {Root}] :
                    /\ ToSet(s) = Wins \ {Root}
                    /\ s[1] = Desktop \/ Desktop = Root}
    /\ wmLists \in BOOLEAN
    /\ focus = Root
    /\ sent = NoSend
    /\ pc = "idle"
    /\ ev = NoEvent
    /\ list = << >>
    /\ idx = 1
    /\ attr = Uninit
    /\ below = << >>
    /\ top = Root
    /\ nEvents = 0
    /\ nEnv = 0

Next ==
    \/ \E e \in Events : Receive(e) \/ Ignore(e)
    \/ HitTest
    \/ Forward
    \/ \E w \in Clients : Destroy(w) \/ Raise(w)
    \/ \E w \in Clients, b \in BOOLEAN : SetMapped(w, b)

Spec == Init /\ [][Next]_vars

-----------------------------------------------------------------------------
(* Properties                                                              *)

Attrs == [w : Nat, h : Nat, viewable : BOOLEAN]
Sends == [target : Wins, path : {"none", "core", "xi"}, x : Int, y : Int,
          px : Int, py : Int, mask : SUBSET STRING, delivered : BOOLEAN,
          top : Wins]

\* Besides the shapes of the variables: query_x11_windows only ever yields
\* windows that carry WM hints, and only those can be hit.
TypeOK ==
    /\ exists \in [Wins -> BOOLEAN] /\ viewable \in [Wins -> BOOLEAN]
    /\ stack \in Seq(Wins \ {Root}) /\ wmLists \in BOOLEAN
    /\ focus \in Wins /\ sent \in Sends
    /\ pc \in {"idle", "scan"} /\ ev \in Events \cup {NoEvent}
    /\ list \in Seq(Hinted) /\ below \in Seq(Hinted)
    /\ idx \in 1..Len(list) + 1
    /\ attr \in Attrs \cup {Uninit}
    /\ top \in Wins
    /\ nEvents \in 0..MaxEvents /\ nEnv \in 0..MaxEnv

\* Spec 8: propagate_x11_event and propagate_xinput_event never send an
\* event to conky's own window, whatever the stacking, the mapping and the
\* hints of the windows under the pointer.
NeverTargetsOverlay == sent.target # Conky

\* Spec 4.5.3: when the WM publishes its client lists, the core path sends
\* the event to the topmost viewable window under the pointer other than
\* conky's own (as the windows were when the event came), else to the
\* desktop.
ForwardsToTopmost ==
    sent.path = "core" /\ wmLists => sent.target = sent.top

=============================================================================
