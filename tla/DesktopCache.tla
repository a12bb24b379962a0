---------------------------- MODULE DesktopCache ----------------------------
(***************************************************************************)
(* The desktop-state cache of conky's X11 output (src/src/output/x11.cc):  *)
(* info.x11.desktop.{current, number, all_names, name}, filled by          *)
(* init_x11 / get_x11_desktop_info(display, 0) and refreshed by           *)
(* get_x11_desktop_info(display, atom) on every PropertyNotify of the root *)
(* window.  The window manager is the other actor: it writes the three    *)
(* EWMH root properties at any time, the X server queues one              *)
(* PropertyNotify per write to every client that selected                 *)
(* PropertyChangeMask on the root, and conky re-reads the property when   *)
(* it handles the event.                                                  *)
(*                                                                         *)
(* Data is abstracted: a desktop name is a sequence of tokens of NameTok  *)
(* and the name list is the byte string with NUL separators; a CARDINAL   *)
(* keeps its integer value, because the code reads only its low byte.     *)
(***************************************************************************)
EXTENDS Naturals, Sequences, FiniteSets

CONSTANTS
    NameTok,     \* the bytes of desktop names (one token stands for a name)
    NUL,         \* the separator byte '\0' of _NET_DESKTOP_NAMES
    Bad,         \* a root property that is absent or of the wrong type/format/count
    None,        \* the atom None: XInternAtom(.., True) found no such atom
    CardVals,    \* CARDINAL values the WM may store in the two counters
    NameLists,   \* UTF8_STRING values the WM may store in _NET_DESKTOP_NAMES
    MaxChanges   \* bound on the number of property writes of the WM

Bytes == NameTok \cup {NUL}

\* The three root properties, named by their atoms.
Props == {"current", "number", "names"}

ASSUME DesktopCacheAssumptions ==
    /\ NUL \notin NameTok
    /\ CardVals \subseteq Nat
    /\ NameLists \subseteq Seq(Bytes)
    /\ Bad \notin CardVals
    /\ Bad \notin NameLists
    /\ MaxChanges \in Nat
    /\ None \notin Props

VARIABLES
    atomsExist,   \* the WM has interned the _NET_* desktop atoms on the server
    srvCurrent,   \* _NET_CURRENT_DESKTOP on the root (0-based), or Bad
    srvNumber,    \* _NET_NUMBER_OF_DESKTOPS on the root, or Bad
    srvNames,     \* _NET_DESKTOP_NAMES on the root, or Bad
    phase,        \* conky: "down" before init_x11, "reading" after the reads
                  \*   of get_x11_desktop_info(0), "up" once the root's
                  \*   PropertyChangeMask is selected
    atoms,        \* the static atom_current/atom_number/atom_names
    current,      \* info.x11.desktop.current (1-based)
    number,       \* info.x11.desktop.number
    allNames,     \* info.x11.desktop.all_names
    name,         \* info.x11.desktop.name
    pending,      \* PropertyNotify events queued for conky, oldest first
    missed,       \* history: properties written while conky was between its
                  \*   reads and the selection of PropertyChangeMask
    changes       \* number of WM writes so far (bounded by MaxChanges)

vars == <<atomsExist, srvCurrent, srvNumber, srvNames, phase, atoms, current,
          number, allNames, name, pending, missed, changes>>
srvVars == <<atomsExist, srvCurrent, srvNumber, srvNames>>
cacheVars == <<current, number, allNames, name>>

-----------------------------------------------------------------------------
(* Conversions done by the code.                                           *)

\* A format-32 property is returned as an array of long; the code reads it
\* through an unsigned char *, so prop[0] is the low byte of the value (on a
\* little-endian build, the ones conky ships for).
LowByte(v) == v % 256

\* get_x11_desktop_current_name: counting NULs, the name of desktop k is
\* the run of non-NUL bytes that ends at the k-th NUL (j is left just after
\* the (k-1)-th); a desktop whose name lacks its NUL has no name.
NulCount(s, i) == Cardinality({q \in 1..i : s[q] = NUL})
HasSegment(s, k) == \E p \in 1..Len(s) : s[p] = NUL /\ NulCount(s, p) = k
SegEnd(s, k) == CHOOSE p \in 1..Len(s) : s[p] = NUL /\ NulCount(s, p) = k
SegLen(s, k) ==
    Cardinality({q \in 1..SegEnd(s, k) : s[q] # NUL /\ NulCount(s, q) = k - 1})
Segment(s, k) == SubSeq(s, SegEnd(s, k) - SegLen(s, k), SegEnd(s, k) - 1)
CurrentName(s, k, old) == IF HasSegment(s, k) THEN Segment(s, k) ELSE old

\* get_x11_desktop_current / _number / _names: a read that fails any of the
\* type, format and count checks leaves the cached field unchanged.
\* Mutant: _NET_CURRENT_DESKTOP stored 0-based, without the + 1.
ReadCurrentZeroBased(old) == IF srvCurrent # Bad THEN LowByte(srvCurrent) ELSE old
ReadCurrent(old) == IF srvCurrent # Bad THEN LowByte(srvCurrent) + 1 ELSE old
ReadNumber(old) == IF srvNumber # Bad THEN LowByte(srvNumber) ELSE old
\* Mutant: _NET_DESKTOP_NAMES read without the check that it holds an item.
ReadNamesAcceptsEmpty(old) == IF srvNames # Bad THEN srvNames ELSE old
ReadNames(old) ==
    IF srvNames # Bad /\ Len(srvNames) > 0 THEN srvNames ELSE old

PendingSet == {pending[i] : i \in 1..Len(pending)}
Resolved == \A p \in Props : atoms[p] = p

-----------------------------------------------------------------------------
Init ==
    /\ atomsExist \in BOOLEAN
    /\ srvCurrent \in IF atomsExist THEN CardVals \cup {Bad} ELSE {Bad}
    /\ srvNumber \in IF atomsExist THEN CardVals \cup {Bad} ELSE {Bad}
    /\ srvNames \in IF atomsExist THEN NameLists \cup {Bad} ELSE {Bad}
    /\ phase = "down"
    /\ atoms = [p \in Props |-> None]
    /\ current = 1
    /\ number = 1
    /\ allNames = <<>>
    /\ name = <<>>
    /\ pending = <<>>
    /\ missed = {}
    /\ changes = 0

\* A property write of the WM (XChangeProperty / XDeleteProperty on the
\* root): it interns the atom, and the server queues a PropertyNotify for
\* conky only once conky has selected PropertyChangeMask on the root.
Notify(p) ==
    /\ pending' = IF phase = "up" THEN Append(pending, p) ELSE pending
    /\ missed' = IF phase = "reading" THEN missed \cup {p} ELSE missed
    /\ atomsExist' = TRUE
    /\ changes' = changes + 1

WMSetCurrent(v) ==
    /\ changes < MaxChanges
    /\ srvCurrent' = v
    /\ Notify("current")
    /\ UNCHANGED <<srvNumber, srvNames, phase, atoms, cacheVars>>

WMSetNumber(v) ==
    /\ changes < MaxChanges
    /\ srvNumber' = v
    /\ Notify("number")
    /\ UNCHANGED <<srvCurrent, srvNames, phase, atoms, cacheVars>>

WMSetNames(v) ==
    /\ changes < MaxChanges
    /\ srvNames' = v
    /\ Notify("names")
    /\ UNCHANGED <<srvCurrent, srvNumber, phase, atoms, cacheVars>>

\* init_x11 resets the cache, then get_x11_desktop_info(display, 0) interns
\* the three atoms (None when they do not exist yet), reads the three
\* properties and derives the current name.
InitX11 ==
    /\ phase = "down"
    /\ phase' = "reading"
    /\ atoms' = [p \in Props |-> IF atomsExist THEN p ELSE None]
    /\ current' = IF atomsExist THEN ReadCurrent(1) ELSE 1
    /\ number' = IF atomsExist THEN ReadNumber(1) ELSE 1
    /\ allNames' = IF atomsExist THEN ReadNames(<<>>) ELSE <<>>
    /\ name' = CurrentName(allNames', current', <<>>)
    /\ UNCHANGED <<srvVars, pending, missed, changes>>

\* The tail of get_x11_desktop_info(display, 0): PropertyChangeMask is added
\* to the root's event mask, after the reads.
SelectRootPropertyMask ==
    /\ phase = "reading"
    /\ phase' = "up"
    /\ UNCHANGED <<srvVars, atoms, cacheVars, pending, missed, changes>>

\* Mutant: the handler of _NET_CURRENT_DESKTOP that does not re-derive the name.
HandleCurrentKeepsName ==
    /\ pending # <<>>
    /\ Head(pending) = atoms["current"]
    /\ pending' = Tail(pending)
    /\ current' = IF srvCurrent # Bad THEN LowByte(srvCurrent) + 1 ELSE current
    /\ UNCHANGED <<srvVars, phase, atoms, number, allNames, name, missed,
                   changes>>

\* Mutant: the else-if branch for atom_number calling the reader of the current
\* desktop (a copy-and-paste slip).
HandleNumberReadsCurrent ==
    /\ pending # <<>>
    /\ Head(pending) # atoms["current"]
    /\ Head(pending) = atoms["number"]
    /\ pending' = Tail(pending)
    /\ current' = IF srvCurrent # Bad THEN LowByte(srvCurrent) + 1 ELSE current
    /\ UNCHANGED <<srvVars, phase, atoms, number, allNames, name, missed,
                   changes>>

\* The event loop hands the oldest PropertyNotify to
\* get_x11_desktop_info(display, atom), which compares the atom with the
\* cached ones in the order current, number, names.
HandleCurrent ==
    /\ pending # <<>>
    /\ Head(pending) = atoms["current"]
    /\ pending' = Tail(pending)
    /\ current' = ReadCurrent(current)
    /\ name' = CurrentName(allNames, current', name)
    /\ UNCHANGED <<srvVars, phase, atoms, number, allNames, missed, changes>>

HandleNumber ==
    /\ pending # <<>>
    /\ Head(pending) # atoms["current"]
    /\ Head(pending) = atoms["number"]
    /\ pending' = Tail(pending)
    /\ number' = ReadNumber(number)
    /\ UNCHANGED <<srvVars, phase, atoms, current, allNames, name, missed,
                   changes>>

HandleNames ==
    /\ pending # <<>>
    /\ Head(pending) \notin {atoms["current"], atoms["number"]}
    /\ Head(pending) = atoms["names"]
    /\ pending' = Tail(pending)
    /\ allNames' = ReadNames(allNames)
    /\ name' = CurrentName(allNames', current, name)
    /\ UNCHANGED <<srvVars, phase, atoms, current, number, missed, changes>>

\* An atom that matches none of the cached ones is ignored.
HandleOther ==
    /\ pending # <<>>
    /\ Head(pending) \notin {atoms[p] : p \in Props}
    /\ pending' = Tail(pending)
    /\ UNCHANGED <<srvVars, phase, atoms, cacheVars, missed, changes>>

Next ==
    \/ \E v \in CardVals \cup {Bad} : WMSetCurrent(v) \/ WMSetNumber(v)
    \/ \E v \in NameLists \cup {Bad} : WMSetNames(v)
    \/ InitX11
    \/ SelectRootPropertyMask
    \/ HandleCurrent
    \/ HandleNumber
    \/ HandleNames
    \/ HandleOther

Spec == Init /\ [][Next]_vars


-----------------------------------------------------------------------------
(* Properties                                                              *)

TypeOK ==
    /\ atomsExist \in BOOLEAN
    /\ srvCurrent \in CardVals \cup {Bad}
    /\ srvNumber \in CardVals \cup {Bad}
    /\ srvNames \in NameLists \cup {Bad}
    /\ phase \in {"down", "reading", "up"}
    /\ atoms \in [Props -> Props \cup {None}]
    /\ current \in 1..256
    /\ number \in Nat
    /\ allNames \in Seq(Bytes)
    /\ name \in Seq(Bytes)
    /\ pending \in Seq(Props)
    /\ missed \subseteq Props
    /\ changes \in 0..MaxChanges

\* The cached field of property p agrees with the well-formed value on the
\* root, as the code decodes it.
Fresh(p) ==
    /\ p = "current" => (srvCurrent # Bad => current = LowByte(srvCurrent) + 1)
    /\ p = "number" => (srvNumber # Bad => number = LowByte(srvNumber))
    /\ p = "names" => (srvNames # Bad /\ Len(srvNames) > 0 => allNames = srvNames)

\* Once init_x11 has read the properties with resolved atoms, every property
\* whose last write has been handled (no PropertyNotify for it is queued)
\* is cached with its current root value: a handler never reads the wrong
\* property, never skips a re-read, and no write is lost, except the writes
\* that fell between the reads of get_x11_desktop_info(0) and its
\* XChangeWindowAttributes (the set missed).
CacheFresh ==
    phase # "down" /\ Resolved =>
        \A p \in Props \ (PendingSet \cup missed) : Fresh(p)

\* The cached current name is always the name that the cached name list
\* gives the cached current desktop, whenever the list has one for it: the
\* handlers of _NET_CURRENT_DESKTOP and of _NET_DESKTOP_NAMES both re-derive it.
NameDerived ==
    HasSegment(allNames, current) => name = Segment(allNames, current)

\* Spec 4.6: the cache is "refreshed on property-change notifications".
\* Stated without the exemption of CacheFresh: once conky has read the
\* properties with resolved atoms, every property with no PropertyNotify
\* queued for it is cached with its root value.  This is the promise that
\* the read-then-select order of get_x11_desktop_info(0) breaks.
NoUpdateLost ==
    phase # "down" /\ Resolved => \A p \in Props \ PendingSet : Fresh(p)

\* Spec 4.6: the cache tracks the WM's desktop properties whether or not
\* the WM had interned the _NET_* atoms when conky started: after init, a
\* property whose write has been handled is cached with its root value.
TracksLateWM ==
    phase # "down" => \A p \in Props \ (PendingSet \cup missed) : Fresh(p)

-----------------------------------------------------------------------------
(* Refinement of the abstract cache                                        *)

\* The decoding the cache promises: the low byte of a CARDINAL, one more for
\* the 1-based current desktop; a non-empty name list as it is; a property
\* that is missing or malformed leaves the field as it was.
Decoded(p, v, old) ==
    IF v = Bad THEN old
    ELSE CASE p = "current" -> LowByte(v) + 1
           [] p = "number" -> LowByte(v)
           [] OTHER -> IF Len(v) > 0 THEN v ELSE old

AbstractCache == INSTANCE DesktopCacheAbstract
    WITH root <- [current |-> srvCurrent, number |-> srvNumber,
                  names |-> srvNames],
         cache <- [current |-> current, number |-> number, names |-> allNames],
         Vals <- [current |-> CardVals \cup {Bad}, number |-> CardVals \cup {Bad},
                  names |-> NameLists \cup {Bad}],
         Roots <- [current : CardVals \cup {Bad}, number : CardVals \cup {Bad},
                   names : NameLists \cup {Bad}],
         Blank <- [current |-> 1, number |-> 1, names |-> << >>],
         Decode <- Decoded

\* conky's cache implements the abstract one: init_x11 and every handler
\* of get_x11_desktop_info change the cached fields only by re-reading
\* properties from the root as it is at that step, and no other step of
\* conky touches them.
ImplementsAbstractCache == AbstractCache!Spec

=============================================================================
