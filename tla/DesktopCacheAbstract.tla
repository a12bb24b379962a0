------------------------- MODULE DesktopCacheAbstract -------------------------
(***************************************************************************)
(* What conky's desktop cache promises, without events or atoms: the WM    *)
(* writes root properties, and the cache changes only by re-reading some   *)
(* properties from the root as they are at that moment, decoding each;     *)
(* the cache is never filled from a value the property does not hold, nor  *)
(* from another property.  DesktopCache implements it (the refinement is   *)
(* stated and proved in DesktopCache and DesktopCache_proofs).            *)
(***************************************************************************)
EXTENDS Naturals

CONSTANTS
    Props,           \* the cached root properties
    Vals,            \* Vals[p]: the values property p may hold (Bad included)
    Roots,           \* the root properties conky may start under
    Blank,           \* the cache before anything is read
    Decode(_, _, _)  \* Decode(p, v, old): the cached field of p after a read
                     \*   of the root value v, old when v is not well formed

VARIABLES
    root,    \* the root window's properties, by property
    cache    \* conky's cached fields, by property

absVars == <<root, cache>>

Init ==
    /\ root \in Roots
    /\ cache = Blank

\* The WM writes one root property.
Write(p, v) ==
    /\ root' = [root EXCEPT ![p] = v]
    /\ UNCHANGED cache

\* conky re-reads the properties of P, all from the same root.
Refresh(P) ==
    /\ cache' = [p \in Props |-> IF p \in P THEN Decode(p, root[p], cache[p])
                                            ELSE cache[p]]
    /\ UNCHANGED root

Next ==
    \/ \E p \in Props : \E v \in Vals[p] : Write(p, v)
    \/ \E P \in SUBSET Props : Refresh(P)

Spec == Init /\ [][Next]_absVars

=============================================================================
