--------------------------- MODULE MC_DesktopCache ---------------------------
(* Small instance of DesktopCache for TLC.  Two name tokens a, b; the name  *)
(* lists cover a well-terminated list, one whose last name lacks its NUL,   *)
(* an empty name and the empty (rejected) list.                            *)
EXTENDS DesktopCache

CONSTANTS a, b

\* Desktop indices and counts: the first three desktops.
MCCardVals == {0, 1, 2}

MCNameLists ==
    { <<a, NUL, b, NUL>>,
      <<a, NUL, b>>,
      <<NUL, a, NUL>>,
      <<>> }
=============================================================================
