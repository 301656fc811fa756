--------------------------- MODULE MCAlertEngine ---------------------------
(* Two conditions, two texts at Warn and one at Crit, three updates of      *)
(* damping, a log of two lines.                                             *)
EXTENDS AlertEngine

CONSTANTS k1, k2

MCKeys      == {k1, k2}
MCWarnTexts == {1, 3}
MCCritTexts == {2}
MCSymmetry  == Permutations(MCKeys)
=============================================================================
