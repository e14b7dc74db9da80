----------------------------- MODULE MCStateLock -----------------------------
(***************************************************************************)
(* Instances of StateLock for TLC: three launchers, the smallest number in *)
(* which two of them can race for a lock the third one holds or left.      *)
(***************************************************************************)
EXTENDS StateLock, TLC

CONSTANTS p1, p2, p3

MCLauncher == {p1, p2, p3}

\* Only for the runs without a liveness property.
MCSymmetry == Permutations(MCLauncher)
=============================================================================
