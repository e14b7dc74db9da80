----------------------------- MODULE MCQemuFetch -----------------------------
(***************************************************************************)
(* Instances of QemuFetch for TLC: two processes and an archive of two     *)
(* files, so that a crash or an overlap can fall between the files.        *)
(***************************************************************************)
EXTENDS QemuFetch, TLC

MCSymmetry == Permutations(Fetcher)
=============================================================================
