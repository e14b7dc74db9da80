----------------------------- MODULE MCLifecycle -----------------------------
(***************************************************************************)
(* Instances of Lifecycle for TLC: every combination of options, and two   *)
(* QEMU processes, so that an orphan and a child are alive together.       *)
(***************************************************************************)
EXTENDS Lifecycle, TLC

AllOptions == AnyOption

\* Only for the runs without a liveness property.
MCSymmetry == Permutations(Qemu) \cup Permutations(Port)
=============================================================================
