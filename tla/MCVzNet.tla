------------------------------ MODULE MCVzNet ------------------------------
(***************************************************************************)
(* An instance of VzNet, and with it of VzEngine, for TLC: launches with   *)
(* every combination of options follow each other in one state directory;  *)
(* clients connect to the --no-persist ones.                               *)
(***************************************************************************)
EXTENDS VzNet

AllOptions == AnyOption
Throwaway == {[persist |-> FALSE, reset |-> FALSE]}
=============================================================================
