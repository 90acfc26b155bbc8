------------------------------ MODULE MCPanel -------------------------------
(* Instances of Panel for TLC: see the .cfg files beside this module. *)
EXTENDS Panel
=============================================================================
