------------------------------- MODULE MCDesk -------------------------------
(* Instances of Desk for TLC: see the .cfg files beside this module. *)
EXTENDS Desk, TLC

Symmetry == Permutations(Names) \cup Permutations(Piers)
=============================================================================
