------------------------------ MODULE MCStore ------------------------------
(* Instances of Store for TLC: see the .cfg files beside this module. *)
EXTENDS Store, TLC

(* Contexts, piers and names are interchangeable in Store. *)
Symmetry == Permutations(Contexts) \cup Permutations(Piers) \cup Permutations(Names)
============================================================================
