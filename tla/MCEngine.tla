------------------------------ MODULE MCEngine ------------------------------
(* Instances of Engine for TLC: see the .cfg files beside this module. *)
EXTENDS Engine, TLC

CONSTANTS h1, h2, h3

(* Names of which none is the continuation of a pier's name. *)
DistinctKeys == [h \in {h1, h2, h3} |-> h]

(* pier owner/a with service bc, and pier owner/ab with service c *)
SharedKeys == [h \in {h1, h2} |-> h1]

(* h1 is read before h2, and h2 before h3. *)
ReadOrder == [h \in Handles |-> IF h = h1 THEN 1 ELSE IF h = h2 THEN 2 ELSE 3]

(* Piers are interchangeable in Engine. *)
Symmetry == Permutations(Piers)
=============================================================================
