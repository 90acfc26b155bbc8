----------------------------- MODULE MCSettings -----------------------------
(* The instance of Settings for TLC: see the .cfg file beside this module. *)
EXTENDS Settings
=============================================================================
