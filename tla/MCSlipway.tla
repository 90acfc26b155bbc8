----------------------------- MODULE MCSlipway -----------------------------
(* The instance of Slipway for TLC: see the .cfg file beside this module. *)
EXTENDS Slipway
============================================================================
