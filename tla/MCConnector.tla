---------------------------- MODULE MCConnector ----------------------------
(* Instances of Connector for TLC: see the .cfg files beside this module. *)
EXTENDS Connector
============================================================================
