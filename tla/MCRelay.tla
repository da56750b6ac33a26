------------------------------ MODULE MCRelay ------------------------------
(* Relay for TLC: the constants are given in the configurations.           *)
EXTENDS Relay
=============================================================================
