------------------------------ MODULE MCHealth ------------------------------
(* Health for TLC: the constants are given in the configurations.          *)
EXTENDS Health
=============================================================================
