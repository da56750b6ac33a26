------------------------------ MODULE MCTunnel ------------------------------
(* Tunnel for TLC: callers, pids and inodes are interchangeable.           *)
EXTENDS Tunnel, TLC

Symmetry == Permutations(Callers) \cup Permutations(Pids) \cup Permutations(Inodes)
=============================================================================
