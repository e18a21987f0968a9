------------------------------- MODULE MCPicker -------------------------------
(* Every 3-bit hash function for three peers. *)
EXTENDS Picker, TLC

Symmetry == Permutations(Peers) \cup Permutations(Instances)
===============================================================================
