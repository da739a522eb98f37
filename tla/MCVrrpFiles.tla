------------------------------ MODULE MCVrrpFiles ------------------------------
(* An instance of VrrpFiles for TLC. *)
EXTENDS VrrpFiles, TLC

Symmetry == Permutations(Procs)

================================================================================
