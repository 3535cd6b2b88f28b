------------------------------ MODULE MCInstall ------------------------------
(* RuntimeInstall on a small instance. *)
EXTENDS RuntimeInstall, TLC

Symmetry == Permutations(Calls)
================================================================================
