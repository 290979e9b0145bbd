------------------------------ MODULE MCStore ------------------------------
(* Store for TLC: commands and files are interchangeable.                  *)
EXTENDS Store, TLC

Symmetry == Permutations(Cmds) \cup Permutations(Files)
=============================================================================
