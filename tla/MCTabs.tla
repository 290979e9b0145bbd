------------------------------- MODULE MCTabs -------------------------------
(* Tabs for TLC: saved servers are interchangeable.                        *)
EXTENDS Tabs

Symmetry == Permutations(Servers)
=============================================================================
