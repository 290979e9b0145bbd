------------------------------- MODULE MCDial -------------------------------
(* Dial for TLC: dials are interchangeable, and so are trusted keys.       *)
EXTENDS Dial, TLC

Symmetry == Permutations(Dials)
=============================================================================
