---------------------------- MODULE MCTransfer ----------------------------
(* Transfer for TLC: names are interchangeable.                             *)
EXTENDS Transfer
=============================================================================
