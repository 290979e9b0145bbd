----------------------------- MODULE MCSession -----------------------------
(* Session for TLC: Session_all.cfg gives the capacity and the bound.       *)
EXTENDS Session
=============================================================================
