------------------------------ MODULE MCPanes ------------------------------
(* Panes for TLC: two local directories and a remote one.                   *)
EXTENDS Panes
=============================================================================
