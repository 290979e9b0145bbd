----------------------------- MODULE MCMigrate -----------------------------
(* Migrate for TLC: a server with both kinds of secret, one with a key.    *)
(* Passwords move in one file, all at once; keys are removed one by one.   *)
EXTENDS Migrate
=============================================================================
