------------------------------- MODULE Stream -------------------------------
(***************************************************************************)
(* What a session promises the tab that shows it (internal/ssh/session.go,  *)
(* "Output bytes are published on a channel so the UI can pump them"): a    *)
(* stream.  What arrives is shown, and the end comes after all of it, once  *)
(* and last, unless the tab leaves first.                                   *)
(***************************************************************************)
EXTENDS Naturals

VARIABLES
    sent,   \* chunks that arrived from the remote
    seen,   \* chunks on screen
    state   \* "open", "ended" (the tab was told), "left" (the tab has gone)

Init == sent = 0 /\ seen = 0 /\ state = "open"

Arrive == state # "ended" /\ sent' = sent + 1 /\ UNCHANGED <<seen, state>>
Show == state = "open" /\ seen < sent /\ seen' = seen + 1 /\ UNCHANGED <<sent, state>>
End == state = "open" /\ seen = sent /\ state' = "ended" /\ UNCHANGED <<sent, seen>>
Leave == state = "open" /\ state' = "left" /\ UNCHANGED <<sent, seen>>

Next == Arrive \/ Show \/ End \/ Leave

Spec == Init /\ [][Next]_<<sent, seen, state>>
=============================================================================
