-------------------------------- MODULE MCUi --------------------------------
(* App, Keymap and Sidebar for TLC: a small table, its files, and a list.    *)
EXTENDS Ui

MCTable == <<
    [act |-> "help",        ctx |-> "global",  keys |-> <<"?">>,       doc |-> FALSE],
    [act |-> "quit",        ctx |-> "global",  keys |-> <<"q", "^c">>, doc |-> FALSE],
    [act |-> "escape",      ctx |-> "session", keys |-> <<"^b">>,      doc |-> FALSE],
    [act |-> "scroll_up",   ctx |-> "session", keys |-> <<"up">>,      doc |-> FALSE],
    [act |-> "scroll_down", ctx |-> "session", keys |-> <<"down">>,    doc |-> FALSE],
    [act |-> "copy",        ctx |-> "session", keys |-> << >>,         doc |-> TRUE]>>

\* Files that name up to three ids, one of them unknown and one not rebindable.
MCKeys == {<< >>, <<"x">>, <<"^b">>, <<"x", "x">>, <<"x", "^b">>, <<"q">>, <<"?">>}
MCIds == {"help", "quit", "escape", "scroll_up", "scroll_down", "copy", "typo"}
MCFiles ==
    UNION {[d -> MCKeys] :
        d \in {s \in SUBSET MCIds : Cardinality(s) <= 2}
             \cup {{"escape", "scroll_up", "scroll_down"}, {"help", "quit", "escape"}}}

\* A list, with a server deleted, and with one moved to another group.
A == [id |-> "a", group |-> "prod"]
B == [id |-> "b", group |-> ""]
C == [id |-> "c", group |-> "prod"]
MCLists == {<< >>, <<A, B, C>>, <<B, C>>, <<C, A>>, <<A, B, [C EXCEPT !.group = "lab"]>>}
MCGroups == <<"lab", "prod">>

\* What the import and sync forms restore is read only while one is open or its
\* message is on its way, and is set when one opens; which kind of connection was
\* asked for is read only by the cards of a failed one, and set by every new one.
Restores == up \cap {"import", "sync"} # {} \/ msgs \cap {"parsed", "imported", "checked"} # {}
Retries ==
    \/ "connecting" \in {cur, bg} \/ right = "error" \/ (Restores /\ prev = "error")
    \/ files = "dialing" \/ "card" \in up
View ==
    <<part, focus, right, dialogs, cur, bg, files, msgs, IF Restores THEN prev ELSE "",
      Retries /\ forFiles, keymapVars, sidebarVars>>
=============================================================================
