----------------------------- MODULE ServerList -----------------------------
(***************************************************************************)
(* What the saved server list promises: internal/config/store.go, "Store   *)
(* reads and writes the config directory".  The list changes by one whole  *)
(* command at a time: an addition (one server, or the batch of an import)  *)
(* adds those servers and nothing else, an update replaces one entry, a    *)
(* removal deletes one entry.                                              *)
(*                                                                         *)
(* An entry is the number of its version; 0 is no entry.                   *)
(***************************************************************************)
EXTENDS Naturals

CONSTANTS
    Servers,    \* ids, those not yet handed out included
    Versions    \* the versions an entry can have

VARIABLE list

(* list with the entries ids at version rev, or gone for rev = 0.          *)
With(l, ids, rev) == [s \in Servers |-> IF s \in ids THEN rev ELSE l[s]]

Add(ids) ==
    /\ \A s \in ids : list[s] = 0
    /\ list' = With(list, ids, 1)

Update(s, rev) == list[s] # 0 /\ list' = With(list, {s}, rev)

Remove(s) == list[s] # 0 /\ list' = With(list, {s}, 0)

Init == list \in [Servers -> {0} \cup Versions]

Next ==
    \/ \E ids \in SUBSET Servers : Add(ids)
    \/ \E s \in Servers, rev \in Versions \ {0} : Update(s, rev)
    \/ \E s \in Servers : Remove(s)

Spec == Init /\ [][Next]_list
=============================================================================
