------------------------------- MODULE Keymap -------------------------------
(***************************************************************************)
(* The keymap (internal/ui/keymap.go): a table of bindings, the user's      *)
(* keys.json laid over it by Apply, and the index the dispatcher reads.     *)
(*                                                                          *)
(* Apply walks two Go maps (the touched contexts, and the keys seen in one  *)
(* of them), whose order is the runtime's choice: one action of this module *)
(* is one key of that walk, in any order.  A key, an action and a context   *)
(* are values that are only compared; the text of a binding is left out.    *)
(***************************************************************************)
EXTENDS Naturals, Sequences

CONSTANTS
    Table,      \* the declared bindings in order: [act, ctx, keys, doc]
    Files,      \* the user's files: functions from action ids to key lists
    Escape, Help  \* session.escape and global.help, never left unbound

ASSUME TableAssumption ==
    /\ Table \in Seq([act : STRING, ctx : STRING, keys : Seq(STRING), doc : BOOLEAN])
    /\ \A i, j \in DOMAIN Table : Table[i].act = Table[j].act => i = j
    /\ \A p \in {Escape, Help} : \E i \in DOMAIN Table :
          Table[i].act = p /\ ~Table[i].doc /\ Table[i].keys # << >>

ASSUME FilesAssumption ==
    \A file \in Files : \A id \in DOMAIN file : file[id] \in Seq(STRING)

\* The table gives no key two meanings in one context (TestNoDuplicateKeyInContext).
ASSUME DefaultsAssumption ==
    \A i, j \in DOMAIN Table :
        Table[i].ctx = Table[j].ctx /\ ~Table[i].doc /\ ~Table[j].doc =>
            \A m \in DOMAIN Table[i].keys, n \in DOMAIN Table[j].keys :
                Table[i].keys[m] = Table[j].keys[n] => i = j /\ m = n

VARIABLES
    user,       \* what keys.json asks for
    keys,       \* the effective keys of every action
    overlaid,   \* keys as they stood when resolveClashes read them
    walk,       \* the clashing <<context, key>> pairs resolveClashes has yet to visit
    reverted,   \* the actions it sent back to their defaults
    problems,   \* <<action, why>>: what Apply refuses
    phase       \* "read", "clash" or "ready"

keymapVars == <<user, keys, overlaid, walk, reverted, problems, phase>>

Acts == {Table[i].act : i \in DOMAIN Table}
Row(a) == CHOOSE i \in DOMAIN Table : Table[i].act = a
Ctx(a) == Table[Row(a)].ctx
Rebindable == {a \in Acts : ~Table[Row(a)].doc}
Defaults == [a \in Acts |-> Table[Row(a)].keys]
Contexts == {Ctx(a) : a \in Acts}
RangeOf(s) == {s[i] : i \in DOMAIN s}
KeysIn(c, bound) ==
    UNION {RangeOf(bound[a]) : a \in {b \in Rebindable : Ctx(b) = c}}

\* The appearances of a key in a context; one action listing it twice is two.
Seen(c, k, bound) ==
    {p \in UNION {{a} \X DOMAIN bound[a] : a \in Rebindable} :
        Ctx(p[1]) = c /\ bound[p[1]][p[2]] = k}
Clashing(c, k, bound) == \E p, q \in Seen(c, k, bound) : p # q

Overlay(file) ==
    [a \in Acts |-> IF a \in Rebindable \cap DOMAIN file THEN file[a] ELSE Defaults[a]]

-----------------------------------------------------------------------------
(* The steps of Apply. *)

KeymapInit ==
    /\ user \in Files
    /\ keys = Defaults /\ overlaid = Defaults
    /\ walk = {} /\ reverted = {} /\ problems = {}
    /\ phase = "read"

\* An empty file changes nothing.
ApplyNothing ==
    /\ phase = "read" /\ DOMAIN user = {}
    /\ phase' = "ready"
    /\ UNCHANGED <<user, keys, overlaid, walk, reverted, problems>>

\* Every known, rebindable id of the file replaces its action's keys.
Set ==
    /\ phase = "read" /\ DOMAIN user # {}
    /\ keys' = Overlay(user)
    /\ overlaid' = keys'
    /\ problems' = {<<id, "no such action">> : id \in DOMAIN user \ Acts}
                   \cup {<<id, "not rebindable">> : id \in DOMAIN user \cap (Acts \ Rebindable)}
    /\ walk' = LET touched == {Ctx(a) : a \in DOMAIN user \cap Rebindable}
               IN  {w \in UNION {{c} \X KeysIn(c, keys') : c \in touched} :
                       Clashing(w[1], w[2], keys')}
    /\ phase' = "clash"
    /\ UNCHANGED <<user, reverted>>

\* Mutant: of the actions that share a key, only the first declared gives it up.
ResolveOne(c, k) ==
    /\ phase = "clash" /\ <<c, k>> \in walk
    /\ walk' = walk \ {<<c, k>>}
    /\ LET acts == {p[1] : p \in Seen(c, k, overlaid)} \ reverted
           lost == {a \in acts : \A b \in acts : Row(a) <= Row(b)}
       IN  /\ reverted' = reverted \cup lost
           /\ keys' = [a \in Acts |-> IF a \in lost THEN Defaults[a] ELSE keys[a]]
           /\ problems' = problems \cup {<<a, "already used">> : a \in lost \cap DOMAIN user}
    /\ UNCHANGED <<user, overlaid, phase>>

\* Mutant: clashes are looked up in the keys as they change.
ResolveInPlace(c, k) ==
    /\ phase = "clash" /\ <<c, k>> \in walk
    /\ walk' = walk \ {<<c, k>>}
    /\ LET acts == IF Clashing(c, k, keys) THEN {p[1] : p \in Seen(c, k, keys)} ELSE {}
       IN  /\ reverted' = reverted \cup acts
           /\ keys' = [a \in Acts |-> IF a \in acts THEN Defaults[a] ELSE keys[a]]
           /\ problems' = problems \cup {<<a, "already used">> : a \in acts \cap DOMAIN user}
    /\ UNCHANGED <<user, overlaid, phase>>

\* One key of the map resolveClashes ranges over.
ResolveKey(c, k) ==
    /\ phase = "clash" /\ <<c, k>> \in walk
    /\ walk' = walk \ {<<c, k>>}
    /\ LET acts == {p[1] : p \in Seen(c, k, overlaid)} \ reverted
       IN  /\ reverted' = reverted \cup acts
           /\ keys' = [a \in Acts |-> IF a \in acts THEN Defaults[a] ELSE keys[a]]
           /\ problems' = problems \cup {<<a, "already used">> : a \in acts \cap DOMAIN user}
    /\ UNCHANGED <<user, overlaid, phase>>

\* requireBound, for the two bindings that may not be empty.
RequireBound ==
    /\ phase = "clash" /\ walk = {}
    /\ LET empty == {a \in {Escape, Help} : keys[a] = << >>}
       IN  /\ keys' = [a \in Acts |-> IF a \in empty THEN Defaults[a] ELSE keys[a]]
           /\ problems' = problems \cup {<<a, "cannot be left unbound">> : a \in empty}
    /\ phase' = "ready"
    /\ UNCHANGED <<user, overlaid, walk, reverted>>

KeymapNext ==
    \/ ApplyNothing
    \/ Set
    \/ \E c \in Contexts, k \in {w[2] : w \in walk} : ResolveKey(c, k)
    \/ RequireBound

KeymapSpec == KeymapInit /\ [][KeymapNext]_keymapVars

-----------------------------------------------------------------------------
(* What the dispatcher reads, once Apply is done. *)

\* reindex writes the rows in order, so the last one declared keeps the key.
Action(c, k) ==
    LET rows == {i \in DOMAIN Table :
                   /\ Table[i].ctx = c /\ ~Table[i].doc
                   /\ k \in RangeOf(keys[Table[i].act])}
    IN  IF rows = {} THEN ""
        ELSE Table[CHOOSE i \in rows : \A j \in rows : j <= i].act

Answering(a) == {k \in RangeOf(keys[a]) : Action(Ctx(a), k) = a}

-----------------------------------------------------------------------------
(* Properties. *)

\* The keymap's state stays within its types.
KeymapTypeOK ==
    /\ DOMAIN keys = Acts /\ DOMAIN overlaid = Acts
    /\ reverted \subseteq Rebindable
    /\ \A w \in walk : w[1] \in Contexts /\ Clashing(w[1], w[2], overlaid)
    /\ phase \in {"read", "clash", "ready"}

\* What the file and the table alone decide: an action keeps the keys it was
\* given unless one of them is used elsewhere in its context.
Rejected(a) ==
    /\ a \in Rebindable
    /\ DOMAIN user \cap {b \in Rebindable : Ctx(b) = Ctx(a)} # {}
    /\ \E k \in RangeOf(Overlay(user)[a]) : Clashing(Ctx(a), k, Overlay(user))
Settled ==
    [a \in Acts |->
        IF \/ Rejected(a)
           \/ a \in {Escape, Help} /\ Overlay(user)[a] = << >>
        THEN Defaults[a] ELSE Overlay(user)[a]]

\* The effective keymap does not depend on the order in which Go walks the
\* clashing keys: it is the one the file and the table decide (keymap.go:461,
\* "picking a winner would make the order of a JSON object meaningful").
FileDecides == keys = Settled

\* What can be said of "a mistake in it is reported rather than swallowed"
\* (keymap.go:418).  A line with a problem is at its defaults.  A line without
\* one has the keys it lists, and pressing one of them does what the line says,
\* unless it is a default of an action whose own line was refused, and which got
\* its defaults back: the key may then do that instead, and what is reported is
\* the other line.
Reported(a) == \E p \in problems : p[1] = a
Overruled(a, k) ==
    \E b \in Rebindable \ {a} :
        Ctx(b) = Ctx(a) /\ k \in RangeOf(Defaults[b]) /\ Reported(b)
RefusalsReported ==
    /\ \A id \in DOMAIN user : ~Reported(id) =>
          /\ id \in Rebindable /\ keys[id] = user[id]
          /\ \A k \in RangeOf(user[id]) : Action(Ctx(id), k) = id \/ Overruled(id, k)
    /\ \A p \in problems :
          p[1] \in DOMAIN user /\ (p[1] \in Acts => keys[p[1]] = Defaults[p[1]])

\* Once Apply is done, what a key does is what the file says of it, whatever the
\* order of the walk, but for the lines the help card lists as refused and for
\* what their defaults take back.
AppliedAsTold == phase = "ready" => FileDecides /\ RefusalsReported

\* Where one key is left with two meanings, a default that Apply brought back
\* has met a key the file gave: two keys of the file never share a meaning, nor
\* do two defaults.  So only a file that itself uses another action's default
\* can cost the user the escape or the help card, which keymap.go:466 says may
\* never be left without a key.
Restored(a) == keys[a] # Overlay(user)[a]
Borrows ==
    \E a \in DOMAIN user \cap Rebindable, b \in Rebindable :
        a # b /\ Ctx(a) = Ctx(b) /\ RangeOf(user[a]) \cap RangeOf(Defaults[b]) # {}
LeftoversAreDefaults ==
    phase = "ready" =>
        /\ \A c \in Contexts : \A k \in KeysIn(c, keys) :
            \A p, q \in Seen(c, k, keys) :
                p = q \/ \E a, b \in {p[1], q[1]} :
                            /\ Restored(a) /\ k \in RangeOf(Defaults[a])
                            /\ ~Restored(b) /\ b \in DOMAIN user
        /\ Borrows \/ \A p \in {Escape, Help} : Answering(p) # {}
=============================================================================
