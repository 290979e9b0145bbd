---------------------------- MODULE PanesProofs ----------------------------
(***************************************************************************)
(* Panes, for any directories and any number of connections: what the      *)
(* split view shows and acts on is its own connection's, and it has one    *)
(* job at a time.                                                          *)
(***************************************************************************)
EXTENDS Panes, TLAPS, FiniteSetTheorems

\* pane is a function, which TypeOK says of its values only; a pane that
\* shows rows shows those of a directory.
BothPanes ==
    /\ pane = [s \in Sides |-> pane[s]]
    /\ \A s \in Sides : pane[s].shown => pane[s].dir # None

\* Generations only grow: what waits belongs to this connection or to an
\* earlier one.
Generations ==
    /\ 0 \notin dialing \cup link
    /\ remote \in {0, gen}
    /\ \A p \in plans \cup ({confirm} \ {None, Question}) : p.gen <= gen

\* The question on screen is about a delete of this connection.
Deleting == confirm \notin {None, Question} /\ confirm.gen = gen

OneJob ==
    /\ scanning => pending = None /\ ~transfer /\ ~Deleting
    /\ pending # None => ~transfer /\ ~Deleting
    /\ transfer => ~Deleting

IInv ==
    /\ TypeOK /\ BothPanes /\ Generations /\ OneJob
    /\ ScanIsReal /\ NoLeakedConnection /\ PanesAreCurrent /\ PicksAreHere

-----------------------------------------------------------------------------
(* What each part of a step does.                                          *)

\* startSFTP begins a generation of its own.
LEMMA NextGeneration ==
    ASSUME TypeOK, Start
    PROVE  /\ gen' = gen + 1 /\ gen' \in Gens /\ gen < gen' /\ gen' # 0
           /\ \A g \in Gens : g <= gen => g # gen'
  BY PanesAssumption DEF Start, Teardown, TypeOK, Gens

\* Only startSFTP changes the generation.
LEMMA GenMoves ==
    ASSUME Next
    PROVE  Start \/ gen' = gen
  BY DEF Next, Keys, Connections, OpenSFTP, KeyPassEnter, KeyPassEsc, DismissCard,
     CallNilBrowser, AnswerQuestion, AnswerDelete, AnswerPending, CancelTransfer, Release,
     Mark, TransferKey, DeleteKey, Press, StartRename, OpenDir, ResolveRename, ConnectSFTP,
     Connected, Failed, Ask, Listed, Planned, FileOpDone, RunTransfer, TransferDone, connVars

\* A pane changes as a whole, with a new connection, or to what was listed of
\* the one on screen; a mark is made in the directory that is shown.
Shows(s, p) ==
    /\ p \in [dir : DirsOf(s) \cup {None}, shown : BOOLEAN,
              marked : DirsOf(s) \cup {None}, gen : Gens]
    /\ p.dir # None => p.gen = gen
    /\ p.shown => p.dir # None
    /\ p.shown /\ p.marked # None => p.marked = p.dir

LEMMA PaneMoves ==
    ASSUME IInv, Next
    PROVE  \/ Start
           \/ pane' = pane /\ gen' = gen
           \/ \E s \in Sides : \E p : /\ Shows(s, p) /\ pane' = [pane EXCEPT ![s] = p]
                                    /\ gen' = gen
  <1>0. TypeOK /\ BothPanes /\ PanesAreCurrent /\ PicksAreHere
    BY DEF IInv
  <1> DEFINE Moved == \E s \in Sides : \E p : /\ Shows(s, p) /\ gen' = gen
                                             /\ pane' = [pane EXCEPT ![s] = p]
  <1>1. ASSUME NEW g \in Gens, Connected(g)
        PROVE  Moved \/ (pane' = pane /\ gen' = gen)
    <2>1. gen' = gen
      BY <1>1 DEF Connected
    <2>2. CASE pane' # pane
      <3>1. PICK ok \in BOOLEAN :
              pane' = [pane EXCEPT !["remote"] =
                         [dir |-> Home, shown |-> ok, marked |-> None, gen |-> g]]
        BY <1>1, <2>2 DEF Connected
      <3>2. g = gen
        BY <1>1, <2>2 DEF Connected
      <3>3. Shows("remote", [dir |-> Home, shown |-> ok, marked |-> None, gen |-> g])
        BY <3>2, PanesAssumption DEF Shows, DirsOf, Dirs
      <3> QED
        BY <2>1, <3>1, <3>3 DEF Sides
    <2> QED
      BY <2>1, <2>2
  <1>2. ASSUME NEW l \in listings, Listed(l)
        PROVE  Moved \/ (pane' = pane /\ gen' = gen)
    <2>1. gen' = gen
      BY <1>2 DEF Listed, connVars
    <2>2. /\ l.side \in Sides /\ l.dir \in DirsOf(l.side) /\ gen \in Gens
          /\ l.dir # None
      BY <1>0, PanesAssumption DEF TypeOK, DirsOf, Dirs
    <2>3. CASE pane' = [pane EXCEPT ![l.side] =
                          [dir |-> l.dir, shown |-> TRUE, marked |-> None, gen |-> gen]]
      <3>1. Shows(l.side, [dir |-> l.dir, shown |-> TRUE, marked |-> None, gen |-> gen])
        BY <2>2 DEF Shows
      <3> QED
        BY <2>1, <2>2, <2>3, <3>1
    <2>4. CASE pane' = [pane EXCEPT ![l.side].dir = l.dir,
                                    ![l.side].shown = FALSE, ![l.side].gen = gen]
      <3> DEFINE p == [pane[l.side] EXCEPT !.dir = l.dir, !.shown = FALSE, !.gen = gen]
      <3>1. pane' = [pane EXCEPT ![l.side] = p]
        BY <1>0, <2>2, <2>4 DEF BothPanes
      <3>2. Shows(l.side, p)
        BY <1>0, <2>2 DEF Shows, TypeOK
      <3> QED
        BY <2>1, <2>2, <3>1, <3>2
    <2> QED
      BY <1>2, <2>1, <2>3, <2>4 DEF Listed
  <1>3. ASSUME NEW s \in Sides, Mark(s)
        PROVE  Moved
    <2>1. gen' = gen
      BY <1>3 DEF Mark, connVars
    <2>2. PICK m \in {pane[s].dir, None} :
            /\ pane' = [pane EXCEPT ![s].marked = m]
            /\ m = None \/ m = pane[s].dir
      BY <1>3 DEF Mark
    <2> DEFINE p == [pane[s] EXCEPT !.marked = m]
    <2>3. pane' = [pane EXCEPT ![s] = p]
      BY <1>0, <2>2 DEF BothPanes
    <2>4. p \in [dir : DirsOf(s) \cup {None}, shown : BOOLEAN,
                 marked : DirsOf(s) \cup {None}, gen : Gens]
      BY <1>0, <2>2 DEF TypeOK
    <2>5. p.dir = pane[s].dir /\ p.gen = pane[s].gen /\ p.marked = m
      BY <1>0 DEF TypeOK
    <2>6. p.shown => p.dir # None
      BY <1>0 DEF TypeOK, BothPanes
    <2>7. Shows(s, p)
      BY <1>0, <2>2, <2>4, <2>5, <2>6 DEF Shows, PanesAreCurrent
    <2> QED
      BY <2>1, <2>3, <2>7
  <1>4. Start \/ Moved \/ (pane' = pane /\ gen' = gen)
    BY <1>1, <1>2, <1>3 DEF Next, Keys, Connections, OpenSFTP, KeyPassEnter, KeyPassEsc,
       DismissCard, CallNilBrowser, AnswerQuestion, AnswerDelete, AnswerPending,
       CancelTransfer, Release, Press, TransferKey, DeleteKey, StartRename, OpenDir,
       ResolveRename, ConnectSFTP, Failed, Ask, Planned, FileOpDone, RunTransfer,
       TransferDone, connVars, paneVars
  <1> QED
    BY <1>4

\* The connection's own moves; nothing else opens, closes or shows one.
LEMMA LinkMoves ==
    ASSUME Next
    PROVE  \/ /\ Start /\ link' = link \ {remote} /\ remote' = 0
              /\ dialing' = dialing \cup {gen'} /\ up' = up
           \/ \E g \in Gens : ConnectSFTP(g) \/ Connected(g)
           \/ /\ dialing' \subseteq dialing /\ UNCHANGED <<link, up, gen, remote>>
  BY DEF Next, Keys, Connections, OpenSFTP, KeyPassEnter, KeyPassEsc, DismissCard,
     CallNilBrowser, AnswerQuestion, AnswerDelete, AnswerPending, CancelTransfer, Release,
     Mark, TransferKey, DeleteKey, Press, StartRename, OpenDir, ResolveRename, Failed, Ask,
     Listed, Planned, FileOpDone, RunTransfer, TransferDone, connVars, Start, Teardown

\* A walk is asked for with no dialog up and nothing under way; a delete names
\* what was picked where it acts.
Asked(p) ==
    /\ Idle /\ pending = None /\ confirm = None
    /\ p \in Requests /\ p.gen = gen /\ (p.kind = "delete" => p.here)
    /\ scanning' = TRUE /\ plans' = plans \cup {p}
    /\ UNCHANGED <<pending, confirm, transfer, gen>>

LEMMA PlanAsks ==
    ASSUME IInv, NEW s \in Sides, TransferKey(s) \/ DeleteKey(s) \/ Release
    PROVE  (\E p : Asked(p)) \/ UNCHANGED <<scanning, plans, pending, confirm, transfer, gen>>
  <1>0. TypeOK /\ PicksAreHere /\ gen \in Gens
    BY DEF IInv, TypeOK
  <1>1. ASSUME NEW k \in {"copy", "delete"}, NEW b \in BOOLEAN, k = "delete" => b,
               Idle, scanning' = TRUE, transfer' = transfer,
               plans' = plans \cup {[kind |-> k, here |-> b, gen |-> gen]},
               pending = None, confirm = None, UNCHANGED <<pending, confirm, gen>>
        PROVE  \E p : Asked(p)
    <2> DEFINE p == [kind |-> k, here |-> b, gen |-> gen]
    <2>1. p \in Requests
      BY <1>0 DEF Requests
    <2>2. p.gen = gen /\ (p.kind = "delete" => p.here)
      BY <1>1
    <2>3. \E q \in Requests : /\ q.gen = gen /\ (q.kind = "delete" => q.here)
                              /\ plans' = plans \cup {q}
      BY <1>1, <2>1, <2>2
    <2> QED
      BY <1>1, <2>3 DEF Asked
  <1>2. CASE TransferKey(s)
    <2>1. pending = None /\ confirm = None /\ UNCHANGED <<pending, confirm, gen>>
      BY <1>2 DEF TransferKey, PanesOwnKeys, NoDialog, connVars, dialogVars
    <2>2. PICK b \in BOOLEAN : b = (PickedIn(s) = pane[s].dir)
      OBVIOUS
    <2>3. /\ Idle /\ scanning' = TRUE /\ transfer' = transfer
          /\ plans' = plans \cup {[kind |-> "copy", here |-> b, gen |-> gen]}
      BY <1>2, <2>2 DEF TransferKey, Plan
    <2> QED
      BY <1>1, <2>1, <2>3
  <1>3. CASE DeleteKey(s)
    <2>1. pending = None /\ confirm = None /\ UNCHANGED <<pending, confirm, gen>>
      BY <1>3 DEF DeleteKey, PanesOwnKeys, NoDialog, connVars, dialogVars
    <2>2. PickedIn(s) = pane[s].dir
      BY <1>0, <1>3 DEF DeleteKey, PickedIn, PicksAreHere
    <2>3. /\ Idle /\ scanning' = TRUE /\ transfer' = transfer
          /\ plans' = plans \cup {[kind |-> "delete", here |-> TRUE, gen |-> gen]}
      BY <1>3, <2>2 DEF DeleteKey, Plan
    <2> QED
      BY <1>1, <2>1, <2>3
  <1>4. CASE Release
    <2>1. /\ pending = None /\ confirm = None /\ UNCHANGED <<pending, confirm, gen>>
          /\ Plan("copy", drag.side, drag.dir) \/ UNCHANGED jobVars
      BY <1>4 DEF Release, MouseFree, connVars
    <2>2. CASE Plan("copy", drag.side, drag.dir)
      <3>1. PICK b \in BOOLEAN : b = (drag.dir = pane[drag.side].dir)
        OBVIOUS
      <3> QED
        BY <1>1, <2>1, <2>2, <3>1 DEF Plan
    <2>3. CASE UNCHANGED jobVars
      BY <2>1, <2>3 DEF jobVars
    <2> QED
      BY <2>1, <2>2, <2>3
  <1> QED
    BY <1>2, <1>3, <1>4

\* Everything that can happen to a walk, a request, a copy and a question.
LEMMA JobMoves ==
    ASSUME IInv, Next
    PROVE  \/ /\ Start /\ ~scanning' /\ ~transfer' /\ pending' = None
              /\ UNCHANGED <<plans, confirm>>
           \/ \E p : Asked(p)
           \/ \E p \in plans : Planned(p)
           \/ AnswerPending
           \/ /\ UNCHANGED <<scanning, plans, pending, gen>> /\ (transfer' => transfer)
              /\ confirm' \in {confirm, None, Question}
  <1>1. CASE \E s \in Sides : TransferKey(s) \/ DeleteKey(s) \/ Release
    BY <1>1, PlanAsks
  <1>2. CASE Start
    BY <1>2 DEF Start, Teardown
  <1>3. CASE \E g \in Gens : TransferDone(g)
    BY <1>3 DEF TransferDone, connVars, dialogVars
  <1>4. ASSUME Connections \/ \E l \in listings : Listed(l)
        PROVE  /\ UNCHANGED <<scanning, plans, pending, gen, transfer>>
               /\ confirm' \in {confirm, None, Question}
    BY <1>4 DEF Connections, ConnectSFTP, Connected, Failed, Ask, Listed,
       connVars, dialogVars, jobVars
  <1>5. ASSUME \/ KeyPassEsc \/ DismissCard \/ CallNilBrowser \/ AnswerQuestion
               \/ AnswerDelete \/ CancelTransfer \/ ResolveRename
               \/ \E g \in edits : FileOpDone(g)
               \/ \E g \in Gens : RunTransfer(g)
               \/ \E s \in Sides : \/ Mark(s) \/ Press(s) \/ StartRename(s)
                                   \/ \E d \in DirsOf(s) : OpenDir(s, d)
        PROVE  /\ UNCHANGED <<scanning, plans, pending, gen, transfer>>
               /\ confirm' \in {confirm, None, Question}
    BY <1>5 DEF KeyPassEsc, DismissCard, CallNilBrowser, AnswerQuestion, AnswerDelete,
       CancelTransfer, ResolveRename, FileOpDone, RunTransfer, Mark, Press, StartRename,
       OpenDir, Edit, connVars, dialogVars, jobVars
  <1> QED
    BY <1>1, <1>2, <1>3, <1>4, <1>5 DEF Next, Keys, OpenSFTP, KeyPassEnter, Sides

-----------------------------------------------------------------------------
(* What the parts keep.                                                    *)

\* The panes.
LEMMA PanesKept ==
    ASSUME IInv, Next
    PROVE  /\ BothPanes' /\ PanesAreCurrent'
           /\ \A s \in Sides : pane'[s] \in [dir : DirsOf(s) \cup {None}, shown : BOOLEAN,
                                             marked : DirsOf(s) \cup {None}, gen : Gens]
           /\ \A s \in Sides :
                 pane'[s].shown /\ pane'[s].marked # None => pane'[s].marked = pane'[s].dir
  <1>0. TypeOK /\ BothPanes /\ PanesAreCurrent /\ PicksAreHere
    BY DEF IInv
  <1>1. CASE Start
    <2>1. pane' = [s \in Sides |-> [EmptyPane EXCEPT !.gen = gen']] /\ gen' \in Gens
      BY <1>0, <1>1, NextGeneration DEF Start
    <2>2. \A s \in Sides : pane'[s] = [dir |-> None, shown |-> FALSE, marked |-> None,
                                       gen |-> gen']
      BY <2>1 DEF EmptyPane
    <2> QED
      BY <2>1, <2>2 DEF BothPanes, PanesAreCurrent
  <1>2. CASE pane' = pane /\ gen' = gen
    BY <1>0, <1>2 DEF BothPanes, PanesAreCurrent, PicksAreHere, TypeOK
  <1>3. ASSUME NEW s \in Sides, NEW p, Shows(s, p), pane' = [pane EXCEPT ![s] = p],
               gen' = gen
        PROVE  /\ BothPanes'
               /\ pane'[s] = p /\ \A t \in Sides \ {s} : pane'[t] = pane[t]
    <2>1. pane'[s] = p /\ \A t \in Sides \ {s} : pane'[t] = pane[t]
      BY <1>0, <1>3 DEF BothPanes
    <2>2. pane' = [t \in Sides |-> pane'[t]]
      BY <1>0, <1>3 DEF BothPanes
    <2>3. \A t \in Sides : pane'[t].shown => pane'[t].dir # None
      BY <1>0, <1>3, <2>1 DEF BothPanes, Shows
    <2> QED
      BY <2>1, <2>2, <2>3 DEF BothPanes
  <1>4. CASE \E s \in Sides : \E p : /\ Shows(s, p) /\ pane' = [pane EXCEPT ![s] = p]
                                    /\ gen' = gen
    <2>0. PICK s \in Sides : \E p : /\ Shows(s, p) /\ pane' = [pane EXCEPT ![s] = p]
                                    /\ gen' = gen
      BY <1>4
    <2>1. PICK p : Shows(s, p) /\ pane' = [pane EXCEPT ![s] = p] /\ gen' = gen
      BY <2>0
    <2>2. BothPanes' /\ pane'[s] = p /\ \A t \in Sides \ {s} : pane'[t] = pane[t]
      BY <1>3, <2>1
    <2> QED
      BY <1>0, <2>1, <2>2 DEF Shows, PanesAreCurrent, PicksAreHere, TypeOK
  <1> QED
    BY <1>1, <1>2, <1>4, PaneMoves

\* The connections.
LEMMA LinksKept ==
    ASSUME IInv, Next
    PROVE  /\ NoLeakedConnection' /\ 0 \notin dialing' \cup link' /\ remote' \in {0, gen'}
           /\ link' \subseteq Gens /\ dialing' \subseteq Gens /\ up' \subseteq Gens
           /\ remote' \in Gens /\ gen' \in Gens
  <1>0. TypeOK /\ Generations /\ NoLeakedConnection
    BY DEF IInv
  <1>1. 0 \in Gens
    BY PanesAssumption DEF Gens
  <1>2. CASE /\ Start /\ link' = link \ {remote} /\ remote' = 0
             /\ dialing' = dialing \cup {gen'} /\ up' = up
    BY <1>0, <1>1, <1>2, NextGeneration DEF TypeOK, Generations, NoLeakedConnection
  <1>3. ASSUME NEW g \in Gens, ConnectSFTP(g)
        PROVE  /\ dialing' = dialing \ {g} /\ link' = link \cup {g} /\ up' = up \cup {g}
               /\ g \in dialing /\ UNCHANGED <<gen, remote>>
    BY <1>3 DEF ConnectSFTP
  <1>4. CASE \E g \in Gens : ConnectSFTP(g)
    <2>1. PICK g \in Gens : ConnectSFTP(g)
      BY <1>4
    <2>2. NoLeakedConnection'
      BY <1>0, <1>3, <2>1 DEF NoLeakedConnection
    <2>3. 0 \notin dialing' \cup link' /\ remote' \in {0, gen'}
      BY <1>0, <1>3, <2>1 DEF Generations
    <2> QED
      BY <1>0, <1>3, <2>1, <2>2, <2>3 DEF TypeOK
  <1>5. ASSUME NEW g \in Gens, Connected(g)
        PROVE  /\ dialing' = dialing /\ gen' = gen /\ up' = up \ {g}
               /\ \/ link' = link \ {g} /\ remote' = remote
                  \/ link' = link /\ g = gen /\ remote' = g
    BY <1>5 DEF Connected
  <1>6. CASE \E g \in Gens : Connected(g)
    <2>1. PICK g \in Gens : Connected(g)
      BY <1>6
    <2>2. 0 \notin dialing' \cup link' /\ remote' \in {0, gen'}
      BY <1>0, <1>5, <2>1 DEF Generations
    <2>3. up' = up \ {g} /\ link \subseteq {remote} \cup up
      BY <1>0, <1>5, <2>1 DEF NoLeakedConnection
    <2>4. remote = 0 \/ remote = gen
      BY <1>0 DEF Generations
    <2>5. 0 \notin link
      BY <1>0 DEF Generations
    <2>6. NoLeakedConnection'
      BY <1>5, <2>1, <2>3, <2>4, <2>5 DEF NoLeakedConnection
    <2> QED
      BY <1>0, <1>5, <2>1, <2>2, <2>6 DEF TypeOK
  <1>7. CASE dialing' \subseteq dialing /\ UNCHANGED <<link, up, gen, remote>>
    BY <1>0, <1>7 DEF TypeOK, Generations, NoLeakedConnection
  <1> QED
    BY <1>2, <1>4, <1>6, <1>7, LinkMoves

\* The walks, the requests and the questions.
LEMMA JobsKept ==
    ASSUME IInv, Next
    PROVE  /\ ScanIsReal' /\ OneJob'
           /\ plans' \subseteq Requests /\ pending' \in Requests \cup {None}
           /\ confirm' \in Requests \cup {None, Question}
           /\ \A p \in plans' \cup ({confirm'} \ {None, Question}) : p.gen <= gen'
           /\ \A p \in plans' \cup ({confirm'} \ {None, Question}) :
                 p.kind = "delete" => p.here
  <1>0. TypeOK /\ Generations /\ ScanIsReal /\ OneJob /\ PicksAreHere
    BY DEF IInv
  <1>1. \A p \in Requests : p.gen \in Gens
    BY DEF Requests
  <1> DEFINE Named(p) == p.gen <= gen /\ (p.kind = "delete" => p.here)
  <1>2. \A p \in plans \cup ({confirm} \ {None, Question}) : Named(p)
    BY <1>0 DEF Generations, PicksAreHere
  <1>3. gen \in Gens /\ gen <= gen
    BY <1>0, PanesAssumption DEF TypeOK, Gens
  <1>4. CASE /\ Start /\ ~scanning' /\ ~transfer' /\ pending' = None
             /\ UNCHANGED <<plans, confirm>>
    <2>1. \A p \in plans : p.gen # gen'
      BY <1>0, <1>1, <1>2, <1>4, NextGeneration DEF TypeOK
    <2>2. confirm \notin {None, Question} => confirm.gen # gen'
      BY <1>0, <1>1, <1>2, <1>4, NextGeneration DEF TypeOK
    <2>3. \A p \in Requests : p.gen <= gen => p.gen <= gen'
      BY <1>0, <1>1, <1>4, NextGeneration, PanesAssumption DEF TypeOK, Gens
    <2>4. ScanIsReal'
      BY <1>0, <1>4, <2>1 DEF ScanIsReal
    <2>5. OneJob'
      BY <1>4, <2>2 DEF OneJob, Deleting
    <2> QED
      BY <1>0, <1>2, <1>4, <2>3, <2>4, <2>5 DEF TypeOK
  <1>5. ASSUME NEW p, Asked(p)
        PROVE  /\ ScanIsReal' /\ OneJob' /\ plans' \subseteq Requests
               /\ UNCHANGED <<pending, confirm, gen>> /\ \A q \in plans' : Named(q)
    <2>1. /\ ~scanning /\ ~transfer /\ pending = None /\ confirm = None
          /\ p \in Requests /\ p.gen = gen /\ (p.kind = "delete" => p.here)
          /\ scanning' = TRUE /\ plans' = plans \cup {p}
          /\ UNCHANGED <<pending, confirm, transfer, gen>>
      BY <1>5 DEF Asked, Idle
    <2>2. \A q \in plans : q.gen # gen
      BY <1>0, <2>1 DEF ScanIsReal
    <2>3. ScanIsReal'
      BY <1>0, <2>1, <2>2 DEF ScanIsReal
    <2>4. OneJob'
      BY <2>1 DEF OneJob, Deleting
    <2> QED
      BY <1>0, <1>2, <1>3, <2>1, <2>3, <2>4 DEF TypeOK
  <1>6. ASSUME NEW p \in plans, Planned(p)
        PROVE  /\ ScanIsReal' /\ OneJob' /\ plans' \subseteq plans
               /\ gen' = gen /\ pending' \in {pending, p} /\ confirm' \in {confirm, p}
    <2>1. plans' = plans \ {p} /\ UNCHANGED <<gen, transfer>>
      BY <1>6 DEF Planned, connVars
    <2>2. CASE p.gen # gen \/ ~scanning
      <3>1. UNCHANGED <<scanning, pending, confirm>>
        BY <1>6, <2>2 DEF Planned
      <3>2. p.gen # gen
        BY <1>0, <2>2 DEF ScanIsReal
      <3>3. ScanIsReal'
        BY <1>0, <2>1, <3>1, <3>2 DEF ScanIsReal
      <3>4. OneJob'
        BY <1>0, <2>1, <3>1 DEF OneJob, Deleting
      <3> QED
        BY <2>1, <3>1, <3>3, <3>4
    <2>3. CASE p.gen = gen /\ scanning
      <3>1. /\ ~scanning'
            /\ \/ UNCHANGED <<pending, confirm>>
               \/ pending' = p /\ confirm' = confirm
               \/ confirm' = p /\ pending' = pending
        BY <1>6, <2>3 DEF Planned
      <3>2. ScanIsReal'
        BY <1>0, <2>1, <2>3, <3>1 DEF ScanIsReal
      <3>3. OneJob'
        BY <1>0, <2>1, <2>3, <3>1 DEF OneJob, Deleting
      <3> QED
        BY <2>1, <3>1, <3>2, <3>3
    <2> QED
      BY <1>0, <2>2, <2>3 DEF TypeOK
  <1>7. CASE AnswerPending
    <2>1. /\ UNCHANGED <<plans, scanning, gen, confirm>> /\ pending # None /\ pending' = None
          /\ confirm = None
      BY <1>7 DEF AnswerPending, connVars
    <2>2. ScanIsReal'
      BY <1>0, <2>1 DEF ScanIsReal
    <2>3. OneJob'
      BY <1>0, <2>1 DEF OneJob, Deleting
    <2> QED
      BY <1>0, <1>2, <2>1, <2>2, <2>3 DEF TypeOK
  <1>8. CASE /\ UNCHANGED <<scanning, plans, pending, gen>> /\ (transfer' => transfer)
             /\ confirm' \in {confirm, None, Question}
    <2>1. ScanIsReal'
      BY <1>0, <1>8 DEF ScanIsReal
    <2>2. OneJob'
      BY <1>0, <1>8 DEF OneJob, Deleting
    <2> QED
      BY <1>0, <1>2, <1>8, <2>1, <2>2 DEF TypeOK
  <1>9. CASE \E p : Asked(p)
    BY <1>0, <1>2, <1>5, <1>9 DEF TypeOK
  <1>10. CASE \E p \in plans : Planned(p)
    <2>1. PICK p \in plans : Planned(p)
      BY <1>10
    <2>2. p \in Requests /\ Named(p)
      BY <1>0, <1>2 DEF TypeOK
    <2>3. confirm' \in {confirm, p} /\ pending' \in {pending, p} /\ plans' \subseteq plans
      BY <1>6, <2>1
    <2> QED
      BY <1>0, <1>2, <1>6, <2>1, <2>2, <2>3 DEF TypeOK
  <1> QED
    BY <1>4, <1>7, <1>8, <1>9, <1>10, JobMoves

\* What refreshPanes lists is what the panes show.
LEMMA RefreshedTyped ==
    ASSUME TypeOK
    PROVE  \A l \in Refreshed : l.gen \in Gens /\ l.side \in Sides /\ l.dir \in DirsOf(l.side)
  <1>1. \A s \in Sides : pane[s].dir # None => pane[s].dir \in DirsOf(s)
    BY DEF TypeOK
  <1>2. gen \in Gens
    BY DEF TypeOK
  <1>3. \A l \in listings : l.gen \in Gens /\ l.side \in Sides /\ l.dir \in DirsOf(l.side)
    BY DEF TypeOK
  <1>4. ASSUME NEW l \in Refreshed, l \notin listings
        PROVE  l.gen \in Gens /\ l.side \in Sides /\ l.dir \in DirsOf(l.side)
    <2>1. PICK s \in Sides : pane[s].dir # None /\ l = [gen |-> gen, side |-> s, dir |-> pane[s].dir]
      BY <1>4 DEF Refreshed
    <2> QED
      BY <1>1, <1>2, <2>1
  <1> QED
    BY <1>3, <1>4

\* The listings under way.
LEMMA ListingsTyped ==
    ASSUME TypeOK, Next
    PROVE  \A l \in listings' : l.gen \in Gens /\ l.side \in Sides /\ l.dir \in DirsOf(l.side)
  <1>0. \A l \in listings : l.gen \in Gens /\ l.side \in Sides /\ l.dir \in DirsOf(l.side)
    BY DEF TypeOK
  <1>1. CASE Start
    <2>1. listings' = listings \cup {[gen |-> gen', side |-> "local", dir |-> Home]}
      BY <1>1 DEF Start
    <2>2. gen' \in Gens /\ Home \in DirsOf("local") /\ "local" \in Sides
      BY <1>1, NextGeneration, PanesAssumption DEF DirsOf, Sides
    <2> QED
      BY <1>0, <2>1, <2>2
  <1>2. ASSUME NEW s \in Sides, NEW d \in DirsOf(s), OpenDir(s, d)
        PROVE  \A l \in listings' : l.gen \in Gens /\ l.side \in Sides /\ l.dir \in DirsOf(l.side)
    <2>1. listings' = listings \cup {[gen |-> gen, side |-> s, dir |-> d]} /\ gen \in Gens
      BY <1>2 DEF OpenDir, TypeOK
    <2> QED
      BY <1>0, <1>2, <2>1
  <1>3. CASE \/ \E g \in edits : FileOpDone(g)
             \/ \E g \in Gens : TransferDone(g)
    <2>1. listings' = listings \/ listings' = Refreshed
      BY <1>3 DEF FileOpDone, TransferDone
    <2> QED
      BY <1>0, <2>1, RefreshedTyped
  <1>4. \/ Start \/ listings' \subseteq listings
        \/ \E s \in Sides : \E d \in DirsOf(s) : OpenDir(s, d)
        \/ \E g \in edits : FileOpDone(g)
        \/ \E g \in Gens : TransferDone(g)
    BY DEF Next, Keys, Connections, OpenSFTP, KeyPassEnter, KeyPassEsc, DismissCard,
       CallNilBrowser, AnswerQuestion, AnswerDelete, AnswerPending, CancelTransfer, Release,
       Mark, TransferKey, DeleteKey, Press, StartRename, ResolveRename, ConnectSFTP,
       Connected, Failed, Ask, Listed, Planned, RunTransfer, paneVars
  <1> QED
    BY <1>0, <1>1, <1>2, <1>3, <1>4

\* The copies, the edits, and what is held with the mouse.
LEMMA WorkTyped ==
    ASSUME TypeOK, BothPanes, Next
    PROVE  /\ copy' \in [Gens -> {"none", "running", "stopped", "told"}]
           /\ edits' \subseteq Gens
           /\ drag' \in [side : Sides, dir : Dirs] \cup {None}
  <1>1. copy' \in [Gens -> {"none", "running", "stopped", "told"}]
    <2>1. \/ copy' = copy \/ Stop
          \/ \E g \in Gens, t \in {"running", "told", "none"} : copy' = [copy EXCEPT ![g] = t]
      BY DEF TypeOK, Next, Keys, Connections, OpenSFTP, KeyPassEnter, KeyPassEsc, DismissCard,
         CallNilBrowser, AnswerQuestion, AnswerDelete, AnswerPending, CancelTransfer, Release,
         Mark, TransferKey, DeleteKey, Press, StartRename, OpenDir, ResolveRename,
         ConnectSFTP, Connected, Failed, Ask, Listed, Planned, FileOpDone, RunTransfer,
         TransferDone, Start, Teardown
    <2>2. gen \in Gens
      BY DEF TypeOK
    <2> QED
      BY <2>1, <2>2 DEF TypeOK, Stop
  <1>2. edits' \subseteq Gens
    <2>1. CASE AnswerDelete
      <3>1. confirm \in Requests
        BY <2>1 DEF AnswerDelete, TypeOK
      <3>2. edits' = edits \/ edits' = {confirm.gen}
        BY <2>1 DEF AnswerDelete, Edit, jobVars
      <3> QED
        BY <3>1, <3>2 DEF TypeOK, Requests
    <2>2. CASE ResolveRename
      BY <2>2 DEF ResolveRename, Edit, jobVars, TypeOK
    <2>3. AnswerDelete \/ ResolveRename \/ edits' \subseteq edits
      BY DEF Next, Keys, Connections, OpenSFTP, KeyPassEnter, KeyPassEsc, DismissCard,
         CallNilBrowser, AnswerQuestion, AnswerPending, CancelTransfer, Release,
         Mark, TransferKey, DeleteKey, Press, StartRename, OpenDir, ConnectSFTP, Connected,
         Failed, Ask, Listed, Planned, FileOpDone, RunTransfer, TransferDone, Start, Plan,
         jobVars
    <2> QED
      BY <2>1, <2>2, <2>3 DEF TypeOK
  <1>3. drag' \in [side : Sides, dir : Dirs] \cup {None}
    <2>1. ASSUME NEW s \in Sides, Press(s)
          PROVE  drag' \in [side : Sides, dir : Dirs]
      <3>1. drag' = [side |-> s, dir |-> PickedIn(s)] /\ pane[s].shown
        BY <2>1 DEF Press
      <3>2. PickedIn(s) \in DirsOf(s)
        BY <2>1, <3>1 DEF PickedIn, TypeOK, BothPanes
      <3> QED
        BY <3>1, <3>2 DEF Dirs, DirsOf, Sides
    <2>2. drag' \in {drag, None} \/ \E s \in Sides : Press(s)
      BY DEF Next, Keys, Connections, OpenSFTP, KeyPassEnter, KeyPassEsc, DismissCard,
         CallNilBrowser, AnswerQuestion, AnswerDelete, AnswerPending, CancelTransfer,
         Release, Mark, TransferKey, DeleteKey, StartRename, OpenDir, ResolveRename,
         ConnectSFTP, Connected, Failed, Ask, Listed, Planned, FileOpDone, RunTransfer,
         TransferDone, Start, Teardown, dialogVars
    <2> QED
      BY <2>1, <2>2 DEF TypeOK
  <1> QED
    BY <1>1, <1>2, <1>3

\* The flags.
LEMMA FlagsTyped ==
    ASSUME TypeOK, Next
    PROVE  /\ rename' \in BOOLEAN /\ keyPass' \in BOOLEAN /\ card' \in BOOLEAN
           /\ scanning' \in BOOLEAN /\ transfer' \in BOOLEAN /\ panicked' \in BOOLEAN
  BY DEF TypeOK, Next, Keys, Connections, OpenSFTP, KeyPassEnter, KeyPassEsc, DismissCard,
     CallNilBrowser, AnswerQuestion, AnswerDelete, AnswerPending, CancelTransfer, Release,
     Mark, TransferKey, DeleteKey, Press, StartRename, OpenDir, ResolveRename, ConnectSFTP,
     Connected, Failed, Ask, Listed, Planned, FileOpDone, RunTransfer, TransferDone, Start,
     Teardown, Plan, Edit, dialogVars, jobVars

-----------------------------------------------------------------------------
(* The invariant.                                                          *)

\* The view before anything is opened.
LEMMA InitHolds == Init => IInv
  <1> SUFFICES ASSUME Init
               PROVE  IInv
    OBVIOUS
  <1>1. 0 \in Gens
    BY PanesAssumption DEF Gens
  <1>2. \A s \in Sides : pane[s] = [dir |-> None, shown |-> FALSE, marked |-> None, gen |-> 0]
    BY DEF Init, EmptyPane
  <1>3. BothPanes
    <2>1. pane = [s \in Sides |-> EmptyPane]
      BY DEF Init
    <2>2. pane = [s \in Sides |-> pane[s]]
      BY <2>1
    <2> QED
      BY <1>2, <2>2 DEF BothPanes
  <1>4. PanesAreCurrent /\ PicksAreHere
    <2>1. plans = {} /\ {confirm} \ {None, Question} = {}
      BY DEF Init
    <2>2. \A s \in Sides : ~pane[s].shown /\ pane[s].dir = None
      BY <1>2
    <2> QED
      BY <2>1, <2>2 DEF PanesAreCurrent, PicksAreHere
  <1>5. TypeOK
    <2>1. \A s \in Sides : pane[s] \in [dir : DirsOf(s) \cup {None}, shown : BOOLEAN,
                                       marked : DirsOf(s) \cup {None}, gen : Gens]
      <3>1. \A s \in Sides : [dir |-> None, shown |-> FALSE, marked |-> None, gen |-> 0]
                             \in [dir : DirsOf(s) \cup {None}, shown : BOOLEAN,
                                 marked : DirsOf(s) \cup {None}, gen : Gens]
        BY <1>1
      <3> QED
        BY <1>2, <3>1
    <2>2. copy \in [Gens -> {"none", "running", "stopped", "told"}]
      BY DEF Init
    <2> QED
      BY <1>1, <2>1, <2>2 DEF Init, TypeOK
  <1>6. Generations /\ OneJob /\ ScanIsReal /\ NoLeakedConnection
    BY DEF Init, Generations, OneJob, Deleting, ScanIsReal, NoLeakedConnection
  <1> QED
    BY <1>3, <1>4, <1>5, <1>6 DEF IInv

\* Every message, key and end of a goroutine keeps it.
LEMMA StepKeeps ==
    ASSUME IInv, Next
    PROVE  IInv'
  <1>0. TypeOK /\ BothPanes
    BY DEF IInv
  <1>1. TypeOK'
    BY <1>0, PanesKept, LinksKept, JobsKept, ListingsTyped, WorkTyped, FlagsTyped DEF TypeOK
  <1>2. Generations'
    BY LinksKept, JobsKept DEF Generations
  <1>3. PicksAreHere'
    BY PanesKept, JobsKept DEF PicksAreHere
  <1> QED
    BY <1>1, <1>2, <1>3, PanesKept, LinksKept, JobsKept DEF IInv

\* All of it, in every state.
LEMMA Invariance == Spec => []IInv
  <1>1. IInv /\ UNCHANGED vars => IInv'
    BY DEF IInv, TypeOK, BothPanes, Generations, OneJob, Deleting, ScanIsReal,
       NoLeakedConnection, PanesAreCurrent, PicksAreHere, vars, connVars, paneVars,
       dialogVars, jobVars
  <1> QED
    BY <1>1, InitHolds, StepKeeps, PTL DEF Spec

-----------------------------------------------------------------------------
(* What the split view may rely on.                                        *)

\* One job that excludes the others is at most one job.
LEMMA AtMostOne ==
    ASSUME OneJob
    PROVE  OneAtATime
  <1> DEFINE Up(j) == \/ j = "scan" /\ scanning
                      \/ j = "pending" /\ pending # None
                      \/ j = "transfer" /\ transfer
                      \/ /\ j = "delete" /\ confirm \notin {None, Question}
                         /\ confirm.gen = gen
             J == {j \in {"scan", "pending", "transfer", "delete"} : Up(j)}
  <1>1. \A i, j \in J : i = j
    <2>1. /\ Up("scan") => ~Up("pending") /\ ~Up("transfer") /\ ~Up("delete")
          /\ Up("pending") => ~Up("transfer") /\ ~Up("delete")
          /\ Up("transfer") => ~Up("delete")
      BY DEF OneJob, Deleting
    <2> HIDE DEF Up
    <2> QED
      BY <2>1
  <1>2. J = {} \/ \E j : J = {j}
    <2> HIDE DEF J
    <2> QED
      BY <1>1
  <1>3. Cardinality(J) <= 1
    <2> HIDE DEF J
    <2>1. CASE J = {}
      BY <2>1, FS_EmptySet
    <2>2. CASE \E j : J = {j}
      <3>1. PICK j : J = {j}
        BY <2>2
      <3>2. Cardinality({j}) = 1
        BY FS_Singleton
      <3> QED
        BY <3>1, <3>2
    <2> QED
      BY <1>2, <2>1, <2>2
  <1> QED
    BY <1>3 DEF OneAtATime

\* Variables keep their types, and of a walk, a request on screen, a copy and
\* a delete to confirm there is never more than one.
THEOREM ViewConsistent == Spec => []Consistent
  <1>1. IInv => Consistent
    BY AtMostOne DEF IInv, Consistent
  <1> QED
    BY <1>1, Invariance, PTL

\* "scanning..." stands for exactly one walk that will still report.
THEOREM ScansReal == Spec => []ScanIsReal
  <1>1. IInv => ScanIsReal
    BY DEF IInv
  <1> QED
    BY <1>1, Invariance, PTL

\* No connection is left open by a dial that came back too late.
THEOREM ConnectionsOwned == Spec => []NoLeakedConnection
  <1>1. IInv => NoLeakedConnection
    BY DEF IInv
  <1> QED
    BY <1>1, Invariance, PTL

\* A pane shows a listing of the connection its keys act on, in whatever order
\* listings of this and of earlier connections arrive.
THEOREM PanesCurrent == Spec => []PanesAreCurrent
  <1>1. IInv => PanesAreCurrent
    BY DEF IInv
  <1> QED
    BY <1>1, Invariance, PTL

\* A delete names what was picked in the directory it acts on.
THEOREM PicksHere == Spec => []PicksAreHere
  <1>1. IInv => PicksAreHere
    BY DEF IInv
  <1> QED
    BY <1>1, Invariance, PTL
=============================================================================
