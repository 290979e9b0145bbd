------------------------------- MODULE Panes -------------------------------
(* The SFTP split view (ui/sftp.go, ui/app.go, sftp/transfer.go): two panes *)
(* that list directories, a connection with a generation, the walk that     *)
(* plans a copy or a delete, the copy, and the edits.  The event loop       *)
(* starts goroutines and hears of them by messages, in any order; whatever  *)
(* it started for an earlier connection carries that connection's           *)
(* generation.                                                              *)
(*                                                                          *)
(* A listing and a walk are one step each, at the moment their message is   *)
(* handled.  Of the rows and directories a request names, only whether the   *)
(* rows were picked in the directory it acts on is kept.                    *)
(* What the copies do to the files is module Transfer.                      *)
EXTENDS Naturals, FiniteSets

CONSTANTS LocalDirs, RemoteDirs, Home, \* directories, and where both panes open
          None, Question,  \* model values
          MaxGen,          \* bound: connections asked for
          MaxListings      \* bound: listings under way when the user asks for one

Sides == {"local", "remote"}
DirsOf(s) == IF s = "local" THEN LocalDirs ELSE RemoteDirs
Dirs == LocalDirs \cup RemoteDirs
Gens == 0..MaxGen

ASSUME PanesAssumption ==
    /\ Home \in LocalDirs \cap RemoteDirs
    /\ MaxGen \in Nat /\ MaxListings \in Nat
    /\ None \notin Dirs

(* transferReq and the delete that was counted; "here" if the rows were     *)
(* picked in the directory it acts on.                                      *)
Requests == [kind : {"copy", "delete"}, here : BOOLEAN, gen : Gens]

VARIABLES link,      \* generations whose connection is open
          dialing,   \* connectSFTP under way
          up,        \* sftpConnectedMsg on its way
          gen,       \* a.sftpGen
          remote,    \* a.remote, and remotePane.br with it: its generation or 0
          pane,      \* per side: dir, marked, entries there or not, and their generation
          listings,  \* listDir under way
          drag, rename, pending, confirm, keyPass, card, \* the dialogs; card is sftpErr
          scanning,
          plans,     \* planTransfer and planDelete under way
          transfer,  \* a.transfer # nil
          copy,      \* per generation, the goroutine of runTransfer
          edits,     \* generations with a runDelete or runRename under way
          panicked   \* the program has panicked

connVars == <<link, dialing, up, gen, remote>>
paneVars == <<pane, listings>>
dialogVars == <<drag, rename, pending, confirm, keyPass, card>>
jobVars == <<scanning, plans, transfer, edits>>
vars == <<copy, connVars, paneVars, dialogVars, jobVars, panicked>>

EmptyPane == [dir |-> None, shown |-> FALSE, marked |-> None, gen |-> 0]

Init ==
    /\ copy = [g \in Gens |-> "none"]
    /\ link = {} /\ dialing = {} /\ up = {} /\ gen = 0 /\ remote = 0
    /\ pane = [s \in Sides |-> EmptyPane] /\ listings = {}
    /\ drag = None /\ pending = None /\ confirm = None
    /\ rename = FALSE /\ keyPass = FALSE /\ card = FALSE
    /\ scanning = FALSE /\ plans = {} /\ transfer = FALSE
    /\ edits = {}
    /\ panicked = FALSE

-----------------------------------------------------------------------------
(* Who owns the keyboard and the mouse (handleKey, handleMouse).  The       *)
(* passphrase question owns the keys and not the mouse.                     *)
NoDialog == ~keyPass /\ ~rename /\ confirm = None /\ pending = None
PanesOwnKeys == NoDialog /\ ~card /\ gen > 0
MouseFree == ~rename /\ confirm = None /\ pending = None /\ ~card /\ gen > 0

(* a.transfer.cancel(): the copy is told to stop, if it has not ended.      *)
Stop ==
    copy' = [copy EXCEPT ![gen] =
               IF transfer /\ @ = "running" THEN "stopped" ELSE @]

(* Mutant: the walk under way is forgotten but not its flag.                *)
TeardownKeepsScanning ==
    /\ Stop /\ transfer' = FALSE
    /\ link' = link \ {remote} /\ remote' = 0
    /\ drag' = None /\ pending' = None /\ rename' = FALSE
    /\ UNCHANGED scanning /\ card' = FALSE
    /\ gen' = gen + 1

(* teardownSFTP: the copy is told to stop, the connection under it closed,  *)
(* every dialog of the panes taken down; the confirm panel stays.           *)
Teardown ==
    /\ Stop /\ transfer' = FALSE
    /\ link' = link \ {remote} /\ remote' = 0
    /\ drag' = None /\ pending' = None /\ rename' = FALSE
    /\ scanning' = FALSE /\ card' = FALSE
    /\ gen' = gen + 1

(* startSFTP.                                                               *)
Start ==
    /\ gen < MaxGen
    /\ Teardown
    /\ pane' = [s \in Sides |-> [EmptyPane EXCEPT !.gen = gen']]
    /\ listings' = listings \cup {[gen |-> gen', side |-> "local", dir |-> Home]}
    /\ dialing' = dialing \cup {gen'}
    /\ UNCHANGED <<up, confirm, plans, edits, panicked>>

(* f in the sidebar on another server, or r on the error card.              *)
OpenSFTP == NoDialog /\ Start /\ UNCHANGED keyPass

(* handleKeyPassKey: enter dials again with the passphrase, esc does not.   *)
KeyPassEnter == keyPass /\ keyPass' = FALSE /\ Start
KeyPassEsc ==
    /\ keyPass /\ keyPass' = FALSE
    /\ UNCHANGED <<copy, connVars, paneVars, drag, rename, pending,
                   confirm, card, jobVars, panicked>>

DismissCard ==
    /\ NoDialog /\ card /\ card' = FALSE
    /\ UNCHANGED <<copy, connVars, paneVars, drag, rename, pending,
                   confirm, keyPass, jobVars, panicked>>

-----------------------------------------------------------------------------
(* The connection.                                                          *)

ConnectSFTP(g) ==
    /\ g \in dialing /\ dialing' = dialing \ {g}
    /\ link' = link \cup {g} /\ up' = up \cup {g}
    /\ UNCHANGED <<copy, gen, remote, paneVars, dialogVars, jobVars, panicked>>

(* Mutant: a connection that comes too late is dropped, not closed.         *)
ConnectedDropped(g) ==
    /\ g \in up /\ up' = up \ {g}
    /\ \/ /\ g # gen
          /\ UNCHANGED <<link, remote, pane>>
       \/ /\ g = gen /\ remote' = g
          /\ \E ok \in BOOLEAN :
                pane' = [pane EXCEPT !["remote"] =
                   [dir |-> Home, shown |-> ok, marked |-> None, gen |-> g]]
          /\ UNCHANGED link
    /\ UNCHANGED <<copy, dialing, gen, listings, dialogVars, jobVars, panicked>>

(* sftpConnectedMsg, with a first listing that worked or not.               *)
Connected(g) ==
    /\ g \in up /\ up' = up \ {g}
    /\ \/ /\ g # gen /\ link' = link \ {g}
          /\ UNCHANGED <<remote, pane>>
       \/ /\ g = gen /\ remote' = g
          /\ \E ok \in BOOLEAN :
                pane' = [pane EXCEPT !["remote"] =
                   [dir |-> Home, shown |-> ok, marked |-> None, gen |-> g]]
          /\ UNCHANGED link
    /\ UNCHANGED <<copy, dialing, gen, listings, dialogVars, jobVars, panicked>>

(* sftpFailedMsg: whatever is on the confirm panel goes; a key that wants a *)
(* passphrase asks for it, anything else is the card.                       *)
Failed(g) ==
    /\ g \in dialing /\ dialing' = dialing \ {g}
    /\ \/ g # gen /\ UNCHANGED dialogVars
       \/ /\ g = gen /\ confirm' = None
          /\ \/ keyPass' = TRUE /\ UNCHANGED card
             \/ card' = TRUE /\ UNCHANGED keyPass
          /\ UNCHANGED <<drag, rename, pending>>
    /\ UNCHANGED <<copy, link, up, gen, remote, paneVars, jobVars, panicked>>

(* A host key question, of this dial or another, takes the confirm panel    *)
(* over, and is answered.                                                   *)
Ask ==
    /\ confirm' = Question
    /\ UNCHANGED <<copy, connVars, paneVars, drag, rename, pending,
                   keyPass, card, jobVars, panicked>>

AnswerQuestion ==
    /\ confirm = Question /\ ~keyPass /\ ~rename
    /\ confirm' = None
    /\ UNCHANGED <<copy, connVars, paneVars, drag, rename, pending,
                   keyPass, card, jobVars, panicked>>

-----------------------------------------------------------------------------
(* The panes.                                                               *)

(* enter on a directory, backspace, r.                                      *)
OpenDir(s, d) ==
    /\ PanesOwnKeys
    /\ s = "remote" => remote # 0
    /\ pane[s].dir # None /\ d \in DirsOf(s)
    /\ Cardinality(listings) < MaxListings
    /\ listings' = listings \cup {[gen |-> gen, side |-> s, dir |-> d]}
    /\ UNCHANGED <<copy, connVars, pane, dialogVars, jobVars, panicked>>

(* backspace and r on a remote pane that has no browser yet: a method call  *)
(* on a nil interface.                                                      *)
CallNilBrowser ==
    /\ PanesOwnKeys /\ remote = 0
    /\ panicked' = TRUE
    /\ UNCHANGED <<copy, connVars, paneVars, dialogVars, jobVars>>

(* Mutants: a listing is shown whichever connection it was asked of; marks  *)
(* outlive the listing they were made in.                                   *)
ListedAlways(l) ==
    /\ l \in listings /\ listings' = listings \ {l}
    /\ \/ pane' = [pane EXCEPT ![l.side] =
             [dir |-> l.dir, shown |-> TRUE, marked |-> None, gen |-> l.gen]]
       \/ pane' = [pane EXCEPT ![l.side].dir = l.dir,
                               ![l.side].shown = FALSE, ![l.side].gen = l.gen]
    /\ UNCHANGED <<copy, connVars, dialogVars, jobVars, panicked>>

ListedKeepsMarks(l) ==
    /\ l \in listings /\ listings' = listings \ {l}
    /\ \/ l.gen # gen /\ UNCHANGED pane
       \/ /\ l.gen = gen
          /\ \E ok \in BOOLEAN :
                pane' = [pane EXCEPT ![l.side].dir = l.dir,
                            ![l.side].shown = ok, ![l.side].gen = gen]
    /\ UNCHANGED <<copy, connVars, dialogVars, jobVars, panicked>>

(* listedMsg: setEntries, or an error, which leaves the marks.              *)
Listed(l) ==
    /\ l \in listings /\ listings' = listings \ {l}
    /\ \/ l.gen # gen /\ UNCHANGED pane
       \/ /\ l.gen = gen
          /\ pane' = [pane EXCEPT ![l.side] =
                [dir |-> l.dir, shown |-> TRUE, marked |-> None, gen |-> gen]]
       \/ /\ l.gen = gen
          /\ pane' = [pane EXCEPT ![l.side].dir = l.dir,
                         ![l.side].shown = FALSE, ![l.side].gen = gen]
    /\ UNCHANGED <<copy, connVars, dialogVars, jobVars, panicked>>

(* toggleMark and clearMarks.                                               *)
Mark(s) ==
    /\ PanesOwnKeys
    /\ \/ pane[s].shown /\ pane' = [pane EXCEPT ![s].marked = pane[s].dir]
       \/ pane' = [pane EXCEPT ![s].marked = None]
    /\ UNCHANGED <<copy, connVars, listings, dialogVars, jobVars, panicked>>

(* targets(): the marked rows that are listed, else the one at the cursor.  *)
(* The directory a target was picked in is the one its mark was made in.    *)
PickedIn(s) == IF pane[s].marked # None THEN pane[s].marked ELSE pane[s].dir

-----------------------------------------------------------------------------
(* Plans: one walk at a time, of a copy or of a delete.                     *)

(* Mutant: a copy is planned while another one runs.                        *)
IdleScanOnly == ~scanning

Idle == ~transfer /\ ~scanning

Plan(k, s, d) ==
    /\ Idle
    /\ scanning' = TRUE
    /\ plans' = plans \cup {[kind |-> k, here |-> d = pane[s].dir, gen |-> gen]}
    /\ UNCHANGED <<transfer, edits>>

(* buildTransfer, from the row or the marks.                                *)
TransferKey(s) ==
    /\ PanesOwnKeys /\ remote # 0 /\ pane[s].shown
    /\ Plan("copy", s, PickedIn(s))
    /\ UNCHANGED <<copy, connVars, paneVars, dialogVars, panicked>>

(* startDelete.                                                             *)
DeleteKey(s) ==
    /\ PanesOwnKeys /\ pane[s].shown
    /\ Plan("delete", s, PickedIn(s))
    /\ UNCHANGED <<copy, connVars, paneVars, dialogVars, panicked>>

(* handleSFTPMouse: a press takes hold of a row, a release over the other   *)
(* pane is the transfer key for what was taken.                             *)
Press(s) ==
    /\ MouseFree /\ pane[s].shown
    /\ drag' = [side |-> s, dir |-> PickedIn(s)]
    /\ UNCHANGED <<copy, connVars, paneVars, rename, pending, confirm,
                   keyPass, card, jobVars, panicked>>

Release ==
    /\ MouseFree /\ drag # None
    /\ drag' = None
    /\ \/ remote # 0 /\ Plan("copy", drag.side, drag.dir)
       \/ UNCHANGED jobVars
    /\ UNCHANGED <<copy, connVars, paneVars, rename, pending, confirm,
                   keyPass, card, panicked>>

(* plannedMsg and deletePlannedMsg: the walk failed, or the request is put  *)
(* to the user.                                                             *)
Planned(p) ==
    /\ p \in plans /\ plans' = plans \ {p}
    /\ IF p.gen # gen \/ ~scanning
       THEN UNCHANGED <<scanning, pending, confirm>>
       ELSE /\ scanning' = FALSE
            /\ \/ UNCHANGED <<pending, confirm>>
               \/ p.kind = "copy" /\ pending' = p /\ UNCHANGED confirm
               \/ p.kind = "delete" /\ confirm' = p /\ UNCHANGED pending
    /\ UNCHANGED <<copy, connVars, paneVars, drag, rename, keyPass, card,
                   transfer, edits, panicked>>

-----------------------------------------------------------------------------
(* Deletes and renames.                                                     *)

(* Bound: one edit is under way at a time.                                  *)
Edit(g) ==
    /\ edits = {} /\ edits' = {g}
    /\ UNCHANGED <<scanning, plans, transfer>>

(* The panel "Delete n items?" is answered.                                 *)
AnswerDelete ==
    /\ confirm \notin {None, Question} /\ ~keyPass /\ ~rename
    /\ confirm' = None
    /\ UNCHANGED jobVars \/ Edit(confirm.gen)
    /\ UNCHANGED <<copy, connVars, paneVars, drag, rename, pending,
                   keyPass, card, panicked>>

(* startRename and resolveRename.  A copy may be running.                   *)
StartRename(s) ==
    /\ PanesOwnKeys /\ pane[s].shown
    /\ rename' = TRUE
    /\ UNCHANGED <<copy, connVars, paneVars, drag, pending, confirm,
                   keyPass, card, jobVars, panicked>>

ResolveRename ==
    /\ rename /\ ~keyPass
    /\ rename' = FALSE
    /\ UNCHANGED jobVars \/ Edit(gen)
    /\ UNCHANGED <<copy, connVars, paneVars, drag, pending, confirm,
                   keyPass, card, panicked>>

(* refreshPanes.                                                            *)
Refreshed ==
    listings \cup {[gen |-> gen, side |-> s, dir |-> pane[s].dir] :
                     s \in {t \in Sides : /\ pane[t].dir # None
                                          /\ t = "remote" => remote # 0}}

(* fileOpDoneMsg.                                                           *)
FileOpDone(g) ==
    /\ g \in edits /\ edits' = edits \ {g}
    /\ listings' = IF g = gen THEN Refreshed ELSE listings
    /\ UNCHANGED <<copy, connVars, pane, dialogVars, scanning, plans, transfer,
                   panicked>>

-----------------------------------------------------------------------------
(* The copy.                                                                *)

(* resolvePending and startTransfer.                                        *)
AnswerPending ==
    /\ pending # None /\ confirm = None /\ ~keyPass /\ ~rename
    /\ pending' = None
    /\ \/ UNCHANGED <<copy, transfer>>
       \/ transfer' = TRUE /\ copy' = [copy EXCEPT ![gen] = "running"]
    /\ UNCHANGED <<connVars, paneVars, drag, rename, confirm, keyPass,
                   card, scanning, plans, edits, panicked>>

(* ctrl+c; the state stays until the goroutine reports.                     *)
CancelTransfer ==
    /\ transfer /\ ~keyPass /\ Stop
    /\ UNCHANGED <<connVars, paneVars, dialogVars, jobVars, panicked>>

(* runTransfer returns: done, stopped or failed.                            *)
RunTransfer(g) ==
    /\ copy[g] \in {"running", "stopped"}
    /\ copy' = [copy EXCEPT ![g] = "told"]
    /\ UNCHANGED <<connVars, paneVars, dialogVars, jobVars, panicked>>

(* transferDoneMsg.                                                         *)
TransferDone(g) ==
    /\ copy[g] = "told" /\ copy' = [copy EXCEPT ![g] = "none"]
    /\ IF g # gen
       THEN UNCHANGED <<transfer, listings>>
       ELSE transfer' = FALSE /\ listings' = Refreshed
    /\ UNCHANGED <<connVars, pane, dialogVars, scanning, plans, edits, panicked>>

-----------------------------------------------------------------------------
Keys ==
    \/ OpenSFTP \/ KeyPassEnter \/ KeyPassEsc \/ DismissCard
    \/ CallNilBrowser \/ AnswerQuestion \/ AnswerDelete
    \/ AnswerPending \/ CancelTransfer \/ Release
    \/ \E s \in Sides :
          \/ Mark(s) \/ TransferKey(s) \/ DeleteKey(s) \/ Press(s)
          \/ StartRename(s) \/ \E d \in DirsOf(s) : OpenDir(s, d)
    \/ ResolveRename

Connections ==
    \/ \E g \in Gens : ConnectSFTP(g) \/ Connected(g) \/ Failed(g)
    \/ Ask

Next ==
    /\ ~panicked
    /\ \/ Keys
       \/ Connections
       \/ \E l \in listings : Listed(l)
       \/ \E p \in plans : Planned(p)
       \/ \E g \in edits : FileOpDone(g)
       \/ \E g \in Gens : RunTransfer(g) \/ TransferDone(g)

Spec == Init /\ [][Next]_vars

-----------------------------------------------------------------------------
(* Properties.                                                              *)

(* Every variable holds a value of its type.                                *)
TypeOK ==
    /\ copy \in [Gens -> {"none", "running", "stopped", "told"}]
    /\ link \subseteq Gens /\ dialing \subseteq Gens /\ up \subseteq Gens
    /\ gen \in Gens /\ remote \in Gens
    /\ \A s \in Sides : pane[s] \in
          [dir : DirsOf(s) \cup {None}, shown : BOOLEAN,
           marked : DirsOf(s) \cup {None}, gen : Gens]
    /\ \A l \in listings :
          l.gen \in Gens /\ l.side \in Sides /\ l.dir \in DirsOf(l.side)
    /\ drag \in [side : Sides, dir : Dirs] \cup {None}
    /\ pending \in Requests \cup {None}
    /\ confirm \in Requests \cup {None, Question}
    /\ rename \in BOOLEAN /\ keyPass \in BOOLEAN /\ card \in BOOLEAN /\ scanning \in BOOLEAN
    /\ plans \subseteq Requests
    /\ transfer \in BOOLEAN
    /\ edits \subseteq Gens
    /\ panicked \in BOOLEAN

(* "scanning..." stands for exactly one walk of the connection on screen    *)
(* that will still report.  Were it up without one, no transfer and no      *)
(* delete could be asked for again.                                         *)
ScanIsReal ==
    /\ scanning <=> \E p \in plans : p.gen = gen
    /\ \A p, q \in plans : p.gen = q.gen => p = q

(* "a transfer is already running": of a walk, a request on screen, a copy  *)
(* and a delete to confirm there is never more than one, whatever messages, *)
(* questions and new connections come in between.                           *)
OneAtATime ==
    Cardinality({j \in {"scan", "pending", "transfer", "delete"} :
        \/ j = "scan" /\ scanning
        \/ j = "pending" /\ pending # None
        \/ j = "transfer" /\ transfer
        \/ /\ j = "delete" /\ confirm \notin {None, Question}
           /\ confirm.gen = gen}) <= 1

(* What holds of the view at rest: its types, and one job at a time.        *)
Consistent == TypeOK /\ OneAtATime

(* Every connection that is open is the one on screen or about to be        *)
(* handed over: none is left behind by a dial that came back too late.      *)
NoLeakedConnection == link \subseteq {remote} \cup up

(* What a pane shows was listed over the connection that its keys will act  *)
(* on; a listing of an earlier server is never taken for this one's.        *)
PanesAreCurrent ==
    \A s \in Sides : pane[s].dir # None => pane[s].gen = gen

(* "a name carried over from another directory would silently select the    *)
(* wrong file": a delete, and any request from the keyboard, names what was *)
(* picked in the directory it acts on.  (Stated of the marks and of delete  *)
(* requests; a drag is not, see the README.)                                *)
PicksAreHere ==
    /\ \A s \in Sides :
          pane[s].shown /\ pane[s].marked # None => pane[s].marked = pane[s].dir
    /\ \A r \in plans \cup ({confirm} \ {None, Question}) :
          r.kind = "delete" => r.here

(* A failed connection "must not take the panes down -- the local side is   *)
(* still worth looking at": no key on the panes ends the program.           *)
NoPanic == ~panicked
=============================================================================
