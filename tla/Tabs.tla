-------------------------------- MODULE Tabs --------------------------------
(***************************************************************************)
(* The session tabs: internal/ui/tabs.go, the slot pool of                 *)
(* internal/ui/terminal.go and the handlers of connectedMsg,               *)
(* connectFailedMsg, reconnectMsg, outputMsg and sessionEndedMsg in        *)
(* internal/ui/app.go.                                                     *)
(*                                                                         *)
(* The UI is one goroutine, so a handler is one step.  What it starts      *)
(* (a dial, a backoff tick, a read of the session's output) runs           *)
(* elsewhere and comes back as a message that carries the generation it    *)
(* was started with; dials, ticks and readers hold the generations of what *)
(* is still in flight, and any of it may come back at any time.            *)
(*                                                                         *)
(* A tab is named by the emulator slot it borrowed: slots are recycled, so *)
(* this is where two tabs could get mixed up.  Tabs are numbered from 1    *)
(* where the code numbers them from 0; active = 0 is the code's -1.        *)
(***************************************************************************)
EXTENDS Naturals, SequencesExt

CONSTANTS
    Servers,     \* ids of the saved servers
    NoServer,    \* not a server
    MaxTabs,     \* maxTabs; 8 in the code
    MaxGen,      \* bound: dials made in one run of the program
    LockedKeys   \* environment: some server's private key needs a passphrase

ASSUME TabsAssumption ==
    /\ NoServer \notin Servers
    /\ MaxTabs \in Nat \ {0}
    /\ MaxGen \in Nat
    /\ LockedKeys \in BOOLEAN

VARIABLES
    gen,        \* App.gen, the last generation handed out
    order,      \* App.tabs, each tab as its slot
    active,     \* App.active
    free, live, \* termPool: the slots given back, the number ever created
    \* Fields of sessionTab, by slot.
    id, state, tgen, session, attempt, until, activity,
    pumpTo,     \* keyPump.w: the session (its generation) keys are sent to
    \* Commands and messages in flight.
    dials,      \* [gen, auto]; auto dials carry no prompt channel
    ticks,      \* generations of pending reconnectMsg ticks
    readers,    \* generations with a waitForOutput (or its message) in flight
    open,       \* sessions that are up and that nobody has closed
    \* The rest of App that tabs depend on.
    keyPass,    \* the key passphrase question: NoKey or [srv, sftp]
    sftp,       \* the server connectingSFTP names, or NoServer
    lastAttempt, lastWasSFTP,
    card,       \* the server whose failed connect the error card is about
    quitting

poolVars == <<free, live>>
tabVars == <<id, state, tgen, session, attempt, until, activity, pumpTo>>
flightVars == <<dials, ticks, readers, open>>
appVars == <<keyPass, sftp, lastAttempt, lastWasSFTP, card, quitting>>
vars == <<gen, order, active, poolVars, tabVars, flightVars, appVars>>

Slots == 1..MaxTabs
NoGen == 0
NoKey == [srv |-> NoServer, sftp |-> FALSE]
Tabs == Range(order)
cur == IF active = 0 THEN 0 ELSE order[active]
TabByGen(g) == {s \in Tabs : tgen[s] = g}

(* dialing: what askHostKey takes for "somebody is waiting".               *)
dialing ==
    \/ sftp # NoServer
    \/ \E s \in Tabs : state[s] \in {"connecting", "reconnecting"}

TypeOK ==
    /\ gen \in 0..MaxGen
    /\ order \in Seq(Slots) /\ active \in Nat
    /\ free \subseteq Slots /\ live \in 0..MaxTabs
    /\ id \in [Slots -> Servers \cup {NoServer}]
    /\ state \in [Slots -> {"none", "connecting", "live", "lost", "reconnecting"}]
    /\ tgen \in [Slots -> 0..MaxGen]
    /\ session \in [Slots -> 0..MaxGen]
    /\ attempt \in [Slots -> Nat]
    /\ until \in [Slots -> BOOLEAN] /\ activity \in [Slots -> BOOLEAN]
    /\ pumpTo \in [Slots -> 0..MaxGen]
    /\ dials \subseteq [gen : 1..MaxGen, auto : BOOLEAN]
    /\ ticks \subseteq 1..MaxGen /\ readers \subseteq 1..MaxGen
    /\ open \subseteq 1..MaxGen
    /\ keyPass \in [srv : Servers \cup {NoServer}, sftp : BOOLEAN]
    /\ sftp \in Servers \cup {NoServer}
    /\ lastAttempt \in Servers \cup {NoServer} /\ lastWasSFTP \in BOOLEAN
    /\ card \in Servers \cup {NoServer}
    /\ quitting \in BOOLEAN

Init ==
    /\ gen = 0 /\ order = <<>> /\ active = 0 /\ free = {} /\ live = 0
    /\ id = [s \in Slots |-> NoServer]
    /\ state = [s \in Slots |-> "none"]
    /\ tgen = [s \in Slots |-> NoGen] /\ session = [s \in Slots |-> NoGen]
    /\ attempt = [s \in Slots |-> 0]
    /\ until = [s \in Slots |-> FALSE] /\ activity = [s \in Slots |-> FALSE]
    /\ pumpTo = [s \in Slots |-> NoGen]
    /\ dials = {} /\ ticks = {} /\ readers = {} /\ open = {}
    /\ keyPass = NoKey /\ sftp = NoServer
    /\ lastAttempt = NoServer /\ lastWasSFTP = FALSE
    /\ card = NoServer /\ quitting = FALSE

-----------------------------------------------------------------------------
(* Opening, switching and closing.                                         *)

(* switchTo: bring the tab at position i to the front.                     *)
SwitchTo(i) ==
    /\ active' = i
    /\ activity' = [activity EXCEPT ![order[i]] = FALSE]
    /\ card' = NoServer

(* termPool.get: a recycled slot first, then a new one up to MaxTabs.      *)
(* Slots are alike, so which recycled one is left open.                    *)
PoolGet(s) ==
    IF free # {}
    THEN s \in free /\ free' = free \ {s} /\ UNCHANGED live
    ELSE live < MaxTabs /\ s = live + 1 /\ live' = s /\ UNCHANGED free

PoolFull == free = {} /\ live >= MaxTabs

(* openTab past its reuse check, with a slot to borrow.  dialled says      *)
(* whether the caller runs the dial command that openTab returns.          *)
NewTab(srv, dialled) ==
    /\ gen < MaxGen
    /\ gen' = gen + 1
    /\ \E s \in Slots :
         /\ PoolGet(s)
         /\ order' = Append(order, s)
         /\ active' = Len(order) + 1
         /\ id' = [id EXCEPT ![s] = srv]
         /\ state' = [state EXCEPT ![s] = "connecting"]
         /\ tgen' = [tgen EXCEPT ![s] = gen + 1]
         /\ session' = [session EXCEPT ![s] = NoGen]
         /\ attempt' = [attempt EXCEPT ![s] = 0]
         /\ until' = [until EXCEPT ![s] = FALSE]
         /\ activity' = [activity EXCEPT ![s] = FALSE]
    /\ dials' = IF dialled THEN dials \cup {[gen |-> gen + 1, auto |-> FALSE]}
                           ELSE dials
    /\ card' = NoServer
    /\ UNCHANGED <<pumpTo, ticks, readers, open>>

(* openTab(srv, force) as the whole of a handler.                          *)
OpenTab(srv, force) ==
    \/ \* the server's first tab is shown instead
       /\ ~force
       /\ \E i \in DOMAIN order :
            /\ id[order[i]] = srv
            /\ \A j \in 1..(i - 1) : id[order[j]] # srv
            /\ SwitchTo(i)
       /\ UNCHANGED <<gen, order, poolVars, id, state, tgen, session, attempt,
                      until, pumpTo, flightVars, lastAttempt, lastWasSFTP>>
    \/ \* too many sessions
       /\ force \/ \A s \in Tabs : id[s] # srv
       /\ PoolFull
       /\ UNCHANGED <<gen, order, active, poolVars, tabVars, flightVars,
                      lastAttempt, lastWasSFTP, card>>
    \/ /\ force \/ \A s \in Tabs : id[s] # srv
       /\ ~PoolFull
       /\ NewTab(srv, TRUE)
       /\ lastAttempt' = srv /\ lastWasSFTP' = FALSE

(* Mutant: a tab closed to the left of the one on screen does not shift    *)
(* it.                                                                     *)
ActiveUnshifted(i, n) ==
    CASE n = 0 -> 0
      [] n > 0 /\ active > n -> n
      [] n > 0 /\ active <= n -> active

(* Where active points once the tab at i is gone and n are left: at the    *)
(* tab it pointed at, or at a neighbour.                                   *)
ActiveAfterClose(i, n) ==
    CASE n = 0 -> 0
      [] n > 0 /\ active > i -> active - 1
      [] n > 0 /\ active = i -> IF i > n THEN n ELSE i
      [] n > 0 /\ active < i -> active

(* closeTab(i): the session is closed and the slot wiped and given back.   *)
(* The tab that comes on screen instead, if any, is seen.                  *)
CloseTab(i) ==
    LET s == order[i]
        rest == RemoveAt(order, i)
        next == ActiveAfterClose(i, Len(rest))
    IN  /\ order' = rest
        /\ active' = next
        /\ open' = open \ {session[s]}
        /\ free' = free \cup {s}
        /\ id' = [id EXCEPT ![s] = NoServer]
        /\ state' = [state EXCEPT ![s] = "none"]
        /\ tgen' = [tgen EXCEPT ![s] = NoGen]
        /\ session' = [session EXCEPT ![s] = NoGen]
        /\ pumpTo' = [pumpTo EXCEPT ![s] = NoGen]
        /\ attempt' = [attempt EXCEPT ![s] = 0]
        /\ until' = [until EXCEPT ![s] = FALSE]
        /\ activity' = [t \in Slots |->
                          IF t = s \/ (active = i /\ next # 0 /\ t = rest[next])
                          THEN FALSE ELSE activity[t]]
        /\ UNCHANGED live

-----------------------------------------------------------------------------
(* Keys.  The passphrase question owns the keyboard while it is up.        *)

KeysFree == ~quitting /\ keyPass = NoKey

(* enter (force = FALSE) or n (force = TRUE) on a server of the list.  A    *)
(* click on its row works as enter does and asks no dialog for permission. *)
Open(srv, force) ==
    /\ ~quitting /\ (force => KeysFree)
    /\ OpenTab(srv, force)
    /\ UNCHANGED <<keyPass, sftp, quitting>>

Switch(i) ==
    /\ KeysFree
    /\ SwitchTo(i)
    /\ UNCHANGED <<gen, order, poolVars, id, state, tgen, session, attempt,
                   until, pumpTo, flightVars, keyPass, sftp, lastAttempt,
                   lastWasSFTP, quitting>>

CloseActive ==
    /\ KeysFree /\ active # 0
    /\ CloseTab(active)
    /\ UNCHANGED <<gen, dials, ticks, readers, appVars>>

(* reconnect(t, auto).                                                     *)
Redial(s, auto) ==
    /\ gen < MaxGen
    /\ gen' = gen + 1
    /\ tgen' = [tgen EXCEPT ![s] = gen + 1]
    /\ state' = [state EXCEPT ![s] = "reconnecting"]
    /\ until' = [until EXCEPT ![s] = FALSE]
    /\ dials' = dials \cup {[gen |-> gen + 1, auto |-> auto]}
    /\ UNCHANGED <<order, active, poolVars, id, session, attempt, activity,
                   pumpTo, readers, open>>

(* r on a tab whose connection is lost.                                    *)
ManualReconnect ==
    /\ KeysFree /\ active # 0
    /\ state[cur] = "lost"
    /\ Redial(cur, FALSE)
    /\ UNCHANGED <<ticks, appVars>>

(* f, and the retry of a failed SFTP connection: startSFTP.                *)
StartSFTP(srv) ==
    /\ sftp' = srv /\ lastAttempt' = srv /\ lastWasSFTP' = TRUE
    /\ card' = NoServer

OpenSFTP(srv) ==
    /\ KeysFree
    /\ StartSFTP(srv)
    /\ UNCHANGED <<gen, order, active, poolVars, tabVars, flightVars, keyPass,
                   quitting>>

(* The error card's retry and dismiss.                                     *)
Retry ==
    /\ KeysFree /\ card # NoServer /\ lastAttempt # NoServer
    /\ \/ ~lastWasSFTP /\ OpenTab(lastAttempt, FALSE) /\ UNCHANGED sftp
       \/ /\ lastWasSFTP /\ StartSFTP(lastAttempt)
          /\ UNCHANGED <<gen, order, active, poolVars, tabVars, flightVars>>
    /\ UNCHANGED <<keyPass, quitting>>

Dismiss ==
    /\ KeysFree /\ card # NoServer
    /\ card' = NoServer
    /\ UNCHANGED <<gen, order, active, poolVars, tabVars, flightVars, keyPass,
                   sftp, lastAttempt, lastWasSFTP, quitting>>

(* The passphrase answered: the shell is dialled again in a new tab.  For  *)
(* an SFTP connection the code calls openTab as well, drops the dial it    *)
(* returns and starts SFTP.  A vault that must be unlocked first (Migrate) *)
(* only delays the answer: its gate owns the keyboard as the question does. *)
KeyPassEnter ==
    /\ ~quitting /\ keyPass # NoKey
    /\ keyPass' = NoKey
    /\ IF PoolFull
       THEN UNCHANGED <<gen, order, active, poolVars, tabVars, flightVars>>
            /\ IF keyPass.sftp THEN StartSFTP(keyPass.srv)
               ELSE UNCHANGED <<sftp, lastAttempt, lastWasSFTP, card>>
       ELSE /\ NewTab(keyPass.srv, ~keyPass.sftp)
            /\ lastAttempt' = keyPass.srv /\ lastWasSFTP' = keyPass.sftp
            /\ sftp' = IF keyPass.sftp THEN keyPass.srv ELSE sftp
    /\ UNCHANGED quitting

KeyPassEsc ==
    /\ ~quitting /\ keyPass # NoKey
    /\ keyPass' = NoKey
    /\ UNCHANGED <<gen, order, active, poolVars, tabVars, flightVars, sftp,
                   lastAttempt, lastWasSFTP, card, quitting>>

(* q: teardownAllSessions closes every tab, last to first.                 *)
Quit ==
    /\ KeysFree
    /\ quitting' = TRUE
    /\ order' = <<>> /\ active' = 0
    /\ free' = free \cup Tabs
    /\ open' = open \ {session[s] : s \in Tabs}
    /\ id' = [s \in Slots |-> NoServer]
    /\ state' = [s \in Slots |-> "none"]
    /\ tgen' = [s \in Slots |-> NoGen] /\ session' = [s \in Slots |-> NoGen]
    /\ attempt' = [s \in Slots |-> 0]
    /\ until' = [s \in Slots |-> FALSE] /\ activity' = [s \in Slots |-> FALSE]
    /\ pumpTo' = [s \in Slots |-> NoGen]
    /\ UNCHANGED <<gen, live, dials, ticks, readers, keyPass, sftp, lastAttempt,
                   lastWasSFTP, card>>

-----------------------------------------------------------------------------
(* Messages.                                                               *)

(* Mutants: the tick carries the session's generation, which a failed dial *)
(* does not have; the keys stay attached; the session is not forgotten;    *)
(* the tick is never armed.                                                *)
Lost(s, forgotten, detached, ticking) ==
    /\ state' = [state EXCEPT ![s] = "lost"]
    /\ session' = IF forgotten THEN [session EXCEPT ![s] = NoGen] ELSE session
    /\ attempt' = [attempt EXCEPT ![s] = @ + 1]
    /\ pumpTo' = IF detached THEN [pumpTo EXCEPT ![s] = NoGen] ELSE pumpTo
    /\ until' = [until EXCEPT ![s] = TRUE]
    /\ ticks' = ticks \cup ticking

ScheduleAttached(s) == Lost(s, TRUE, FALSE, {tgen[s]})
ScheduleRemembers(s) == Lost(s, FALSE, TRUE, {tgen[s]})
ScheduleUnarmed(s) == Lost(s, TRUE, TRUE, {})

(* scheduleReconnect.                                                      *)
Schedule(s) ==
    /\ state' = [state EXCEPT ![s] = "lost"]
    /\ session' = [session EXCEPT ![s] = NoGen]
    /\ attempt' = [attempt EXCEPT ![s] = @ + 1]
    /\ pumpTo' = [pumpTo EXCEPT ![s] = NoGen]
    /\ until' = [until EXCEPT ![s] = TRUE]
    /\ ticks' = ticks \cup {tgen[s]}

(* stopReconnecting: park the tab until the user presses r.                *)
Park(s) ==
    /\ state' = [state EXCEPT ![s] = "lost"]
    /\ session' = [session EXCEPT ![s] = NoGen]
    /\ pumpTo' = [pumpTo EXCEPT ![s] = NoGen]
    /\ until' = [until EXCEPT ![s] = FALSE]
    /\ UNCHANGED <<attempt, ticks>>

(* connectedMsg.  A session whose generation no tab has is closed at once. *)
Connected(d) ==
    /\ ~quitting
    /\ dials' = dials \ {d}
    /\ \/ /\ TabByGen(d.gen) = {}
          /\ UNCHANGED <<tabVars, readers, open, card>>
       \/ \E s \in TabByGen(d.gen) :
            /\ session' = [session EXCEPT ![s] = d.gen]
            /\ state' = [state EXCEPT ![s] = "live"]
            /\ attempt' = [attempt EXCEPT ![s] = 0]
            /\ until' = [until EXCEPT ![s] = FALSE]
            /\ pumpTo' = [pumpTo EXCEPT ![s] = d.gen]
            /\ activity' = [activity EXCEPT ![s] = IF s = cur THEN @ ELSE TRUE]
            /\ card' = IF s = cur THEN NoServer ELSE card
            /\ readers' = readers \cup {d.gen}
            /\ open' = open \cup {d.gen}
            /\ UNCHANGED <<id, tgen>>
    /\ UNCHANGED <<gen, order, active, poolVars, ticks, keyPass, sftp,
                   lastAttempt, lastWasSFTP, quitting>>

(* connectFailedMsg: a reconnect goes back to waiting, except on an        *)
(* unknown host key; a first connect leaves nothing but the error card, or *)
(* the passphrase question.                                                *)
DialErrors == {"hostkey", "other"} \cup (IF LockedKeys THEN {"locked"} ELSE {})

ConnectFailed(d, err) ==
    /\ ~quitting
    /\ dials' = dials \ {d}
    /\ \/ /\ TabByGen(d.gen) = {}
          /\ UNCHANGED <<order, active, poolVars, tabVars, ticks, open,
                         keyPass, card>>
       \/ \E s \in TabByGen(d.gen) :
            \/ /\ attempt[s] > 0
               /\ IF err = "hostkey" THEN Park(s) ELSE Schedule(s)
               /\ UNCHANGED <<order, active, poolVars, id, tgen, activity,
                              open, keyPass, card>>
            \/ /\ attempt[s] = 0
               /\ \E i \in DOMAIN order : order[i] = s /\ CloseTab(i)
               /\ IF err = "locked"
                  THEN keyPass' = [srv |-> id[s], sftp |-> FALSE] /\ UNCHANGED card
                  ELSE card' = id[s] /\ UNCHANGED keyPass
               /\ UNCHANGED ticks
    /\ UNCHANGED <<gen, readers, sftp, lastAttempt, lastWasSFTP, quitting>>

(* reconnectMsg: a tick that outlived its tab, or its retry, is dropped.   *)
Tick(g) ==
    /\ ~quitting
    /\ ticks' = ticks \ {g}
    /\ \/ /\ \A s \in TabByGen(g) : state[s] # "lost"
          /\ UNCHANGED <<gen, order, active, poolVars, tabVars, dials, readers,
                         open>>
       \/ \E s \in TabByGen(g) : state[s] = "lost" /\ Redial(s, TRUE)
    /\ UNCHANGED appVars

(* Mutant: output of a tab in the background is not read on.               *)
OutputVisibleOnly(g) ==
    /\ ~quitting
    /\ readers' = (readers \ {g}) \cup {session[s] : s \in TabByGen(g) \cap {cur}}
    /\ UNCHANGED <<gen, order, active, poolVars, tabVars, dials, ticks, open,
                   appVars>>

(* outputMsg: fed to the tab's emulator and the next read armed.           *)
Output(g) ==
    /\ ~quitting
    /\ \/ /\ TabByGen(g) = {}
          /\ readers' = readers \ {g}
          /\ UNCHANGED activity
       \/ \E s \in TabByGen(g) :
            /\ readers' = (readers \ {g}) \cup {session[s]}
            /\ activity' = [activity EXCEPT ![s] = IF s = cur THEN @ ELSE TRUE]
    /\ UNCHANGED <<gen, order, active, poolVars, id, state, tgen, session,
                   attempt, until, pumpTo, dials, ticks, open, appVars>>

(* sessionEndedMsg: a lost connection is reconnected, an exit closes the   *)
(* tab.                                                                    *)
SessionEnded(g, lost) ==
    /\ ~quitting
    /\ readers' = readers \ {g}
    /\ \/ /\ TabByGen(g) = {}
          /\ UNCHANGED <<order, active, poolVars, tabVars, ticks, open>>
       \/ \E s \in TabByGen(g) :
            \/ /\ lost
               /\ Schedule(s)
               /\ open' = open \ {g}
               /\ UNCHANGED <<order, active, poolVars, id, tgen, activity>>
            \/ /\ ~lost
               /\ \E i \in DOMAIN order : order[i] = s /\ CloseTab(i)
               /\ UNCHANGED ticks
    /\ UNCHANGED <<gen, dials, appVars>>

(* sftpConnectedMsg and sftpFailedMsg, as far as tabs see them.  A locked  *)
(* key asks about the last attempt.                                        *)
SftpDone(err) ==
    /\ ~quitting /\ sftp # NoServer
    /\ sftp' = NoServer
    /\ IF err = "locked"
       THEN keyPass' = [srv |-> lastAttempt, sftp |-> TRUE]
       ELSE UNCHANGED keyPass
    /\ UNCHANGED <<gen, order, active, poolVars, tabVars, flightVars,
                   lastAttempt, lastWasSFTP, card, quitting>>

-----------------------------------------------------------------------------
Keys ==
    \/ \E srv \in Servers, force \in BOOLEAN : Open(srv, force)
    \/ \E i \in DOMAIN order : Switch(i)
    \/ CloseActive \/ ManualReconnect
    \/ \E srv \in Servers : OpenSFTP(srv)
    \/ Retry \/ Dismiss
    \/ KeyPassEnter \/ KeyPassEsc \/ Quit

DialDone(d) == Connected(d) \/ \E err \in DialErrors : ConnectFailed(d, err)

Messages ==
    \/ \E d \in dials : DialDone(d)
    \/ \E g \in ticks : Tick(g)
    \/ \E g \in readers : Output(g) \/ \E lost \in BOOLEAN : SessionEnded(g, lost)
    \/ \E err \in DialErrors \cup {"nil"} : SftpDone(err)

Next == Keys \/ Messages

Spec == Init /\ [][Next]_vars

(* A backoff timer fires and its message is handled.  A dial owes nothing: *)
(* nothing in the code bounds a handshake (see Dial).                      *)
Fairness == \A g \in 1..MaxGen : WF_vars(g \in ticks /\ Tick(g))

FairSpec == Spec /\ Fairness

-----------------------------------------------------------------------------
(* Properties.                                                             *)

(* Messages are routed by generation, so no two tabs may share one, and    *)
(* none may be newer than the counter.                                     *)
GenerationsDistinct ==
    \A s, t \in Tabs : tgen[s] = tgen[t] => s = t

(* The pool: every slot ever created is in exactly one tab or in the free  *)
(* list, and no slot is in two tabs, so no two sessions share a screen.    *)
SlotsAccounted ==
    /\ IsInjective(order)
    /\ Tabs \cap free = {}
    /\ Tabs \cup free = 1..live

(* The strip always shows a tab when there is one.                         *)
ActiveInRange ==
    /\ active \in 0..Len(order)
    /\ active = 0 <=> order = <<>>

(* Keys typed into a tab reach that tab's own session or nobody: the       *)
(* recycled key pump is never left attached to a session that ended, was   *)
(* closed, or belongs to another tab.                                      *)
KeysGoHome ==
    \A s \in Slots : pumpTo[s] # NoGen =>
        s \in Tabs /\ session[s] = pumpTo[s] /\ pumpTo[s] \in open

(* Every session that is up is held by a tab: one that comes up after its  *)
(* tab was closed or redialled is closed, never adopted and never leaked.  *)
NoOrphanSessions ==
    open = {session[s] : s \in {t \in Tabs : session[t] # NoGen}}

(* What a tab is waiting for.                                              *)
HasDial(s) == \E d \in dials : d.gen = tgen[s]

(* No tab waits for something that is not coming: a live tab has its       *)
(* output being read, a lost tab that announces a retry has the tick       *)
(* pending, and nothing else in flight can claim either.                   *)
EveryTabDriven ==
    \A s \in Tabs :
        /\ state[s] = "live" =>
              session[s] = tgen[s] /\ tgen[s] \in readers /\ tgen[s] \notin ticks
        /\ state[s] = "lost" =>
              ~HasDial(s) /\ tgen[s] \notin readers
              /\ (until[s] <=> tgen[s] \in ticks)
        /\ state[s] \in {"connecting", "reconnecting"} =>
              session[s] = NoGen /\ tgen[s] \notin ticks /\ tgen[s] \notin readers

(* A parked tab (lost, nothing scheduled: its host key was not accepted)   *)
(* comes back only through a dial that can ask the user; no tick left over *)
(* from an earlier generation revives it unattended.                       *)
Parked(s) == s \in Tabs /\ state[s] = "lost" /\ ~until[s]

ParkedNeedsUser ==
    [][\A s \in Slots :
         Parked(s) /\ state[s]' = "reconnecting" =>
            [gen |-> tgen[s]', auto |-> FALSE] \in dials']_vars

(* Tabs that come and go in the background (a shell that exits, a connect  *)
(* that fails) never change which tab is on screen.                        *)
ViewIsStable ==
    [][active # 0 /\ cur \in Tabs' /\ ~Keys => cur' = cur]_vars

(* A tab that announces a retry is retried, closed or taken over by the    *)
(* user, however its generation, its slot and the tabs around it change    *)
(* while the timer runs.                                                   *)
Announced(g) == \E s \in Tabs : tgen[s] = g /\ state[s] = "lost" /\ until[s]

RetryHappens ==
    \A g \in 1..MaxGen : Announced(g) ~> ~Announced(g) \/ gen = MaxGen
=============================================================================
