-------------------------------- MODULE Dial --------------------------------
(***************************************************************************)
(* Making a connection: Dial and Connect of internal/ssh/session.go and    *)
(* Connect of internal/sftp/remote.go, the host key question of            *)
(* internal/ssh/hostkey.go, and the UI that answers it (waitForHostKey,    *)
(* askHostKey, the shared confirm panel and the handlers around it in      *)
(* internal/ui/app.go).                                                    *)
(*                                                                         *)
(* Each dial runs on a goroutine of its own, blocked in the network or in  *)
(* the question; the questions of all of them share one channel of one     *)
(* place, one pump and one panel.  A dial is also the tab, or the SFTP     *)
(* connection, that waits for it.                                          *)
(***************************************************************************)
EXTENDS Naturals, FiniteSets

CONSTANTS
    Dials,    \* the connection attempts of one run of the program
    NoDial,   \* not a dial
    Other,    \* the panel's question when it is not about a host key
    Hosts,    \* the hosts dialled, as known_hosts names them
    Keys,     \* host keys
    Revoked   \* keys a known_hosts file of the user marks @revoked

ASSUME DialAssumption ==
    /\ NoDial \notin Dials /\ Other \notin Dials /\ NoDial # Other
    /\ Revoked \subseteq Keys

VARIABLES
    file,     \* lines of the known_hosts files, [host, key]
    \* Each dialling goroutine.
    pc, host, key,
    auto,     \* an automatic reconnect: Options.Prompts is nil
    seen,     \* the lines knownhosts.New read when the dial began
    client,   \* the connection: "none", "open", "closed"
    stuck,    \* the server has stopped answering this dial
    reply,    \* HostKeyPrompt.reply, a channel of one place
    \* The UI.
    tab,      \* "none", "dialing", "up", "gone": who waits for the dial
    hostKeys, \* App.hostKeys, a channel of one place: a dial or NoDial
    prompt,   \* the hostKeyPromptMsg on its way
    confirm,  \* the panel: NoDial, a dial's question, or Other
    cmds,     \* commands that answer a question, [dial, ok, close]
    answered, \* hostKeyAnsweredMsgs on their way, by the dial they answered
    approved  \* history: [host, key] the user said yes to on screen

netVars == <<file, pc, host, key, auto, seen, client, stuck>>
uiVars == <<tab, hostKeys, prompt, confirm, cmds, answered, approved>>
vars == <<netVars, reply, uiVars>>

Lines == [host : Hosts, key : Keys]
Offer(d) == [host |-> host[d], key |-> key[d]]
Over == {"ok", "failed"}

TypeOK ==
    /\ file \subseteq Lines
    /\ pc \in [Dials -> {"idle", "creds", "tcp", "handshake", "prompt", "wait",
                         "append", "auth", "shell", "ok", "failed"}]
    /\ host \in [Dials -> Hosts] /\ key \in [Dials -> Keys]
    /\ auto \in [Dials -> BOOLEAN]
    /\ seen \in [Dials -> SUBSET Lines]
    /\ client \in [Dials -> {"none", "open", "closed"}]
    /\ stuck \in [Dials -> BOOLEAN]
    /\ reply \in [Dials -> {"empty", "yes", "no"}]
    /\ tab \in [Dials -> {"none", "dialing", "up", "gone"}]
    /\ hostKeys \in Dials \cup {NoDial} /\ prompt \in Dials \cup {NoDial}
    /\ confirm \in Dials \cup {NoDial, Other}
    /\ cmds \subseteq [dial : Dials, ok : BOOLEAN, close : BOOLEAN]
    /\ answered \subseteq Dials
    /\ approved \subseteq Lines

Init ==
    /\ file \in {f \in SUBSET Lines : Cardinality(f) <= 1}
    /\ pc = [d \in Dials |-> "idle"]
    /\ host \in [Dials -> Hosts] /\ key \in [Dials -> Keys]
    /\ auto \in [Dials -> BOOLEAN]
    /\ seen = [d \in Dials |-> {}]
    /\ client = [d \in Dials |-> "none"]
    /\ stuck = [d \in Dials |-> FALSE]
    /\ reply = [d \in Dials |-> "empty"]
    /\ tab = [d \in Dials |-> "none"]
    /\ hostKeys = NoDial /\ prompt = NoDial /\ confirm = NoDial
    /\ cmds = {} /\ answered = {} /\ approved = {}

-----------------------------------------------------------------------------
(* The dialling goroutine.                                                 *)

Goto(d, from, to) == pc[d] = from /\ pc' = [pc EXCEPT ![d] = to]

(* A step of dial d that only moves it on.                                 *)
Only(d, from, to) ==
    /\ Goto(d, from, to)
    /\ UNCHANGED <<file, host, key, auto, seen, client, stuck, reply, uiVars>>

(* authMethods, then hostKeyCallback: known_hosts is read once, here.      *)
Creds(d) ==
    \/ Only(d, "creds", "failed")
    \/ /\ Goto(d, "creds", "tcp")
       /\ seen' = [seen EXCEPT ![d] = file]
       /\ UNCHANGED <<file, host, key, auto, client, stuck, reply, uiVars>>

(* xssh.Dial opens the TCP connection: this is what cfg.Timeout bounds.    *)
Tcp(d) == ~stuck[d] /\ Only(d, "tcp", "handshake")
TcpTimeout(d) == Only(d, "tcp", "failed")

(* Mutant: a new key is put on file unasked.                               *)
VerifyAcceptsNew(d) ==
    LET onRecord == {l \in seen[d] : l.host = host[d]}
    IN  CASE key[d] \in Revoked -> "failed"
          [] key[d] \notin Revoked /\ Offer(d) \in seen[d] -> "auth"
          [] key[d] \notin Revoked /\ Offer(d) \notin seen[d] /\ onRecord # {} -> "failed"
          [] key[d] \notin Revoked /\ onRecord = {} ->
                IF auto[d] THEN "failed" ELSE "append"

(* The key exchange reaches the callback.  A key that is not the one on    *)
(* record, or is revoked, is refused; an unknown one is asked about unless *)
(* there is no channel to ask on.                                          *)
VerifyOutcome(d) ==
    LET onRecord == {l \in seen[d] : l.host = host[d]}
    IN  CASE key[d] \in Revoked -> "failed"
          [] key[d] \notin Revoked /\ Offer(d) \in seen[d] -> "auth"
          [] key[d] \notin Revoked /\ Offer(d) \notin seen[d] /\ onRecord # {} -> "failed"
          [] key[d] \notin Revoked /\ onRecord = {} ->
                IF auto[d] THEN "failed" ELSE "prompt"

Verify(d) == ~stuck[d] /\ Only(d, "handshake", VerifyOutcome(d))
HandshakeFails(d) == ~stuck[d] /\ Only(d, "handshake", "failed")

(* o.Prompts <- prompt, raced against the timer.                           *)
SendPrompt(d) ==
    /\ hostKeys = NoDial
    /\ Goto(d, "prompt", "wait")
    /\ hostKeys' = d
    /\ UNCHANGED <<file, host, key, auto, seen, client, stuck, reply, tab,
                   prompt, confirm, cmds, answered, approved>>

(* Mutant: any answer counts as a yes.                                     *)
TakeAnyReply(d) ==
    /\ reply[d] # "empty" /\ Goto(d, "wait", "append")
    /\ reply' = [reply EXCEPT ![d] = "empty"]
    /\ UNCHANGED <<file, host, key, auto, seen, client, stuck, uiVars>>

(* <-prompt.reply, raced against what is left of the same timer.           *)
TakeReply(d) ==
    /\ reply[d] # "empty"
    /\ Goto(d, "wait", IF reply[d] = "yes" THEN "append" ELSE "failed")
    /\ reply' = [reply EXCEPT ![d] = "empty"]
    /\ UNCHANGED <<file, host, key, auto, seen, client, stuck, uiVars>>

(* Mutant: the timer covers the first wait only.                           *)
PromptTimeoutFirst(d) == Only(d, "prompt", "failed")

PromptTimeout(d) == Only(d, "prompt", "failed") \/ Only(d, "wait", "failed")

(* AppendKnownHost: a line, or an error that refuses the key.              *)
AppendKnownHost(d) ==
    \/ Only(d, "append", "failed")
    \/ /\ Goto(d, "append", "auth")
       /\ file' = file \cup {Offer(d)}
       /\ UNCHANGED <<host, key, auto, seen, client, stuck, reply, uiVars>>

(* The rest of the handshake: the client exists once it is authenticated.  *)
Authenticate(d) ==
    /\ ~stuck[d]
    /\ \/ Only(d, "auth", "failed")
       \/ /\ Goto(d, "auth", "shell")
          /\ client' = [client EXCEPT ![d] = "open"]
          /\ UNCHANGED <<file, host, key, auto, seen, stuck, reply, uiVars>>

(* NewSession to Shell, or the sftp subsystem: an error closes the client. *)
OpenShell(d) ==
    /\ ~stuck[d]
    /\ \/ Only(d, "shell", "ok")
       \/ /\ Goto(d, "shell", "failed")
          /\ client' = [client EXCEPT ![d] = "closed"]
          /\ UNCHANGED <<file, host, key, auto, seen, stuck, reply, uiVars>>

(* The server stops answering, with the connection still established.      *)
ServerStuck(d) ==
    /\ pc[d] \notin Over \cup {"idle"} /\ ~stuck[d]
    /\ stuck' = [stuck EXCEPT ![d] = TRUE]
    /\ UNCHANGED <<file, pc, host, key, auto, seen, client, reply, uiVars>>

-----------------------------------------------------------------------------
(* The UI goroutine, and the commands it starts.                           *)

(* dialing                                                                 *)
Dialing == \E d \in Dials : tab[d] = "dialing"

(* openTab, startSFTP or reconnect.                                        *)
Start(d) ==
    /\ Goto(d, "idle", "creds")
    /\ tab' = [tab EXCEPT ![d] = "dialing"]
    /\ UNCHANGED <<file, host, key, auto, seen, client, stuck, reply, hostKeys,
                   prompt, confirm, cmds, answered, approved>>

(* The tab is closed, or another SFTP connection started.  The panel owns  *)
(* the keyboard while it is up.                                            *)
Abandon(d) ==
    /\ tab[d] = "dialing" /\ confirm = NoDial
    /\ tab' = [tab EXCEPT ![d] = "gone"]
    /\ UNCHANGED <<netVars, reply, hostKeys, prompt, confirm, cmds, answered,
                   approved>>

(* Mutant: a connection whose tab is gone is ignored, not closed.          *)
SucceededIgnored(d) ==
    /\ pc[d] = "ok" /\ tab[d] = "dialing" /\ client[d] = "open"
    /\ tab' = [tab EXCEPT ![d] = "up"]
    /\ UNCHANGED <<netVars, reply, hostKeys, prompt, confirm, cmds, answered,
                   approved>>

(* connectedMsg, sftpConnectedMsg.                                         *)
Succeeded(d) ==
    /\ pc[d] = "ok" /\ tab[d] \in {"dialing", "gone"} /\ client[d] = "open"
    /\ IF tab[d] = "dialing"
       THEN tab' = [tab EXCEPT ![d] = "up"] /\ UNCHANGED client
       ELSE client' = [client EXCEPT ![d] = "closed"] /\ UNCHANGED tab
    /\ UNCHANGED <<file, pc, host, key, auto, seen, stuck, reply, hostKeys,
                   prompt, confirm, cmds, answered, approved>>

(* connectFailedMsg, sftpFailedMsg: whatever panel is up goes down.        *)
Failed(d) ==
    /\ pc[d] = "failed" /\ tab[d] = "dialing"
    /\ tab' = [tab EXCEPT ![d] = "gone"]
    /\ confirm' = NoDial
    /\ UNCHANGED <<netVars, reply, hostKeys, prompt, cmds, answered, approved>>

(* waitForHostKey receives, as long as its last message has been handled.  *)
WaitForHostKey ==
    /\ hostKeys # NoDial /\ prompt = NoDial
    /\ prompt' = hostKeys /\ hostKeys' = NoDial
    /\ UNCHANGED <<netVars, reply, tab, confirm, cmds, answered, approved>>

(* hostKeyPromptMsg: askHostKey.                                           *)
AskHostKey ==
    /\ prompt # NoDial
    /\ prompt' = NoDial
    /\ IF Dialing
       THEN confirm' = prompt /\ UNCHANGED cmds
       ELSE /\ cmds' = cmds \cup {[dial |-> prompt, ok |-> FALSE, close |-> FALSE]}
            /\ UNCHANGED confirm
    /\ UNCHANGED <<netVars, reply, tab, hostKeys, answered, approved>>

(* Another question takes the panel: deleting a server (a key, when the    *)
(* panel is down), or a scan or a pull that has come back with one.        *)
AskOther ==
    /\ confirm # Other
    /\ confirm' = Other
    /\ UNCHANGED <<netVars, reply, tab, hostKeys, prompt, cmds, answered, approved>>

(* confirm.resolve.                                                        *)
Answer(ok) ==
    /\ confirm # NoDial
    /\ confirm' = NoDial
    /\ IF confirm = Other
       THEN UNCHANGED <<cmds, approved>>
       ELSE /\ cmds' = cmds \cup {[dial |-> confirm, ok |-> ok, close |-> TRUE]}
            /\ approved' = IF ok THEN approved \cup {Offer(confirm)} ELSE approved
    /\ UNCHANGED <<netVars, reply, tab, hostKeys, prompt, answered>>

(* The command: Accept or Reject, never blocking, then its message.        *)
RunAnswer(c) ==
    /\ cmds' = cmds \ {c}
    /\ reply' = [reply EXCEPT ![c.dial] =
                   IF @ # "empty" THEN @ ELSE IF c.ok THEN "yes" ELSE "no"]
    /\ answered' = IF c.close THEN answered \cup {c.dial} ELSE answered
    /\ UNCHANGED <<netVars, tab, hostKeys, prompt, confirm, approved>>

(* hostKeyAnsweredMsg.                                                     *)
HandleAnswered(d) ==
    /\ answered' = answered \ {d}
    /\ confirm' = NoDial
    /\ UNCHANGED <<netVars, reply, tab, hostKeys, prompt, cmds, approved>>

-----------------------------------------------------------------------------
DialStep(d) ==
    \/ Creds(d) \/ Tcp(d) \/ TcpTimeout(d) \/ Verify(d) \/ HandshakeFails(d)
    \/ SendPrompt(d) \/ TakeReply(d) \/ PromptTimeout(d) \/ AppendKnownHost(d)
    \/ Authenticate(d) \/ OpenShell(d)

User ==
    \/ \E d \in Dials : Start(d) \/ Abandon(d)
    \/ AskOther \/ \E ok \in BOOLEAN : Answer(ok)

Loop ==
    \/ \E d \in Dials : Succeeded(d) \/ Failed(d)
    \/ WaitForHostKey \/ AskHostKey
    \/ \E c \in cmds : RunAnswer(c)
    \/ \E d \in answered : HandleAnswered(d)

Next ==
    \/ \E d \in Dials : DialStep(d) \/ ServerStuck(d)
    \/ User \/ Loop

Spec == Init /\ [][Next]_vars

(* Goroutines are scheduled, timers fire and the UI handles its messages.  *)
(* The user and the servers owe nothing.                                   *)
Fairness ==
    /\ \A d \in Dials : WF_vars(DialStep(d))
    /\ \A d \in Dials : WF_vars(Succeeded(d) \/ Failed(d))
    /\ WF_vars(WaitForHostKey)
    /\ WF_vars(AskHostKey)
    /\ \A d \in Dials, ok, close \in BOOLEAN :
         WF_vars(\E c \in cmds : c = [dial |-> d, ok |-> ok, close |-> close]
                                 /\ RunAnswer(c))
    /\ \A d \in Dials : WF_vars(d \in answered /\ HandleAnswered(d))

FairSpec == Spec /\ Fairness

-----------------------------------------------------------------------------
(* Properties.                                                             *)

Past(d) == pc[d] \in {"auth", "shell", "ok"}

(* No connection gets past its host key unless that key was on file when   *)
(* the dial began, or the user said yes to this very host and key: not by  *)
(* an answer that was meant for another dial's question, a late answer, or *)
(* a panel that was replaced before the key was pressed.                   *)
OnlyTrustedKeys ==
    \A d \in Dials : Past(d) => Offer(d) \in seen[d] \cup approved

(* A changed or revoked key is refused whatever the user answers: a line   *)
(* on record for the host can only be added to by a dial that began before *)
(* it was there.                                                           *)
ChangedKeysRefused ==
    \A d \in Dials : Past(d) =>
        /\ key[d] \notin Revoked
        /\ Offer(d) \notin seen[d] => \A l \in seen[d] : l.host # host[d]

(* known_hosts only ever grows, and only by lines the user approved.       *)
FileGrowsByApproval ==
    [][file \subseteq file' /\ file' \ file \subseteq approved]_vars

(* "approving a new host key must be something the user is looking at": an *)
(* automatic reconnect never puts a question on the panel.                 *)
AutoNeverAsks ==
    \A d \in Dials : auto[d] => confirm # d /\ prompt # d /\ hostKeys # d

(* A dial that ended while its answer was under way changes nothing more,  *)
(* and a connection nobody waits for any more is closed.                   *)
NobodyHoldsAbandoned ==
    \A d \in Dials :
        /\ pc[d] = "failed" => client[d] # "open"
        /\ tab[d] = "up" => pc[d] = "ok" /\ client[d] = "open"

(* "without a bound, an app that quits mid-prompt would leak it forever":  *)
(* no dial waits for ever on its question, even when the panel with it was *)
(* replaced or taken down unanswered.                                      *)
PromptsEnd ==
    \A d \in Dials : pc[d] \in {"prompt", "wait"} ~> pc[d] \notin {"prompt", "wait"}

(* A dial whose tab was closed does not keep its connection.               *)
AbandonedAreClosed ==
    \A d \in Dials :
        tab[d] = "gone" /\ client[d] = "open" /\ ~stuck[d]
        ~> client[d] # "open" \/ stuck[d]
=============================================================================
