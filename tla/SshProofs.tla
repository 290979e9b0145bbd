----------------------------- MODULE SshProofs -----------------------------
(***************************************************************************)
(* Proofs about Dial, for every number of dials, hosts and keys, and about *)
(* Session, for every capacity of its channel and any amount of output.    *)
(*                                                                         *)
(* That only trusted keys are let through is not inductive: it rests on    *)
(* where an answer is between the key press and the known_hosts line, in a *)
(* command, in the reply channel or in the dialling goroutine.  Nor is it  *)
(* that the output is complete: it rests on where each chunk is between    *)
(* the pipe and the screen, and on who is past which step of the end.      *)
(* From that a session is shown to implement Stream, and of what is said   *)
(* to happen in the end, everything but the inference from fairness.       *)
(***************************************************************************)
EXTENDS Dial, Session, TLAPS

(* No line read for this dial speaks about its host, and its key is not    *)
(* revoked: the only case that is asked about.                             *)
Unknown(d) == key[d] \notin Revoked /\ \A l \in seen[d] : l.host # host[d]

(* What holds of one dial.                                                 *)
DialInv(d) ==
    /\ pc[d] \in {"prompt", "wait", "append"} => ~auto[d] /\ Unknown(d)
    /\ pc[d] = "append" => Offer(d) \in approved
    /\ Past(d) => /\ key[d] \notin Revoked
                  /\ Offer(d) \in seen[d] \/ (Offer(d) \in approved /\ Unknown(d))
    /\ reply[d] = "yes" => Offer(d) \in approved
    /\ client[d] = "open" => pc[d] \in {"shell", "ok"}
    /\ tab[d] = "up" => pc[d] = "ok" /\ client[d] = "open"
    /\ hostKeys = d \/ prompt = d \/ confirm = d => ~auto[d]

CommandsApproved == \A c \in cmds : c.ok => Offer(c.dial) \in approved

IInv ==
    /\ TypeOK
    /\ \A d \in Dials : DialInv(d)
    /\ CommandsApproved

-----------------------------------------------------------------------------
(* The outcomes of the host key callback.                                  *)
LEMMA Outcome ==
  ASSUME NEW d \in Dials
  PROVE /\ VerifyOutcome(d) \in {"failed", "auth", "prompt"}
        /\ VerifyOutcome(d) = "auth" => key[d] \notin Revoked /\ Offer(d) \in seen[d]
        /\ VerifyOutcome(d) = "prompt" => ~auto[d] /\ Unknown(d)
<1> DEFINE onRecord == {l \in seen[d] : l.host = host[d]}
<1>1. CASE key[d] \in Revoked
  BY <1>1 DEF VerifyOutcome
<1>2. CASE key[d] \notin Revoked /\ Offer(d) \in seen[d]
  <2>1. onRecord # {}
    BY <1>2 DEF Offer
  <2>2. VerifyOutcome(d) = "auth"
    BY <1>2, <2>1 DEF VerifyOutcome
  <2> QED BY <1>2, <2>2
<1>3. CASE key[d] \notin Revoked /\ Offer(d) \notin seen[d] /\ onRecord # {}
  BY <1>3 DEF VerifyOutcome
<1>4. CASE key[d] \notin Revoked /\ Offer(d) \notin seen[d] /\ onRecord = {}
  <2>1. VerifyOutcome(d) = IF auto[d] THEN "failed" ELSE "prompt"
    BY <1>4 DEF VerifyOutcome
  <2>2. Unknown(d)
    BY <1>4 DEF Unknown
  <2> QED BY <2>1, <2>2
<1> QED BY <1>1, <1>2, <1>3, <1>4

(* A step that moves one dial on and touches nothing else keeps the        *)
(* invariant when it arrives at a place whose conditions hold.             *)
LEMMA OnlyStep ==
  ASSUME IInv, NEW d \in Dials, NEW from, NEW to, Only(d, from, to),
         to \in {"tcp", "handshake", "prompt", "wait", "auth", "ok", "failed"},
         from # "ok", client[d] = "open" => to = "ok",
         to \in {"prompt", "wait"} => ~auto[d] /\ Unknown(d),
         to \in {"auth", "ok"} => key[d] \notin Revoked
            /\ (Offer(d) \in seen[d] \/ (Offer(d) \in approved /\ Unknown(d)))
  PROVE IInv'
<1>1. /\ pc[d] = from /\ pc' = [pc EXCEPT ![d] = to]
      /\ UNCHANGED <<file, host, key, auto, seen, client, stuck, reply, tab,
                     hostKeys, prompt, confirm, cmds, answered, approved>>
  BY DEF Only, Goto, uiVars
<1>2. TypeOK'
  BY <1>1 DEF IInv, TypeOK
<1>3. CommandsApproved'
  BY <1>1 DEF IInv, CommandsApproved, Offer
<1>4. ASSUME NEW e \in Dials PROVE DialInv(e)'
  <2>1. DialInv(e) /\ pc'[d] = to /\ (e # d => pc'[e] = pc[e])
    BY <1>1 DEF IInv, TypeOK
  <2>2. CASE e = d
    BY <1>1, <2>1, <2>2 DEF DialInv, Past, Offer, Unknown
  <2>3. CASE e # d
    BY <1>1, <2>1, <2>3 DEF DialInv, Past, Offer, Unknown
  <2> QED BY <2>2, <2>3
<1> QED BY <1>2, <1>3, <1>4 DEF IInv

(* The steps of a dialling goroutine.                                      *)
LEMMA DialStepInv ==
  ASSUME IInv, NEW d \in Dials, DialStep(d)
  PROVE IInv'
<1>0. DialInv(d) /\ TypeOK
  BY DEF IInv
<1>1. CASE Creds(d)
  <2>1. CASE Only(d, "creds", "failed")
    <3>1. client[d] # "open"
      BY <1>0, <2>1 DEF Only, Goto, DialInv
    <3> QED BY <2>1, <3>1, OnlyStep
  <2>2. CASE Goto(d, "creds", "tcp") /\ seen' = [seen EXCEPT ![d] = file]
             /\ UNCHANGED <<file, host, key, auto, client, stuck, reply, uiVars>>
    <3>1. TypeOK' /\ CommandsApproved'
      BY <2>2 DEF IInv, TypeOK, CommandsApproved, Offer, Goto, uiVars
    <3>2. ASSUME NEW e \in Dials PROVE DialInv(e)'
      <4>1. DialInv(e) /\ pc[d] = "creds" /\ pc'[d] = "tcp"
            /\ (e # d => pc'[e] = pc[e] /\ seen'[e] = seen[e])
        BY <2>2 DEF IInv, TypeOK, Goto
      <4> QED BY <2>2, <4>1 DEF DialInv, Past, Offer, Unknown, uiVars
    <3> QED BY <3>1, <3>2 DEF IInv
  <2> QED BY <1>1, <2>1, <2>2 DEF Creds
<1>2. CASE Tcp(d) \/ TcpTimeout(d) \/ HandshakeFails(d) \/ PromptTimeout(d)
  <2>1. client[d] # "open"
    BY <1>0, <1>2 DEF Tcp, TcpTimeout, HandshakeFails, PromptTimeout, Only, Goto, DialInv
  <2> QED BY <1>2, <2>1, OnlyStep DEF Tcp, TcpTimeout, HandshakeFails, PromptTimeout
<1>3. CASE Verify(d)
  <2>1. client[d] # "open"
    BY <1>0, <1>3 DEF Verify, Only, Goto, DialInv
  <2>2. Only(d, "handshake", VerifyOutcome(d))
    BY <1>3 DEF Verify
  <2> QED BY <2>1, <2>2, Outcome, OnlyStep
<1>4. CASE SendPrompt(d)
  <2>1. /\ pc[d] = "prompt" /\ pc' = [pc EXCEPT ![d] = "wait"] /\ hostKeys' = d
        /\ UNCHANGED <<file, host, key, auto, seen, client, stuck, reply, tab,
                       prompt, confirm, cmds, answered, approved>>
    BY <1>4 DEF SendPrompt, Goto
  <2>2. TypeOK' /\ CommandsApproved'
    BY <2>1 DEF IInv, TypeOK, CommandsApproved, Offer
  <2>3. ASSUME NEW e \in Dials PROVE DialInv(e)'
    <3>1. DialInv(e) /\ pc'[d] = "wait" /\ (e # d => pc'[e] = pc[e])
      BY <2>1 DEF IInv, TypeOK
    <3> QED BY <2>1, <3>1 DEF DialInv, Past, Offer, Unknown
  <2> QED BY <2>2, <2>3 DEF IInv
<1>5. CASE TakeReply(d)
  <2>1. /\ pc[d] = "wait" /\ reply[d] # "empty"
        /\ reply' = [reply EXCEPT ![d] = "empty"]
        /\ \/ reply[d] = "yes" /\ pc' = [pc EXCEPT ![d] = "append"]
           \/ pc' = [pc EXCEPT ![d] = "failed"]
        /\ UNCHANGED <<file, host, key, auto, seen, client, stuck, tab, hostKeys,
                       prompt, confirm, cmds, answered, approved>>
    BY <1>5 DEF TakeReply, Goto, uiVars
  <2>2. TypeOK' /\ CommandsApproved'
    BY <2>1 DEF IInv, TypeOK, CommandsApproved, Offer
  <2>3. ASSUME NEW e \in Dials PROVE DialInv(e)'
    <3>1. /\ DialInv(e) /\ reply'[d] = "empty"
          /\ pc'[d] = "failed" \/ (pc'[d] = "append" /\ reply[d] = "yes")
          /\ e # d => pc'[e] = pc[e] /\ reply'[e] = reply[e]
      BY <2>1 DEF IInv, TypeOK
    <3> QED BY <1>0, <2>1, <3>1 DEF DialInv, Past, Offer, Unknown
  <2> QED BY <2>2, <2>3 DEF IInv
<1>6. CASE AppendKnownHost(d)
  <2>1. CASE Only(d, "append", "failed")
    <3>1. client[d] # "open"
      BY <1>0, <2>1 DEF Only, Goto, DialInv
    <3> QED BY <2>1, <3>1, OnlyStep
  <2>2. CASE Goto(d, "append", "auth") /\ file' = file \cup {Offer(d)}
             /\ UNCHANGED <<host, key, auto, seen, client, stuck, reply, uiVars>>
    <3>1. Offer(d) \in Lines
      BY <1>0 DEF TypeOK, Offer, Lines
    <3>2. TypeOK' /\ CommandsApproved'
      BY <2>2, <3>1 DEF IInv, TypeOK, CommandsApproved, Offer, Goto, uiVars
    <3>3. ASSUME NEW e \in Dials PROVE DialInv(e)'
      <4>1. DialInv(e) /\ pc[d] = "append" /\ pc'[d] = "auth" /\ (e # d => pc'[e] = pc[e])
        BY <2>2 DEF IInv, TypeOK, Goto
      <4> QED BY <1>0, <2>2, <4>1 DEF DialInv, Past, Offer, Unknown, uiVars
    <3> QED BY <3>2, <3>3 DEF IInv
  <2> QED BY <1>6, <2>1, <2>2 DEF AppendKnownHost
<1>7. CASE Authenticate(d)
  <2>1. CASE Only(d, "auth", "failed")
    <3>1. client[d] # "open"
      BY <1>0, <2>1 DEF Only, Goto, DialInv
    <3> QED BY <2>1, <3>1, OnlyStep
  <2>2. CASE Goto(d, "auth", "shell") /\ client' = [client EXCEPT ![d] = "open"]
             /\ UNCHANGED <<file, host, key, auto, seen, stuck, reply, uiVars>>
    <3>1. TypeOK' /\ CommandsApproved'
      BY <2>2 DEF IInv, TypeOK, CommandsApproved, Offer, Goto, uiVars
    <3>2. ASSUME NEW e \in Dials PROVE DialInv(e)'
      <4>1. DialInv(e) /\ pc[d] = "auth" /\ pc'[d] = "shell"
            /\ (e # d => pc'[e] = pc[e] /\ client'[e] = client[e])
        BY <2>2 DEF IInv, TypeOK, Goto
      <4> QED BY <1>0, <2>2, <4>1 DEF DialInv, Past, Offer, Unknown, uiVars
    <3> QED BY <3>1, <3>2 DEF IInv
  <2> QED BY <1>7, <2>1, <2>2 DEF Authenticate
<1>8. CASE OpenShell(d)
  <2>1. CASE Only(d, "shell", "ok")
    <3>1. Past(d)
      BY <2>1 DEF Only, Goto, Past
    <3> QED BY <1>0, <2>1, <3>1, OnlyStep DEF DialInv
  <2>2. CASE Goto(d, "shell", "failed") /\ client' = [client EXCEPT ![d] = "closed"]
             /\ UNCHANGED <<file, host, key, auto, seen, stuck, reply, uiVars>>
    <3>1. TypeOK' /\ CommandsApproved'
      BY <2>2 DEF IInv, TypeOK, CommandsApproved, Offer, Goto, uiVars
    <3>2. ASSUME NEW e \in Dials PROVE DialInv(e)'
      <4>1. DialInv(e) /\ pc[d] = "shell" /\ pc'[d] = "failed" /\ client'[d] = "closed"
            /\ (e # d => pc'[e] = pc[e] /\ client'[e] = client[e])
        BY <2>2 DEF IInv, TypeOK, Goto
      <4> QED BY <1>0, <2>2, <4>1 DEF DialInv, Past, Offer, Unknown, uiVars
    <3> QED BY <3>1, <3>2 DEF IInv
  <2> QED BY <1>8, <2>1, <2>2 DEF OpenShell
<1> QED
  BY <1>1, <1>2, <1>3, <1>4, <1>5, <1>6, <1>7, <1>8 DEF DialStep

(* The UI's steps, and the server's.                                       *)
LEMMA LoopInv ==
  ASSUME IInv, User \/ Loop \/ (\E d \in Dials : ServerStuck(d))
  PROVE IInv'
<1>0. TypeOK /\ \A d \in Dials : DialInv(d)
  BY DEF IInv
<1>1. ASSUME NEW d \in Dials, ServerStuck(d) PROVE IInv'
  <2>1. UNCHANGED <<file, pc, host, key, auto, seen, client, reply, uiVars>>
        /\ stuck' = [stuck EXCEPT ![d] = TRUE]
    BY <1>1 DEF ServerStuck
  <2> QED BY <2>1 DEF IInv, TypeOK, DialInv, CommandsApproved, Past, Offer, Unknown, uiVars
<1>2. ASSUME NEW d \in Dials, Start(d) PROVE IInv'
  <2>1. /\ pc[d] = "idle" /\ pc' = [pc EXCEPT ![d] = "creds"]
        /\ tab' = [tab EXCEPT ![d] = "dialing"]
        /\ UNCHANGED <<file, host, key, auto, seen, client, stuck, reply, hostKeys,
                       prompt, confirm, cmds, answered, approved>>
    BY <1>2 DEF Start, Goto
  <2>2. TypeOK' /\ CommandsApproved'
    BY <2>1 DEF IInv, TypeOK, CommandsApproved, Offer
  <2>3. ASSUME NEW e \in Dials PROVE DialInv(e)'
    <3>1. DialInv(e) /\ pc'[d] = "creds" /\ tab'[d] = "dialing"
          /\ (e # d => pc'[e] = pc[e] /\ tab'[e] = tab[e])
      BY <2>1 DEF IInv, TypeOK
    <3> QED BY <2>1, <3>1 DEF DialInv, Past, Offer, Unknown
  <2> QED BY <2>2, <2>3 DEF IInv
<1>3. ASSUME NEW d \in Dials, Abandon(d) \/ Failed(d) PROVE IInv'
  <2>1. /\ tab' = [tab EXCEPT ![d] = "gone"]
        /\ confirm' = confirm \/ confirm' = NoDial
        /\ UNCHANGED <<netVars, reply, hostKeys, prompt, cmds, answered, approved>>
    BY <1>3 DEF Abandon, Failed
  <2>2. TypeOK' /\ CommandsApproved'
    BY <2>1 DEF IInv, TypeOK, CommandsApproved, Offer, netVars
  <2>3. ASSUME NEW e \in Dials PROVE DialInv(e)'
    <3>1. DialInv(e) /\ tab'[d] = "gone" /\ (e # d => tab'[e] = tab[e]) /\ e # NoDial
      BY <2>1, DialAssumption DEF IInv, TypeOK
    <3> QED BY <2>1, <3>1 DEF DialInv, Past, Offer, Unknown, netVars
  <2> QED BY <2>2, <2>3 DEF IInv
<1>4. ASSUME NEW d \in Dials, Succeeded(d) PROVE IInv'
  <2>1. /\ pc[d] = "ok" /\ client[d] = "open"
        /\ \/ tab[d] = "dialing" /\ tab' = [tab EXCEPT ![d] = "up"] /\ client' = client
           \/ tab[d] = "gone" /\ client' = [client EXCEPT ![d] = "closed"] /\ tab' = tab
        /\ UNCHANGED <<file, pc, host, key, auto, seen, stuck, reply, hostKeys,
                       prompt, confirm, cmds, answered, approved>>
    BY <1>4 DEF Succeeded
  <2>2. TypeOK' /\ CommandsApproved'
    BY <2>1 DEF IInv, TypeOK, CommandsApproved, Offer
  <2>3. ASSUME NEW e \in Dials PROVE DialInv(e)'
    <3>1. /\ DialInv(e)
          /\ \/ tab'[d] = "up" /\ client' = client
             \/ tab'[d] = "gone" /\ client'[d] = "closed" /\ tab' = tab
          /\ e # d => tab'[e] = tab[e] /\ client'[e] = client[e]
      BY <2>1 DEF IInv, TypeOK
    <3> QED BY <2>1, <3>1 DEF DialInv, Past, Offer, Unknown
  <2> QED BY <2>2, <2>3 DEF IInv
<1>5. CASE WaitForHostKey
  BY <1>0, <1>5, DialAssumption
     DEF IInv, TypeOK, WaitForHostKey, DialInv, CommandsApproved, Past, Offer, Unknown,
         netVars
<1>6. CASE AskHostKey
  <2> DEFINE c == [dial |-> prompt, ok |-> FALSE, close |-> FALSE]
  <2>1. /\ prompt # NoDial /\ prompt' = NoDial
        /\ UNCHANGED <<netVars, reply, tab, hostKeys, answered, approved>>
        /\ \/ confirm' = prompt /\ cmds' = cmds
           \/ confirm' = confirm /\ cmds' = cmds \cup {c}
    BY <1>6 DEF AskHostKey
  <2>2. /\ prompt \in Dials /\ c.ok = FALSE
        /\ c \in [dial : Dials, ok : BOOLEAN, close : BOOLEAN]
    BY <1>0, <2>1 DEF TypeOK
  <2> HIDE DEF c
  <2>3. TypeOK' /\ CommandsApproved'
    BY <2>1, <2>2 DEF IInv, TypeOK, CommandsApproved, Offer, netVars
  <2>4. ASSUME NEW e \in Dials PROVE DialInv(e)'
    <3>1. DialInv(e) /\ e # NoDial
      BY DialAssumption DEF IInv
    <3> QED BY <2>1, <3>1 DEF DialInv, Past, Offer, Unknown, netVars
  <2> QED BY <2>3, <2>4 DEF IInv
<1>7. CASE AskOther
  <2>1. confirm' = Other
        /\ UNCHANGED <<netVars, reply, tab, hostKeys, prompt, cmds, answered, approved>>
    BY <1>7 DEF AskOther
  <2>2. TypeOK' /\ CommandsApproved'
    BY <2>1 DEF IInv, TypeOK, CommandsApproved, Offer, netVars
  <2>3. ASSUME NEW e \in Dials PROVE DialInv(e)'
    <3>1. DialInv(e) /\ e # Other
      BY DialAssumption DEF IInv
    <3> QED BY <2>1, <3>1 DEF DialInv, Past, Offer, Unknown, netVars
  <2> QED BY <2>2, <2>3 DEF IInv
<1>8. ASSUME NEW ok \in BOOLEAN, Answer(ok) PROVE IInv'
  <2> DEFINE c == [dial |-> confirm, ok |-> ok, close |-> TRUE]
  <2>1. /\ confirm' = NoDial /\ confirm # NoDial
        /\ UNCHANGED <<netVars, reply, tab, hostKeys, prompt, answered>>
    BY <1>8 DEF Answer
  <2>2. CASE confirm = Other
    <3>1. UNCHANGED <<cmds, approved>>
      BY <1>8, <2>2 DEF Answer
    <3>2. ASSUME NEW e \in Dials PROVE DialInv(e)'
      <4>1. DialInv(e) /\ e # NoDial
        BY DialAssumption DEF IInv
      <4> QED BY <2>1, <3>1, <4>1 DEF DialInv, Past, Offer, Unknown, netVars
    <3> QED BY <2>1, <3>1, <3>2 DEF IInv, TypeOK, CommandsApproved, Offer, netVars
  <2>3. CASE confirm # Other
    <3>1. /\ cmds' = cmds \cup {c}
          /\ approved' = IF ok THEN approved \cup {Offer(confirm)} ELSE approved
      BY <1>8, <2>3 DEF Answer
    <3>2. confirm \in Dials
      BY <1>0, <2>1, <2>3 DEF TypeOK
    <3>3. /\ c \in [dial : Dials, ok : BOOLEAN, close : BOOLEAN]
          /\ c.ok = ok /\ c.dial = confirm
      BY <3>2
    <3> HIDE DEF c
    <3>4. approved \subseteq approved' /\ (ok => Offer(confirm) \in approved')
      BY <3>1
    <3>5. Offer(confirm) \in Lines
      BY <1>0, <3>2 DEF TypeOK, Offer, Lines
    <3>6. TypeOK'
      <4>1. approved' \subseteq Lines
        BY <1>0, <3>1, <3>5 DEF TypeOK
      <4> QED BY <1>0, <2>1, <3>1, <3>3, <4>1 DEF TypeOK, netVars
    <3>7. CommandsApproved'
      BY <2>1, <3>1, <3>3, <3>4 DEF IInv, CommandsApproved, Offer, netVars
    <3>8. ASSUME NEW e \in Dials PROVE DialInv(e)'
      <4>1. DialInv(e) /\ e # NoDial
        BY DialAssumption DEF IInv
      <4> QED BY <2>1, <3>4, <4>1 DEF DialInv, Past, Offer, Unknown, netVars
    <3> QED BY <3>6, <3>7, <3>8 DEF IInv
  <2> QED BY <2>2, <2>3
<1>9. ASSUME NEW c \in cmds, RunAnswer(c) PROVE IInv'
  <2>1. /\ cmds' = cmds \ {c}
        /\ \/ reply' = [reply EXCEPT ![c.dial] = "yes"] /\ c.ok
           \/ reply' = [reply EXCEPT ![c.dial] = "no"]
           \/ reply' = [reply EXCEPT ![c.dial] = reply[c.dial]]
        /\ answered' = answered \/ answered' = answered \cup {c.dial}
        /\ UNCHANGED <<netVars, tab, hostKeys, prompt, confirm, approved>>
    BY <1>9 DEF RunAnswer
  <2>2. c.dial \in Dials /\ (c.ok => Offer(c.dial) \in approved)
    BY <1>0 DEF TypeOK, IInv, CommandsApproved
  <2>3. TypeOK' /\ CommandsApproved'
    BY <1>0, <2>1, <2>2 DEF IInv, TypeOK, CommandsApproved, Offer, netVars
  <2>4. ASSUME NEW e \in Dials PROVE DialInv(e)'
    <3>1. DialInv(e) /\ (reply'[e] = "yes" => reply[e] = "yes" \/ (e = c.dial /\ c.ok))
      BY <2>1, <2>2 DEF IInv, TypeOK
    <3> QED BY <2>1, <2>2, <3>1 DEF DialInv, Past, Offer, Unknown, netVars
  <2> QED BY <2>3, <2>4 DEF IInv
<1>10. ASSUME NEW d \in answered, HandleAnswered(d) PROVE IInv'
  <2>1. /\ confirm' = NoDial /\ answered' = answered \ {d}
        /\ UNCHANGED <<netVars, reply, tab, hostKeys, prompt, cmds, approved>>
    BY <1>10 DEF HandleAnswered
  <2>2. ASSUME NEW e \in Dials PROVE DialInv(e)'
    <3>1. DialInv(e) /\ e # NoDial
      BY DialAssumption DEF IInv
    <3> QED BY <2>1, <3>1 DEF DialInv, Past, Offer, Unknown, netVars
  <2> QED BY <2>1, <2>2 DEF IInv, TypeOK, CommandsApproved, Offer, netVars
<1> QED
  BY <1>1, <1>2, <1>3, <1>4, <1>5, <1>6, <1>7, <1>8, <1>9, <1>10 DEF User, Loop

-----------------------------------------------------------------------------
(* Theorems.                                                               *)

(* The inductive invariant holds throughout: every step of a dial and of   *)
(* the UI keeps the questions, the answers and the file in step.           *)
THEOREM Invariance == Spec => []IInv
<1>1. Init => IInv
  <2> SUFFICES ASSUME Init PROVE IInv
    OBVIOUS
  <2>1. TypeOK
    BY DEF Init, TypeOK
  <2>2. ASSUME NEW d \in Dials PROVE DialInv(d)
    <3>1. d # NoDial BY DialAssumption
    <3> QED BY <3>1 DEF Init, DialInv, Past
  <2> QED BY <2>1, <2>2 DEF IInv, CommandsApproved, Init
<1>2. IInv /\ [Next]_vars => IInv'
  <2> SUFFICES ASSUME IInv, [Next]_vars PROVE IInv'
    OBVIOUS
  <2>1. CASE UNCHANGED vars
    BY <2>1 DEF IInv, TypeOK, DialInv, CommandsApproved, Past, Offer, Unknown, vars,
                netVars, uiVars
  <2>2. CASE Next
    BY <2>2, DialStepInv, LoopInv DEF Next
  <2> QED BY <2>1, <2>2
<1> QED BY <1>1, <1>2, PTL DEF Spec

(* Every variable keeps its type.                                          *)
THEOREM TypeCorrect == Spec => []TypeOK
<1>1. IInv => TypeOK
  BY DEF IInv
<1> QED BY <1>1, Invariance, PTL

(* No connection gets past its host key unless the key was on file when    *)
(* the dial began or the user approved this very host and key, with any    *)
(* number of dials asking at once.                                         *)
THEOREM TrustIsExplicit == Spec => []OnlyTrustedKeys
<1>1. IInv => OnlyTrustedKeys
  BY DEF IInv, DialInv, OnlyTrustedKeys
<1> QED BY <1>1, Invariance, PTL

(* A key that differs from the one on record, or is revoked, is refused    *)
(* whatever the user answers.                                              *)
THEOREM NoOverride == Spec => []ChangedKeysRefused
<1>1. IInv => ChangedKeysRefused
  BY DEF IInv, DialInv, ChangedKeysRefused, Unknown
<1> QED BY <1>1, Invariance, PTL

(* An unattended reconnect never asks.                                     *)
THEOREM UnattendedNeverAsks == Spec => []AutoNeverAsks
<1>1. IInv => AutoNeverAsks
  BY DEF IInv, DialInv, AutoNeverAsks
<1> QED BY <1>1, Invariance, PTL

(* Failed dials hold no connection, and a tab that is up has one.          *)
THEOREM ConnectionsFollowTabs == Spec => []NobodyHoldsAbandoned
<1>1. IInv => NobodyHoldsAbandoned
  BY DEF IInv, DialInv, NobodyHoldsAbandoned
<1> QED BY <1>1, Invariance, PTL

(* known_hosts loses nothing and gains only what the user approved.        *)
THEOREM FileIsApproved == Spec => FileGrowsByApproval
<1> DEFINE P == file \subseteq file' /\ file' \ file \subseteq approved
<1>1. IInv /\ [Next]_vars => [P]_vars
  <2> SUFFICES ASSUME IInv, Next PROVE P
    OBVIOUS
  <2>1. CASE UNCHANGED file
    BY <2>1
  <2>2. ASSUME NEW d \in Dials, Goto(d, "append", "auth"), file' = file \cup {Offer(d)}
        PROVE P
    BY <2>2 DEF IInv, DialInv, Goto
  <2>3. ASSUME NEW d \in Dials, DialStep(d) PROVE P
    BY <2>1, <2>2, <2>3 DEF DialStep, Creds, Tcp, TcpTimeout, Verify, HandshakeFails,
       SendPrompt, TakeReply, PromptTimeout, AppendKnownHost, Authenticate, OpenShell, Only
  <2>4. CASE \E d \in Dials : ServerStuck(d)
    BY <2>1, <2>4 DEF ServerStuck
  <2>5. CASE User
    BY <2>1, <2>5 DEF User, Start, Abandon, AskOther, Answer, netVars
  <2>6. CASE Loop
    BY <2>1, <2>6 DEF Loop, Succeeded, Failed, WaitForHostKey, AskHostKey, RunAnswer,
       HandleAnswered, netVars
  <2> QED BY <2>3, <2>4, <2>5, <2>6 DEF Next
<1>2. Spec => [][P]_vars
  BY <1>1, Invariance, PTL DEF Spec
<1> QED BY <1>2 DEF FileGrowsByApproval

(* How far a dial has come.  What the run checks of time (PromptsEnd and   *)
(* AbandonedAreClosed) rests on it never going back.                       *)
Stage(d) ==
    CASE pc[d] = "idle" -> 0 [] pc[d] = "creds" -> 1 [] pc[d] = "tcp" -> 2
      [] pc[d] = "handshake" -> 3 [] pc[d] = "prompt" -> 4 [] pc[d] = "wait" -> 5
      [] pc[d] = "append" -> 6 [] pc[d] = "auth" -> 7 [] pc[d] = "shell" -> 8
      [] pc[d] \in Over -> 9

(* A step of its goroutine takes a dial further, and leaves the others.    *)
LEMMA DialGoesOn ==
  ASSUME TypeOK, NEW d \in Dials, DialStep(d)
  PROVE /\ Stage(d) \in 0..9 /\ Stage(d)' \in 0..9 /\ Stage(d)' > Stage(d)
        /\ \A e \in Dials : e # d => pc'[e] = pc[e]
<1> DEFINE Move(from, to) == pc[d] = from /\ pc' = [pc EXCEPT ![d] = to]
<1>1. ASSUME NEW from, NEW to, Move(from, to)
      PROVE pc[d] = from /\ pc'[d] = to /\ \A e \in Dials : e # d => pc'[e] = pc[e]
  BY <1>1 DEF TypeOK
<1>2. CASE Creds(d)
  <2>1. Move("creds", "failed") \/ Move("creds", "tcp")
    BY <1>2 DEF Creds, Only, Goto
  <2> QED BY <1>1, <2>1 DEF Stage, Over
<1>3. CASE Tcp(d) \/ TcpTimeout(d)
  <2>1. Move("tcp", "handshake") \/ Move("tcp", "failed")
    BY <1>3 DEF Tcp, TcpTimeout, Only, Goto
  <2> QED BY <1>1, <2>1 DEF Stage, Over
<1>4. CASE Verify(d) \/ HandshakeFails(d)
  <2>1. Move("handshake", VerifyOutcome(d)) \/ Move("handshake", "failed")
    BY <1>4 DEF Verify, HandshakeFails, Only, Goto
  <2>2. Move("handshake", "prompt") \/ Move("handshake", "auth") \/ Move("handshake", "failed")
    BY <2>1, Outcome
  <2> QED BY <1>1, <2>2 DEF Stage, Over
<1>5. CASE SendPrompt(d) \/ PromptTimeout(d)
  <2>1. Move("prompt", "wait") \/ Move("prompt", "failed") \/ Move("wait", "failed")
    BY <1>5 DEF SendPrompt, PromptTimeout, Only, Goto
  <2> QED BY <1>1, <2>1 DEF Stage, Over
<1>6. CASE TakeReply(d)
  <2>1. Move("wait", "append") \/ Move("wait", "failed")
    BY <1>6 DEF TakeReply, Goto
  <2> QED BY <1>1, <2>1 DEF Stage, Over
<1>7. CASE AppendKnownHost(d)
  <2>1. Move("append", "failed") \/ Move("append", "auth")
    BY <1>7 DEF AppendKnownHost, Only, Goto
  <2> QED BY <1>1, <2>1 DEF Stage, Over
<1>8. CASE Authenticate(d)
  <2>1. Move("auth", "failed") \/ Move("auth", "shell")
    BY <1>8 DEF Authenticate, Only, Goto
  <2> QED BY <1>1, <2>1 DEF Stage, Over
<1>9. CASE OpenShell(d)
  <2>1. Move("shell", "ok") \/ Move("shell", "failed")
    BY <1>9 DEF OpenShell, Only, Goto
  <2> QED BY <1>1, <2>1 DEF Stage, Over
<1> QED BY <1>2, <1>3, <1>4, <1>5, <1>6, <1>7, <1>8, <1>9 DEF DialStep

LEMMA DialStays ==
  ASSUME TypeOK, NEW d \in Dials, pc'[d] = pc[d]
  PROVE Stage(d)' >= Stage(d)
<1>1. pc[d] \in {"idle", "creds", "tcp", "handshake", "prompt", "wait", "append",
                 "auth", "shell", "ok", "failed"}
  BY DEF TypeOK
<1> QED BY <1>1 DEF Stage, Over

(* Nothing else in the program takes a dial back: each dial makes at most  *)
(* nine steps.                                                             *)
LEMMA DialNeverBack ==
  ASSUME TypeOK, Next, NEW d \in Dials
  PROVE Stage(d)' >= Stage(d)
<1>1. CASE pc' = pc
  BY <1>1, DialStays
<1>2. ASSUME NEW e \in Dials, DialStep(e)
      PROVE Stage(d)' >= Stage(d)
  <2>1. CASE e = d
    BY <1>2, <2>1, DialGoesOn
  <2>2. CASE e # d
    BY <1>2, <2>2, DialGoesOn, DialStays
  <2> QED BY <2>1, <2>2
<1>3. ASSUME NEW e \in Dials, Start(e)
      PROVE Stage(d)' >= Stage(d)
  <2>1. pc[e] = "idle" /\ pc' = [pc EXCEPT ![e] = "creds"]
    BY <1>3 DEF Start, Goto
  <2>2. CASE e = d
    <3>1. pc[d] = "idle" /\ pc'[d] = "creds"
      BY <2>1, <2>2 DEF TypeOK
    <3> QED BY <3>1 DEF Stage, Over
  <2>3. CASE e # d
    BY <2>1, <2>3, DialStays DEF TypeOK
  <2> QED BY <2>2, <2>3
<1>4. CASE User /\ ~(\E e \in Dials : Start(e))
  BY <1>1, <1>4 DEF User, Abandon, AskOther, Answer, netVars
<1>5. CASE Loop
  BY <1>1, <1>5 DEF Loop, Succeeded, Failed, WaitForHostKey, AskHostKey, RunAnswer,
     HandleAnswered, netVars
<1> QED BY <1>1, <1>2, <1>3, <1>4, <1>5 DEF Next, ServerStuck

(* A dial never goes back, so it asks its question once: what stands       *)
(* between it and an end is its own steps, and the timer of the question   *)
(* is one of them wherever the panel and the channel are.  A connection    *)
(* somebody gave up belongs to a dial with one step left or to one that    *)
(* has told the loop, which then closes it: only a server that stopped     *)
(* answering can keep it open.                                             *)
THEOREM DialsMoveOn ==
  Spec => /\ [](\A d \in Dials : tab[d] = "gone" /\ client[d] = "open" =>
                   pc[d] \in {"shell", "ok"})
          /\ [][\A d \in Dials :
                  /\ Stage(d)' >= Stage(d)
                  /\ DialStep(d) => Stage(d)' > Stage(d)
                  /\ tab[d] = "gone" /\ Succeeded(d) => client'[d] = "closed"]_vars
<1>1. IInv => \A d \in Dials : tab[d] = "gone" /\ client[d] = "open" => pc[d] \in {"shell", "ok"}
  BY DEF IInv, DialInv
<1>2. ASSUME TypeOK, NEW d \in Dials, tab[d] = "gone", Succeeded(d)
      PROVE client'[d] = "closed"
  BY <1>2 DEF Succeeded, TypeOK
<1>3. IInv /\ [Next]_vars =>
        [\A d \in Dials :
           /\ Stage(d)' >= Stage(d)
           /\ DialStep(d) => Stage(d)' > Stage(d)
           /\ tab[d] = "gone" /\ Succeeded(d) => client'[d] = "closed"]_vars
  BY <1>2, DialGoesOn, DialNeverBack DEF IInv
<1> QED BY <1>1, <1>3, Invariance, PTL DEF Spec

-----------------------------------------------------------------------------
(* A session: why it is called lost.                                        *)

\* Whoever takes the connection down, or is about to, has marked the session
\* closed first, unless the link failed.
LossIsReal ==
    /\ link # "up" => linkFailed
    /\ clientClosed => closed \/ linkFailed
    /\ ka \in {"fail", "drop"} => closed \/ linkFailed
    /\ closing = "shutdown" => closed
    /\ waiter \in {"shutdown", "closeOut", "done"} => closed
    /\ exitErr = "lost" => linkFailed

\* The types survive the remote end, the goroutines and the UI.
LEMMA RemoteTyped ==
    ASSUME SessionTypeOK, Remote \/ ChannelClose
    PROVE  SessionTypeOK'
  <1>1. ASSUME NEW p \in Pumps, RemoteWrite(p)
        PROVE  SessionTypeOK'
    BY <1>1 DEF RemoteWrite, SessionTypeOK, remoteVars, consumerVars
  <1>2. ASSUME NEW s \in {"clean", "status"}, RemoteExit(s)
        PROVE  SessionTypeOK'
    BY <1>2 DEF RemoteExit, SessionTypeOK, pipeVars, consumerVars
  <1>3. ASSUME NEW to \in {"up", "silent", "down"}, LinkChange(to)
        PROVE  SessionTypeOK'
    BY <1>3 DEF LinkChange, SessionTypeOK, pipeVars, consumerVars
  <1>4. CASE ChannelClose
    BY <1>4 DEF ChannelClose, SessionTypeOK, pipeVars, consumerVars
  <1> QED
    BY <1>1, <1>2, <1>3, <1>4 DEF Remote

\* The pumps keep the types.
LEMMA PumpTyped ==
    ASSUME SessionTypeOK, NEW p \in Pumps, Pump(p)
    PROVE  SessionTypeOK'
  <1>1. CASE PumpRead(p)
    BY <1>1 DEF PumpRead, SessionTypeOK, remoteVars, consumerVars
  <1>2. CASE SendCheck(p)
    BY <1>2 DEF SendCheck, SessionTypeOK, remoteVars, pipeVars, consumerVars
  <1>3. CASE SendOut(p)
    BY <1>3, SessionAssumption
       DEF SendOut, SessionTypeOK, remoteVars, pipeVars, consumerVars
  <1> QED
    BY <1>1, <1>2, <1>3 DEF Pump

\* The waiter and finish keep the types.
LEMMA WaiterTyped ==
    ASSUME SessionTypeOK, Waiter
    PROVE  SessionTypeOK'
  <1>1. CASE WaitReturns
    BY <1>1 DEF WaitReturns, WaitResult, Reasons, SessionTypeOK, remoteVars, pipeVars,
                consumerVars
  <1>2. CASE PumpsWait
    BY <1>2 DEF PumpsWait, SessionTypeOK, remoteVars, pipeVars, consumerVars
  <1>3. CASE RecordExit
    BY <1>3 DEF RecordExit, Reasons, SessionTypeOK, remoteVars, pipeVars, consumerVars
  <1>4. CASE FinishLock
    BY <1>4 DEF FinishLock, SessionTypeOK, remoteVars, pipeVars, consumerVars
  <1>5. CASE FinishShutdown
    BY <1>5 DEF FinishShutdown, SessionTypeOK, remoteVars, pipeVars, consumerVars
  <1>6. CASE FinishCloseOut
    BY <1>6 DEF FinishCloseOut, SessionTypeOK, remoteVars, pipeVars, consumerVars
  <1> QED
    BY <1>1, <1>2, <1>3, <1>4, <1>5, <1>6 DEF Waiter

\* keepalive and fail keep the types.
LEMMA KeepaliveTyped ==
    ASSUME SessionTypeOK, Keepalive
    PROVE  SessionTypeOK'
  <1>1. CASE KeepaliveTick \/ KeepaliveAnswer
    BY <1>1 DEF KeepaliveTick, KeepaliveAnswer, SessionTypeOK, remoteVars, pipeVars,
                consumerVars
  <1>2. CASE FailLock
    BY <1>2 DEF FailLock, Reasons, SessionTypeOK, remoteVars, pipeVars, consumerVars
  <1>3. CASE FailDrop
    BY <1>3 DEF FailDrop, SessionTypeOK, remoteVars, pipeVars, consumerVars
  <1> QED
    BY <1>1, <1>2, <1>3 DEF Keepalive

\* The UI keeps the types.
LEMMA ConsumerTyped ==
    ASSUME SessionTypeOK, Consumer \/ CloseTab
    PROVE  SessionTypeOK'
  <1>1. CASE Connected
    <2>1. closed' \in BOOLEAN /\ closing' \in {"no", "shutdown", "done"}
      BY <1>1 DEF Connected, CloseLock, SessionTypeOK
    <2>2. /\ ui' \in {"armed", "gone"}
          /\ UNCHANGED <<remoteVars, pipeVars, clientClosed, out, outClosed, exitErr,
                         pump, waiter, waitErr, ka, tabOpen, shown, uiErr>>
      BY <1>1 DEF Connected
    <2> QED
      BY <2>1, <2>2 DEF SessionTypeOK, remoteVars, pipeVars
  <1>2. CASE Receive
    BY <1>2, SessionAssumption DEF Receive, SessionTypeOK, remoteVars, pipeVars
  <1>3. CASE HandleOutput
    BY <1>3 DEF HandleOutput, SessionTypeOK, remoteVars, pipeVars
  <1>4. CASE ReceiveEnd
    BY <1>4 DEF ReceiveEnd, Reasons, SessionTypeOK, remoteVars, pipeVars
  <1>5. CASE CloseShutdown
    BY <1>5 DEF CloseShutdown, SessionTypeOK, remoteVars, pipeVars
  <1>6. CASE CloseTab
    <2>1. closed' \in BOOLEAN /\ closing' \in {"no", "shutdown", "done"}
      BY <1>6 DEF CloseTab, CloseLock, SessionTypeOK
    <2>2. /\ tabOpen' \in BOOLEAN
          /\ UNCHANGED <<remoteVars, pipeVars, clientClosed, out, outClosed, exitErr,
                         pump, waiter, waitErr, ka, ui, shown, uiErr>>
      BY <1>6 DEF CloseTab
    <2> QED
      BY <2>1, <2>2 DEF SessionTypeOK, remoteVars, pipeVars
  <1> QED
    BY <1>1, <1>2, <1>3, <1>4, <1>5, <1>6 DEF Consumer

\* Every variable of a session holds a value of its type; in particular what
\* Wait returned is never taken for a lost connection.
THEOREM SessionTyped == SessionSpec => []SessionTypeOK
  <1>1. SessionInit => SessionTypeOK
    <2> SUFFICES ASSUME SessionInit
                 PROVE  SessionTypeOK
      OBVIOUS
    <2>1. pipe \in [Pumps -> Nat] /\ arrived \in [Pumps -> Nat]
      BY DEF SessionInit
    <2>2. pump \in [Pumps -> {"read", "send", "blocked", "done"}]
      BY DEF SessionInit
    <2>3. exitErr \in Reasons /\ waitErr \in Reasons \ {"lost"}
      BY DEF SessionInit, Reasons
    <2>4. out \in 0..OutCap /\ shown \in Nat
      BY SessionAssumption DEF SessionInit
    <2> QED
      BY <2>1, <2>2, <2>3, <2>4 DEF SessionInit, SessionTypeOK
  <1>2. SessionTypeOK /\ [SessionNext]_sessionVars => SessionTypeOK'
    <2>1. ASSUME SessionTypeOK, UNCHANGED sessionVars
          PROVE  SessionTypeOK'
      BY <2>1 DEF sessionVars, remoteVars, pipeVars, consumerVars, SessionTypeOK
    <2> QED
      BY <2>1, RemoteTyped, PumpTyped, WaiterTyped, KeepaliveTyped, ConsumerTyped
         DEF SessionNext
  <1> QED
    BY <1>1, <1>2, PTL DEF SessionSpec

\* A session is called lost only if its link failed: no teardown by the user or
\* by the end of the shell, however it interleaves with a keepalive in flight,
\* is mistaken for a loss.
THEOREM LossesAreReal == SessionSpec => []LostOnlyIfLinkFailed
  <1>1. SessionInit => LossIsReal
    BY DEF SessionInit, LossIsReal
  <1>2. SessionTypeOK /\ LossIsReal /\ [SessionNext]_sessionVars => LossIsReal'
    <2> SUFFICES ASSUME SessionTypeOK, LossIsReal, [SessionNext]_sessionVars
                 PROVE  LossIsReal'
      OBVIOUS
    <2>1. CASE Remote \/ ChannelClose
      BY <2>1 DEF Remote, RemoteWrite, RemoteExit, LinkChange, ChannelClose, LossIsReal,
                  remoteVars, consumerVars
    <2>2. ASSUME NEW p \in Pumps, Pump(p)
          PROVE  LossIsReal'
      BY <2>2 DEF Pump, PumpRead, SendCheck, SendOut, LossIsReal, remoteVars, consumerVars
    <2>3. CASE Waiter
      <3>1. waitErr # "lost"
        BY DEF SessionTypeOK
      <3> QED
        BY <2>3, <3>1 DEF Waiter, WaitReturns, PumpsWait, RecordExit, FinishLock,
              FinishShutdown, FinishCloseOut, LossIsReal, remoteVars, consumerVars
    <2>4. CASE Keepalive
      BY <2>4 DEF Keepalive, KeepaliveTick, KeepaliveAnswer, FailLock, FailDrop,
            LossIsReal, remoteVars, consumerVars
    <2>5. CASE Consumer \/ CloseTab
      BY <2>5 DEF Consumer, Connected, Receive, HandleOutput, ReceiveEnd, CloseShutdown,
            CloseTab, CloseLock, UiFree, LossIsReal, remoteVars
    <2>6. CASE UNCHANGED sessionVars
      BY <2>6 DEF sessionVars, remoteVars, consumerVars, LossIsReal
    <2> QED
      BY <2>1, <2>2, <2>3, <2>4, <2>5, <2>6 DEF SessionNext
  <1>3. LossIsReal => LostOnlyIfLinkFailed
    BY DEF LossIsReal, LostOnlyIfLinkFailed
  <1> QED
    BY <1>1, <1>2, <1>3, SessionTyped, PTL DEF SessionSpec

-----------------------------------------------------------------------------
(* A session: where its output is.                                          *)

\* The steps of an end come in order: the session is closed under an open tab
\* only by finish, finish runs when the pumps are done, a pump is done when the
\* channel is closed and its pipe empty, and out is closed last.
EndInOrder ==
    /\ tabOpen /\ closed => waiter \in {"shutdown", "closeOut", "done"}
    /\ waiter \notin {"wait", "pumps"} => \A p \in Pumps : pump[p] = "done"
    /\ tabOpen => \A p \in Pumps : pump[p] = "done" => pipe[p] = 0 /\ chClosed
    /\ outClosed => waiter = "done"
    /\ ui = "ended" => out = 0 /\ outClosed

\* A session that has just come up has no step of its end behind it.
LEMMA EndBegins ==
    ASSUME SessionInit
    PROVE  EndInOrder
  BY DEF SessionInit, EndInOrder

\* A chunk arrives only while the channel is open, when no pump is done.
LEMMA EndOfRemote ==
    ASSUME SessionTypeOK, EndInOrder, Remote \/ ChannelClose
    PROVE  EndInOrder'
  <1>1. ASSUME NEW p \in Pumps, RemoteWrite(p)
        PROVE  EndInOrder'
    <2>1. /\ ~chClosed /\ pipe' = [pipe EXCEPT ![p] = @ + 1]
          /\ UNCHANGED <<tabOpen, closed, waiter, pump, chClosed, outClosed, ui, out>>
      BY <1>1 DEF RemoteWrite, Attached, remoteVars, consumerVars
    <2>2. tabOpen => \A q \in Pumps : pump[q] # "done"
      BY <2>1 DEF EndInOrder
    <2> QED
      BY <2>1, <2>2 DEF EndInOrder
  <1>2. ASSUME NEW s \in {"clean", "status"}, RemoteExit(s)
        PROVE  EndInOrder'
    BY <1>2 DEF RemoteExit, EndInOrder, pipeVars, consumerVars
  <1>3. ASSUME NEW to \in {"up", "silent", "down"}, LinkChange(to)
        PROVE  EndInOrder'
    BY <1>3 DEF LinkChange, EndInOrder, pipeVars, consumerVars
  <1>4. CASE ChannelClose
    BY <1>4 DEF ChannelClose, EndInOrder, pipeVars, consumerVars
  <1> QED
    BY <1>1, <1>2, <1>3, <1>4 DEF Remote

\* A pump that still runs has finish before it.
LEMMA EndOfPump ==
    ASSUME SessionTypeOK, EndInOrder, NEW p \in Pumps, Pump(p)
    PROVE  EndInOrder'
  <1>1. /\ pump[p] # "done"
        /\ \A q \in Pumps \ {p} : pump'[q] = pump[q] /\ pipe'[q] = pipe[q]
        /\ UNCHANGED <<tabOpen, closed, waiter, chClosed, outClosed, ui>>
        /\ outClosed => out' = out
    BY DEF Pump, PumpRead, SendCheck, SendOut, SessionTypeOK, remoteVars, pipeVars,
           consumerVars
  <1>2. waiter \in {"wait", "pumps"}
    BY <1>1 DEF EndInOrder
  <1>3. tabOpen => ~closed
    BY <1>2 DEF EndInOrder
  <1>4. tabOpen /\ pump'[p] = "done" => pipe'[p] = 0 /\ chClosed
    <2>1. CASE PumpRead(p)
      BY <2>1 DEF PumpRead, SessionTypeOK
    <2>2. CASE SendCheck(p)
      BY <2>2, <1>3 DEF SendCheck, SessionTypeOK
    <2>3. CASE SendOut(p)
      BY <2>3 DEF SendOut, SessionTypeOK
    <2> QED
      BY <2>1, <2>2, <2>3 DEF Pump
  <1>5. ASSUME NEW q \in Pumps, tabOpen, pump'[q] = "done"
        PROVE  pipe'[q] = 0 /\ chClosed
    <2>1. CASE q = p
      BY <2>1, <1>4, <1>5
    <2>2. CASE q # p
      BY <2>2, <1>1, <1>5 DEF EndInOrder
    <2> QED
      BY <2>1, <2>2
  <1>6. ~outClosed /\ ui # "ended"
    BY <1>2 DEF EndInOrder
  <1> QED
    BY <1>1, <1>2, <1>3, <1>5, <1>6 DEF EndInOrder

\* The waiter takes the steps of the end in their order.
LEMMA EndOfWaiter ==
    ASSUME SessionTypeOK, EndInOrder, Waiter
    PROVE  EndInOrder'
  <1>1. CASE WaitReturns \/ PumpsWait \/ RecordExit
    BY <1>1 DEF WaitReturns, PumpsWait, RecordExit, EndInOrder, remoteVars, pipeVars,
                consumerVars
  <1>2. CASE FinishLock
    BY <1>2 DEF FinishLock, EndInOrder, remoteVars, pipeVars, consumerVars
  <1>3. CASE FinishShutdown \/ FinishCloseOut
    BY <1>3 DEF FinishShutdown, FinishCloseOut, EndInOrder, remoteVars, pipeVars,
                consumerVars
  <1> QED
    BY <1>1, <1>2, <1>3 DEF Waiter

\* keepalive touches none of it.
LEMMA EndOfKeepalive ==
    ASSUME EndInOrder, Keepalive
    PROVE  EndInOrder'
  <1>1. UNCHANGED <<tabOpen, closed, waiter, pump, pipe, chClosed, outClosed, ui, out>>
    BY DEF Keepalive, KeepaliveTick, KeepaliveAnswer, FailLock, FailDrop, remoteVars,
           pipeVars, consumerVars
  <1> QED
    BY <1>1 DEF EndInOrder

\* A tab that stays open is closed by no handler.
LEMMA EndOfConsumer ==
    ASSUME SessionTypeOK, EndInOrder, Consumer \/ CloseTab
    PROVE  EndInOrder'
  <1>1. UNCHANGED <<waiter, pump, pipe, chClosed, outClosed>>
    BY DEF Consumer, Connected, Receive, HandleOutput, ReceiveEnd, CloseShutdown,
           CloseTab, remoteVars, pipeVars
  <1>2. tabOpen' => tabOpen /\ closed' = closed
    BY DEF Consumer, Connected, Receive, HandleOutput, ReceiveEnd, CloseShutdown,
           CloseTab, SessionTypeOK
  <1>3. ui' = "ended" => out' = 0 /\ outClosed
    BY DEF Consumer, Connected, Receive, HandleOutput, ReceiveEnd, CloseShutdown,
           CloseTab, EndInOrder
  <1> QED
    BY <1>1, <1>2, <1>3 DEF EndInOrder

\* The end comes in order in every behaviour.
LEMMA EndAlways == SessionSpec => []EndInOrder
  <1>1. SessionTypeOK /\ EndInOrder /\ [SessionNext]_sessionVars => EndInOrder'
    <2>1. ASSUME EndInOrder, UNCHANGED sessionVars
          PROVE  EndInOrder'
      BY <2>1 DEF sessionVars, remoteVars, pipeVars, consumerVars, EndInOrder
    <2> QED
      BY <2>1, EndOfRemote, EndOfPump, EndOfWaiter, EndOfKeepalive, EndOfConsumer
         DEF SessionNext
  <1> QED
    BY <1>1, EndBegins, SessionTyped, PTL DEF SessionSpec

\* While its tab is open, every chunk that arrived is in a pipe, in the hands of
\* a pump, in out, in a message to the UI or on screen.
Held(p) == IF pump[p] \in {"send", "blocked"} THEN 1 ELSE 0
Coming == IF ui = "handling" THEN 1 ELSE 0
Flow(p) == pipe[p] + Held(p)
NothingLost ==
    tabOpen => shown + Coming + out + Flow("stdout") + Flow("stderr") = Sum(arrived)

\* What arrives is in a pipe.
LEMMA LostByRemote ==
    ASSUME SessionTypeOK, NothingLost, Remote \/ ChannelClose
    PROVE  NothingLost'
  <1>1. ASSUME NEW p \in Pumps, RemoteWrite(p)
        PROVE  NothingLost'
    <2>1. /\ pipe' = [pipe EXCEPT ![p] = @ + 1] /\ arrived' = [arrived EXCEPT ![p] = @ + 1]
          /\ UNCHANGED <<tabOpen, pump, ui, out, shown>>
      BY <1>1 DEF RemoteWrite, consumerVars
    <2> QED
      BY <2>1 DEF NothingLost, Held, Coming, Flow, Sum, SessionTypeOK, Pumps
  <1>2. CASE ChannelClose \/ (\E s \in {"clean", "status"} : RemoteExit(s))
                \/ (\E to \in {"up", "silent", "down"} : LinkChange(to))
    <2>1. UNCHANGED <<tabOpen, pump, ui, out, shown, pipe, arrived>>
      BY <1>2 DEF ChannelClose, RemoteExit, LinkChange, pipeVars, consumerVars
    <2> QED
      BY <2>1 DEF NothingLost, Held, Coming, Flow, Sum
  <1> QED
    BY <1>1, <1>2 DEF Remote

\* A pump passes a chunk on; it drops one only when the tab has gone.
LEMMA LostByPump ==
    ASSUME SessionTypeOK, EndInOrder, NothingLost, NEW p \in Pumps, Pump(p)
    PROVE  NothingLost'
  <1>1. UNCHANGED <<tabOpen, ui, shown, arrived>>
    BY DEF Pump, PumpRead, SendCheck, SendOut, pipeVars, consumerVars
  <1>2. \A q \in Pumps \ {p} : Flow(q)' = Flow(q)
    BY DEF Pump, PumpRead, SendCheck, SendOut, SessionTypeOK, pipeVars, Flow, Held
  <1>3. tabOpen => ~closed
    BY DEF Pump, PumpRead, SendCheck, SendOut, EndInOrder
  <1>4. tabOpen => out' + Flow(p)' = out + Flow(p)
    <2>1. CASE PumpRead(p)
      BY <2>1 DEF PumpRead, SessionTypeOK, Flow, Held
    <2>2. CASE SendCheck(p)
      BY <2>2, <1>3 DEF SendCheck, SessionTypeOK, Flow, Held, pipeVars
    <2>3. CASE SendOut(p)
      BY <2>3 DEF SendOut, SessionTypeOK, Flow, Held, pipeVars
    <2> QED
      BY <2>1, <2>2, <2>3 DEF Pump
  <1>5. /\ Flow("stdout") \in Nat /\ Flow("stderr") \in Nat
        /\ out \in Nat /\ shown \in Nat /\ Coming \in Nat
    BY SessionAssumption DEF SessionTypeOK, Flow, Held, Coming, Pumps
  <1>6. /\ Flow("stdout")' \in Nat /\ Flow("stderr")' \in Nat /\ out' \in Nat
        /\ Coming' = Coming /\ Sum(arrived)' = Sum(arrived)
    BY <1>1, PumpTyped, SessionAssumption DEF SessionTypeOK, Flow, Held, Coming, Sum, Pumps
  <1>7. p = "stdout" \/ p = "stderr"
    BY DEF Pumps
  <1> HIDE DEF Flow, Coming, Sum
  <1>8. tabOpen => out' + Flow("stdout")' + Flow("stderr")'
                       = out + Flow("stdout") + Flow("stderr")
    <2>1. CASE p = "stdout"
      <3>1. Flow("stderr")' = Flow("stderr")
        BY <2>1, <1>2 DEF Pumps
      <3> QED
        BY <2>1, <3>1, <1>4, <1>5, <1>6
    <2>2. CASE p = "stderr"
      <3>1. Flow("stdout")' = Flow("stdout")
        BY <2>2, <1>2 DEF Pumps
      <3> QED
        BY <2>2, <3>1, <1>4, <1>5, <1>6
    <2> QED
      BY <2>1, <2>2, <1>7
  <1> QED
    BY <1>1, <1>5, <1>6, <1>8 DEF NothingLost

\* The waiter and keepalive move no chunk.
LEMMA LostByOthers ==
    ASSUME NothingLost, Waiter \/ Keepalive
    PROVE  NothingLost'
  <1>1. UNCHANGED <<tabOpen, pump, ui, out, shown, pipe, arrived>>
    BY DEF Waiter, WaitReturns, PumpsWait, RecordExit, FinishLock, FinishShutdown,
           FinishCloseOut, Keepalive, KeepaliveTick, KeepaliveAnswer, FailLock, FailDrop,
           pipeVars, consumerVars
  <1> QED
    BY <1>1 DEF NothingLost, Held, Coming, Flow, Sum

\* The UI takes a chunk from out and puts it on screen.
LEMMA LostByConsumer ==
    ASSUME SessionTypeOK, NothingLost, Consumer \/ CloseTab
    PROVE  NothingLost'
  <1>1. UNCHANGED <<pump, pipe, arrived>>
    BY DEF Consumer, Connected, Receive, HandleOutput, ReceiveEnd, CloseShutdown,
           CloseTab, pipeVars
  <1>2. Flow("stdout")' = Flow("stdout") /\ Flow("stderr")' = Flow("stderr")
        /\ Sum(arrived)' = Sum(arrived)
    BY <1>1 DEF Flow, Held, Sum
  <1>3. tabOpen' => tabOpen /\ shown' + Coming' + out' = shown + Coming + out
    <2>1. CASE Connected \/ CloseShutdown \/ CloseTab
      BY <2>1 DEF Connected, CloseShutdown, CloseTab, Coming
    <2>2. CASE Receive
      <3>1. /\ out \in Nat /\ out > 0 /\ out' = out - 1 /\ UNCHANGED <<tabOpen, shown>>
            /\ Coming = 0 /\ Coming' = 1 /\ shown \in Nat
        BY <2>2, SessionAssumption DEF Receive, SessionTypeOK, Coming
      <3> QED
        BY <3>1
    <2>3. CASE HandleOutput
      <3>1. /\ UNCHANGED <<tabOpen, out>> /\ Coming = 1 /\ Coming' = 0
            /\ tabOpen => shown' = shown + 1
            /\ out \in Nat /\ shown \in Nat
        BY <2>3, SessionAssumption DEF HandleOutput, SessionTypeOK, Coming
      <3> QED
        BY <3>1
    <2>4. CASE ReceiveEnd
      BY <2>4 DEF ReceiveEnd, Coming
    <2> QED
      BY <2>1, <2>2, <2>3, <2>4 DEF Consumer
  <1>4. /\ Flow("stdout") \in Nat /\ Flow("stderr") \in Nat
    BY DEF SessionTypeOK, Flow, Held, Pumps
  <1> HIDE DEF Flow, Coming, Sum
  <1> QED
    BY <1>2, <1>3, <1>4 DEF NothingLost

\* Every chunk is somewhere, in every behaviour.
LEMMA LostNever == SessionSpec => []NothingLost
  <1>1. SessionInit => NothingLost
    <2> SUFFICES ASSUME SessionInit
                 PROVE  NothingLost
      OBVIOUS
    <2>1. Flow("stdout") = 0 /\ Flow("stderr") = 0
      BY DEF SessionInit, Flow, Held, Pumps
    <2>2. Sum(arrived) = 0
      BY DEF SessionInit, Sum, Pumps
    <2>3. shown = 0 /\ out = 0 /\ Coming = 0
      BY DEF SessionInit, Coming
    <2> QED
      BY <2>1, <2>2, <2>3 DEF NothingLost
  <1>2. SessionTypeOK /\ EndInOrder /\ NothingLost /\ [SessionNext]_sessionVars
            => NothingLost'
    <2>1. ASSUME NothingLost, UNCHANGED sessionVars
          PROVE  NothingLost'
      BY <2>1 DEF sessionVars, pipeVars, consumerVars, NothingLost, Held, Coming, Flow, Sum
    <2> QED
      BY <2>1, LostByRemote, LostByPump, LostByOthers, LostByConsumer DEF SessionNext
  <1> QED
    BY <1>1, <1>2, SessionTyped, EndAlways, PTL DEF SessionSpec

\* All of it is on screen once out is closed and empty.
LEMMA AllShown ==
    ASSUME SessionTypeOK, EndInOrder, NothingLost, tabOpen, outClosed, out = 0,
           ui # "handling"
    PROVE  shown = Sum(arrived) /\ chClosed
  <1>1. Coming = 0
    BY DEF Coming
  <1>2. chClosed /\ Flow("stdout") = 0 /\ Flow("stderr") = 0
    BY DEF EndInOrder, Flow, Held, Pumps
  <1>3. shown \in Nat
    BY DEF SessionTypeOK
  <1> QED
    BY <1>1, <1>2, <1>3 DEF NothingLost

\* A session the user did not close has shown all that arrived by the time the
\* UI is told of its end, whatever the capacity of out and the amount of output.
THEOREM NoByteIsLost == SessionSpec => []FinalBytes
  <1>1. SessionTypeOK /\ EndInOrder /\ NothingLost => FinalBytes
    BY AllShown DEF FinalBytes, EndInOrder
  <1> QED
    BY <1>1, SessionTyped, EndAlways, LostNever, PTL

-----------------------------------------------------------------------------
(* A session: what its tab sees of it is a stream.                          *)

\* What the tab is to Stream.
TabState == IF ~tabOpen THEN "left" ELSE IF ui = "ended" THEN "ended" ELSE "open"

LEMMA StreamBegins ==
    ASSUME SessionInit
    PROVE  Streamed!Init
  <1>1. Sum(arrived) = 0
    BY DEF SessionInit, Sum, Pumps
  <1> QED
    BY <1>1 DEF SessionInit, Streamed!Init

\* A chunk that is on its way to the screen has arrived.
LEMMA ShownArrived ==
    ASSUME SessionTypeOK, NothingLost, tabOpen, ui = "handling"
    PROVE  shown < Sum(arrived)
  <1>1. Flow("stdout") \in Nat /\ Flow("stderr") \in Nat /\ out \in Nat /\ shown \in Nat
    BY SessionAssumption DEF SessionTypeOK, Flow, Held, Pumps
  <1>2. Coming = 1
    BY DEF Coming
  <1> HIDE DEF Flow, Coming, Sum
  <1> QED
    BY <1>1, <1>2 DEF NothingLost

\* What the remote writes arrives; it cannot once the end was told.
LEMMA RemoteStreams ==
    ASSUME SessionTypeOK, EndInOrder, NEW p \in Pumps, RemoteWrite(p)
    PROVE  TabState # "ended" /\ Sum(arrived)' = Sum(arrived) + 1
           /\ UNCHANGED <<shown, TabState>>
  <1>1. ~chClosed /\ arrived' = [arrived EXCEPT ![p] = @ + 1] /\ UNCHANGED <<shown, tabOpen, ui>>
    BY DEF RemoteWrite, Attached, consumerVars
  <1>2. ~(tabOpen /\ ui = "ended")
    BY <1>1 DEF EndInOrder, Pumps
  <1>3. Sum(arrived)' = Sum(arrived) + 1
    BY <1>1 DEF SessionTypeOK, Sum, Pumps
  <1> QED
    BY <1>1, <1>2, <1>3 DEF TabState

\* The goroutines and the rest of the remote show and end nothing.
LEMMA OthersStream ==
    ASSUME \/ Waiter \/ Keepalive \/ ChannelClose \/ UNCHANGED sessionVars
           \/ \E p \in Pumps : Pump(p)
           \/ \E s \in {"clean", "status"} : RemoteExit(s)
           \/ \E to \in {"up", "silent", "down"} : LinkChange(to)
    PROVE  UNCHANGED <<Sum(arrived), shown, TabState>>
  <1>1. UNCHANGED <<arrived, shown, tabOpen, ui>>
    BY DEF Waiter, WaitReturns, PumpsWait, RecordExit, FinishLock, FinishShutdown,
           FinishCloseOut, Keepalive, KeepaliveTick, KeepaliveAnswer, FailLock, FailDrop,
           ChannelClose, Pump, PumpRead, SendCheck, SendOut, RemoteExit, LinkChange,
           sessionVars, pipeVars, consumerVars
  <1> QED
    BY <1>1 DEF Sum, TabState

\* The UI's steps: a chunk shown, the end, the tab closed, or nothing seen.
LEMMA ConsumerStreams ==
    ASSUME SessionTypeOK, EndInOrder, NothingLost, Consumer \/ CloseTab
    PROVE  /\ Sum(arrived)' = Sum(arrived)
           /\ \/ TabState = "open" /\ shown < Sum(arrived) /\ shown' = shown + 1
                   /\ UNCHANGED TabState
              \/ TabState = "open" /\ shown = Sum(arrived) /\ TabState' = "ended"
                   /\ UNCHANGED shown
              \/ TabState = "open" /\ TabState' = "left" /\ UNCHANGED shown
              \/ UNCHANGED <<shown, TabState>>
  <1>1. UNCHANGED arrived
    BY DEF Consumer, Connected, Receive, HandleOutput, ReceiveEnd, CloseShutdown,
           CloseTab, pipeVars
  <1>2. Sum(arrived)' = Sum(arrived)
    BY <1>1 DEF Sum
  <1>3. CASE Connected \/ Receive \/ CloseShutdown
    <2>1. UNCHANGED <<shown, TabState>>
      BY <1>3 DEF Connected, Receive, CloseShutdown, TabState
    <2> QED
      BY <1>2, <2>1
  <1>4. CASE HandleOutput
    <2>1. CASE tabOpen
      <3>1. shown' = shown + 1 /\ TabState = "open" /\ TabState' = "open"
        BY <1>4, <2>1 DEF HandleOutput, TabState
      <3>2. shown < Sum(arrived)
        BY <1>4, <2>1, ShownArrived DEF HandleOutput
      <3> QED
        BY <1>2, <3>1, <3>2
    <2>2. CASE ~tabOpen
      <3>1. UNCHANGED <<shown, TabState>>
        BY <1>4, <2>2 DEF HandleOutput, TabState
      <3> QED
        BY <1>2, <3>1
    <2> QED
      BY <2>1, <2>2
  <1>5. CASE ReceiveEnd
    <2>1. CASE tabOpen
      <3>1. shown' = shown /\ TabState = "open" /\ TabState' = "ended"
        BY <1>5, <2>1 DEF ReceiveEnd, TabState
      <3>2. shown = Sum(arrived)
        BY <1>5, <2>1, AllShown DEF ReceiveEnd
      <3> QED
        BY <1>2, <3>1, <3>2
    <2>2. CASE ~tabOpen
      <3>1. UNCHANGED <<shown, TabState>>
        BY <1>5, <2>2 DEF ReceiveEnd, TabState
      <3> QED
        BY <1>2, <3>1
    <2> QED
      BY <2>1, <2>2
  <1>6. CASE CloseTab
    <2>1. shown' = shown /\ TabState = "open" /\ TabState' = "left"
      BY <1>6 DEF CloseTab, TabState
    <2> QED
      BY <1>2, <2>1
  <1> QED
    BY <1>3, <1>4, <1>5, <1>6 DEF Consumer

\* Every step is one of the stream's, or none.
LEMMA StreamSteps ==
    ASSUME SessionTypeOK, EndInOrder, NothingLost, [SessionNext]_sessionVars
    PROVE  [Streamed!Next]_<<Sum(arrived), shown, TabState>>
  <1>1. ASSUME NEW p \in Pumps, RemoteWrite(p)
        PROVE  Streamed!Arrive
    BY <1>1, RemoteStreams DEF Streamed!Arrive, TabState
  <1>2. CASE Consumer \/ CloseTab
    BY <1>2, ConsumerStreams
       DEF Streamed!Next, Streamed!Show, Streamed!End, Streamed!Leave, TabState
  <1>3. ASSUME ~(Consumer \/ CloseTab), ~\E p \in Pumps : RemoteWrite(p)
        PROVE  UNCHANGED <<Sum(arrived), shown, TabState>>
    BY <1>3, OthersStream DEF SessionNext, Remote
  <1> QED
    BY <1>1, <1>2, <1>3 DEF Streamed!Next

\* A session implements a stream, whatever the capacity of its channel and the
\* amount of output: nothing is shown before it arrives, the end is told after
\* all of it was shown, and nothing comes after the end.
THEOREM OutputStreams == SessionSpec => OutputIsAStream
  <1>1. SessionInit => Streamed!Init
    BY StreamBegins
  <1>2. SessionTypeOK /\ EndInOrder /\ NothingLost /\ [SessionNext]_sessionVars
            => [Streamed!Next]_<<Sum(arrived), shown, TabState>>
    BY StreamSteps
  <1> QED
    BY <1>1, <1>2, SessionTyped, EndAlways, LostNever, PTL
       DEF SessionSpec, OutputIsAStream, Streamed!Spec, TabState

-----------------------------------------------------------------------------
(* A session: its end is never stuck, and comes nearer with every step.     *)

\* While its tab is open somebody reads the session, nobody closes it, and what
\* the goroutines left behind is there.
Attended ==
    /\ tabOpen => ui # "gone" /\ closing = "no"
    /\ waiter # "wait" => chClosed
    /\ waiter = "done" => outClosed
    /\ ka = "done" => closed \/ clientClosed

LEMMA AttendedKept ==
    ASSUME SessionTypeOK, Attended, [SessionNext]_sessionVars
    PROVE  Attended'
  <1>1. CASE Remote \/ ChannelClose
    BY <1>1 DEF Remote, RemoteWrite, RemoteExit, LinkChange, ChannelClose, Attended,
       remoteVars, consumerVars
  <1>2. ASSUME NEW p \in Pumps, Pump(p)
        PROVE  Attended'
    BY <1>2 DEF Pump, PumpRead, SendCheck, SendOut, Attended, remoteVars, consumerVars
  <1>3. CASE Waiter
    BY <1>3 DEF Waiter, WaitReturns, PumpsWait, RecordExit, FinishLock, FinishShutdown,
       FinishCloseOut, SessionTypeOK, Attended, remoteVars, consumerVars
  <1>4. CASE Keepalive
    BY <1>4 DEF Keepalive, KeepaliveTick, KeepaliveAnswer, FailLock, FailDrop, Attended,
       remoteVars, consumerVars
  <1>5. CASE Consumer \/ CloseTab
    BY <1>5 DEF Consumer, Connected, Receive, HandleOutput, ReceiveEnd, CloseShutdown,
       CloseTab, CloseLock, SessionTypeOK, Attended, remoteVars
  <1>6. CASE UNCHANGED sessionVars
    BY <1>6 DEF sessionVars, remoteVars, consumerVars, Attended
  <1> QED
    BY <1>1, <1>2, <1>3, <1>4, <1>5, <1>6 DEF SessionNext

LEMMA AttendedAlways == SessionSpec => []Attended
  <1>1. SessionInit => Attended
    BY DEF SessionInit, Attended
  <1>2. SessionTypeOK /\ Attended /\ [SessionNext]_sessionVars => Attended'
    BY AttendedKept
  <1> QED
    BY <1>1, <1>2, SessionTyped, PTL DEF SessionSpec

\* The guards of Pump, of Waiter and of Consumer.
PumpCan(p) ==
    \/ pump[p] = "read" /\ (pipe[p] > 0 \/ (pipe[p] = 0 /\ chClosed))
    \/ pump[p] = "send"
    \/ pump[p] = "blocked" /\ ~outClosed /\ out < OutCap
WaiterCan ==
    \/ waiter = "wait" /\ chClosed
    \/ waiter = "pumps" /\ \A p \in Pumps : pump[p] = "done"
    \/ waiter \in {"record", "finish", "shutdown", "closeOut"}
ConsumerCan ==
    \/ ui \in {"new", "handling"} /\ UiFree
    \/ ui = "armed" /\ (out > 0 \/ (out = 0 /\ outClosed))
    \/ closing = "shutdown"

\* A shell that has ended is never stuck on the bounded channel, or on the UI and
\* the goroutines waiting for each other: until its open tab is told, a pump, the
\* waiter or the UI has a step, for any capacity that is not 0.
THEOREM EndNeverStuck ==
    SessionSpec =>
        [](chClosed /\ tabOpen /\ ui # "ended" =>
              ConsumerCan \/ WaiterCan \/ \E p \in Pumps : PumpCan(p))
  <1>1. ASSUME SessionTypeOK, Attended, chClosed, tabOpen, ui # "ended"
        PROVE  ConsumerCan \/ WaiterCan \/ \E p \in Pumps : PumpCan(p)
    <2>1. UiFree /\ ui # "gone" /\ (ui \in {"new", "handling"} => ConsumerCan)
      BY <1>1 DEF Attended, UiFree, ConsumerCan
    <2>2. CASE ui = "armed" /\ out = 0 /\ ~outClosed
      <3>1. ASSUME NEW p \in Pumps, pump[p] # "done"
            PROVE  PumpCan(p)
        <4>1. pump[p] \in {"read", "send", "blocked"} /\ pipe[p] \in Nat
          BY <1>1, <3>1 DEF SessionTypeOK
        <4>2. 0 < OutCap
          BY SessionAssumption
        <4> QED
          BY <1>1, <2>2, <4>1, <4>2 DEF PumpCan
      <3>2. ASSUME \A p \in Pumps : pump[p] = "done"
            PROVE  WaiterCan
        <4>1. waiter # "done"
          BY <1>1, <2>2 DEF Attended
        <4> QED
          BY <1>1, <3>2, <4>1 DEF SessionTypeOK, WaiterCan
      <3> QED
        BY <3>1, <3>2
    <2>3. CASE ui = "armed" /\ (out > 0 \/ outClosed)
      <3>1. out \in Nat
        BY <1>1, SessionAssumption DEF SessionTypeOK
      <3> QED
        BY <2>3, <3>1 DEF ConsumerCan
    <2>4. ui \in {"new", "armed", "handling"} /\ out \in Nat
      BY <1>1, <2>1, SessionAssumption DEF SessionTypeOK
    <2> QED
      BY <2>1, <2>2, <2>3, <2>4
  <1>2. SessionTypeOK /\ Attended =>
           (chClosed /\ tabOpen /\ ui # "ended" =>
              ConsumerCan \/ WaiterCan \/ \E p \in Pumps : PumpCan(p))
    BY <1>1
  <1> QED
    BY <1>2, SessionTyped, AttendedAlways, PTL

\* Nor is a loss: as long as the link is not up, keepalive has a step that leads
\* to the connection being closed, or it is closed and takes the channel along.
THEOREM LossNeverStuck ==
    SessionSpec => [](link # "up" /\ tabOpen /\ ~chClosed => ka # "done" \/ clientClosed)
  <1>1. EndInOrder /\ Attended =>
           (link # "up" /\ tabOpen /\ ~chClosed => ka # "done" \/ clientClosed)
    BY DEF EndInOrder, Attended
  <1> QED
    BY <1>1, EndAlways, AttendedAlways, PTL

\* Steps that a chunk, the waiter and the UI still have ahead of them.
PumpSteps(p) ==
    5 * pipe[p]
    + (IF pump[p] = "send" THEN 5 ELSE IF pump[p] = "blocked" THEN 4
       ELSE IF pump[p] = "read" THEN 1 ELSE 0)
WaiterSteps ==
    IF waiter = "wait" THEN 6 ELSE IF waiter = "pumps" THEN 5
    ELSE IF waiter = "record" THEN 4 ELSE IF waiter = "finish" THEN 3
    ELSE IF waiter = "shutdown" THEN 2 ELSE IF waiter = "closeOut" THEN 1 ELSE 0
UiSteps == IF ui \in {"new", "handling"} THEN 2 ELSE IF ui = "armed" THEN 1 ELSE 0
Ahead == PumpSteps("stdout") + PumpSteps("stderr") + 2 * out + WaiterSteps + UiSteps

LEMMA StepsCounted ==
    ASSUME SessionTypeOK
    PROVE  /\ PumpSteps("stdout") \in Nat /\ PumpSteps("stderr") \in Nat /\ out \in Nat
           /\ WaiterSteps \in Nat /\ UiSteps \in Nat /\ Ahead \in Nat
  <1>1. \A p \in Pumps : PumpSteps(p) \in Nat
    BY DEF SessionTypeOK, PumpSteps
  <1>2. out \in Nat /\ WaiterSteps \in Nat /\ UiSteps \in Nat
    BY SessionAssumption DEF SessionTypeOK, WaiterSteps, UiSteps
  <1>3. PumpSteps("stdout") \in Nat /\ PumpSteps("stderr") \in Nat
    BY <1>1 DEF Pumps
  <1> HIDE DEF PumpSteps, WaiterSteps, UiSteps
  <1> QED
    BY <1>2, <1>3 DEF Ahead

\* A pump moves a chunk a step on, or is done.
LEMMA PumpMovesOn ==
    ASSUME SessionTypeOK, NEW p \in Pumps, Pump(p)
    PROVE  Ahead' < Ahead /\ Ahead' <= Ahead
  <1>1. UNCHANGED <<waiter, ui>> /\ WaiterSteps' = WaiterSteps /\ UiSteps' = UiSteps
    BY DEF Pump, PumpRead, SendCheck, SendOut, consumerVars, WaiterSteps, UiSteps
  <1>2. \A q \in Pumps \ {p} : PumpSteps(q)' = PumpSteps(q)
    BY DEF Pump, PumpRead, SendCheck, SendOut, SessionTypeOK, pipeVars, PumpSteps
  <1>3. /\ PumpSteps(p)' \in Nat /\ out' \in Nat
        /\ 2 * out' + PumpSteps(p)' < 2 * out + PumpSteps(p)
    <2>0. out \in Nat /\ pipe[p] \in Nat
      BY SessionAssumption DEF SessionTypeOK
    <2>1. CASE PumpRead(p)
      BY <2>0, <2>1 DEF PumpRead, SessionTypeOK, PumpSteps
    <2>2. CASE SendCheck(p)
      BY <2>0, <2>2 DEF SendCheck, SessionTypeOK, pipeVars, PumpSteps
    <2>3. CASE SendOut(p)
      BY <2>0, <2>3 DEF SendOut, SessionTypeOK, pipeVars, PumpSteps
    <2> QED
      BY <2>1, <2>2, <2>3 DEF Pump
  <1>4. (p = "stdout" /\ PumpSteps("stderr")' = PumpSteps("stderr"))
            \/ (p = "stderr" /\ PumpSteps("stdout")' = PumpSteps("stdout"))
    BY <1>2 DEF Pumps
  <1>5. /\ PumpSteps("stdout") \in Nat /\ PumpSteps("stderr") \in Nat /\ out \in Nat
        /\ WaiterSteps \in Nat /\ UiSteps \in Nat
    BY StepsCounted
  <1> HIDE DEF PumpSteps, WaiterSteps, UiSteps
  <1> QED
    BY <1>1, <1>3, <1>4, <1>5 DEF Ahead

LEMMA WaiterMovesOn ==
    ASSUME SessionTypeOK, Waiter
    PROVE  Ahead' < Ahead /\ Ahead' <= Ahead
  <1>1. UNCHANGED <<pipe, pump, out, ui>> /\ WaiterSteps' \in Nat /\ WaiterSteps' < WaiterSteps
    BY DEF Waiter, WaitReturns, PumpsWait, RecordExit, FinishLock, FinishShutdown,
       FinishCloseOut, pipeVars, consumerVars, WaiterSteps
  <1>2. /\ PumpSteps("stdout")' = PumpSteps("stdout") /\ PumpSteps("stderr")' = PumpSteps("stderr")
        /\ UiSteps' = UiSteps
    BY <1>1 DEF PumpSteps, UiSteps
  <1>3. /\ PumpSteps("stdout") \in Nat /\ PumpSteps("stderr") \in Nat /\ out \in Nat
        /\ WaiterSteps \in Nat /\ UiSteps \in Nat
    BY StepsCounted
  <1> HIDE DEF PumpSteps, WaiterSteps, UiSteps
  <1> QED
    BY <1>1, <1>2, <1>3 DEF Ahead

\* The UI of an open tab takes a chunk, shows it or takes the end.
LEMMA ConsumerMovesOn ==
    ASSUME SessionTypeOK, Attended, tabOpen, Consumer
    PROVE  Ahead' < Ahead /\ Ahead' <= Ahead
  <1>1. UNCHANGED <<pipe, pump, waiter>>
    BY DEF Consumer, Connected, Receive, HandleOutput, ReceiveEnd, CloseShutdown, pipeVars
  <1>2. out' \in Nat /\ UiSteps' \in Nat /\ 2 * out' + UiSteps' < 2 * out + UiSteps
    <2>0. out \in Nat
      BY SessionAssumption DEF SessionTypeOK
    <2>1. CASE Connected
      BY <2>0, <2>1 DEF Connected, UiSteps
    <2>2. CASE Receive
      BY <2>0, <2>2 DEF Receive, UiSteps
    <2>3. CASE HandleOutput
      BY <2>0, <2>3 DEF HandleOutput, UiSteps
    <2>4. CASE ReceiveEnd
      BY <2>0, <2>4 DEF ReceiveEnd, UiSteps
    <2>5. ~CloseShutdown
      BY DEF CloseShutdown, Attended
    <2> QED
      BY <2>1, <2>2, <2>3, <2>4, <2>5 DEF Consumer
  <1>3. /\ PumpSteps("stdout")' = PumpSteps("stdout") /\ PumpSteps("stderr")' = PumpSteps("stderr")
        /\ WaiterSteps' = WaiterSteps
    BY <1>1 DEF PumpSteps, WaiterSteps
  <1>4. /\ PumpSteps("stdout") \in Nat /\ PumpSteps("stderr") \in Nat /\ out \in Nat
        /\ WaiterSteps \in Nat /\ UiSteps \in Nat
    BY StepsCounted
  <1> HIDE DEF PumpSteps, WaiterSteps, UiSteps
  <1>5. /\ Ahead = PumpSteps("stdout") + PumpSteps("stderr") + 2 * out + WaiterSteps + UiSteps
        /\ Ahead' = PumpSteps("stdout") + PumpSteps("stderr") + 2 * out' + WaiterSteps + UiSteps'
    BY <1>3 DEF Ahead
  <1>6. \A a, b, c, o, u, o2, u2 \in Nat : 2 * o2 + u2 < 2 * o + u =>
           /\ a + b + 2 * o2 + c + u2 < a + b + 2 * o + c + u
           /\ a + b + 2 * o2 + c + u2 <= a + b + 2 * o + c + u
    OBVIOUS
  <1> QED
    BY <1>2, <1>4, <1>5, <1>6

\* Nothing more arrives once the channel is closed, and keepalive moves nothing.
LEMMA OthersAddNothing ==
    ASSUME SessionTypeOK, chClosed, Remote \/ ChannelClose \/ Keepalive \/ UNCHANGED sessionVars
    PROVE  Ahead' <= Ahead
  <1>1. ~\E p \in Pumps : RemoteWrite(p)
    BY DEF RemoteWrite, Attached
  <1>2. UNCHANGED <<pipe, pump, out, waiter, ui>>
    BY <1>1 DEF Remote, RemoteExit, LinkChange, ChannelClose, Keepalive, KeepaliveTick,
       KeepaliveAnswer, FailLock, FailDrop, sessionVars, pipeVars, consumerVars
  <1>3. Ahead' = Ahead
    BY <1>2 DEF Ahead, PumpSteps, WaiterSteps, UiSteps
  <1>4. Ahead \in Nat
    BY StepsCounted
  <1> HIDE DEF Ahead
  <1> QED
    BY <1>3, <1>4

\* From the close of the channel on, as long as the tab stays open, every step of
\* a pump, of the waiter and of the UI brings the end nearer, and no step takes
\* it further away: with EndNeverStuck and a fair scheduler, it comes.
THEOREM EndComesNearer ==
    SessionSpec =>
        [][chClosed /\ tabOpen' =>
              /\ Ahead' <= Ahead
              /\ Waiter \/ Consumer \/ (\E p \in Pumps : Pump(p)) => Ahead' < Ahead]_sessionVars
  <1>1. ASSUME SessionTypeOK, Attended, [SessionNext]_sessionVars, chClosed, tabOpen'
        PROVE  /\ Ahead' <= Ahead
               /\ Waiter \/ Consumer \/ (\E p \in Pumps : Pump(p)) => Ahead' < Ahead
    <2>1. tabOpen /\ ~CloseTab
      BY <1>1 DEF SessionNext, Remote, RemoteWrite, RemoteExit, LinkChange, ChannelClose,
         Pump, PumpRead, SendCheck, SendOut, Waiter, WaitReturns, PumpsWait, RecordExit,
         FinishLock, FinishShutdown, FinishCloseOut, Keepalive, KeepaliveTick,
         KeepaliveAnswer, FailLock, FailDrop, Consumer, Connected, Receive, HandleOutput,
         ReceiveEnd, CloseShutdown, CloseTab, consumerVars, sessionVars
    <2>2. CASE Waiter \/ Consumer \/ \E p \in Pumps : Pump(p)
      BY <1>1, <2>1, <2>2, PumpMovesOn, WaiterMovesOn, ConsumerMovesOn
    <2>3. CASE ~(Waiter \/ Consumer \/ \E p \in Pumps : Pump(p))
      BY <1>1, <2>1, <2>3, OthersAddNothing DEF SessionNext
    <2> QED
      BY <2>2, <2>3
  <1>2. SessionTypeOK /\ Attended /\ [SessionNext]_sessionVars =>
           [chClosed /\ tabOpen' =>
              /\ Ahead' <= Ahead
              /\ Waiter \/ Consumer \/ (\E p \in Pumps : Pump(p)) => Ahead' < Ahead]_sessionVars
    BY <1>1
  <1> QED
    BY <1>2, SessionTyped, AttendedAlways, PTL DEF SessionSpec

\* Steps that a loss has ahead of it before the channel closes.
Fading ==
    (IF ka = "tick" THEN 4 ELSE IF ka = "sent" THEN 3 ELSE IF ka = "fail" THEN 2
     ELSE IF ka = "drop" THEN 1 ELSE 0)
    + (IF chClosed THEN 0 ELSE 1)

\* While the link is not up, every step of keepalive brings the close of the
\* channel nearer, and so does the close; no step takes it further away.
THEOREM LossComesNearer ==
    SessionSpec =>
        [][link # "up" =>
              Fading' <= Fading /\ (Keepalive \/ ChannelClose => Fading' < Fading)]_sessionVars
  <1>1. ASSUME SessionTypeOK, [SessionNext]_sessionVars, link # "up"
        PROVE  Fading' <= Fading /\ (Keepalive \/ ChannelClose => Fading' < Fading)
    <2>1. CASE Keepalive
      <3>1. UNCHANGED chClosed /\ (IF chClosed THEN 0 ELSE 1) \in Nat
        BY <2>1 DEF Keepalive, KeepaliveTick, KeepaliveAnswer, FailLock, FailDrop, remoteVars
      <3> QED
        BY <1>1, <2>1, <3>1 DEF Keepalive, KeepaliveTick, KeepaliveAnswer, FailLock, FailDrop, Fading
    <2>2. CASE ChannelClose
      BY <2>2 DEF ChannelClose, Fading
    <2>3. CASE ~(Keepalive \/ ChannelClose)
      <3>1. UNCHANGED <<ka, chClosed>>
        BY <1>1, <2>3 DEF SessionNext, Remote, RemoteWrite, RemoteExit, LinkChange,
           Pump, PumpRead, SendCheck, SendOut, Waiter, WaitReturns, PumpsWait, RecordExit,
           FinishLock, FinishShutdown, FinishCloseOut, Consumer, Connected, Receive,
           HandleOutput, ReceiveEnd, CloseShutdown, CloseTab, remoteVars, sessionVars
      <3>2. Fading' = Fading /\ Fading \in Nat
        BY <3>1 DEF Fading
      <3> QED
        BY <2>3, <3>2
    <2> QED
      BY <2>1, <2>2, <2>3
  <1>2. SessionTypeOK /\ [SessionNext]_sessionVars =>
           [link # "up" =>
              Fading' <= Fading /\ (Keepalive \/ ChannelClose => Fading' < Fading)]_sessionVars
    BY <1>1
  <1> QED
    BY <1>2, SessionTyped, PTL DEF SessionSpec
=============================================================================
