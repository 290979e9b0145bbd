------------------------------ MODULE Session ------------------------------
(***************************************************************************)
(* One remote shell: internal/ssh/session.go, and the part of the UI that  *)
(* consumes it (waitForOutput and the handlers of connectedMsg, outputMsg  *)
(* and sessionEndedMsg in internal/ui/app.go).                             *)
(*                                                                         *)
(* Connect starts four goroutines: keepalive, two pumps (stdout, stderr)   *)
(* and a waiter.  They meet the UI in the bounded channel `out`, in the    *)
(* mutex-protected fields exitErr and closed, and in the connection, which *)
(* every one of them may tear down.  A step below is one critical section, *)
(* one channel operation or one call into the ssh library.                 *)
(*                                                                         *)
(* A chunk of output is only counted: no property tells two chunks apart.  *)
(***************************************************************************)
EXTENDS Naturals

CONSTANTS
    OutCap,     \* capacity of the channel out; 64 in the code
    MaxChunks   \* bound: chunks the remote writes to each pipe

ASSUME SessionAssumption ==
    /\ OutCap \in Nat \ {0}
    /\ MaxChunks \in Nat

\* The goroutines that read the remote's two pipes.
Pumps == {"stdout", "stderr"}

VARIABLES
    \* The remote end and the ssh library (external to the repository).
    link,       \* "up", "silent" (nothing arrives), "down" (reset, seen locally)
    exitStatus, \* exit-status request received: "none", "clean", "status"
    chClosed,   \* the session channel is closed: readers see EOF, Wait returns
    clientClosed, \* client.Close was called
    pipe,       \* chunks received and not yet read by each pump
    arrived,    \* history: chunks received on each pipe
    linkFailed, \* history: the link has been silent or down
    \* Fields of Session.
    out,        \* chunks queued in the channel out
    outClosed,  \* close(out) has run
    exitErr,    \* "nil", "lost" (ErrConnectionLost), "status", "missing"
    closed,
    \* Goroutines.
    pump,       \* program counter of each pump
    waiter,     \* program counter of the waiter
    waitErr,    \* the waiter's local err
    ka,         \* program counter of keepalive
    \* The UI.
    ui,         \* the consumer of out
    tabOpen,    \* a tab with this session's generation exists
    closing,    \* the UI's call of Close: "no", "shutdown", "done"
    shown,      \* history: chunks written to the emulator
    uiErr       \* the err of the sessionEndedMsg delivered, "none" before

remoteVars == <<link, exitStatus, chClosed, linkFailed>>
pipeVars == <<pipe, arrived>>
consumerVars == <<ui, tabOpen, closing, shown, uiErr>>
sessionVars == <<remoteVars, pipeVars, clientClosed, out, outClosed, exitErr, closed,
          pump, waiter, waitErr, ka, consumerVars>>

Reasons == {"nil", "lost", "status", "missing"}

SessionTypeOK ==
    /\ link \in {"up", "silent", "down"}
    /\ exitStatus \in {"none", "clean", "status"}
    /\ chClosed \in BOOLEAN /\ clientClosed \in BOOLEAN
    /\ linkFailed \in BOOLEAN
    /\ pipe \in [Pumps -> Nat] /\ arrived \in [Pumps -> Nat]
    /\ out \in 0..OutCap /\ outClosed \in BOOLEAN
    /\ exitErr \in Reasons /\ closed \in BOOLEAN
    /\ pump \in [Pumps -> {"read", "send", "blocked", "done"}]
    /\ waiter \in {"wait", "pumps", "record", "finish", "shutdown",
                   "closeOut", "done"}
    /\ waitErr \in Reasons \ {"lost"}
    /\ ka \in {"tick", "sent", "fail", "drop", "done"}
    /\ ui \in {"new", "armed", "handling", "gone", "ended"}
    /\ tabOpen \in BOOLEAN
    /\ closing \in {"no", "shutdown", "done"}
    /\ shown \in Nat
    /\ uiErr \in Reasons \cup {"none"}

(* Connect has returned: the goroutines run, connectedMsg is on its way.   *)
SessionInit ==
    /\ link = "up" /\ exitStatus = "none"
    /\ chClosed = FALSE /\ clientClosed = FALSE /\ linkFailed = FALSE
    /\ pipe = [p \in Pumps |-> 0] /\ arrived = [p \in Pumps |-> 0]
    /\ out = 0 /\ outClosed = FALSE /\ exitErr = "nil" /\ closed = FALSE
    /\ pump = [p \in Pumps |-> "read"]
    /\ waiter = "wait" /\ waitErr = "nil" /\ ka = "tick"
    /\ ui = "new" /\ tabOpen = TRUE /\ closing = "no"
    /\ shown = 0 /\ uiErr = "none"

-----------------------------------------------------------------------------
(* The remote host, the network and the ssh library's mux.                 *)

Attached == link = "up" /\ ~chClosed /\ ~clientClosed

RemoteWrite(p) ==
    /\ Attached /\ exitStatus = "none"
    /\ arrived[p] < MaxChunks
    /\ pipe' = [pipe EXCEPT ![p] = @ + 1]
    /\ arrived' = [arrived EXCEPT ![p] = @ + 1]
    /\ UNCHANGED <<remoteVars, clientClosed, out, outClosed, exitErr, closed,
                   pump, waiter, waitErr, ka, consumerVars>>

RemoteExit(status) ==
    /\ Attached /\ exitStatus = "none"
    /\ exitStatus' = status
    /\ UNCHANGED <<link, chClosed, linkFailed, pipeVars, clientClosed, out,
                   outClosed, exitErr, closed, pump, waiter, waitErr, ka, consumerVars>>

(* The server closes the channel after the exit status, or the mux closes  *)
(* every channel because its connection is gone.                           *)
ChannelClose ==
    /\ ~chClosed
    /\ \/ Attached /\ exitStatus # "none"
       \/ link = "down" \/ clientClosed
    /\ chClosed' = TRUE
    /\ UNCHANGED <<link, exitStatus, linkFailed, pipeVars, clientClosed, out,
                   outClosed, exitErr, closed, pump, waiter, waitErr, ka, consumerVars>>

LinkChange(to) ==
    /\ ~clientClosed
    /\ \/ link = "up" /\ to \in {"silent", "down"}
       \/ link = "silent" /\ to \in {"up", "down"}
    /\ link' = to
    /\ linkFailed' = TRUE
    /\ UNCHANGED <<exitStatus, chClosed, pipeVars, clientClosed, out, outClosed,
                   exitErr, closed, pump, waiter, waitErr, ka, consumerVars>>

-----------------------------------------------------------------------------
(* pump and send.                                                          *)

(* r.Read: a chunk, or EOF once the channel is closed and drained.         *)
PumpRead(p) ==
    /\ pump[p] = "read"
    /\ \/ /\ pipe[p] > 0
          /\ pipe' = [pipe EXCEPT ![p] = @ - 1]
          /\ pump' = [pump EXCEPT ![p] = "send"]
       \/ /\ pipe[p] = 0 /\ chClosed
          /\ pump' = [pump EXCEPT ![p] = "done"]
          /\ UNCHANGED pipe
    /\ UNCHANGED <<remoteVars, arrived, clientClosed, out, outClosed, exitErr,
                   closed, waiter, waitErr, ka, consumerVars>>

(* The locked part of send: a closed session ends the pump, and its chunk  *)
(* is lost.                                                                *)
SendCheck(p) ==
    /\ pump[p] = "send"
    /\ pump' = [pump EXCEPT ![p] = IF closed THEN "done" ELSE "blocked"]
    /\ UNCHANGED <<remoteVars, pipeVars, clientClosed, out, outClosed, exitErr,
                   closed, waiter, waitErr, ka, consumerVars>>

(* Mutant: the channel has no bound.                                       *)
SendOutUnbounded(p) ==
    /\ pump[p] = "blocked" /\ ~outClosed
    /\ out' = out + 1
    /\ pump' = [pump EXCEPT ![p] = "read"]
    /\ UNCHANGED <<remoteVars, pipeVars, clientClosed, outClosed, exitErr,
                   closed, waiter, waitErr, ka, consumerVars>>

(* s.out <- chunk, outside the lock: blocks while the channel is full.     *)
(* The recover() for a closed channel has no action: out is closed by      *)
(* finish, which has waited for every pump.                                *)
SendOut(p) ==
    /\ pump[p] = "blocked"
    /\ ~outClosed /\ out < OutCap
    /\ out' = out + 1
    /\ pump' = [pump EXCEPT ![p] = "read"]
    /\ UNCHANGED <<remoteVars, pipeVars, clientClosed, outClosed, exitErr,
                   closed, waiter, waitErr, ka, consumerVars>>

-----------------------------------------------------------------------------
(* The waiter goroutine of Connect, and finish.                            *)

(* What sess.Wait returns once the channel is closed.                      *)
WaitResult ==
    CASE exitStatus = "clean" -> "nil"
      [] exitStatus = "status" -> "status"
      [] exitStatus = "none" -> "missing"

WaitReturns ==
    /\ waiter = "wait" /\ chClosed
    /\ waitErr' = WaitResult
    /\ waiter' = "pumps"
    /\ UNCHANGED <<remoteVars, pipeVars, clientClosed, out, outClosed, exitErr,
                   closed, pump, ka, consumerVars>>

PumpsWait ==
    /\ waiter = "pumps"
    /\ \A p \in Pumps : pump[p] = "done"
    /\ waiter' = "record"
    /\ UNCHANGED <<remoteVars, pipeVars, clientClosed, out, outClosed, exitErr,
                   closed, pump, waitErr, ka, consumerVars>>

RecordExit ==
    /\ waiter = "record"
    /\ exitErr' = IF exitErr = "nil" /\ ~closed THEN waitErr ELSE exitErr
    /\ waiter' = "finish"
    /\ UNCHANGED <<remoteVars, pipeVars, clientClosed, out, outClosed, closed,
                   pump, waitErr, ka, consumerVars>>

FinishLock ==
    /\ waiter = "finish"
    /\ waiter' = IF closed THEN "closeOut" ELSE "shutdown"
    /\ closed' = TRUE
    /\ UNCHANGED <<remoteVars, pipeVars, clientClosed, out, outClosed, exitErr,
                   pump, waitErr, ka, consumerVars>>

FinishShutdown ==
    /\ waiter = "shutdown"
    /\ clientClosed' = TRUE
    /\ waiter' = "closeOut"
    /\ UNCHANGED <<remoteVars, pipeVars, out, outClosed, exitErr, closed, pump,
                   waitErr, ka, consumerVars>>

FinishCloseOut ==
    /\ waiter = "closeOut"
    /\ outClosed' = TRUE
    /\ waiter' = "done"
    /\ UNCHANGED <<remoteVars, pipeVars, clientClosed, out, exitErr, closed,
                   pump, waitErr, ka, consumerVars>>

-----------------------------------------------------------------------------
(* keepalive and fail.                                                     *)

KeepaliveTick ==
    /\ ka = "tick"
    /\ ka' = IF closed THEN "done" ELSE "sent"
    /\ UNCHANGED <<remoteVars, pipeVars, clientClosed, out, outClosed, exitErr,
                   closed, pump, waiter, waitErr, consumerVars>>

(* Mutant: the answer is not raced against a timer.                        *)
KeepaliveNoTimer ==
    /\ ka = "sent"
    /\ \/ link = "up" /\ ~clientClosed /\ ka' = "tick"
       \/ (link = "down" \/ clientClosed) /\ ka' = "fail"
    /\ UNCHANGED <<remoteVars, pipeVars, clientClosed, out, outClosed, exitErr,
                   closed, pump, waiter, waitErr, consumerVars>>

(* The answer, the library's error, or the timer.  A link that is up       *)
(* answers within the interval: that is what "up" means here.              *)
KeepaliveAnswer ==
    /\ ka = "sent"
    /\ \/ link = "up" /\ ~clientClosed /\ ka' = "tick"
       \/ (link = "down" \/ clientClosed) /\ ka' = "fail"
       \/ link = "silent" /\ ka' = "fail"
    /\ UNCHANGED <<remoteVars, pipeVars, clientClosed, out, outClosed, exitErr,
                   closed, pump, waiter, waitErr, consumerVars>>

(* Mutants: a session that was closed fails as well; fail marks the        *)
(* session closed, as finish does.                                         *)
FailLockClosed ==
    /\ ka = "fail" /\ ka' = "drop"
    /\ exitErr' = IF exitErr = "nil" THEN "lost" ELSE exitErr
    /\ UNCHANGED <<remoteVars, pipeVars, clientClosed, out, outClosed, closed,
                   pump, waiter, waitErr, consumerVars>>

FailLockCloses ==
    /\ ka = "fail"
    /\ ka' = IF closed THEN "done" ELSE "drop"
    /\ exitErr' = IF exitErr = "nil" /\ ~closed THEN "lost" ELSE exitErr
    /\ closed' = TRUE
    /\ UNCHANGED <<remoteVars, pipeVars, clientClosed, out, outClosed, pump,
                   waiter, waitErr, consumerVars>>

FailLock ==
    /\ ka = "fail"
    /\ IF closed
       THEN ka' = "done" /\ UNCHANGED exitErr
       ELSE /\ ka' = "drop"
            /\ exitErr' = IF exitErr = "nil" THEN "lost" ELSE exitErr
    /\ UNCHANGED <<remoteVars, pipeVars, clientClosed, out, outClosed, closed,
                   pump, waiter, waitErr, consumerVars>>

FailDrop ==
    /\ ka = "drop"
    /\ clientClosed' = TRUE
    /\ ka' = "done"
    /\ UNCHANGED <<remoteVars, pipeVars, out, outClosed, exitErr, closed, pump,
                   waiter, waitErr, consumerVars>>

-----------------------------------------------------------------------------
(* The UI: a single goroutine running handlers, and one waitForOutput      *)
(* command per received item.                                              *)

(* The locked part of Close, called from a handler.                        *)
CloseLock ==
    /\ closing' = IF closed THEN closing ELSE "shutdown"
    /\ closed' = TRUE

UiFree == closing # "shutdown"

(* The rest of Close: the connection goes down while the UI waits for it.  *)
CloseShutdown ==
    /\ closing = "shutdown"
    /\ clientClosed' = TRUE
    /\ closing' = "done"
    /\ UNCHANGED <<remoteVars, pipeVars, out, outClosed, exitErr, closed, pump,
                   waiter, waitErr, ka, ui, tabOpen, shown, uiErr>>

(* connectedMsg: the tab takes the session, or, when no tab has its        *)
(* generation any more, the session is closed and nobody ever reads it.    *)
Connected ==
    /\ ui = "new" /\ UiFree
    /\ IF tabOpen
       THEN ui' = "armed" /\ UNCHANGED <<closed, closing>>
       ELSE ui' = "gone" /\ CloseLock
    /\ UNCHANGED <<remoteVars, pipeVars, clientClosed, out, outClosed, exitErr,
                   pump, waiter, waitErr, ka, tabOpen, shown, uiErr>>

(* waitForOutput receives a chunk; its outputMsg is on its way.            *)
Receive ==
    /\ ui = "armed" /\ out > 0
    /\ out' = out - 1
    /\ ui' = "handling"
    /\ UNCHANGED <<remoteVars, pipeVars, clientClosed, outClosed, exitErr,
                   closed, pump, waiter, waitErr, ka, tabOpen, closing, shown,
                   uiErr>>

(* Mutant: the next read is armed only while there is something to read.   *)
HandleOutputIdle ==
    /\ ui = "handling" /\ UiFree
    /\ ui' = IF tabOpen /\ out > 0 THEN "armed" ELSE "gone"
    /\ shown' = IF tabOpen THEN shown + 1 ELSE shown
    /\ UNCHANGED <<remoteVars, pipeVars, clientClosed, out, outClosed, exitErr,
                   closed, pump, waiter, waitErr, ka, tabOpen, closing, uiErr>>

(* outputMsg: without its tab the chunk is dropped and the pump not        *)
(* rescheduled.                                                            *)
HandleOutput ==
    /\ ui = "handling" /\ UiFree
    /\ ui' = IF tabOpen THEN "armed" ELSE "gone"
    /\ shown' = IF tabOpen THEN shown + 1 ELSE shown
    /\ UNCHANGED <<remoteVars, pipeVars, clientClosed, out, outClosed, exitErr,
                   closed, pump, waiter, waitErr, ka, tabOpen, closing, uiErr>>

(* waitForOutput sees the closed channel and reads ExitErr.                *)
ReceiveEnd ==
    /\ ui = "armed" /\ out = 0 /\ outClosed
    /\ ui' = "ended"
    /\ uiErr' = exitErr
    /\ UNCHANGED <<remoteVars, pipeVars, clientClosed, out, outClosed, exitErr,
                   closed, pump, waiter, waitErr, ka, tabOpen, closing, shown>>

(* closeTab.  A tab that is still dialling has no session to close.        *)
CloseTab ==
    /\ tabOpen /\ UiFree /\ ui # "ended"
    /\ tabOpen' = FALSE
    /\ IF ui = "new" THEN UNCHANGED <<closed, closing>> ELSE CloseLock
    /\ UNCHANGED <<remoteVars, pipeVars, clientClosed, out, outClosed, exitErr,
                   pump, waiter, waitErr, ka, ui, shown, uiErr>>

-----------------------------------------------------------------------------
Remote ==
    \/ \E p \in Pumps : RemoteWrite(p)
    \/ \E s \in {"clean", "status"} : RemoteExit(s)
    \/ \E to \in {"up", "silent", "down"} : LinkChange(to)

Waiter ==
    \/ WaitReturns \/ PumpsWait \/ RecordExit
    \/ FinishLock \/ FinishShutdown \/ FinishCloseOut

Pump(p) == PumpRead(p) \/ SendCheck(p) \/ SendOut(p)

Keepalive == KeepaliveTick \/ KeepaliveAnswer \/ FailLock \/ FailDrop

Consumer == Connected \/ Receive \/ HandleOutput \/ ReceiveEnd \/ CloseShutdown

SessionNext ==
    \/ Remote \/ ChannelClose
    \/ \E p \in Pumps : Pump(p)
    \/ Waiter \/ Keepalive \/ Consumer \/ CloseTab

SessionSpec == SessionInit /\ [][SessionNext]_sessionVars

(* Goroutines are scheduled, a closed connection closes its channels, and  *)
(* the UI loop handles its messages.  The remote, the network and the user *)
(* owe nothing.                                                            *)
SessionFairness ==
    /\ WF_sessionVars(ChannelClose)
    /\ \A p \in Pumps : WF_sessionVars(Pump(p))
    /\ WF_sessionVars(Waiter)
    /\ WF_sessionVars(Keepalive)
    /\ WF_sessionVars(Consumer)

SessionFairSpec == SessionSpec /\ SessionFairness

-----------------------------------------------------------------------------
(* Properties.                                                             *)

Sum(f) == f["stdout"] + f["stderr"]

(* "Let the readers drain before closing the channel so the UI sees the    *)
(* final bytes": a session the user did not close has shown everything     *)
(* that arrived by the time the UI is told that it ended.                  *)
FinalBytes ==
    ui = "ended" /\ tabOpen => shown = Sum(arrived)

(* Until its tab is closed, a session is a stream: nothing is shown that    *)
(* did not arrive, the end is told when all was shown, and neither output   *)
(* nor another end comes after it.                                          *)
Streamed == INSTANCE Stream
    WITH sent <- Sum(arrived), seen <- shown,
         state <- IF ~tabOpen THEN "left" ELSE IF ui = "ended" THEN "ended" ELSE "open"
OutputIsAStream == Streamed!Spec

(* A session is reported lost only if its connection really failed: the    *)
(* connection being torn down by Close or by finish, with a keepalive in   *)
(* flight, is never mistaken for a loss (and so never reconnected).        *)
LostOnlyIfLinkFailed ==
    exitErr = "lost" => linkFailed

(* The purpose of keepalive: a session whose connection has stopped        *)
(* answering is reported to the UI, or the user closes its tab; it never   *)
(* hangs.                                                                  *)
DeadLinkIsReported ==
    <>[](link # "up") => <>(ui = "ended" \/ ~tabOpen)

(* A shell that exits, or a connection that is torn down, reaches the UI   *)
(* however many chunks are still queued behind the bounded channel.        *)
EndIsReported ==
    chClosed ~> (ui = "ended" \/ ~tabOpen)
=============================================================================
