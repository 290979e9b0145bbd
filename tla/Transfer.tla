----------------------------- MODULE Transfer -----------------------------
(* What copies, deletes and renames do to the files (sftp/transfer.go,      *)
(* sftp/tree.go, sftp/remote.go, runTransfer, runDelete and runRename of    *)
(* ui/app.go): goroutines over a connection that may be closed under them,  *)
(* beside a user who may cancel, tear the connection down and make another, *)
(* or change the same files.  Which request is put when is module Panes;    *)
(* here it is any file, as long as no transfer is running.                  *)
EXTENDS Naturals, FiniteSets

CONSTANTS Names,       \* file names, in one directory on each side
          There,       \* the names that both sides have at first
          None, Whole, \* model values
          MaxGen,      \* bound: connections made
          MaxCopies,   \* bound: copies started
          MaxEdits     \* bound: deletes and renames started

Sides == {"local", "remote"}
OtherSide(s) == IF s = "local" THEN "remote" ELSE "local"
Places == Sides \X Names
Gens == 0..MaxGen
CopyIds == 1..MaxCopies
EditIds == 1..MaxEdits

(* What a place holds: nothing, a file, or what copy "by" has written so    *)
(* far, under the name it was given or under one the user moved it to.      *)
Torn == [by : CopyIds, moved : BOOLEAN]
Contents == {None, Whole} \cup Torn

Edits == [kind : {"delete", "rename"}, at : Places, as : Names, gen : Gens]

ASSUME TransferAssumption ==
    /\ MaxGen \in Nat /\ MaxCopies \in Nat /\ MaxEdits \in Nat
    /\ There \in SUBSET Names
    /\ None # Whole /\ {None, Whole} \cap (Torn \cup Edits) = {}

VARIABLES file,    \* what each place holds
          link,    \* generations whose connection works
          hung,    \* those whose server has stopped answering
          gen,     \* a.sftpGen
          remote,  \* a.remote # nil: the panes are connected
          transfer,\* a.transfer: its copy, or 0
          stage,   \* per copy: none, begin, copying, told (its message), done
          cgen,    \* the connection it runs over
          from, to,
          stopped, \* its context is cancelled
          refused, \* history: copies whose file the other side or the disk
                   \* would not remove
          edit     \* per delete or rename: none, done, or what is under way

copyVars == <<stage, cgen, from, to, stopped>>
linkVars == <<link, hung, gen, remote>>
vars == <<file, linkVars, transfer, copyVars, refused, edit>>

Init ==
    /\ file = [p \in Places |-> IF p[2] \in There THEN Whole ELSE None]
    /\ link = {} /\ hung = {} /\ refused = {} /\ gen = 0 /\ remote = FALSE
    /\ transfer = 0
    /\ stage = [c \in CopyIds |-> "none"]
    /\ cgen = [c \in CopyIds |-> 0]
    /\ from = [c \in CopyIds |-> None] /\ to = [c \in CopyIds |-> None]
    /\ stopped = [c \in CopyIds |-> FALSE]
    /\ edit = [i \in EditIds |-> None]

Reach(p, g) == p[1] = "local" \/ g \in link

-----------------------------------------------------------------------------
(* The connection.                                                          *)

(* sftpConnectedMsg of the connection the panes wait for.                   *)
Connect ==
    /\ gen > 0 /\ ~remote /\ gen \notin link
    /\ remote' = TRUE /\ link' = link \cup {gen}
    /\ UNCHANGED <<file, hung, gen, transfer, copyVars, refused, edit>>

(* Mutant: the copy is let run on.                                          *)
TeardownRuns ==
    /\ gen < MaxGen /\ gen' = gen + 1
    /\ transfer' = 0
    /\ link' = link \ {gen} /\ hung' = hung \ {gen} /\ remote' = FALSE
    /\ UNCHANGED <<file, stage, cgen, from, to, stopped, refused, edit>>

(* teardownSFTP: cancelled, closed, and the goroutine not waited for.       *)
Teardown ==
    /\ gen < MaxGen /\ gen' = gen + 1
    /\ transfer' = 0
    /\ stopped' = [c \in CopyIds |-> stopped[c] \/ c = transfer]
    /\ link' = link \ {gen} /\ hung' = hung \ {gen} /\ remote' = FALSE
    /\ UNCHANGED <<file, stage, cgen, from, to, refused, edit>>

(* The other end goes away; nothing tells the event loop.                   *)
LinkDrops ==
    /\ gen \in link \cup hung
    /\ link' = link \ {gen} /\ hung' = hung \ {gen}
    /\ UNCHANGED <<file, gen, remote, transfer, copyVars, refused, edit>>

(* The server stops answering and keeps the connection: a request over it   *)
(* does not return before the connection is closed.                         *)
LinkHangs ==
    /\ gen \in link
    /\ link' = link \ {gen} /\ hung' = hung \cup {gen}
    /\ UNCHANGED <<file, gen, remote, transfer, copyVars, refused, edit>>

-----------------------------------------------------------------------------
(* The copy.                                                                *)

(* startTransfer, of n from side s.                                         *)
StartTransfer(c, s, n) ==
    /\ remote /\ transfer = 0
    /\ stage[c] = "none" /\ \A b \in 1..(c - 1) : stage[b] # "none"
    /\ transfer' = c
    /\ stage' = [stage EXCEPT ![c] = "begin"]
    /\ cgen' = [cgen EXCEPT ![c] = gen]
    /\ from' = [from EXCEPT ![c] = <<s, n>>]
    /\ to' = [to EXCEPT ![c] = <<OtherSide(s), n>>]
    /\ UNCHANGED <<file, linkVars, stopped, refused, edit>>

(* ctrl+c: "the state only clears when the goroutine reports back".         *)
CancelTransfer ==
    /\ transfer # 0
    /\ stopped' = [stopped EXCEPT ![transfer] = TRUE]
    /\ UNCHANGED <<file, linkVars, transfer, stage, cgen, from, to, refused, edit>>

Goto(c, s, t) == stage[c] = s /\ stage' = [stage EXCEPT ![c] = t]
Rest == <<linkVars, transfer, cgen, from, to, stopped, edit>>

(* RunSet looks at the context, Upload or Download stats and opens both     *)
(* ends; an error ends the copy before anything is written, but a request   *)
(* whose answer went with the connection may have emptied the file.         *)
Emptied(c) == file' = [file EXCEPT ![to[c]] = [by |-> c, moved |-> FALSE]]

OpenFails(c) ==
    /\ Goto(c, "begin", "told")
    /\ \/ UNCHANGED file
       \/ to[c][1] = "remote" /\ cgen[c] \notin link \cup hung /\ Emptied(c)
    /\ UNCHANGED <<refused, Rest>>

OpenBoth(c) ==
    /\ Goto(c, "begin", "copying")
    /\ ~stopped[c] /\ cgen[c] \in link /\ file[from[c]] # None
    /\ Emptied(c)
    /\ UNCHANGED <<refused, Rest>>

(* copyCtx reads to the end, and what it wrote is the file, wherever that   *)
(* is by now.  A copy cancelled after its last read ends like this too.     *)
CopyEnds(c) ==
    /\ Goto(c, "copying", "told") /\ cgen[c] \in link
    /\ file' = [p \in Places |->
                  IF file[p] \in Torn /\ file[p].by = c THEN Whole ELSE file[p]]
    /\ UNCHANGED <<refused, Rest>>

(* Mutants: what was written is left there; the file that was read is       *)
(* removed; the destination is no place any more.                           *)
CopyFailsKeeps(c) ==
    /\ Goto(c, "copying", "told") /\ cgen[c] \notin hung
    /\ UNCHANGED <<file, refused, Rest>>

CopyFailsRemovesSource(c) ==
    /\ Goto(c, "copying", "told") /\ cgen[c] \notin hung
    /\ file' = IF Reach(from[c], cgen[c])
               THEN [file EXCEPT ![from[c]] = None] ELSE file
    /\ UNCHANGED <<refused, Rest>>

(* copyCtx stops, cancelled or for an error, and the destination is removed *)
(* by its path: not possible over a connection that is gone, and refused by *)
(* a server or a disk that has its reasons, which nobody looks at.          *)
CopyFails(c) ==
    /\ Goto(c, "copying", "told") /\ cgen[c] \notin hung
    /\ \/ /\ Reach(to[c], cgen[c])
          /\ file' = [file EXCEPT ![to[c]] = None] /\ UNCHANGED refused
       \/ ~Reach(to[c], cgen[c]) /\ UNCHANGED <<file, refused>>
       \/ /\ Reach(to[c], cgen[c])
          /\ refused' = refused \cup {c} /\ UNCHANGED file
    /\ UNCHANGED Rest

(* Mutant: a cancelled copy is taken for one that is gone already.          *)
TransferDoneUnstopped(c) ==
    /\ Goto(c, "told", "done")
    /\ transfer' = IF cgen[c] = gen /\ ~stopped[c] THEN 0 ELSE transfer
    /\ UNCHANGED <<file, linkVars, cgen, from, to, stopped, refused, edit>>

(* transferDoneMsg.                                                         *)
TransferDone(c) ==
    /\ Goto(c, "told", "done")
    /\ transfer' = IF cgen[c] = gen THEN 0 ELSE transfer
    /\ UNCHANGED <<file, linkVars, cgen, from, to, stopped, refused, edit>>

-----------------------------------------------------------------------------
(* Deletes and renames, of local files also without a connection.           *)

EditRest == <<linkVars, transfer, copyVars, refused>>

(* A delete needs the panes idle when it is planned, not when it runs; a    *)
(* rename never does.                                                       *)
StartEdit(i, k, p, n) ==
    /\ edit[i] = None /\ \A j \in 1..(i - 1) : edit[j] # None
    /\ p[1] = "remote" => remote
    /\ edit' = [edit EXCEPT ![i] = [kind |-> k, at |-> p, as |-> n, gen |-> gen]]
    /\ UNCHANGED <<file, EditRest>>

Moved(v) == IF v \in Torn THEN [v EXCEPT !.moved = TRUE] ELSE v

Over(i) == edit' = [edit EXCEPT ![i] = Whole]
UnderWay(i, k) == edit[i] \notin {None, Whole} /\ edit[i].kind = k

EditFails(i) ==
    /\ edit[i] \notin {None, Whole} /\ Over(i)
    /\ UNCHANGED <<file, EditRest>>

(* runDelete.                                                               *)
RunDelete(i) ==
    /\ UnderWay(i, "delete") /\ Reach(edit[i].at, edit[i].gen)
    /\ file' = [file EXCEPT ![edit[i].at] = None]
    /\ Over(i) /\ UNCHANGED EditRest

(* runRename: a local one replaces its target, an SFTP one fails over it.   *)
RunRename(i) ==
    LET p == edit[i].at
        q == <<p[1], edit[i].as>>
    IN  /\ UnderWay(i, "rename") /\ Reach(p, edit[i].gen)
        /\ p # q /\ file[p] # None
        /\ p[1] = "remote" => file[q] = None
        /\ file' = [file EXCEPT ![q] = Moved(file[p]), ![p] = None]
        /\ Over(i) /\ UNCHANGED EditRest

-----------------------------------------------------------------------------
CopyStep(c) == OpenFails(c) \/ OpenBoth(c) \/ CopyEnds(c) \/ CopyFails(c)

User ==
    \/ Teardown \/ CancelTransfer
    \/ \E c \in CopyIds, s \in Sides, n \in Names : StartTransfer(c, s, n)
    \/ \E i \in EditIds, k \in {"delete", "rename"}, p \in Places, n \in Names :
          StartEdit(i, k, p, n)

Next ==
    \/ User \/ Connect \/ LinkDrops \/ LinkHangs
    \/ \E c \in CopyIds : CopyStep(c) \/ TransferDone(c)
    \/ \E i \in EditIds : EditFails(i) \/ RunDelete(i) \/ RunRename(i)

Spec == Init /\ [][Next]_vars

(* Reads and writes return, with bytes or with an error, unless the server  *)
(* hangs, and messages are handled.                                         *)
FairSpec ==
    /\ Spec
    /\ \A c \in CopyIds :
          /\ WF_vars(cgen[c] \notin hung /\ CopyStep(c))
          /\ WF_vars(TransferDone(c))

-----------------------------------------------------------------------------
(* Properties.                                                              *)

(* Every variable holds a value of its type.                                *)
TypeOK ==
    /\ file \in [Places -> Contents]
    /\ link \subseteq Gens /\ hung \subseteq Gens /\ refused \subseteq CopyIds
    /\ gen \in Gens /\ remote \in BOOLEAN
    /\ transfer \in CopyIds \cup {0}
    /\ stage \in [CopyIds -> {"none", "begin", "copying", "told", "done"}]
    /\ cgen \in [CopyIds -> Gens] /\ stopped \in [CopyIds -> BOOLEAN]
    /\ from \in [CopyIds -> Places \cup {None}]
    /\ to \in [CopyIds -> Places \cup {None}]
    /\ edit \in [EditIds -> Edits \cup {None, Whole}]

(* "A truncated file that looks complete is worse than no file at all": a   *)
(* half-written file is there only while its copy runs, unless the user     *)
(* moved it meanwhile, or its connection was gone before it was opened or   *)
(* removed, or the removal was refused.                                     *)
TornIsExplained ==
    \A p \in Places : file[p] \in Torn =>
        LET c == file[p].by
        IN  \/ file[p].moved
            \/ to[c] = p /\ stage[c] = "copying"
            \/ p[1] = "remote" /\ cgen[c] \notin link
            \/ c \in refused

(* One transfer at a time, and it runs over the connection on screen: any   *)
(* other copy that still runs has been told to stop.                        *)
OneTransfer ==
    \A c \in CopyIds :
        /\ transfer = c <=> cgen[c] = gen /\ stage[c] \in {"begin", "copying", "told"}
        /\ stage[c] \in {"begin", "copying"} /\ c # transfer => stopped[c]

(* What holds of the state at rest: its types, and one transfer.            *)
Consistent == TypeOK /\ OneTransfer

(* "what has already been copied stays where it is" and nothing else moves: *)
(* a whole file is lost only where a copy the user confirmed writes or      *)
(* cleans up, or by a delete or a rename of it, which puts it under its new *)
(* name, or, on the local side, by a rename over it.                        *)
OnlyAskedFor ==
    [][\A p \in Places : file[p] = Whole /\ file'[p] # Whole =>
          \/ \E c \in CopyIds :
                to[c] = p /\ stage[c] \in {"begin", "copying"} /\ stage'[c] # stage[c]
          \/ \E i \in EditIds :
                LET q == <<edit[i].at[1], edit[i].as>>
                IN  /\ edit[i] \notin {None, Whole} /\ edit'[i] = Whole
                    /\ \/ edit[i].kind = "delete" /\ p = edit[i].at
                       \/ edit[i].kind = "rename" /\ p = edit[i].at /\ file'[q] = Whole
                       \/ edit[i].kind = "rename" /\ p = q /\ p[1] = "local"]_vars

(* A transfer that was cancelled is over at some point, and another can be  *)
(* asked for, as long as its server answers or goes away for good.          *)
CancelEnds ==
    \A c \in CopyIds :
        transfer = c /\ stopped[c] ~> transfer # c \/ cgen[c] \in hung
=============================================================================
