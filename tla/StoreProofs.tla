---------------------------- MODULE StoreProofs ----------------------------
(***************************************************************************)
(* Store, for any number of servers, commands and versions: as long as no  *)
(* two commands that save overlap, the list changes by one whole command   *)
(* at a time, which is what ServerList promises.                           *)
(***************************************************************************)
EXTENDS Store, TLAPS

NewKinds == {"add", "import"}
Writing == {"open", "write", "rename"}

\* What Serial says of every state.
OneSaver == \A c, d \in Cmds : Saving(c) /\ Saving(d) => c = d

\* What a command is for; gone: the servers the user deleted.
Request(o, gone) ==
    /\ o.kind \in NewKinds => o.rev = 1
    /\ o.kind \in {"edit", "used"} => o.rev # 0
    /\ o.kind = "remove" => o.rev = 0 /\ o.ids \subseteq gone
    /\ o.kind \notin NewKinds => \A s, t \in o.ids : s = t

\* Only a command that saves gets past the reading of the list.
Purpose == \A c \in Cmds : pc[c] \in Writing \cup {"key"} => op[c].kind # "load"

\* What a command may count on while it is the one that saves.
Turn(c) ==
    /\ Request(op[c], deleted)
    /\ pc[c] = "key" => op[c].kind = "remove" /\ \A s \in op[c].ids : OnDisk[s] = 0
    /\ pc[c] \in Writing \cup {"load"} /\ op[c].kind \in NewKinds =>
          \A s \in op[c].ids : OnDisk[s] = 0 /\ s \notin Keyed /\ rev[s] # 0
    /\ pc[c] \in Writing /\ op[c].kind \notin NewKinds =>
          \A s \in op[c].ids : OnDisk[s] # 0
    /\ pc[c] \in Writing => got[c] = Apply(op[c], OnDisk)
    /\ pc[c] = "write" => fd[c] = tmp /\ tmp \in Files /\ data[tmp] = Cut
    /\ pc[c] = "rename" => tmp \in Files /\ data[tmp] = Whole(got[c])

\* What a command has to report.
News(c) ==
    pc[c] \in {"reload", "msg"} /\ op[c].kind \in NewKinds \cup {"edit"} =>
        \A s \in op[c].ids : OnDisk[s] # 0 \/ s \in deleted

\* servers.json is whole, and is not the file that is written next.
Directory == path # NoFile => path # tmp /\ data[path].state = "whole"

\* Nothing is in the file that was not submitted.
Submitted == \A s \in Servers : OnDisk[s] # 0 => rev[s] # 0

Kept ==
    /\ OneSaver /\ Directory /\ Submitted
    /\ \A c \in Cmds : Turn(c) /\ News(c)
    /\ AddsStay /\ NoDanglingKey

IInv == TypeOK /\ Purpose /\ Kept

-----------------------------------------------------------------------------
(* Types.                                                                  *)

\* What every entry, list and request is.
LEMMA Basics ==
    /\ 0 \in 0..MaxRev /\ 1 \in 0..MaxRev /\ MaxRev \in Nat
    /\ \A i \in 0..MaxRev : i \in Nat
    /\ Nothing \in List /\ Idle \in Ops
    /\ \A f \in Files : f # NoFile
    /\ \A l \in List : Whole(l) \in [state : {"whole", "cut", "mixed"}, list : List]
    /\ Cut \in [state : {"whole", "cut", "mixed"}, list : List]
    /\ Mixed \in [state : {"whole", "cut", "mixed"}, list : List]
  BY StoreAssumption DEF Nothing, List, Idle, Ops, Whole, Cut, Mixed

\* The list on disk is a list.
LEMMA OnDiskTyped ==
    ASSUME TypeOK
    PROVE  OnDisk \in List /\ \A c \in Cmds : Apply(op[c], OnDisk) \in List
  <1>1. OnDisk \in List
    BY Basics DEF TypeOK, OnDisk, Content, Whole
  <1>2. \A c \in Cmds : op[c].rev \in 0..MaxRev
    BY DEF TypeOK, Ops
  <1> QED
    BY <1>1, <1>2 DEF Apply, List

\* The handlers that return a command.
LEMMA UiTyped ==
    ASSUME TypeOK, NEW c \in Cmds, Ui(c)
    PROVE  TypeOK'
  <1> DEFINE Rest == UNCHANGED <<diskVars, fd, got, err, mem>>
  <1>1. ASSUME NEW o \in Ops, Start(c, o), rev' \in List,
               saved' \subseteq Servers, deleted' \subseteq Servers
        PROVE  TypeOK'
    <2>1. pc' = [pc EXCEPT ![c] = "load"] /\ op' = [op EXCEPT ![c] = o] /\ Rest
      BY <1>1 DEF Start
    <2> QED
      BY <1>1, <2>1 DEF TypeOK, diskVars
  <1>2. CASE Reread(c)
    BY <1>1, <1>2, Basics DEF Reread, TypeOK
  <1>3. ASSUME NEW ids \in SUBSET Servers, NEW k \in NewKinds, Submit(c, ids, k)
        PROVE  TypeOK'
    <2>1. [kind |-> k, ids |-> ids, rev |-> 1] \in Ops
      BY Basics DEF Ops, NewKinds
    <2>2. rev' \in List
      BY <1>3, Basics DEF Submit, TypeOK, List
    <2> QED
      BY <1>1, <1>3, <2>1, <2>2 DEF Submit, TypeOK
  <1>4. ASSUME NEW s \in Servers, Edit(c, s)
        PROVE  TypeOK'
    <2>1. rev[s] + 1 \in 0..MaxRev
      BY <1>4, Basics DEF Edit, TypeOK, List
    <2>2. [kind |-> "edit", ids |-> {s}, rev |-> rev[s] + 1] \in Ops
      BY <2>1 DEF Ops
    <2>3. rev' \in List
      BY <1>4, <2>1 DEF Edit, TypeOK, List
    <2> QED
      BY <1>1, <1>4, <2>2, <2>3 DEF Edit, TypeOK
  <1>5. ASSUME NEW s \in Servers, MarkUsed(c, s)
        PROVE  TypeOK'
    <2>1. [kind |-> "used", ids |-> {s}, rev |-> mem[s]] \in Ops
      BY DEF TypeOK, List, Ops
    <2> QED
      BY <1>1, <1>5, <2>1 DEF MarkUsed, TypeOK
  <1>6. ASSUME NEW s \in Servers, Delete(c, s)
        PROVE  TypeOK'
    <2>1. [kind |-> "remove", ids |-> {s}, rev |-> 0] \in Ops
      BY Basics DEF Ops
    <2> QED
      BY <1>1, <1>6, <2>1 DEF Delete, TypeOK
  <1> QED
    BY <1>2, <1>3, <1>4, <1>5, <1>6 DEF Ui, NewKinds

\* The steps of a command.
LEMMA CmdTyped ==
    ASSUME TypeOK, Purpose, NEW c \in Cmds, Cmd(c)
    PROVE  TypeOK'
  <1>1. ASSUME Fails(c), UNCHANGED <<diskVars, uiVars>>,
               fd' \in [Cmds -> Files \cup {NoFile}]
        PROVE  TypeOK'
    BY <1>1, Basics DEF Fails, TypeOK, diskVars, uiVars
  <1>2. CASE LoadList(c)
    <2>1. CASE Fails(c)
      BY <1>1, <1>2, <2>1 DEF LoadList, TypeOK
    <2>2. CASE ~Fails(c)
      <3>1. /\ got' = [got EXCEPT ![c] = Apply(op[c], OnDisk)]
            /\ pc' = [pc EXCEPT ![c] = IF op[c].kind = "load" THEN "msg" ELSE "open"]
            /\ op' = IF op[c].kind # "remove" THEN op
                     ELSE [op EXCEPT ![c].ids = {s \in @ : OnDisk[s] # 0}]
            /\ UNCHANGED <<err, diskVars, fd, uiVars>>
        BY <1>2, <2>2 DEF LoadList
      <3>2. [op[c] EXCEPT !.ids = {s \in @ : OnDisk[s] # 0}] \in Ops
        BY DEF TypeOK, Ops
      <3>3. op' \in [Cmds -> Ops]
        BY <3>1, <3>2 DEF TypeOK
      <3>4. got' \in [Cmds -> List]
        BY <3>1, OnDiskTyped DEF TypeOK
      <3> QED
        BY <3>1, <3>3, <3>4 DEF TypeOK, diskVars, uiVars
    <2> QED
      BY <2>1, <2>2
  <1>3. CASE OpenTmp(c)
    <2>1. PICK f \in Files : /\ tmp' = f /\ fd' = [fd EXCEPT ![c] = f]
                             /\ data' = [data EXCEPT ![f] = Cut]
      BY <1>3 DEF OpenTmp
    <2>2. data' \in [Files -> [state : {"whole", "cut", "mixed"}, list : List]]
      BY <2>1, Basics DEF TypeOK
    <2>3. fd' \in [Cmds -> Files \cup {NoFile}] /\ tmp' \in Files \cup {NoFile}
      BY <2>1 DEF TypeOK
    <2> QED
      BY <1>3, <2>2, <2>3 DEF OpenTmp, TypeOK, uiVars
  <1>4. CASE WriteTmp(c)
    <2>1. PICK content \in {Whole(got[c]), Mixed} : data' = [data EXCEPT ![fd[c]] = content]
      BY <1>4 DEF WriteTmp
    <2>2. content \in [state : {"whole", "cut", "mixed"}, list : List]
      BY Basics DEF TypeOK
    <2>3. data' \in [Files -> [state : {"whole", "cut", "mixed"}, list : List]]
      BY <2>1, <2>2 DEF TypeOK
    <2> QED
      BY <1>4, <2>3 DEF WriteTmp, TypeOK, uiVars
  <1>5. CASE RenameTmp(c)
    <2>1. CASE tmp = NoFile
      BY <1>1, <1>5, <2>1 DEF RenameTmp, TypeOK, diskVars
    <2>2. CASE tmp # NoFile
      <3>1. /\ path' = tmp /\ tmp' = NoFile
            /\ data' = IF path = NoFile THEN data ELSE [data EXCEPT ![path] = Cut]
            /\ pc' = [pc EXCEPT ![c] = Saved(op[c].kind)]
            /\ UNCHANGED <<op, got, err, pems, fd, uiVars>>
        BY <1>5, <2>2 DEF RenameTmp
      <3>2. op[c].kind \in {"add", "import", "edit", "used", "remove"}
        BY <1>5 DEF RenameTmp, Purpose, Writing, TypeOK, Ops
      <3>3. Saved(op[c].kind) \in {"reload", "key", "msg"}
        BY <3>2 DEF Saved
      <3>4. data' \in [Files -> [state : {"whole", "cut", "mixed"}, list : List]]
        BY <3>1, Basics DEF TypeOK
      <3> QED
        BY <3>1, <3>3, <3>4 DEF TypeOK, uiVars
    <2> QED
      BY <2>1, <2>2
  <1>6. CASE RemoveKey(c)
    BY <1>6 DEF RemoveKey, TypeOK, uiVars
  <1>7. CASE Reload(c)
    <2>1. CASE Readable
      BY <1>7, <2>1, OnDiskTyped DEF Reload, TypeOK, diskVars, uiVars
    <2>2. CASE ~Readable
      BY <1>1, <1>7, <2>2 DEF Reload, TypeOK
    <2> QED
      BY <2>1, <2>2
  <1>8. CASE IoError(c)
    BY <1>1, <1>8 DEF IoError, TypeOK
  <1>9. CASE Deliver(c)
    <2>1. mem' \in List /\ saved' \subseteq Servers
      BY <1>9 DEF Deliver, TypeOK, Ops
    <2> QED
      BY <1>9, <2>1, Basics DEF Deliver, TypeOK, diskVars
  <1> QED
    BY <1>2, <1>3, <1>4, <1>5, <1>6, <1>7, <1>8, <1>9 DEF Cmd

\* A command that only reads gets no further than its message.
LEMMA PurposeKept ==
    ASSUME TypeOK, Purpose, NEW c \in Cmds, Ui(c) \/ Cmd(c)
    PROVE  Purpose'
  <1> SUFFICES ASSUME NEW d \in Cmds, pc'[d] \in Writing \cup {"key"}
               PROVE  op'[d].kind # "load"
    BY DEF Purpose
  <1>1. CASE Ui(c)
    <2>1. PICK o : Start(c, o)
      BY <1>1 DEF Ui, Reread, Submit, Edit, MarkUsed, Delete
    <2>2. d # c /\ pc'[d] = pc[d] /\ op'[d] = op[d]
      BY <2>1 DEF Start, TypeOK, Writing
    <2> QED
      BY <2>2 DEF Purpose
  <1>2. CASE Cmd(c)
    <2>1. d # c => pc'[d] = pc[d] /\ op'[d] = op[d]
      BY <1>2 DEF Cmd, LoadList, OpenTmp, WriteTmp, RenameTmp, RemoveKey, Reload, IoError,
         Deliver, Fails, TypeOK
    <2>2. CASE d # c
      BY <2>1, <2>2 DEF Purpose
    <2>3. CASE d = c
      <3>1. pc'[c] \notin {"idle", "msg"}
        BY <2>3 DEF Writing
      <3>2. ~Fails(c)
        BY <3>1 DEF Fails, TypeOK
      <3>3. CASE LoadList(c)
        <4>1. op[c].kind # "load"
          BY <3>1, <3>2, <3>3 DEF LoadList, TypeOK
        <4>2. op'[c].kind = op[c].kind
          BY <3>2, <3>3 DEF LoadList, TypeOK, Ops
        <4> QED
          BY <2>3, <4>1, <4>2
      <3>4. CASE OpenTmp(c) \/ WriteTmp(c) \/ RenameTmp(c)
        BY <2>3, <3>2, <3>4 DEF OpenTmp, WriteTmp, RenameTmp, Purpose, Writing
      <3>5. CASE RemoveKey(c) \/ Reload(c) \/ IoError(c) \/ Deliver(c)
        BY <2>3, <3>1, <3>2, <3>5
           DEF RemoveKey, Reload, IoError, Deliver, Purpose, Writing, TypeOK
      <3> QED
        BY <1>2, <3>3, <3>4, <3>5 DEF Cmd
    <2> QED
      BY <2>2, <2>3
  <1> QED
    BY <1>1, <1>2

\* A start finds a list, and nothing under way.
LEMMA CrashTyped ==
    ASSUME TypeOK, Crash
    PROVE  TypeOK' /\ Purpose'
  <1>1. mem' \in List
    BY OnDiskTyped DEF Crash
  <1>2. data' \in [Files -> [state : {"whole", "cut", "mixed"}, list : List]]
    BY Basics DEF Crash, TypeOK
  <1> QED
    BY <1>1, <1>2, Basics DEF Crash, TypeOK, Purpose, Writing

\* Every variable keeps its type, Serial or not.
LEMMA Typed == Spec => [](TypeOK /\ Purpose)
  <1>1. Init => TypeOK /\ Purpose
    <2> SUFFICES ASSUME Init
                 PROVE  TypeOK /\ Purpose
      OBVIOUS
    <2>1. PICK l \in List :
            /\ \/ path = NoFile /\ data = [f \in Files |-> Cut]
               \/ path \in Files /\ data = [f \in Files |-> IF f = path THEN Whole(l) ELSE Cut]
            /\ mem = l /\ rev = l /\ saved = {s \in Servers : l[s] # 0}
            /\ pems = {s \in Keyed : l[s] # 0}
      BY DEF Init
    <2>2. data \in [Files -> [state : {"whole", "cut", "mixed"}, list : List]]
      BY <2>1, Basics
    <2>3. pems \subseteq Servers
      BY <2>1, StoreAssumption
    <2> QED
      BY <2>1, <2>2, <2>3, Basics DEF Init, TypeOK, Purpose, Writing
  <1>2. TypeOK /\ Purpose /\ [Next]_vars => TypeOK' /\ Purpose'
    <2>1. ASSUME TypeOK, Purpose, UNCHANGED vars
          PROVE  TypeOK' /\ Purpose'
      BY <2>1 DEF TypeOK, Purpose, vars, diskVars, cmdVars, uiVars
    <2> QED
      BY <2>1, UiTyped, CmdTyped, PurposeKept, CrashTyped DEF Next
  <1> QED
    BY <1>1, <1>2, PTL DEF Spec

-----------------------------------------------------------------------------
(* One command at a time.                                                  *)

\* What a step of another command leaves alone.
Same(d) == pc'[d] = pc[d] /\ op'[d] = op[d] /\ got'[d] = got[d] /\ fd'[d] = fd[d]

\* A command that saves is not disturbed as long as the list, the temporary
\* file and its content stay; one that reports, by no change but deletions.
LEMMA OthersKeep ==
    ASSUME IInv, NEW d \in Cmds, Same(d),
           deleted \subseteq deleted', \A s \in Servers : rev[s] # 0 => rev'[s] # 0,
           \A s \in Servers : OnDisk[s] # 0 => OnDisk'[s] # 0 \/ s \in deleted',
           Saving(d) => OnDisk' = OnDisk /\ UNCHANGED <<tmp, data>>
    PROVE  Turn(d)' /\ News(d)'
  <1>1. op[d].ids \subseteq Servers /\ op[d] \in Ops
    BY DEF IInv, TypeOK, Ops
  <1>2. Turn(d) /\ News(d)
    BY DEF IInv, Kept
  <1>3. Request(op[d], deleted)'
    BY <1>2 DEF Turn, Request, Same
  <1>4. News(d)'
    BY <1>1, <1>2 DEF News, Same
  <1>5. CASE ~Saving(d)
    <2>1. pc[d] \notin Writing \cup {"key"} /\ (pc[d] = "load" => op[d].kind \notin NewKinds)
      BY <1>5 DEF IInv, Purpose, Saving, Writing, NewKinds
    <2> QED
      BY <1>3, <1>4, <2>1 DEF Turn, Same, Writing
  <1>6. CASE Saving(d)
    <2>1. OnDisk' = OnDisk /\ UNCHANGED <<tmp, data>>
      BY <1>6
    <2>2. Apply(op[d], OnDisk)' = Apply(op[d], OnDisk)
      BY <2>1 DEF Apply, Same
    <2> HIDE DEF OnDisk
    <2> QED
      BY <1>1, <1>2, <1>3, <1>4, <2>1, <2>2 DEF Turn, Same
  <1> QED
    BY <1>5, <1>6

\* A handler starts a command that saves only if none is under way.
LEMMA UiKeeps ==
    ASSUME Serial, IInv, NEW c \in Cmds, Ui(c)
    PROVE  Kept'
  <1>0. TypeOK /\ Kept
    BY DEF IInv
  <1> DEFINE Fresh(o) == o.kind \in NewKinds =>
                \A s \in o.ids : OnDisk[s] = 0 /\ s \notin Keyed /\ rev'[s] # 0
             Grows == /\ deleted \subseteq deleted' /\ saved' = saved
                      /\ \A s \in Servers : rev[s] # 0 => rev'[s] # 0
  <1>1. \E o \in Ops : Start(c, o) /\ Request(o, deleted') /\ Fresh(o) /\ Grows
    <2>1. CASE Reread(c)
      BY <2>1, Basics DEF Reread, Idle, Request, NewKinds
    <2>2. ASSUME NEW ids \in SUBSET Servers, NEW k \in NewKinds, Submit(c, ids, k)
          PROVE  \E o \in Ops : Start(c, o) /\ Request(o, deleted') /\ Fresh(o) /\ Grows
      <3> DEFINE o == [kind |-> k, ids |-> ids, rev |-> 1]
      <3>1. o \in Ops /\ Start(c, o) /\ Request(o, deleted')
        BY <2>2, Basics DEF Submit, Ops, NewKinds, Request
      <3>2. Grows /\ \A s \in ids : rev'[s] # 0
        BY <1>0, <2>2 DEF Submit, TypeOK, List
      <3>3. Fresh(o)
        BY <1>0, <2>2, <3>2 DEF Submit, Kept, Submitted
      <3> QED
        BY <3>1, <3>2, <3>3
    <2>3. ASSUME NEW s \in Servers, Edit(c, s)
          PROVE  \E o \in Ops : Start(c, o) /\ Request(o, deleted') /\ Fresh(o) /\ Grows
      <3> DEFINE o == [kind |-> "edit", ids |-> {s}, rev |-> rev[s] + 1]
      <3>1. rev[s] \in Nat /\ rev[s] + 1 \in 0..MaxRev
        BY <1>0, <2>3, Basics DEF Edit, TypeOK, List
      <3>2. o \in Ops /\ Start(c, o) /\ Request(o, deleted') /\ Fresh(o)
        BY <2>3, <3>1 DEF Edit, Ops, NewKinds, Request
      <3>3. rev' = [rev EXCEPT ![s] = @ + 1] /\ UNCHANGED <<saved, deleted>>
        BY <2>3 DEF Edit
      <3>4. rev'[s] = rev[s] + 1 /\ \A t \in Servers \ {s} : rev'[t] = rev[t]
        BY <1>0, <3>3 DEF TypeOK, List
      <3>5. Grows
        BY <3>1, <3>3, <3>4
      <3> QED
        BY <3>2, <3>5
    <2>4. ASSUME NEW s \in Servers, MarkUsed(c, s)
          PROVE  \E o \in Ops : Start(c, o) /\ Request(o, deleted') /\ Fresh(o) /\ Grows
      <3> DEFINE o == [kind |-> "used", ids |-> {s}, rev |-> mem[s]]
      <3>1. mem[s] \in 0..MaxRev /\ mem[s] # 0
        BY <1>0, <2>4 DEF MarkUsed, TypeOK, List
      <3>2. o \in Ops /\ Request(o, deleted') /\ Fresh(o)
        BY <3>1 DEF Ops, NewKinds, Request
      <3>3. Start(c, o) /\ UNCHANGED <<rev, saved, deleted>>
        BY <2>4 DEF MarkUsed
      <3>4. Grows
        BY <3>3
      <3> QED
        BY <3>2, <3>3, <3>4
    <2>5. ASSUME NEW s \in Servers, Delete(c, s)
          PROVE  \E o \in Ops : Start(c, o) /\ Request(o, deleted') /\ Fresh(o) /\ Grows
      <3> DEFINE o == [kind |-> "remove", ids |-> {s}, rev |-> 0]
      <3>1. o \in Ops /\ Start(c, o) /\ Request(o, deleted') /\ Fresh(o)
        BY <2>5, Basics DEF Delete, Ops, NewKinds, Request
      <3> QED
        BY <2>5, <3>1 DEF Delete
    <2> QED
      BY <2>1, <2>2, <2>3, <2>4, <2>5 DEF Ui, NewKinds
  <1>2. PICK o \in Ops : Start(c, o) /\ Request(o, deleted') /\ Fresh(o) /\ Grows
    BY <1>1
  <1>3. /\ pc[c] = "idle" /\ pc'[c] = "load" /\ op'[c] = o
        /\ \A d \in Cmds \ {c} : Same(d)
        /\ o.kind # "load" => \A d \in Cmds : ~Saving(d)
        /\ UNCHANGED diskVars
    BY <1>0, <1>2 DEF Start, TypeOK, Same
  <1>4. OnDisk' = OnDisk /\ UNCHANGED <<tmp, data, path, pems>>
    BY <1>3 DEF OnDisk, Content, diskVars
  <1>5. OneSaver'
    <2>1. \A d \in Cmds \ {c} : Saving(d)' <=> Saving(d)
      BY <1>3 DEF Saving, Same
    <2>2. Saving(c)' => o.kind # "load"
      BY <1>3 DEF Saving
    <2> QED
      BY <1>0, <1>3, <2>1, <2>2 DEF OneSaver, Kept
  <1>6. Directory' /\ Submitted' /\ AddsStay' /\ NoDanglingKey'
    BY <1>0, <1>2, <1>4 DEF Directory, Submitted, AddsStay, NoDanglingKey, Kept
  <1>7. ASSUME NEW d \in Cmds
        PROVE  Turn(d)' /\ News(d)'
    <2>1. CASE d = c
      BY <1>2, <1>3, <1>4, <2>1 DEF Turn, News, Writing
    <2>2. CASE d # c
      BY <1>2, <1>3, <1>4, <2>2, OthersKeep
    <2> QED
      BY <2>1, <2>2
  <1> QED
    BY <1>5, <1>6, <1>7 DEF Kept

-----------------------------------------------------------------------------
(* The steps of a command.                                                 *)

\* A command's step leaves the other commands, what was submitted and what
\* was deleted alone, and no command becomes one that saves by its own step.
LEMMA CmdFrame ==
    ASSUME TypeOK, Purpose, NEW c \in Cmds, Cmd(c)
    PROVE  /\ \A d \in Cmds \ {c} : Same(d)
           /\ UNCHANGED <<rev, deleted>>
           /\ Saving(c)' => Saving(c)
  <1>1. ASSUME Fails(c), UNCHANGED uiVars, \A d \in Cmds \ {c} : fd'[d] = fd[d]
        PROVE  /\ \A d \in Cmds \ {c} : Same(d)
               /\ UNCHANGED <<rev, deleted>>
               /\ ~Saving(c)'
    BY <1>1 DEF Fails, TypeOK, Same, uiVars, Saving
  <1>2. CASE LoadList(c)
    <2>1. CASE Fails(c)
      BY <1>1, <1>2, <2>1 DEF LoadList
    <2>2. CASE ~Fails(c)
      <3>1. /\ got' = [got EXCEPT ![c] = Apply(op[c], OnDisk)]
            /\ pc' = [pc EXCEPT ![c] = IF op[c].kind = "load" THEN "msg" ELSE "open"]
            /\ op' = IF op[c].kind # "remove" THEN op
                     ELSE [op EXCEPT ![c].ids = {s \in @ : OnDisk[s] # 0}]
            /\ UNCHANGED <<fd, uiVars>>
        BY <1>2, <2>2 DEF LoadList
      <3>2. \A d \in Cmds \ {c} : op'[d] = op[d]
        BY <3>1 DEF TypeOK
      <3>3. \A d \in Cmds \ {c} : Same(d)
        BY <3>1, <3>2 DEF TypeOK, Same
      <3>4. op'[c].kind = op[c].kind
        BY <3>1 DEF TypeOK, Ops
      <3>5. Saving(c)' => Saving(c)
        BY <1>2, <3>4 DEF Saving, LoadList
      <3> QED
        BY <3>1, <3>3, <3>5 DEF uiVars
    <2> QED
      BY <2>1, <2>2
  <1>3. CASE OpenTmp(c)
    BY <1>3 DEF OpenTmp, TypeOK, Same, uiVars, Saving
  <1>4. CASE WriteTmp(c)
    BY <1>4 DEF WriteTmp, TypeOK, Same, uiVars, Saving
  <1>5. CASE RenameTmp(c)
    <2>1. CASE tmp = NoFile
      BY <1>1, <1>5, <2>1 DEF RenameTmp
    <2>2. CASE tmp # NoFile
      BY <1>5, <2>2 DEF RenameTmp, TypeOK, Same, uiVars, Saving
    <2> QED
      BY <2>1, <2>2
  <1>6. CASE RemoveKey(c)
    BY <1>6 DEF RemoveKey, TypeOK, Same, uiVars, Saving
  <1>7. CASE Reload(c)
    <2>1. CASE Readable
      BY <1>7, <2>1 DEF Reload, TypeOK, Same, uiVars, Saving
    <2>2. CASE ~Readable
      BY <1>1, <1>7, <2>2 DEF Reload
    <2> QED
      BY <2>1, <2>2
  <1>8. CASE IoError(c)
    <2>1. \A d \in Cmds \ {c} : fd'[d] = fd[d]
      BY <1>8 DEF IoError, TypeOK
    <2> QED
      BY <1>1, <1>8, <2>1 DEF IoError
  <1>9. CASE Deliver(c)
    BY <1>9 DEF Deliver, TypeOK, Same, Saving
  <1> QED
    BY <1>2, <1>3, <1>4, <1>5, <1>6, <1>7, <1>8, <1>9 DEF Cmd

\* The list can always be read.
LEMMA AlwaysRead ==
    ASSUME Directory
    PROVE  AlwaysWhole /\ Readable
  BY DEF Directory, AlwaysWhole, Readable, Content, Whole

\* A command that writes is one that saves.
LEMMA WritersSave ==
    ASSUME TypeOK, Purpose, NEW c \in Cmds, pc[c] \in Writing \cup {"key"}
    PROVE  Saving(c) /\ op[c].kind \in NewKinds \cup {"edit", "used", "remove"}
  BY DEF Purpose, Saving, Writing, NewKinds, TypeOK, Ops

\* Every step but the rename leaves the list alone.
LEMMA DiskKept ==
    ASSUME IInv, NEW c \in Cmds, Cmd(c), ~RenameTmp(c)
    PROVE  /\ OnDisk' = OnDisk /\ Directory'
           /\ ~Saving(c) => UNCHANGED <<tmp, data>>
  <1>0. TypeOK /\ Purpose /\ Directory /\ Turn(c)
    BY DEF IInv, Kept
  <1>1. CASE UNCHANGED <<path, tmp, data>>
    BY <1>0, <1>1 DEF OnDisk, Content, Directory
  <1>2. ASSUME NEW f \in Files, f # path, path' = path, tmp' = f,
               \A g \in Files \ {f} : data'[g] = data[g]
        PROVE  OnDisk' = OnDisk /\ Directory'
    <2>1. path # NoFile => data'[path] = data[path]
      BY <1>0, <1>2 DEF TypeOK
    <2> QED
      BY <1>0, <1>2, <2>1 DEF OnDisk, Content, Directory
  <1>3. CASE OpenTmp(c)
    <2>1. Saving(c)
      BY <1>0, <1>3, WritersSave DEF OpenTmp, Writing
    <2>2. PICK f \in Files : /\ IF tmp = NoFile THEN Unused(f) ELSE f = tmp
                             /\ tmp' = f /\ data' = [data EXCEPT ![f] = Cut]
                             /\ path' = path
      BY <1>3 DEF OpenTmp
    <2>3. f # path
      BY <1>0, <2>2, Basics DEF Unused, Directory
    <2>4. \A g \in Files \ {f} : data'[g] = data[g]
      BY <1>0, <2>2 DEF TypeOK
    <2> QED
      BY <1>2, <2>1, <2>2, <2>3, <2>4
  <1>4. CASE WriteTmp(c)
    <2>1. Saving(c)
      BY <1>0, <1>4, WritersSave DEF WriteTmp, Writing
    <2>2. fd[c] = tmp /\ tmp \in Files
      BY <1>0, <1>4 DEF Turn, WriteTmp
    <2>3. PICK content : data' = [data EXCEPT ![tmp] = content]
      BY <1>4, <2>2 DEF WriteTmp
    <2>4. \A g \in Files \ {tmp} : data'[g] = data[g]
      BY <1>0, <2>3 DEF TypeOK
    <2>5. tmp # path
      BY <1>0, <2>2, Basics DEF Directory
    <2> QED
      BY <1>2, <1>4, <2>1, <2>2, <2>4, <2>5 DEF WriteTmp
  <1>5. CASE LoadList(c) \/ RemoveKey(c) \/ Reload(c) \/ IoError(c) \/ Deliver(c)
    <2>1. UNCHANGED <<path, tmp, data>>
      BY <1>5 DEF LoadList, RemoveKey, Reload, IoError, Deliver, diskVars
    <2> QED
      BY <1>1, <2>1
  <1> QED
    BY <1>3, <1>4, <1>5 DEF Cmd

\* The rename puts the command's own change into the list, and nothing else.
LEMMA DiskRenamed ==
    ASSUME IInv, NEW c \in Cmds, RenameTmp(c)
    PROVE  /\ OnDisk' = Apply(op[c], OnDisk) /\ Directory' /\ Saving(c)
           /\ pc' = [pc EXCEPT ![c] = Saved(op[c].kind)]
           /\ UNCHANGED <<op, got, pems>>
  <1>0. TypeOK /\ Purpose /\ Directory /\ Turn(c)
    BY DEF IInv, Kept
  <1>1. /\ tmp \in Files /\ data[tmp] = Whole(got[c])
        /\ got[c] = Apply(op[c], OnDisk)
    BY <1>0 DEF Turn, RenameTmp, Writing
  <1>2. Saving(c)
    BY <1>0, WritersSave DEF RenameTmp, Writing
  <1>3. /\ path' = tmp /\ tmp' = NoFile
        /\ data' = IF path = NoFile THEN data ELSE [data EXCEPT ![path] = Cut]
        /\ pc' = [pc EXCEPT ![c] = Saved(op[c].kind)]
        /\ UNCHANGED <<op, got, pems>>
    BY <1>1, Basics DEF RenameTmp
  <1>4. data'[tmp] = data[tmp]
    BY <1>0, <1>1, <1>3 DEF TypeOK, Directory
  <1>5. Content' = Whole(got[c])
    BY <1>1, <1>3, <1>4, Basics DEF Content
  <1>6. OnDisk' = Apply(op[c], OnDisk)
    BY <1>1, <1>5 DEF OnDisk, Whole
  <1>7. Directory'
    BY <1>1, <1>3, <1>4, Basics DEF Directory, Whole
  <1> QED
    BY <1>2, <1>3, <1>6, <1>7

\* An entry leaves the list only if the user deleted it, enters it only if it
\* was submitted, and never without its key.
LEMMA ListMoves ==
    ASSUME IInv, NEW c \in Cmds, Cmd(c)
    PROVE  /\ \A s \in Servers : OnDisk[s] # 0 => OnDisk'[s] # 0 \/ s \in deleted'
           /\ Submitted' /\ NoDanglingKey'
  <1>0. TypeOK /\ Purpose /\ Kept /\ Turn(c)
    BY DEF IInv, Kept
  <1>1. rev' = rev /\ deleted' = deleted
    BY <1>0, CmdFrame
  <1>2. CASE RenameTmp(c)
    <2>1. OnDisk' = Apply(op[c], OnDisk) /\ pems' = pems
      BY <1>2, DiskRenamed
    <2>2. op[c].kind \in NewKinds \cup {"edit", "used", "remove"}
      BY <1>0, <1>2, WritersSave DEF RenameTmp, Writing
    <2>3. \A s \in Servers : OnDisk'[s] = IF s \in op[c].ids THEN op[c].rev ELSE OnDisk[s]
      BY <2>1 DEF Apply
    <2>4. \A s \in op[c].ids : op[c].rev = 0 => s \in deleted
      BY <1>0, <2>2 DEF Turn, Request
    <2>5. \A s \in op[c].ids : op[c].rev # 0 => OnDisk[s] # 0 \/ (rev[s] # 0 /\ s \notin Keyed)
      BY <1>0, <1>2, <2>2 DEF Turn, RenameTmp, Writing
    <2>6. Submitted'
      BY <1>0, <1>1, <2>3, <2>5 DEF Submitted, Kept
    <2>7. NoDanglingKey'
      BY <1>0, <2>1, <2>3, <2>5, StoreAssumption DEF NoDanglingKey, Kept
    <2> QED
      BY <1>1, <2>3, <2>4, <2>6, <2>7
  <1>3. CASE ~RenameTmp(c)
    <2>1. OnDisk' = OnDisk
      BY <1>3, DiskKept
    <2>2. Submitted'
      BY <1>0, <1>1, <2>1 DEF Submitted, Kept
    <2>3. CASE RemoveKey(c)
      <3>1. pems' = pems \ op[c].ids /\ \A s \in op[c].ids : OnDisk[s] = 0
        BY <1>0, <2>3 DEF RemoveKey, Turn
      <3> QED
        BY <1>0, <2>1, <2>2, <3>1 DEF NoDanglingKey, Kept
    <2>4. CASE ~RemoveKey(c)
      <3>1. pems' = pems
        BY <1>3, <2>4 DEF Cmd, LoadList, OpenTmp, WriteTmp, Reload, IoError, Deliver, diskVars
      <3> QED
        BY <1>0, <2>1, <2>2, <3>1 DEF NoDanglingKey, Kept
    <2> QED
      BY <2>3, <2>4
  <1> QED
    BY <1>2, <1>3

\* A command's own step.
LEMMA TurnKept ==
    ASSUME IInv, NEW c \in Cmds, Cmd(c)
    PROVE  Turn(c)' /\ News(c)'
  <1>0. TypeOK /\ Purpose /\ Kept /\ Turn(c) /\ News(c)
    BY DEF IInv, Kept
  <1>1. rev' = rev /\ deleted' = deleted
    BY <1>0, CmdFrame
  <1>2. op[c] \in Ops /\ op[c].ids \subseteq Servers
    BY <1>0 DEF TypeOK, Ops
  <1>3. ASSUME Fails(c)
        PROVE  Turn(c)' /\ News(c)'
    <2>1. pc'[c] = "msg" /\ op'[c] = Idle
      BY <1>0, <1>3 DEF Fails, TypeOK
    <2> QED
      BY <2>1 DEF Turn, News, Request, Idle, NewKinds, Writing
  <1>4. CASE LoadList(c) /\ ~Fails(c)
    <2>1. OnDisk' = OnDisk
      BY <1>4, DiskKept DEF Cmd, LoadList, RenameTmp
    <2>2. /\ got' = [got EXCEPT ![c] = Apply(op[c], OnDisk)]
          /\ pc' = [pc EXCEPT ![c] = IF op[c].kind = "load" THEN "msg" ELSE "open"]
          /\ op' = IF op[c].kind # "remove" THEN op
                   ELSE [op EXCEPT ![c].ids = {s \in @ : OnDisk[s] # 0}]
          /\ Found(op[c], OnDisk)
      BY <1>4 DEF LoadList
    <2>3. CASE op[c].kind = "load"
      <3>1. pc'[c] = "msg" /\ op'[c] = op[c]
        BY <1>0, <2>2, <2>3 DEF TypeOK
      <3> QED
        BY <1>0, <1>1, <2>3, <3>1 DEF Turn, News, Request, NewKinds, Writing
    <2>4. CASE op[c].kind \notin {"load", "remove"}
      <3>1. pc'[c] = "open" /\ op'[c] = op[c] /\ got'[c] = Apply(op[c], OnDisk)
        BY <1>0, <2>2, <2>4 DEF TypeOK
      <3>2. op[c].kind \notin NewKinds => \A s \in op[c].ids : OnDisk[s] # 0
        BY <1>2, <2>2, <2>4 DEF Found, NewKinds, Ops
      <3>3. got'[c] = Apply(op[c], OnDisk)'
        BY <2>1, <3>1 DEF Apply
      <3> QED
        BY <1>0, <1>1, <1>4, <2>1, <2>4, <3>1, <3>2, <3>3
           DEF Turn, News, Request, Writing, LoadList
    <2>5. CASE op[c].kind = "remove"
      <3>1. pc'[c] = "open" /\ got'[c] = Apply(op[c], OnDisk)
        BY <1>0, <2>2, <2>5 DEF TypeOK
      <3>2. op'[c] = [op[c] EXCEPT !.ids = {s \in @ : OnDisk[s] # 0}]
        BY <1>0, <2>2, <2>5 DEF TypeOK
      <3>3. /\ op'[c].kind = "remove" /\ op'[c].rev = op[c].rev
            /\ op'[c].ids = {s \in op[c].ids : OnDisk[s] # 0}
        BY <1>2, <2>5, <3>2 DEF Ops
      <3>4. op[c].rev = 0
        BY <1>0, <2>5 DEF Turn, Request
      <3>5. Apply(op[c], OnDisk) = Apply(op[c], OnDisk)'
        BY <1>2, <2>1, <3>3, <3>4 DEF Apply
      <3>6. Request(op'[c], deleted')
        BY <1>0, <1>1, <2>5, <3>3 DEF Turn, Request, NewKinds
      <3> QED
        BY <2>1, <3>1, <3>3, <3>5, <3>6 DEF Turn, News, Writing, NewKinds
    <2> QED
      BY <2>3, <2>4, <2>5
  <1>5. CASE OpenTmp(c)
    <2>1. OnDisk' = OnDisk
      BY <1>5, DiskKept DEF Cmd, OpenTmp, RenameTmp
    <2>2. PICK f \in Files : /\ tmp' = f /\ fd' = [fd EXCEPT ![c] = f]
                             /\ data' = [data EXCEPT ![f] = Cut]
      BY <1>5 DEF OpenTmp
    <2>3. fd'[c] = tmp' /\ tmp' \in Files /\ data'[tmp'] = Cut
      BY <1>0, <2>2 DEF TypeOK
    <2>4. pc[c] = "open" /\ pc'[c] = "write" /\ UNCHANGED <<op, got>>
      BY <1>0, <1>5 DEF OpenTmp, TypeOK
    <2>5. Apply(op[c], OnDisk)' = Apply(op[c], OnDisk)
      BY <2>1, <2>4 DEF Apply
    <2> HIDE DEF OnDisk
    <2> QED
      BY <1>0, <1>1, <2>1, <2>3, <2>4, <2>5 DEF Turn, News, Request, Writing
  <1>6. CASE WriteTmp(c)
    <2>1. OnDisk' = OnDisk
      BY <1>6, DiskKept DEF Cmd, WriteTmp, RenameTmp
    <2>2. fd[c] = tmp /\ tmp \in Files /\ data[tmp] = Cut
      BY <1>0, <1>6 DEF Turn, WriteTmp
    <2>3. data' = [data EXCEPT ![tmp] = Whole(got[c])]
      BY <1>6, <2>2 DEF WriteTmp
    <2>4. /\ data'[tmp] = Whole(got[c]) /\ pc[c] = "write" /\ pc'[c] = "rename"
          /\ UNCHANGED <<op, got, tmp>>
      BY <1>0, <1>6, <2>2, <2>3 DEF WriteTmp, TypeOK
    <2>5. Apply(op[c], OnDisk)' = Apply(op[c], OnDisk)
      BY <2>1, <2>4 DEF Apply
    <2> QED
      BY <1>0, <1>1, <2>1, <2>2, <2>4, <2>5 DEF Turn, News, Request, Writing
  <1>7. CASE RenameTmp(c)
    <2>1. /\ OnDisk' = Apply(op[c], OnDisk) /\ UNCHANGED <<op, got>>
          /\ pc' = [pc EXCEPT ![c] = Saved(op[c].kind)]
      BY <1>7, DiskRenamed
    <2>2. op[c].kind \in NewKinds \cup {"edit", "used", "remove"}
      BY <1>0, <1>7, WritersSave DEF RenameTmp, Writing
    <2>3. \A s \in op[c].ids : OnDisk'[s] = op[c].rev
      BY <1>2, <2>1 DEF Apply
    <2>4. pc'[c] = Saved(op[c].kind)
      BY <1>0, <2>1 DEF TypeOK
    <2>5. /\ pc'[c] \in {"reload", "key", "msg"}
          /\ pc'[c] = "key" => op[c].kind = "remove"
      BY <2>2, <2>4 DEF Saved, NewKinds
    <2>6. Turn(c)'
      BY <1>0, <1>1, <2>1, <2>3, <2>5 DEF Turn, Request, Writing
    <2>7. News(c)'
      BY <1>0, <2>1, <2>3 DEF News, Turn, Request, NewKinds
    <2> QED
      BY <2>6, <2>7
  <1>8. CASE RemoveKey(c)
    <2>1. pc'[c] = "reload" /\ op' = op /\ op[c].kind = "remove"
      BY <1>0, <1>8 DEF RemoveKey, TypeOK, Turn
    <2> QED
      BY <1>0, <1>1, <2>1 DEF Turn, News, Request, NewKinds, Writing
  <1>9. CASE Reload(c) /\ ~Fails(c)
    <2>1. OnDisk' = OnDisk
      BY <1>9, DiskKept DEF Cmd, Reload, RenameTmp
    <2>2. pc[c] = "reload" /\ pc'[c] = "msg" /\ op' = op
      BY <1>0, <1>9 DEF Reload, TypeOK
    <2> QED
      BY <1>0, <1>1, <2>1, <2>2 DEF Turn, News, Request, Writing
  <1>10. CASE IoError(c)
    BY <1>3, <1>10 DEF IoError
  <1>11. CASE Deliver(c)
    <2>1. pc'[c] = "idle" /\ op'[c] = Idle
      BY <1>0, <1>11 DEF Deliver, TypeOK
    <2> QED
      BY <2>1 DEF Turn, News, Request, Idle, NewKinds, Writing
  <1> QED
    BY <1>3, <1>4, <1>5, <1>6, <1>7, <1>8, <1>9, <1>10, <1>11 DEF Cmd

\* A server that is reported saved is one the report can vouch for.
LEMMA ReportedKept ==
    ASSUME IInv, NEW c \in Cmds, Cmd(c)
    PROVE  AddsStay'
  <1>0. TypeOK /\ Purpose /\ Kept /\ News(c)
    BY DEF IInv, Kept
  <1>1. /\ deleted' = deleted
        /\ \A s \in Servers : OnDisk[s] # 0 => OnDisk'[s] # 0 \/ s \in deleted
    BY <1>0, CmdFrame, ListMoves
  <1>2. CASE saved' = saved
    BY <1>0, <1>1, <1>2 DEF AddsStay, TypeOK, Kept
  <1>3. CASE saved' # saved
    <2>1. Deliver(c)
      BY <1>3 DEF Cmd, LoadList, OpenTmp, WriteTmp, RenameTmp, RemoveKey, Reload, IoError,
         uiVars
    <2>2. /\ saved' = saved \cup op[c].ids
          /\ pc[c] = "msg" /\ op[c].kind \in NewKinds \cup {"edit"}
      BY <1>3, <2>1 DEF Deliver, NewKinds
    <2>3. \A s \in op[c].ids : OnDisk[s] # 0 \/ s \in deleted
      BY <1>0, <2>2 DEF News
    <2>4. op[c].ids \subseteq Servers
      BY <1>0 DEF TypeOK, Ops
    <2>5. \A s \in saved' \ deleted : s \in Servers /\ OnDisk[s] # 0
      BY <1>0, <2>2, <2>3, <2>4 DEF AddsStay, TypeOK, Kept
    <2> QED
      BY <1>1, <2>5 DEF AddsStay
  <1> QED
    BY <1>2, <1>3

\* A command's step, seen by all of them.
LEMMA CmdKeeps ==
    ASSUME IInv, NEW c \in Cmds, Cmd(c)
    PROVE  Kept'
  <1>0. TypeOK /\ Purpose /\ Kept
    BY DEF IInv
  <1>1. /\ \A d \in Cmds \ {c} : Same(d)
        /\ UNCHANGED <<rev, deleted>> /\ (Saving(c)' => Saving(c))
    BY <1>0, CmdFrame
  <1>2. OneSaver'
    <2>1. \A d \in Cmds : Saving(d)' => Saving(d)
      BY <1>1 DEF Saving, Same
    <2> QED
      BY <1>0, <2>1 DEF OneSaver, Kept
  <1>3. Directory'
    BY DiskKept, DiskRenamed
  <1>4. ASSUME NEW d \in Cmds \ {c}
        PROVE  Turn(d)' /\ News(d)'
    <2>1. Saving(d) => ~Saving(c)
      BY <1>0 DEF OneSaver, Kept
    <2>2. Saving(d) => OnDisk' = OnDisk /\ UNCHANGED <<tmp, data>>
      BY <2>1, DiskKept, DiskRenamed
    <2>3. \A s \in Servers : OnDisk[s] # 0 => OnDisk'[s] # 0 \/ s \in deleted'
      BY ListMoves
    <2>4. d \in Cmds /\ Same(d)
      BY <1>1
    <2>5. deleted \subseteq deleted' /\ \A s \in Servers : rev[s] # 0 => rev'[s] # 0
      BY <1>1
    <2> QED
      BY <2>2, <2>3, <2>4, <2>5, OthersKeep
  <1> QED
    BY <1>2, <1>3, <1>4, ListMoves, TurnKept, ReportedKept DEF Kept

\* What a kill leaves behind: the list as it was, and no command.
LEMMA CrashKeeps ==
    ASSUME IInv, Crash
    PROVE  Kept' /\ OnDisk' = OnDisk
  <1>0. TypeOK /\ Kept
    BY DEF IInv
  <1>1. /\ path' = path /\ tmp' = tmp
        /\ data' = IF tmp = NoFile THEN data ELSE [data EXCEPT ![tmp] = Cut]
        /\ UNCHANGED <<pems, rev, saved, deleted>>
        /\ \A c \in Cmds : pc'[c] = "idle" /\ op'[c] = Idle
    BY DEF Crash
  <1>2. path # NoFile => data'[path] = data[path]
    BY <1>0, <1>1 DEF TypeOK, Directory, Kept
  <1>3. OnDisk' = OnDisk /\ Directory'
    BY <1>0, <1>1, <1>2 DEF OnDisk, Content, Directory, Kept
  <1>4. OneSaver' /\ \A c \in Cmds : Turn(c)' /\ News(c)'
    BY <1>1 DEF OneSaver, Saving, Turn, News, Request, Idle, NewKinds, Writing
  <1>5. Submitted' /\ AddsStay' /\ NoDanglingKey'
    BY <1>0, <1>1, <1>3 DEF Submitted, AddsStay, NoDanglingKey, Kept
  <1> QED
    BY <1>3, <1>4, <1>5 DEF Kept

\* The list the program starts with.
LEMMA InitKept == Init => Kept
  <1> SUFFICES ASSUME Init
               PROVE  Kept
    OBVIOUS
  <1>1. PICK l \in List :
          /\ \/ l = Nothing /\ path = NoFile /\ data = [f \in Files |-> Cut]
             \/ path \in Files /\ data = [f \in Files |-> IF f = path THEN Whole(l) ELSE Cut]
          /\ rev = l /\ saved = {s \in Servers : l[s] # 0}
          /\ pems = {s \in Keyed : l[s] # 0}
    BY DEF Init
  <1>2. Content = Whole(l) /\ Directory
    BY <1>1, Basics DEF Init, Content, Directory, Whole
  <1>3. OnDisk = l
    BY <1>2 DEF OnDisk, Whole
  <1>4. OneSaver /\ \A c \in Cmds : Turn(c) /\ News(c)
    BY DEF Init, OneSaver, Saving, Turn, News, Request, Idle, NewKinds, Writing
  <1> QED
    BY <1>1, <1>2, <1>3, <1>4 DEF Kept, Submitted, AddsStay, NoDanglingKey

\* All of it, in every state.
LEMMA Invariance == Serial => (Spec => []IInv)
  <1> SUFFICES ASSUME Serial
               PROVE  Spec => []IInv
    OBVIOUS
  <1>1. Init /\ TypeOK /\ Purpose => IInv
    BY InitKept DEF IInv
  <1>2. IInv /\ [Next]_vars /\ (TypeOK /\ Purpose)' => IInv'
    <2> SUFFICES ASSUME IInv, [Next]_vars, (TypeOK /\ Purpose)'
                 PROVE  Kept'
      BY DEF IInv
    <2>1. CASE UNCHANGED vars
      BY <2>1 DEF vars, diskVars, cmdVars, uiVars, IInv, Kept, OneSaver, Saving, Directory,
         Submitted, Turn, News, Request, AddsStay, NoDanglingKey, OnDisk, Content, Apply
    <2>2. CASE Next
      BY <2>2, UiKeeps, CmdKeeps, CrashKeeps DEF Next
    <2> QED
      BY <2>1, <2>2
  <1> QED
    BY <1>1, <1>2, Typed, PTL DEF Spec

-----------------------------------------------------------------------------
(* What the program may rely on.                                           *)

\* Variables keep their types, and an entry in the file never points at a key
\* of ours that is gone: a removal deletes the key after its entry.
THEOREM SerialConsistent == Serial => (Spec => []Consistent)
  <1>1. IInv => Consistent
    BY DEF IInv, Kept, Consistent
  <1> QED
    BY <1>1, Invariance, PTL

\* A server reported saved is in servers.json until it is deleted, across any
\* crash, any failed write and whatever older list the UI holds.
THEOREM SerialAddsStay == Serial => (Spec => []AddsStay)
  <1>1. IInv => AddsStay
    BY DEF IInv, Kept
  <1> QED
    BY <1>1, Invariance, PTL

\* "Save writes the whole list back, atomically" is true of commands that do
\* not overlap: whatever fails or is killed, servers.json is a whole list.
THEOREM SerialWhole == Serial => (Spec => []AlwaysWhole)
  <1>1. IInv => AlwaysWhole
    BY AlwaysRead DEF IInv, Kept
  <1> QED
    BY <1>1, Invariance, PTL

\* A command maps to one step of the list, at its rename; every other step of
\* the program, a kill included, leaves the list as it is.
LEMMA StepRefines ==
    ASSUME IInv, [Next]_vars
    PROVE  [Promised!Next]_OnDisk
  <1>0. TypeOK /\ Purpose /\ \A c \in Cmds : Turn(c)
    BY DEF IInv, Kept
  <1>1. CASE UNCHANGED vars
    BY <1>1 DEF vars, diskVars, OnDisk, Content
  <1>2. CASE Crash
    BY <1>2, CrashKeeps
  <1>3. ASSUME NEW c \in Cmds, Ui(c)
        PROVE  OnDisk' = OnDisk
    <2>1. UNCHANGED diskVars
      BY <1>3 DEF Ui, Reread, Submit, Edit, MarkUsed, Delete, Start
    <2> QED
      BY <2>1 DEF diskVars, OnDisk, Content
  <1>4. ASSUME NEW c \in Cmds, Cmd(c), ~RenameTmp(c)
        PROVE  OnDisk' = OnDisk
    BY <1>4, DiskKept
  <1>5. ASSUME NEW c \in Cmds, RenameTmp(c)
        PROVE  [Promised!Next]_OnDisk
    <2> DEFINE o == op[c]
    <2>1. OnDisk' = Promised!With(OnDisk, o.ids, o.rev)
      BY <1>5, DiskRenamed DEF Apply, Promised!With
    <2>2. Turn(c) /\ pc[c] = "rename"
      BY <1>0, <1>5 DEF RenameTmp
    <2>3. o.kind \in NewKinds \cup {"edit", "used", "remove"}
      BY <1>0, <1>5, WritersSave DEF RenameTmp, Writing
    <2>4. o.ids \in SUBSET Servers /\ o.rev \in 0..MaxRev
      BY <1>0 DEF TypeOK, Ops
    <2>5. CASE o.kind \in NewKinds
      <3>1. o.rev = 1 /\ \A s \in o.ids : OnDisk[s] = 0
        BY <2>2, <2>5 DEF Turn, Request, Writing
      <3>2. Promised!Add(o.ids)
        BY <2>1, <3>1 DEF Promised!Add
      <3> QED
        BY <2>4, <3>2 DEF Promised!Next
    <2>6. CASE o.kind \notin NewKinds /\ o.ids = {}
      <3>1. OnDisk \in List
        BY <1>0, OnDiskTyped
      <3>2. OnDisk' = OnDisk
        BY <2>1, <2>6, <3>1 DEF Promised!With, List
      <3> QED
        BY <3>2
    <2>7. CASE o.kind \notin NewKinds /\ o.ids # {}
      <3>1. PICK s \in Servers : o.ids = {s}
        BY <2>2, <2>4, <2>7 DEF Turn, Request
      <3>2. OnDisk[s] # 0
        BY <2>2, <2>7, <3>1 DEF Turn, Writing
      <3>3. CASE o.kind = "remove"
        <4>1. o.rev = 0
          BY <2>2, <3>3 DEF Turn, Request
        <4>2. Promised!Remove(s)
          BY <2>1, <3>1, <3>2, <4>1 DEF Promised!Remove
        <4> QED
          BY <4>2 DEF Promised!Next
      <3>4. CASE o.kind \in {"edit", "used"}
        <4>1. o.rev # 0
          BY <2>2, <3>4 DEF Turn, Request
        <4>2. Promised!Update(s, o.rev)
          BY <2>1, <3>1, <3>2 DEF Promised!Update
        <4>3. o.rev \in (1..MaxRev) \ {0}
          BY <2>4, <4>1, StoreAssumption
        <4> QED
          BY <4>2, <4>3 DEF Promised!Next
      <3> QED
        BY <2>3, <2>7, <3>3, <3>4
    <2> QED
      BY <2>5, <2>6, <2>7
  <1> QED
    BY <1>1, <1>2, <1>3, <1>4, <1>5 DEF Next

\* As long as commands that save do not overlap, the list changes by one whole
\* command at a time: an addition adds its servers and nothing else, an update
\* replaces one entry, a removal deletes one.  This is all of ServerList.
THEOREM OneAtATime == Serial => (Spec => OneCommandAtATime)
  <1> SUFFICES ASSUME Serial
               PROVE  Spec => OneCommandAtATime
    OBVIOUS
  <1>1. IInv => OnDisk \in [Servers -> {0} \cup 1..MaxRev]
    <2>1. 0..MaxRev = {0} \cup 1..MaxRev
      BY StoreAssumption
    <2> QED
      BY <2>1, OnDiskTyped DEF IInv, List
  <1>2. IInv => Promised!Init
    BY <1>1 DEF Promised!Init
  <1>3. IInv /\ [Next]_vars => [Promised!Next]_OnDisk
    BY StepRefines
  <1> QED
    BY <1>2, <1>3, Invariance, PTL DEF Spec, OneCommandAtATime, Promised!Spec
=============================================================================
