------------------------------- MODULE Store -------------------------------
(***************************************************************************)
(* servers.json: Load, Save, Add, AddAll, Update and Remove of             *)
(* internal/config/store.go, the commands that call them and the handlers  *)
(* of their messages in internal/ui/app.go.                                *)
(*                                                                         *)
(* Every command is a goroutine of its own and nothing orders them: each   *)
(* reads the list, changes its copy and writes the whole of it back        *)
(* through servers.json.tmp, one name shared by all of them.  Files are    *)
(* kept apart from their names, because a name can be taken over while     *)
(* another command still writes to the file behind it.                     *)
(*                                                                         *)
(* An entry is the number of its version, 0 for none; the order of the     *)
(* list and what an entry says are left out.                               *)
(***************************************************************************)
EXTENDS Naturals, FiniteSets

CONSTANTS
    Servers,  \* ids, those not yet handed out included
    Keyed,    \* servers with a private key of ours in keys/ (before v6)
    Cmds,     \* goroutines; bound: commands running at one time
    Files, NoFile, \* the files behind the two names; more than Cmds
    Serial,   \* environment: no two commands that save overlap
    MaxRev    \* bound: versions of one entry

ASSUME StoreAssumption ==
    /\ Keyed \subseteq Servers
    /\ NoFile \notin Files
    /\ Serial \in BOOLEAN
    /\ MaxRev \in Nat \ {0}

VARIABLES
    \* The config directory.
    path, tmp,  \* the files named servers.json and servers.json.tmp
    data,       \* the content of each file
    pems,       \* servers whose key file in keys/ exists
    \* The commands.
    pc, op,     \* program counter, and what the command is for
    fd,         \* the file a command is writing
    got,        \* the list a command has read or is about to write
    err,        \* the command failed
    \* The UI.
    mem,        \* App.servers
    rev,        \* history: the last version submitted of each entry
    saved,      \* history: servers reported saved
    deleted     \* history: servers the user deleted

diskVars == <<path, tmp, data, pems>>
cmdVars == <<pc, op, fd, got, err>>
uiVars == <<mem, rev, saved, deleted>>
vars == <<diskVars, cmdVars, uiVars>>

List == [Servers -> 0..MaxRev]
Nothing == [s \in Servers |-> 0]
Whole(l) == [state |-> "whole", list |-> l]
Cut == [state |-> "cut", list |-> Nothing]      \* truncated, nothing written
Mixed == [state |-> "mixed", list |-> Nothing]  \* one list over a longer one

Ops == [kind : {"load", "add", "import", "edit", "used", "remove"},
        ids : SUBSET Servers, rev : 0..MaxRev]
Idle == [kind |-> "load", ids |-> {}, rev |-> 0]

TypeOK ==
    /\ path \in Files \cup {NoFile} /\ tmp \in Files \cup {NoFile}
    /\ data \in [Files -> [state : {"whole", "cut", "mixed"}, list : List]]
    /\ pems \subseteq Servers
    /\ pc \in [Cmds -> {"idle", "load", "open", "write", "rename", "key",
                        "reload", "msg"}]
    /\ op \in [Cmds -> Ops]
    /\ fd \in [Cmds -> Files \cup {NoFile}]
    /\ got \in [Cmds -> List] /\ err \in [Cmds -> BOOLEAN]
    /\ mem \in List /\ rev \in List
    /\ saved \subseteq Servers /\ deleted \subseteq Servers

(* A first run with no file, or a list saved earlier; the UI has loaded    *)
(* it.                                                                     *)
Init ==
    /\ \E l \in {l \in List : \A s \in Servers : l[s] <= 1} :
         /\ \/ l = Nothing /\ path = NoFile /\ data = [f \in Files |-> Cut]
            \/ /\ path \in Files
               /\ data = [f \in Files |-> IF f = path THEN Whole(l) ELSE Cut]
         /\ mem = l /\ rev = l /\ saved = {s \in Servers : l[s] # 0}
         /\ pems = {s \in Keyed : l[s] # 0}
    /\ tmp = NoFile /\ deleted = {}
    /\ pc = [c \in Cmds |-> "idle"] /\ op = [c \in Cmds |-> Idle]
    /\ fd = [c \in Cmds |-> NoFile]
    /\ got = [c \in Cmds |-> Nothing] /\ err = [c \in Cmds |-> FALSE]

-----------------------------------------------------------------------------
(* Starting a command.                                                     *)

Saving(c) == pc[c] \in {"load", "open", "write", "rename", "key"}
                 /\ op[c].kind # "load"

(* A handler returns command c.                                            *)
Start(c, o) ==
    /\ pc[c] = "idle"
    /\ Serial /\ o.kind # "load" => \A d \in Cmds : ~Saving(d)
    /\ pc' = [pc EXCEPT ![c] = "load"]
    /\ op' = [op EXCEPT ![c] = o]
    /\ UNCHANGED <<diskVars, fd, got, err, mem>>

(* loadServers.                                                            *)
Reread(c) == Start(c, Idle) /\ UNCHANGED <<rev, saved, deleted>>

(* submitForm for a new server, or the import of a batch: fresh ids, which *)
(* no key file of an older version belongs to.                             *)
Submit(c, ids, kind) ==
    /\ ids # {} /\ \A s \in ids : rev[s] = 0 /\ s \notin Keyed
    /\ kind = "add" => Cardinality(ids) = 1
    /\ rev' = [s \in Servers |-> IF s \in ids THEN 1 ELSE rev[s]]
    /\ Start(c, [kind |-> kind, ids |-> ids, rev |-> 1])
    /\ UNCHANGED <<saved, deleted>>

(* submitForm for an entry on the list.                                    *)
Edit(c, s) ==
    /\ mem[s] # 0 /\ rev[s] < MaxRev
    /\ rev' = [rev EXCEPT ![s] = @ + 1]
    /\ Start(c, [kind |-> "edit", ids |-> {s}, rev |-> rev[s] + 1])
    /\ UNCHANGED <<saved, deleted>>

(* markUsed, called when a session comes up: the whole entry as the UI     *)
(* knows it, with a new timestamp.                                         *)
MarkUsed(c, s) ==
    /\ mem[s] # 0
    /\ Start(c, [kind |-> "used", ids |-> {s}, rev |-> mem[s]])
    /\ UNCHANGED <<rev, saved, deleted>>

Delete(c, s) ==
    /\ mem[s] # 0
    /\ Start(c, [kind |-> "remove", ids |-> {s}, rev |-> 0])
    /\ deleted' = deleted \cup {s}
    /\ UNCHANGED <<rev, saved>>

-----------------------------------------------------------------------------
(* The command.                                                            *)

(* Load: no file, and a file cut to nothing, read as an empty list.        *)
Content == IF path = NoFile THEN Whole(Nothing) ELSE data[path]
Readable == Content.state # "mixed"
OnDisk == Content.list

Apply(o, l) == [s \in Servers |-> IF s \in o.ids THEN o.rev ELSE l[s]]

(* Mutant: an entry that is not there is appended.                         *)
FoundAlways(o, l) == TRUE

(* Update reports an id that is not there; Remove does not mind.           *)
Found(o, l) == o.kind \in {"edit", "used"} => \A s \in o.ids : l[s] # 0

(* The message of a command that failed says only that.                    *)
Fails(c) ==
    /\ pc' = [pc EXCEPT ![c] = "msg"]
    /\ op' = [op EXCEPT ![c] = Idle]
    /\ err' = [err EXCEPT ![c] = TRUE]
    /\ got' = [got EXCEPT ![c] = Nothing]

(* Mutants: the command changes the list the UI holds, not the file's; the *)
(* key goes first.                                                         *)
LoadFromMemory(c) ==
    /\ pc[c] = "load"
    /\ got' = [got EXCEPT ![c] = Apply(op[c], mem)]
    /\ pc' = [pc EXCEPT ![c] = IF op[c].kind = "load" THEN "msg" ELSE "open"]
    /\ UNCHANGED <<diskVars, op, fd, err, uiVars>>

LoadThenKey(c) ==
    /\ pc[c] = "load"
    /\ got' = [got EXCEPT ![c] = Apply(op[c], OnDisk)]
    /\ pc' = [pc EXCEPT ![c] = CASE op[c].kind = "load" -> "msg"
                                 [] op[c].kind = "remove" -> "key"
                                 [] OTHER -> "open"]
    /\ UNCHANGED <<diskVars, op, fd, err, uiVars>>

(* A removal goes on with the entries it found; its key is theirs.         *)
LoadList(c) ==
    /\ pc[c] = "load"
    /\ IF ~Readable \/ ~Found(op[c], OnDisk)
       THEN Fails(c)
       ELSE /\ got' = [got EXCEPT ![c] = Apply(op[c], OnDisk)]
            /\ pc' = [pc EXCEPT ![c] = IF op[c].kind = "load" THEN "msg" ELSE "open"]
            /\ op' = IF op[c].kind # "remove" THEN op
                     ELSE [op EXCEPT ![c].ids = {s \in @ : OnDisk[s] # 0}]
            /\ UNCHANGED err
    /\ UNCHANGED <<diskVars, fd, uiVars>>

(* A read, a write, a rename or a removal that fails; nothing is undone.   *)
IoError(c) ==
    /\ pc[c] \in {"load", "open", "write", "rename", "key", "reload"}
    /\ Fails(c)
    /\ fd' = [fd EXCEPT ![c] = NoFile]
    /\ UNCHANGED <<diskVars, uiVars>>

Unused(f) == f # path /\ f # tmp /\ \A c \in Cmds : fd[c] # f

(* Save, as os.WriteFile and os.Rename do it: the file is truncated,       *)
(* written and renamed.                                                    *)
OpenTmp(c) ==
    /\ pc[c] = "open"
    /\ \E f \in Files :
         /\ IF tmp = NoFile THEN Unused(f) ELSE f = tmp
         /\ tmp' = f
         /\ fd' = [fd EXCEPT ![c] = f]
         /\ data' = [data EXCEPT ![f] = Cut]
    /\ pc' = [pc EXCEPT ![c] = "write"]
    /\ UNCHANGED <<path, pems, op, got, err, uiVars>>

(* What another command wrote since the file was truncated stays behind a  *)
(* shorter list; lengths are left open.                                    *)
WriteTmp(c) ==
    /\ pc[c] = "write"
    /\ \E content \in {Whole(got[c])} \cup
                      (IF data[fd[c]] \in {Cut, Whole(got[c])} THEN {} ELSE {Mixed}) :
         data' = [data EXCEPT ![fd[c]] = content]
    /\ fd' = [fd EXCEPT ![c] = NoFile]
    /\ pc' = [pc EXCEPT ![c] = "rename"]
    /\ UNCHANGED <<path, tmp, pems, op, got, err, uiVars>>

(* Where a command goes once its list is saved.                            *)
Saved(kind) ==
    CASE kind \in {"add", "edit"} -> "reload"
      [] kind = "remove" -> "key"
      [] kind \in {"import", "used"} -> "msg"

(* A file whose last name is gone is emptied here to keep the states few.  *)
RenameTmp(c) ==
    /\ pc[c] = "rename"
    /\ IF tmp = NoFile
       THEN Fails(c) /\ UNCHANGED <<path, tmp, data>>
       ELSE /\ path' = tmp /\ tmp' = NoFile
            /\ data' = IF path = NoFile THEN data ELSE [data EXCEPT ![path] = Cut]
            /\ pc' = [pc EXCEPT ![c] = Saved(op[c].kind)]
            /\ UNCHANGED <<op, got, err>>
    /\ UNCHANGED <<pems, fd, uiVars>>

(* Remove: the key we wrote for the server goes after its entry.           *)
RemoveKey(c) ==
    /\ pc[c] = "key"
    /\ pems' = pems \ op[c].ids
    /\ pc' = [pc EXCEPT ![c] = "reload"]
    /\ UNCHANGED <<path, tmp, data, op, fd, got, err, uiVars>>

Reload(c) ==
    /\ pc[c] = "reload"
    /\ IF Readable
       THEN /\ got' = [got EXCEPT ![c] = OnDisk]
            /\ pc' = [pc EXCEPT ![c] = "msg"]
            /\ UNCHANGED <<op, err>>
       ELSE Fails(c)
    /\ UNCHANGED <<diskVars, fd, uiVars>>

-----------------------------------------------------------------------------
(* serversLoadedMsg, serverSavedMsg, serversImportedMsg; markUsed has none. *)
Deliver(c) ==
    /\ pc[c] = "msg"
    /\ IF err[c] \/ op[c].kind = "used"
       THEN UNCHANGED <<mem, saved>>
       ELSE /\ mem' = got[c]
            /\ saved' = IF op[c].kind \in {"add", "import", "edit"}
                        THEN saved \cup op[c].ids ELSE saved
    /\ pc' = [pc EXCEPT ![c] = "idle"]
    /\ op' = [op EXCEPT ![c] = Idle]
    /\ got' = [got EXCEPT ![c] = Nothing]
    /\ err' = [err EXCEPT ![c] = FALSE]
    /\ UNCHANGED <<diskVars, fd, rev, deleted>>

(* The program is killed and started again; what is on disk stays, and the *)
(* new run has read the list.  A temporary file left behind is truncated   *)
(* before anything reads it, so it counts as cut at once.                  *)
Crash ==
    /\ mem' = OnDisk
    /\ data' = IF tmp = NoFile THEN data ELSE [data EXCEPT ![tmp] = Cut]
    /\ pc' = [c \in Cmds |-> "idle"] /\ op' = [c \in Cmds |-> Idle]
    /\ fd' = [c \in Cmds |-> NoFile]
    /\ got' = [c \in Cmds |-> Nothing] /\ err' = [c \in Cmds |-> FALSE]
    /\ UNCHANGED <<path, tmp, pems, rev, saved, deleted>>

-----------------------------------------------------------------------------
Ui(c) ==
    \/ Reread(c)
    \/ \E ids \in SUBSET Servers, kind \in {"add", "import"} : Submit(c, ids, kind)
    \/ \E s \in Servers : Edit(c, s) \/ MarkUsed(c, s) \/ Delete(c, s)

Cmd(c) ==
    \/ LoadList(c) \/ OpenTmp(c) \/ WriteTmp(c) \/ RenameTmp(c)
    \/ RemoveKey(c) \/ Reload(c) \/ IoError(c) \/ Deliver(c)

Next == Crash \/ \E c \in Cmds : Ui(c) \/ Cmd(c)

Spec == Init /\ [][Next]_vars

-----------------------------------------------------------------------------
(* Properties.                                                             *)

(* "Save writes the whole list back, atomically": whatever else runs, is   *)
(* killed or fails, servers.json is a whole list whenever it exists.       *)
AlwaysWhole == Content.state = "whole"

(* The list changes by one whole command at a time.                        *)
Promised == INSTANCE ServerList WITH list <- OnDisk, Versions <- 1..MaxRev
OneCommandAtATime == Promised!Spec

(* A server reported saved is in the file until it is deleted, across any  *)
(* crash and whatever a list that was read earlier says.                   *)
AddsStay == \A s \in saved \ deleted : OnDisk[s] # 0

(* A key file is removed only after the entry that names it: an entry in   *)
(* the file never points at a key of ours that is gone.                    *)
NoDanglingKey == \A s \in Keyed : OnDisk[s] # 0 => s \in pems

(* What holds of the directory at rest: its types, and no dangling entry.   *)
Consistent == TypeOK /\ NoDanglingKey

=============================================================================
