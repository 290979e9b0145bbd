------------------------------- MODULE Sync -------------------------------
(* Devices that share one encrypted bundle in a repository (ui/sync.go,     *)
(* sync/github.go, config/bundle.go, the bootstrap of main.go).  A push     *)
(* uploads the device's list under the sha it last saw; a pull replaces the *)
(* list; the sha lives in the vault.  A device may die at any step, and the *)
(* answer to an upload may be lost.  Every device has registered the same   *)
(* private repository; the backup that ApplyBundle makes is left out.       *)
(*                                                                          *)
(* Versions stand for shas: 0 is "no sha", or "no file".  Every server has  *)
(* a password, and pw is the set of those the vault holds.  Saving the list *)
(* is one step here; what happens when two saves overlap is module Store.   *)
EXTENDS Naturals, FiniteSets

CONSTANTS Devices, Servers, Hosts, Keys,
          Patient,     \* the users wait for one sync before they do anything else
          MaxVersion,  \* bound: uploads
          MaxSeals     \* bound: seals under way when the user edits the list

Versions == 0..MaxVersion
Lines == Hosts \X Keys
Bundles == [ver : Versions, list : SUBSET Servers, pw : SUBSET Servers,
            hosts : SUBSET Lines]
Vaults == [sha : Versions, pw : SUBSET Servers]

ASSUME SyncAssumption == Patient \in BOOLEAN /\ {MaxVersion, MaxSeals} \subseteq Nat

VARIABLES remote,  \* the bundle in the repository
          list,    \* servers.json
          hosts,   \* known_hosts
          vault,   \* the vault file
          run,     \* off, boot (--pull, before there is a UI) or ui
          secrets, \* a.secrets
          seals,   \* persistSecrets under way, each with what it will write
          push,    \* pushCmd: its stage, what it sends, and the sha in the answer
          pull,    \* pullCmd and applyPullCmd: stage, and the bundle fetched
          merged,  \* mergeKnownHosts: what it will write
          used, deleted \* servers ever added; servers ever deleted by a user

diskVars == <<list, hosts, vault>>
jobVars == <<seals, push, pull, merged>>
vars == <<remote, diskVars, run, secrets, jobVars, used, deleted>>

NoBundle == [ver |-> 0, list |-> {}, pw |-> {}, hosts |-> {}]
NoVault == [sha |-> 0, pw |-> {}]
NoPush == [stage |-> "none", bundle |-> NoBundle]
NoPull == [stage |-> "none", bundle |-> NoBundle]

Init ==
    /\ remote = NoBundle
    /\ list = [d \in Devices |-> {}] /\ hosts = [d \in Devices |-> {}]
    /\ vault = [d \in Devices |-> NoVault]
    /\ run = [d \in Devices |-> "off"]
    /\ secrets = [d \in Devices |-> NoVault]
    /\ seals = [d \in Devices |-> {}]
    /\ push = [d \in Devices |-> NoPush] /\ pull = [d \in Devices |-> NoPull]
    /\ merged = [d \in Devices |-> {}]
    /\ used = {} /\ deleted = {}

(* The user may act: no confirmation is up, and if patient, no sync is      *)
(* under way on this device.                                                *)
Free(d) ==
    /\ run[d] = "ui" /\ pull[d].stage # "panel"
    /\ Patient => push[d].stage = "none" /\ pull[d].stage = "none"

-----------------------------------------------------------------------------
(* The program on one device.                                               *)

Start(d) ==
    /\ run[d] = "off"
    /\ \/ run' = [run EXCEPT ![d] = "ui"] /\ UNCHANGED pull
       \/ \* bootstrap
          /\ run' = [run EXCEPT ![d] = "boot"]
          /\ pull' = [pull EXCEPT ![d].stage = "get"]
    /\ secrets' = [secrets EXCEPT ![d] = vault[d]]
    /\ UNCHANGED <<remote, diskVars, seals, push, merged, used, deleted>>

(* The program ends or is killed, with whatever it was doing.               *)
Stop(d) ==
    /\ run[d] # "off" /\ run' = [run EXCEPT ![d] = "off"]
    /\ secrets' = [secrets EXCEPT ![d] = NoVault]
    /\ seals' = [seals EXCEPT ![d] = {}]
    /\ push' = [push EXCEPT ![d] = NoPush]
    /\ pull' = [pull EXCEPT ![d] = NoPull]
    /\ merged' = [merged EXCEPT ![d] = {}]
    /\ UNCHANGED <<remote, diskVars, used, deleted>>

(* persistSecrets: the UI changed s, and a command will write it.  Commands *)
(* that started earlier share the maps, and write it too.                   *)
Persist(d, s) ==
    /\ secrets' = [secrets EXCEPT ![d] = s]
    /\ seals' = [seals EXCEPT ![d] = {IF v = secrets[d] THEN s ELSE v : v \in @} \cup {s}]

Seal(d) ==
    /\ \E s \in seals[d] :
          /\ vault' = [vault EXCEPT ![d] = s]
          /\ seals' = [seals EXCEPT ![d] = @ \ {s}]
    /\ UNCHANGED <<remote, list, hosts, run, secrets, push, pull, merged, used,
                   deleted>>

(* A server is added, with its password, or deleted.                        *)
Add(d) ==
    /\ Free(d) /\ Cardinality(seals[d]) < MaxSeals
    /\ \E i \in Servers \ used :
          /\ list' = [list EXCEPT ![d] = @ \cup {i}]
          /\ used' = used \cup {i}
          /\ Persist(d, [secrets[d] EXCEPT !.pw = @ \cup {i}])
    /\ UNCHANGED <<remote, hosts, vault, run, push, pull, merged, deleted>>

Delete(d) ==
    /\ Free(d) /\ Cardinality(seals[d]) < MaxSeals
    /\ \E i \in list[d] :
          /\ list' = [list EXCEPT ![d] = @ \ {i}]
          /\ deleted' = deleted \cup {i}
          /\ Persist(d, [secrets[d] EXCEPT !.pw = @ \ {i}])
    /\ UNCHANGED <<remote, hosts, vault, run, push, pull, merged, used>>

KnownKeys(ls, h) == {k \in Keys : <<h, k>> \in ls}

(* AppendKnownHost: the user approves the key of a host not on file.        *)
Approve(d) ==
    /\ Free(d)
    /\ \E l \in Lines :
          /\ KnownKeys(hosts[d], l[1]) = {}
          /\ hosts' = [hosts EXCEPT ![d] = @ \cup {l}]
    /\ UNCHANGED <<remote, list, vault, run, secrets, jobVars, used, deleted>>

-----------------------------------------------------------------------------
(* Push.                                                                    *)

PushRest == <<diskVars, run, secrets, seals, pull, merged, used, deleted>>

(* Bound: one push and one pull are under way on a device.  The sha it will *)
(* name is the one the UI holds when it begins.                             *)
StartPush(d) ==
    /\ Free(d)
    /\ push[d].stage = "none"
    /\ push' = [push EXCEPT ![d] =
          [stage |-> "check",
           bundle |-> [NoBundle EXCEPT !.ver = secrets[d].sha]]]
    /\ UNCHANGED <<remote, PushRest>>

(* A push that fails is only reported.                                      *)
PushFails(d) == push' = [push EXCEPT ![d] = NoPush]

(* Check passes and Bundle reads the files and the passwords, in maps the   *)
(* command shares with the UI; or one of these fails.                       *)
Bundle(d) ==
    /\ push[d].stage = "check"
    /\ \/ push' = [push EXCEPT ![d].stage = "put", ![d].bundle =
                [ver |-> @.ver, list |-> list[d], pw |-> secrets[d].pw,
                 hosts |-> hosts[d]]]
       \/ PushFails(d)
    /\ UNCHANGED <<remote, PushRest>>

(* Mutant: the upload does not name the sha it replaces.                    *)
PutBlindly(d) ==
    /\ push[d].stage = "put"
    /\ \/ /\ remote.ver < MaxVersion
          /\ remote' = [push[d].bundle EXCEPT !.ver = remote.ver + 1]
          /\ \/ push' = [push EXCEPT ![d] =
                   [stage |-> "pushed",
                    bundle |-> [NoBundle EXCEPT !.ver = remote'.ver]]]
             \/ PushFails(d)
       \/ PushFails(d) /\ UNCHANGED remote
    /\ UNCHANGED PushRest

(* Mutant: a refused upload adopts the sha of the file that refused it.     *)
PutAdopts(d) ==
    /\ push[d].stage = "put"
    /\ remote' = IF push[d].bundle.ver # remote.ver \/ remote.ver = MaxVersion
                 THEN remote ELSE [push[d].bundle EXCEPT !.ver = remote.ver + 1]
    /\ push' = [push EXCEPT ![d] =
          [stage |-> "pushed", bundle |-> [NoBundle EXCEPT !.ver = remote'.ver]]]
    /\ UNCHANGED PushRest

(* Put: accepted under the sha of the file that is there, with or without   *)
(* an answer; refused under another; or not delivered.                      *)
Put(d) ==
    /\ push[d].stage = "put"
    /\ \/ /\ push[d].bundle.ver = remote.ver /\ remote.ver < MaxVersion
          /\ remote' = [push[d].bundle EXCEPT !.ver = remote.ver + 1]
          /\ \/ push' = [push EXCEPT ![d] =
                   [stage |-> "pushed",
                    bundle |-> [NoBundle EXCEPT !.ver = remote'.ver]]]
             \/ PushFails(d)
       \/ PushFails(d) /\ UNCHANGED remote
    /\ UNCHANGED PushRest

(* syncPushedMsg.                                                           *)
Pushed(d) ==
    /\ push[d].stage = "pushed" /\ push' = [push EXCEPT ![d] = NoPush]
    /\ Persist(d, [secrets[d] EXCEPT !.sha = push[d].bundle.ver])
    /\ UNCHANGED <<remote, diskVars, run, pull, merged, used, deleted>>

-----------------------------------------------------------------------------
(* Pull.                                                                    *)

PullAt(d, s, t) == pull[d].stage = s /\ pull' = [pull EXCEPT ![d].stage = t]
PullRest == <<remote, run, secrets, seals, push, used, deleted>>

StartPull(d) ==
    /\ Free(d)
    /\ PullAt(d, "none", "get")
    /\ UNCHANGED <<diskVars, merged, PullRest>>

(* Get, or an error: pullCmd reports it, bootstrap gives up.                *)
Get(d) ==
    /\ pull[d].stage = "get" /\ remote.ver > 0
    /\ pull' = [pull EXCEPT ![d] =
          [stage |-> IF run[d] = "boot" THEN "list" ELSE "fetched",
           bundle |-> remote]]
    /\ UNCHANGED <<diskVars, merged, PullRest>>

(* syncFetchedMsg, and the answer to its panel.                             *)
Fetched(d) ==
    /\ PullAt(d, "fetched", "panel")
    /\ UNCHANGED <<diskVars, merged, PullRest>>

Confirm(d) ==
    /\ \/ PullAt(d, "panel", "list")
       \/ pull[d].stage = "panel" /\ pull' = [pull EXCEPT ![d] = NoPull]
    /\ UNCHANGED <<diskVars, merged, PullRest>>

(* ApplyBundle: the list is replaced, then known_hosts read and merged,     *)
(* then written anew; applyPullCmd seals the vault last, with the new sha.  *)
SaveList(d) ==
    /\ pull[d].stage = "list"
    /\ pull' = [pull EXCEPT ![d].stage = "merge", ![d].bundle.list = {}]
    /\ list' = [list EXCEPT ![d] = pull[d].bundle.list]
    /\ UNCHANGED <<hosts, vault, merged, PullRest>>

(* Mutants: known_hosts is replaced; a host that has another key is added.  *)
ReplaceHosts(d) == pull[d].bundle.hosts
UniteHosts(d) == hosts[d] \cup pull[d].bundle.hosts

(* mergeKnownHosts: "Local always wins a disagreement."                     *)
MergeHosts(d) ==
    hosts[d] \cup {l \in pull[d].bundle.hosts :
                     KnownKeys(hosts[d], l[1]) \subseteq {l[2]}}

MergeKnownHosts(d) ==
    /\ pull[d].stage = "merge"
    /\ LET new == MergeHosts(d) \ hosts[d]
       IN  /\ pull' = [pull EXCEPT ![d].bundle.hosts = {},
                 ![d].stage = IF new = {} THEN "seal" ELSE "hosts"]
           /\ merged' = [merged EXCEPT ![d] = IF new = {} THEN {} ELSE MergeHosts(d)]
    /\ UNCHANGED <<diskVars, PullRest>>

WriteKnownHosts(d) ==
    /\ PullAt(d, "hosts", "seal")
    /\ hosts' = [hosts EXCEPT ![d] = merged[d]]
    /\ merged' = [merged EXCEPT ![d] = {}]
    /\ UNCHANGED <<list, vault, PullRest>>

(* What the vault takes: the bundle's secrets, with the sha it came under.   *)
Pulled(d) == [sha |-> pull[d].bundle.ver, pw |-> pull[d].bundle.pw]

SaveSecrets(d) ==
    /\ PullAt(d, "seal", "applied")
    /\ vault' = [vault EXCEPT ![d] = Pulled(d)]
    /\ UNCHANGED <<list, hosts, merged, PullRest>>

(* Any step may fail instead, and nothing is undone.                        *)
PullFails(d) ==
    /\ pull[d].stage \in {"get", "list", "merge", "hosts", "seal"}
    /\ pull' = [pull EXCEPT ![d] = NoPull]
    /\ merged' = [merged EXCEPT ![d] = {}]
    /\ run' = [run EXCEPT ![d] = IF @ = "boot" THEN "off" ELSE @]
    /\ UNCHANGED <<remote, diskVars, secrets, seals, push, used, deleted>>

(* syncAppliedMsg, or bootstrap handing over to the UI.                     *)
Applied(d) ==
    /\ pull[d].stage = "applied" /\ pull' = [pull EXCEPT ![d] = NoPull]
    /\ secrets' = [secrets EXCEPT ![d] = Pulled(d)]
    /\ run' = [run EXCEPT ![d] = "ui"]
    /\ UNCHANGED <<remote, diskVars, seals, push, merged, used, deleted>>

-----------------------------------------------------------------------------
Device(d) ==
    \/ Start(d) \/ Stop(d) \/ Seal(d) \/ Add(d) \/ Delete(d) \/ Approve(d)
    \/ StartPush(d) \/ Bundle(d) \/ Put(d) \/ Pushed(d)
    \/ StartPull(d) \/ Get(d) \/ Fetched(d) \/ Confirm(d) \/ SaveList(d)
    \/ MergeKnownHosts(d) \/ WriteKnownHosts(d) \/ SaveSecrets(d)
    \/ PullFails(d) \/ Applied(d)

Next == \E d \in Devices : Device(d)

Spec == Init /\ [][Next]_vars

-----------------------------------------------------------------------------
(* Properties.                                                              *)

(* Every variable holds a value of its type.                                *)
TypeOK ==
    /\ remote \in Bundles
    /\ list \in [Devices -> SUBSET Servers]
    /\ hosts \in [Devices -> SUBSET Lines] /\ merged \in [Devices -> SUBSET Lines]
    /\ vault \in [Devices -> Vaults] /\ secrets \in [Devices -> Vaults]
    /\ run \in [Devices -> {"off", "boot", "ui"}]
    /\ seals \in [Devices -> SUBSET Vaults]
    /\ push \in [Devices -> [stage : {"none", "check", "put", "pushed"},
                            bundle : Bundles]]
    /\ pull \in [Devices -> [stage : {"none", "get", "fetched", "panel", "list",
                                     "merge", "hosts", "seal", "applied"},
                            bundle : Bundles]]
    /\ used \subseteq Servers /\ deleted \subseteq Servers

(* "A mismatch is ErrSyncConflict: the remote moved on, and we refuse to    *)
(* merge": no push, of whichever device, after whatever crashes and lost    *)
(* answers, takes from the repository a server, or its password, that no    *)
(* user deleted.                                                            *)
RemoteKeepsEntries ==
    [][/\ remote.list \ remote'.list \subseteq deleted
       /\ remote.pw \ remote'.pw \subseteq deleted]_vars

(* The optimistic lock is honest: a device that holds the sha of what is in *)
(* the repository, in memory or in its vault, has all of it on disk.        *)
Holds(d, v) ==
    v.sha = remote.ver =>
        remote.list \ list[d] \subseteq deleted /\ remote.pw \ v.pw \subseteq deleted

ShaIsHonest ==
    \A d \in Devices : Holds(d, vault[d]) /\ (run[d] = "ui" => Holds(d, secrets[d]))

(* "known_hosts is the one thing never replaced wholesale": what was        *)
(* approved on a device stays on file there.                                *)
KnownHostsKept == [][\A d \in Devices : hosts[d] \subseteq hosts'[d]]_vars

(* "Local always wins a disagreement": no pull, crash or repetition leaves  *)
(* a device with two keys for a host.                                       *)
OneKeyPerHost ==
    \A d \in Devices : \A h \in Hosts : Cardinality(KnownKeys(hosts[d], h)) <= 1

(* What holds of the data in every state: its types, and one key a host.    *)
Consistent == TypeOK /\ OneKeyPerHost
=============================================================================
