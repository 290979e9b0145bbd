----------------------------- MODULE SyncProofs -----------------------------
(* Sync, for any number of devices, servers, hosts and keys.                 *)
(*                                                                           *)
(* The lock is not inductive: an honest sha rests on what a push under way   *)
(* has sent, on what a pull under way has fetched and not yet written, and   *)
(* on the seals of earlier secrets that are still to be written.             *)
EXTENDS Sync, FiniteSetTheorems, TLAPS

Pushes == [stage : {"none", "check", "put", "pushed"}, bundle : Bundles]
Pulls ==
    [stage : {"none", "get", "fetched", "panel", "list", "merge", "hosts", "seal", "applied"},
     bundle : Bundles]

-----------------------------------------------------------------------------
(* Types.                                                                    *)

\* What nothing is, is of the types.
LEMMA Empty ==
    /\ NoBundle \in Bundles /\ NoVault \in Vaults
    /\ NoPush \in Pushes /\ NoPull \in Pulls
  <1>1. 0 \in Versions
    BY SyncAssumption DEF Versions
  <1>2. NoBundle \in Bundles /\ NoVault \in Vaults
    BY <1>1 DEF NoBundle, NoVault, Bundles, Vaults
  <1> QED
    BY <1>2 DEF NoPush, NoPull, Pushes, Pulls

\* What a push collects is a bundle.
LEMMA BundleTyped ==
    ASSUME NEW v \in Versions, NEW l \in SUBSET Servers, NEW p \in SUBSET Servers,
           NEW h \in SUBSET Lines
    PROVE  [ver |-> v, list |-> l, pw |-> p, hosts |-> h] \in Bundles
  BY DEF Bundles

\* What changes of a vault when a server is added or deleted keeps its type.
LEMMA VaultTyped ==
    ASSUME NEW v \in Vaults, NEW i \in Servers
    PROVE  [v EXCEPT !.pw = @ \cup {i}] \in Vaults /\ [v EXCEPT !.pw = @ \ {i}] \in Vaults
  BY DEF Vaults

\* persistSecrets keeps the types of the secrets and the seals.
LEMMA PersistTyped ==
    ASSUME TypeOK, NEW d \in Devices, NEW s \in Vaults, Persist(d, s)
    PROVE  secrets' \in [Devices -> Vaults] /\ seals' \in [Devices -> SUBSET Vaults]
  <1>1. {IF v = secrets[d] THEN s ELSE v : v \in seals[d]} \cup {s} \in SUBSET Vaults
    BY DEF TypeOK
  <1> QED
    BY <1>1 DEF Persist, TypeOK

\* Type correctness, action by action.
LEMMA Typed == Spec => []TypeOK
  <1>1. Init => TypeOK
    BY Empty DEF Init, TypeOK, Pushes, Pulls
  <1>2. ASSUME TypeOK, NEW d \in Devices, Device(d)
        PROVE  TypeOK'
    <2> USE <1>2
    <2>0. push \in [Devices -> Pushes] /\ pull \in [Devices -> Pulls]
      BY DEF TypeOK, Pushes, Pulls
    <2>1. CASE Start(d)
      <3>1. run' \in [Devices -> {"off", "boot", "ui"}]
        BY <2>1 DEF Start, TypeOK
      <3>0. pull' \in [Devices -> Pulls]
        BY <2>0, <2>1 DEF Start, Pulls
      <3>2. secrets' \in [Devices -> Vaults]
        BY <2>1 DEF Start, TypeOK
      <3> QED
        BY <2>1, <3>0, <3>1, <3>2 DEF TypeOK, Start, diskVars, Pulls
    <2>2. CASE Stop(d)
      BY <2>2, <2>0, Empty DEF TypeOK, Stop, diskVars, Pushes, Pulls
    <2>3. CASE Seal(d)
      BY <2>3 DEF TypeOK, Seal
    <2>4. CASE Add(d)
      <3>1. PICK i \in Servers \ used :
                /\ list' = [list EXCEPT ![d] = @ \cup {i}]
                /\ used' = used \cup {i}
                /\ Persist(d, [secrets[d] EXCEPT !.pw = @ \cup {i}])
        BY <2>4 DEF Add
      <3>2. [secrets[d] EXCEPT !.pw = @ \cup {i}] \in Vaults
        BY VaultTyped DEF TypeOK
      <3>3. secrets' \in [Devices -> Vaults] /\ seals' \in [Devices -> SUBSET Vaults]
        BY <3>1, <3>2, PersistTyped
      <3>4. list' \in [Devices -> SUBSET Servers] /\ used' \subseteq Servers
        BY <3>1 DEF TypeOK
      <3> QED
        BY <2>4, <3>3, <3>4 DEF TypeOK, Add
    <2>5. CASE Delete(d)
      <3>1. PICK i \in list[d] :
                /\ list' = [list EXCEPT ![d] = @ \ {i}]
                /\ deleted' = deleted \cup {i}
                /\ Persist(d, [secrets[d] EXCEPT !.pw = @ \ {i}])
        BY <2>5 DEF Delete
      <3>2. [secrets[d] EXCEPT !.pw = @ \ {i}] \in Vaults
        BY VaultTyped DEF TypeOK
      <3>3. secrets' \in [Devices -> Vaults] /\ seals' \in [Devices -> SUBSET Vaults]
        BY <3>1, <3>2, PersistTyped
      <3>4. list' \in [Devices -> SUBSET Servers] /\ deleted' \subseteq Servers
        BY <3>1 DEF TypeOK
      <3> QED
        BY <2>5, <3>3, <3>4 DEF TypeOK, Delete
    <2>6. CASE Approve(d)
      BY <2>6 DEF TypeOK, Approve, jobVars
    <2>7. CASE StartPush(d)
      <3>1. secrets[d].sha \in Versions
        BY DEF TypeOK, Vaults
      <3>2. [NoBundle EXCEPT !.ver = secrets[d].sha] \in Bundles
        BY <3>1, Empty DEF Bundles
      <3>3. push' \in [Devices -> Pushes]
        BY <2>0, <2>7, <3>2 DEF StartPush, Pushes
      <3> QED
        BY <2>7, <3>3 DEF TypeOK, StartPush, PushRest, diskVars, Pushes
    <2>8. CASE Bundle(d)
      <3>1. secrets[d].pw \subseteq Servers /\ push[d].bundle.ver \in Versions
        BY <2>0 DEF TypeOK, Vaults, Pushes, Bundles
      <3>2. [ver |-> push[d].bundle.ver, list |-> list[d], pw |-> secrets[d].pw,
             hosts |-> hosts[d]] \in Bundles
        BY <3>1, BundleTyped DEF TypeOK
      <3>3. push' \in [Devices -> Pushes]
        BY <2>0, <2>8, <3>2, Empty DEF Bundle, PushFails, Pushes
      <3> QED
        BY <2>8, <3>3 DEF TypeOK, Bundle, PushRest, diskVars, Pushes
    <2>9. CASE Put(d)
      <3>1. remote' \in Bundles
        <4>1. CASE /\ remote.ver < MaxVersion
                   /\ remote' = [push[d].bundle EXCEPT !.ver = remote.ver + 1]
          <5>1. push[d].bundle \in Bundles /\ remote.ver \in Nat /\ remote.ver + 1 \in Versions
            BY <2>0, <4>1, SyncAssumption DEF TypeOK, Pushes, Bundles, Versions
          <5> QED
            BY <4>1, <5>1 DEF Bundles
        <4>2. CASE UNCHANGED remote
          BY <4>2 DEF TypeOK
        <4> QED
          BY <2>9, <4>1, <4>2 DEF Put
      <3>2. remote'.ver \in Versions
        BY <3>1 DEF Bundles
      <3>3. [NoBundle EXCEPT !.ver = remote'.ver] \in Bundles
        BY <3>2, Empty DEF Bundles
      <3>4. push' \in [Devices -> Pushes]
        BY <2>0, <2>9, <3>3, Empty DEF Put, PushFails, Pushes
      <3> QED
        BY <2>9, <3>1, <3>4 DEF TypeOK, Put, PushRest, diskVars, Pushes
    <2>10. CASE Pushed(d)
      <3>0. push[d].bundle.ver \in Versions /\ secrets[d] \in Vaults
        BY <2>0 DEF Pushes, Bundles, TypeOK
      <3>1. [secrets[d] EXCEPT !.sha = push[d].bundle.ver] \in Vaults
        BY <3>0 DEF Vaults
      <3>2. secrets' \in [Devices -> Vaults] /\ seals' \in [Devices -> SUBSET Vaults]
        BY <2>10, <3>1, PersistTyped DEF Pushed
      <3>3. push' \in [Devices -> Pushes]
        BY <2>0, <2>10, Empty DEF Pushed
      <3> QED
        BY <2>10, <3>2, <3>3 DEF TypeOK, Pushed, diskVars, Pushes
    <2>11. CASE StartPull(d) \/ Fetched(d)
      <3>1. pull' \in [Devices -> Pulls]
        BY <2>0, <2>11 DEF StartPull, Fetched, PullAt, Pulls
      <3> QED
        BY <2>11, <3>1 DEF TypeOK, StartPull, Fetched, PullRest, diskVars, Pulls
    <2>12. CASE Get(d)
      <3>1. pull' \in [Devices -> Pulls]
        BY <2>0, <2>12 DEF Get, Pulls, TypeOK
      <3> QED
        BY <2>12, <3>1 DEF TypeOK, Get, PullRest, diskVars, Pulls
    <2>14. CASE Confirm(d)
      <3>1. pull' \in [Devices -> Pulls]
        BY <2>0, <2>14, Empty DEF Confirm, PullAt, Pulls
      <3> QED
        BY <2>14, <3>1 DEF TypeOK, Confirm, PullRest, diskVars, Pulls
    <2>15. CASE SaveList(d)
      <3>1. pull[d].bundle \in Bundles /\ pull[d].bundle.list \subseteq Servers
        BY <2>0 DEF Pulls, Bundles
      <3>0. [pull[d].bundle EXCEPT !.list = {}] \in Bundles
        BY <3>1 DEF Bundles
      <3>4. pull' \in [Devices -> Pulls]
        BY <2>0, <2>15, <3>0 DEF SaveList, Pulls
      <3>2. pull' \in [Devices -> Pulls] /\ list' \in [Devices -> SUBSET Servers]
        BY <2>15, <3>1, <3>4 DEF SaveList, TypeOK
      <3> QED
        BY <2>15, <3>2 DEF TypeOK, SaveList, PullRest, Pulls
    <2>16. CASE MergeKnownHosts(d)
      <3>1. pull[d].bundle \in Bundles /\ pull[d].bundle.hosts \subseteq Lines
        BY <2>0 DEF Pulls, Bundles
      <3>2. MergeHosts(d) \subseteq Lines
        BY <3>1 DEF TypeOK, MergeHosts
      <3>0. [pull[d].bundle EXCEPT !.hosts = {}] \in Bundles
        BY <3>1 DEF Bundles
      <3>4. pull' \in [Devices -> Pulls]
        BY <2>0, <2>16, <3>0 DEF MergeKnownHosts, Pulls
      <3>5. merged' \in [Devices -> SUBSET Lines]
        BY <2>16, <3>2 DEF MergeKnownHosts, TypeOK
      <3>3. pull' \in [Devices -> Pulls] /\ merged' \in [Devices -> SUBSET Lines]
        BY <3>4, <3>5
      <3> QED
        BY <2>16, <3>3 DEF TypeOK, MergeKnownHosts, PullRest, diskVars, Pulls
    <2>17. CASE WriteKnownHosts(d)
      <3>1. pull' \in [Devices -> Pulls]
        BY <2>0, <2>17 DEF WriteKnownHosts, PullAt, Pulls
      <3>2. hosts' \in [Devices -> SUBSET Lines] /\ merged' \in [Devices -> SUBSET Lines]
        BY <2>17 DEF WriteKnownHosts, TypeOK
      <3> QED
        BY <2>17, <3>1, <3>2 DEF TypeOK, WriteKnownHosts, PullRest, Pulls
    <2>18. CASE SaveSecrets(d)
      <3>1. Pulled(d) \in Vaults
        BY <2>0 DEF Pulled, Pulls, Bundles, Vaults
      <3>2. pull' \in [Devices -> Pulls] /\ vault' \in [Devices -> Vaults]
        BY <2>0, <2>18, <3>1 DEF SaveSecrets, PullAt, TypeOK, Pulls
      <3> QED
        BY <2>18, <3>2 DEF TypeOK, SaveSecrets, PullRest, Pulls
    <2>19. CASE PullFails(d)
      <3>1. pull' \in [Devices -> Pulls]
        BY <2>0, <2>19, Empty DEF PullFails
      <3>2. merged' \in [Devices -> SUBSET Lines]
        BY <2>19 DEF PullFails, TypeOK
      <3>3. run' \in [Devices -> {"off", "boot", "ui"}]
        BY <2>19 DEF PullFails, TypeOK
      <3> QED
        BY <2>19, <3>1, <3>2, <3>3 DEF TypeOK, PullFails, diskVars, Pulls
    <2>20. CASE Applied(d)
      <3>1. Pulled(d) \in Vaults
        BY <2>0 DEF Pulled, Pulls, Bundles, Vaults
      <3>2. pull' \in [Devices -> Pulls]
        BY <2>0, <2>20, Empty DEF Applied
      <3>3. secrets' \in [Devices -> Vaults] /\ run' \in [Devices -> {"off", "boot", "ui"}]
        BY <2>20, <3>1 DEF Applied, TypeOK
      <3> QED
        BY <2>20, <3>2, <3>3 DEF TypeOK, Applied, diskVars, Pulls
    <2> QED
      BY <2>1, <2>2, <2>3, <2>4, <2>5, <2>6, <2>7, <2>8, <2>9, <2>10, <2>11, <2>12,
         <2>14, <2>15, <2>16, <2>17, <2>18, <2>19, <2>20 DEF Device
  <1>3. ASSUME TypeOK, UNCHANGED vars
        PROVE  TypeOK'
    <2>1. /\ UNCHANGED <<remote, list, hosts, vault, run>>
          /\ UNCHANGED <<secrets, seals, push, pull, merged, used, deleted>>
      BY <1>3 DEF vars, diskVars, jobVars
    <2> QED
      BY <1>3, <2>1 DEF TypeOK
  <1>4. TypeOK /\ [Next]_vars => TypeOK'
    BY <1>2, <1>3 DEF Next
  <1> QED
    BY <1>1, <1>4, PTL DEF Spec

-----------------------------------------------------------------------------
(* The optimistic lock.  The users are patient: of a device's commands, one  *)
(* at a time knows the sha.                                                  *)

Good(d, v) == v.sha <= remote.ver /\ Holds(d, v)
Held(d) == {vault[d], secrets[d]} \cup seals[d]
Same(b) ==
    /\ b.ver <= remote.ver
    /\ b.ver = remote.ver => b.list = remote.list /\ b.pw = remote.pw

\* Whatever a device holds, sends or is about to hold is honest, and while it
\* pulls nothing it holds is newer than what it fetched.
Own(d) ==
    /\ \A v \in Held(d) : Good(d, v)
    /\ push[d].stage # "none" => run[d] = "ui" /\ pull[d].stage = "none"
    /\ pull[d].stage # "none" => run[d] # "off"
    /\ push[d].stage \in {"check", "put"} => push[d].bundle.ver = secrets[d].sha
    /\ push[d].stage = "put" =>
          push[d].bundle.list = list[d] /\ push[d].bundle.pw = secrets[d].pw
    /\ push[d].stage = "pushed" =>
          Good(d, [secrets[d] EXCEPT !.sha = push[d].bundle.ver])
    /\ pull[d].stage \in {"fetched", "panel", "list"} =>
          Same(pull[d].bundle) /\ \A v \in Held(d) : v.sha <= pull[d].bundle.ver
    /\ pull[d].stage \in {"merge", "hosts", "seal", "applied"} => Good(d, Pulled(d))

NothingYet == remote.ver = 0 => remote.list = {} /\ remote.pw = {}

Honest == TypeOK /\ NothingYet /\ \A d \in Devices : Own(d)

\* The types of what one device has.
LEMMA Fields ==
    ASSUME TypeOK, NEW d \in Devices
    PROVE  /\ remote.ver \in Nat
           /\ push[d].bundle.ver \in Nat /\ pull[d].bundle.ver \in Nat
           /\ \A v \in Held(d) : v.sha \in Nat
           /\ Pulled(d).sha \in Nat /\ Pulled(d) \in Vaults
           /\ push[d] \in Pushes /\ pull[d] \in Pulls /\ secrets[d] \in Vaults
  <1>1. Versions \subseteq Nat
    BY SyncAssumption DEF Versions
  <1>2. /\ push[d] \in Pushes /\ pull[d] \in Pulls /\ secrets[d] \in Vaults
        /\ remote \in Bundles /\ Held(d) \subseteq Vaults
    BY DEF TypeOK, Pushes, Pulls, Held
  <1>3. push[d].bundle \in Bundles /\ pull[d].bundle \in Bundles
    BY <1>2 DEF Pushes, Pulls
  <1>4. Pulled(d) \in Vaults
    BY <1>3 DEF Bundles, Vaults, Pulled
  <1>5. \A v \in Vaults : v.sha \in Nat
    BY <1>1 DEF Vaults
  <1>6. \A b \in Bundles : b.ver \in Nat
    BY <1>1 DEF Bundles
  <1> QED
    BY <1>2, <1>3, <1>4, <1>5, <1>6

\* What is honest stays so while the device stands still: another upload makes
\* its sha stale, another device's user may only delete.
LEMMA GoodStays ==
    ASSUME NEW d \in Devices, NEW v, v.sha \in Nat, remote.ver \in Nat, Good(d, v),
           list'[d] = list[d], deleted \subseteq deleted',
           remote' = remote \/ remote'.ver = remote.ver + 1
    PROVE  Good(d, v)'
  <1>1. CASE remote' = remote
    BY <1>1 DEF Good, Holds
  <1>2. CASE remote'.ver = remote.ver + 1
    <2>1. v.sha < remote'.ver
      BY <1>2 DEF Good
    <2> QED
      BY <1>2, <2>1 DEF Good, Holds
  <1> QED
    BY <1>1, <1>2

\* What the device has under way stays honest while others move.
LEMMA StandsStill ==
    ASSUME TypeOK, NEW d \in Devices, Own(d),
           Held(d)' \subseteq Held(d), secrets'[d] = secrets[d],
           list'[d] = list[d], push'[d] = push[d], pull'[d] = pull[d], run'[d] = run[d],
           deleted \subseteq deleted',
           remote' = remote \/ remote'.ver = remote.ver + 1
    PROVE  Own(d)'
  <1>1. \A v \in Held(d)' : Good(d, v)'
    BY Fields, GoodStays DEF Own
  <1>2. ASSUME push[d].stage = "pushed"
        PROVE  Good(d, [secrets[d] EXCEPT !.sha = push[d].bundle.ver])'
    <2>1. [secrets[d] EXCEPT !.sha = push[d].bundle.ver].sha \in Nat
      BY Fields DEF Vaults
    <2>2. Good(d, [secrets[d] EXCEPT !.sha = push[d].bundle.ver])
      BY <1>2 DEF Own
    <2> DEFINE v == [secrets[d] EXCEPT !.sha = push[d].bundle.ver]
    <2>4. v.sha <= remote.ver /\ remote.ver \in Nat
      BY <2>2, Fields DEF Good
    <2> QED
      BY <2>1, <2>2, <2>4 DEF Good, Holds
  <1>3. ASSUME pull[d].stage \in {"fetched", "panel", "list"}
        PROVE  Same(pull[d].bundle)'
    <2>1. Same(pull[d].bundle) /\ remote.ver \in Nat /\ pull[d].bundle.ver \in Nat
      BY <1>3, Fields DEF Own
    <2> QED
      BY <2>1 DEF Same
  <1>4. ASSUME pull[d].stage \in {"merge", "hosts", "seal", "applied"}
        PROVE  Good(d, Pulled(d))'
    <2>1. Good(d, Pulled(d)) /\ Pulled(d).sha \in Nat /\ remote.ver \in Nat
      BY <1>4, Fields DEF Own
    <2>2. Pulled(d)' = Pulled(d)
      BY DEF Pulled
    <2> QED
      BY <2>1, <2>2 DEF Good, Holds
  <1> QED
    BY <1>1, <1>2, <1>3, <1>4 DEF Own

\* A device with no command under way need only hold what is honest.
LEMMA Idle ==
    ASSUME NEW d \in Devices, push'[d].stage = "none", pull'[d].stage = "none",
           \A v \in Held(d)' : Good(d, v)'
    PROVE  Own(d)'
  BY DEF Own

\* persistSecrets leaves what was held, and the new value.
LEMMA Persisted ==
    ASSUME TypeOK, NEW d \in Devices, NEW s, Persist(d, s), UNCHANGED vault
    PROVE  Held(d)' \subseteq Held(d) \cup {s} /\ secrets'[d] = s
  BY DEF Persist, TypeOK, Held

\* What the device itself does, when it is not about the repository.
LEMMA LocalSteps ==
    ASSUME Patient, Honest, NEW d \in Devices,
           Start(d) \/ Stop(d) \/ Seal(d) \/ Add(d) \/ Delete(d) \/ Approve(d)
    PROVE  Own(d)'
  <1>0. TypeOK /\ Own(d) /\ NothingYet
    BY DEF Honest
  <1>1. CASE Start(d)
    <2>1. run[d] = "off" /\ push[d].stage = "none" /\ pull[d].stage = "none"
      BY <1>0, <1>1 DEF Start, Own
    <2>2. Held(d)' \subseteq Held(d) /\ UNCHANGED <<remote, list, deleted, push>>
      BY <1>0, <1>1 DEF Start, Held, TypeOK, diskVars
    <2>3. \A v \in Held(d)' : Good(d, v)'
      BY <1>0, <2>2 DEF Own, Good, Holds
    <2>4. pull'[d].stage = "none" \/ (pull'[d].stage = "get" /\ run'[d] = "boot")
      BY <1>0, <1>1, <2>1 DEF Start, TypeOK
    <2> QED
      BY <2>1, <2>2, <2>3, <2>4 DEF Own
  <1>2. CASE Stop(d)
    <2>1. push'[d].stage = "none" /\ pull'[d].stage = "none"
      BY <1>0, <1>2 DEF Stop, NoPush, NoPull, TypeOK
    <2>2. Held(d)' \subseteq Held(d) \cup {NoVault} /\ UNCHANGED <<remote, list, deleted>>
      BY <1>0, <1>2 DEF Stop, Held, TypeOK, diskVars
    <2>3. Good(d, NoVault)
      BY <1>0, Fields DEF NothingYet, Good, Holds, NoVault
    <2>4. \A v \in Held(d)' : Good(d, v)'
      BY <1>0, <2>2, <2>3 DEF Own, Good, Holds
    <2> QED
      BY <2>1, <2>4, Idle
  <1>3. CASE Seal(d)
    <2>1. Held(d)' \subseteq Held(d)
      BY <1>0, <1>3 DEF Seal, Held, TypeOK
    <2> QED
      BY <1>0, <1>3, <2>1, StandsStill DEF Seal
  <1>4. CASE Add(d)
    <2>1. PICK i \in Servers \ used :
              /\ list' = [list EXCEPT ![d] = @ \cup {i}]
              /\ Persist(d, [secrets[d] EXCEPT !.pw = @ \cup {i}])
      BY <1>4 DEF Add
    <2> DEFINE s == [secrets[d] EXCEPT !.pw = @ \cup {i}]
    <2>2. s.sha = secrets[d].sha /\ s.pw = secrets[d].pw \cup {i}
      BY <1>0, Fields DEF Vaults
    <2> HIDE DEF s
    <2>3. Held(d)' \subseteq Held(d) \cup {s}
      BY <1>0, <1>4, <2>1, Persisted DEF Add, s
    <2>4. list'[d] = list[d] \cup {i} /\ UNCHANGED <<remote, deleted, push, pull>>
      BY <1>0, <1>4, <2>1 DEF TypeOK, Add
    <2>5. Good(d, secrets[d])
      BY <1>0 DEF Own, Held
    <2>6. \A v \in Held(d) \cup {s} : Good(d, v)'
      BY <1>0, <2>2, <2>4, <2>5 DEF Own, Good, Holds
    <2>7. push[d].stage = "none" /\ pull[d].stage = "none"
      BY <1>4 DEF Add, Free
    <2> QED
      BY <2>3, <2>4, <2>6, <2>7, Idle
  <1>5. CASE Delete(d)
    <2>1. PICK i \in list[d] :
              /\ list' = [list EXCEPT ![d] = @ \ {i}]
              /\ deleted' = deleted \cup {i}
              /\ Persist(d, [secrets[d] EXCEPT !.pw = @ \ {i}])
      BY <1>5 DEF Delete
    <2> DEFINE s == [secrets[d] EXCEPT !.pw = @ \ {i}]
    <2>2. s.sha = secrets[d].sha /\ s.pw = secrets[d].pw \ {i}
      BY <1>0, Fields DEF Vaults
    <2> HIDE DEF s
    <2>3. Held(d)' \subseteq Held(d) \cup {s}
      BY <1>0, <1>5, <2>1, Persisted DEF Delete, s
    <2>4. list'[d] = list[d] \ {i} /\ UNCHANGED <<remote, push, pull>>
      BY <1>0, <1>5, <2>1 DEF TypeOK, Delete
    <2>5. Good(d, secrets[d])
      BY <1>0 DEF Own, Held
    <2>6. \A v \in Held(d) \cup {s} : Good(d, v)'
      BY <1>0, <2>1, <2>2, <2>4, <2>5 DEF Own, Good, Holds
    <2>7. push[d].stage = "none" /\ pull[d].stage = "none"
      BY <1>5 DEF Delete, Free
    <2> QED
      BY <2>3, <2>4, <2>6, <2>7, Idle
  <1>6. CASE Approve(d)
    <2>1. Held(d)' = Held(d)
      BY <1>6 DEF Approve, Held, jobVars
    <2> QED
      BY <1>0, <1>6, <2>1, StandsStill DEF Approve, jobVars
  <1> QED
    BY <1>1, <1>2, <1>3, <1>4, <1>5, <1>6

\* A push: what it sends is what the device has under the sha it names.
LEMMA PushSteps ==
    ASSUME Patient, Honest, NEW d \in Devices,
           StartPush(d) \/ Bundle(d) \/ Put(d) \/ Pushed(d)
    PROVE  Own(d)'
  <1>0. TypeOK /\ Own(d) /\ push[d] \in Pushes /\ secrets[d] \in Vaults
    BY Fields DEF Honest
  <1>2. ASSUME PushFails(d), push[d].stage # "none", UNCHANGED PushRest,
               remote' = remote \/ remote'.ver = remote.ver + 1
        PROVE  Own(d)'
    <2>1. push'[d].stage = "none" /\ pull'[d].stage = "none"
      BY <1>0, <1>2 DEF Own, PushFails, NoPush, PushRest, TypeOK
    <2>2. Held(d)' = Held(d) /\ list' = list /\ deleted' = deleted
      BY <1>2 DEF PushRest, Held, diskVars
    <2>3. \A v \in Held(d)' : Good(d, v)'
      BY <1>0, <1>2, <2>2, Fields, GoodStays DEF Own
    <2> QED
      BY <2>1, <2>3, Idle
  <1>3. CASE StartPush(d)
    <2>1. /\ push'[d].stage = "check" /\ push'[d].bundle.ver = secrets[d].sha
          /\ pull'[d].stage = "none" /\ run'[d] = "ui" /\ secrets' = secrets
      BY <1>0, <1>3 DEF StartPush, Free, TypeOK, PushRest, NoBundle
    <2>2. \A v \in Held(d)' : Good(d, v)'
      BY <1>0, <1>3 DEF StartPush, PushRest, diskVars, Held, Own, Good, Holds
    <2> QED
      BY <2>1, <2>2 DEF Own
  <1>4. CASE Bundle(d)
    <2>1. CASE PushFails(d)
      BY <1>2, <1>4, <2>1 DEF Bundle
    <2>2. CASE push' = [push EXCEPT ![d].stage = "put", ![d].bundle =
                [ver |-> @.ver, list |-> list[d], pw |-> secrets[d].pw, hosts |-> hosts[d]]]
      <3>1. push'[d] = [stage |-> "put", bundle |->
                [ver |-> push[d].bundle.ver, list |-> list[d], pw |-> secrets[d].pw,
                 hosts |-> hosts[d]]]
        BY <1>0, <2>2 DEF TypeOK, Pushes
      <3>2. push[d].bundle.ver = secrets[d].sha /\ run[d] = "ui" /\ pull[d].stage = "none"
        BY <1>0, <1>4 DEF Bundle, Own
      <3>3. UNCHANGED <<remote, list, run, secrets, pull>>
        BY <1>4 DEF Bundle, PushRest, diskVars
      <3>4. \A v \in Held(d)' : Good(d, v)'
        BY <1>0, <1>4 DEF Bundle, PushRest, diskVars, Held, Own, Good, Holds
      <3> QED
        BY <3>1, <3>2, <3>3, <3>4 DEF Own
    <2> QED
      BY <1>4, <2>1, <2>2 DEF Bundle
  <1>5. CASE Put(d)
    <2>1. CASE PushFails(d)
      <3>1. remote' = remote \/ remote'.ver = remote.ver + 1
        BY <1>0, <1>5 DEF Put, Pushes, Bundles
      <3> QED
        BY <1>2, <1>5, <2>1, <3>1 DEF Put
    <2>2. CASE /\ push[d].bundle.ver = remote.ver
               /\ remote' = [push[d].bundle EXCEPT !.ver = remote.ver + 1]
               /\ push' = [push EXCEPT ![d] =
                     [stage |-> "pushed", bundle |-> [NoBundle EXCEPT !.ver = remote'.ver]]]
      <3>1. remote'.ver = remote.ver + 1 /\ remote'.list = list[d] /\ remote'.pw = secrets[d].pw
        BY <1>0, <1>5, <2>2 DEF Put, Own, Pushes, Bundles
      <3>2. push'[d].stage = "pushed" /\ push'[d].bundle.ver = remote'.ver
        BY <1>0, <2>2 DEF TypeOK, NoBundle
      <3>3. UNCHANGED <<list, run, secrets, pull, deleted>> /\ Held(d)' = Held(d)
        BY <1>5 DEF Put, PushRest, diskVars, Held
      <3>4. \A v \in Held(d)' : Good(d, v)'
        BY <1>0, <3>1, <3>3, Fields, GoodStays DEF Own
      <3>5. run[d] = "ui" /\ pull[d].stage = "none"
        BY <1>0, <1>5 DEF Put, Own
      <3> DEFINE v == [secrets[d] EXCEPT !.sha = remote'.ver]
      <3>6. v.sha = remote'.ver /\ v.pw = secrets[d].pw
        BY <1>0 DEF Vaults
      <3>7. remote'.ver \in Nat
        BY <1>0, <3>1, Fields
      <3>8. Good(d, [secrets[d] EXCEPT !.sha = push[d].bundle.ver])'
        BY <3>1, <3>2, <3>3, <3>6, <3>7 DEF Good, Holds
      <3> QED
        BY <3>2, <3>3, <3>4, <3>5, <3>8 DEF Own
    <2> QED
      BY <1>5, <2>1, <2>2 DEF Put
  <1>6. CASE Pushed(d)
    <2> DEFINE s == [secrets[d] EXCEPT !.sha = push[d].bundle.ver]
    <2>1. Held(d)' \subseteq Held(d) \cup {s}
      BY <1>0, <1>6, Persisted DEF Pushed, diskVars
    <2>2. Good(d, s) /\ pull[d].stage = "none"
      BY <1>0, <1>6 DEF Own, Pushed
    <2> HIDE DEF s
    <2>3. \A v \in Held(d) \cup {s} : Good(d, v)'
      BY <1>0, <1>6, <2>2 DEF Own, Pushed, Good, Holds, diskVars
    <2>4. push'[d].stage = "none" /\ pull'[d].stage = "none"
      BY <1>0, <1>6, <2>2 DEF Pushed, NoPush, TypeOK
    <2> QED
      BY <2>1, <2>3, <2>4, Idle
  <1> QED
    BY <1>3, <1>4, <1>5, <1>6

\* A pull: nothing the device holds is newer than what it fetched, so the list
\* may be replaced under it.
LEMMA PullSteps ==
    ASSUME Patient, Honest, NEW d \in Devices,
           \/ StartPull(d) \/ Get(d) \/ Fetched(d) \/ Confirm(d) \/ SaveList(d)
           \/ MergeKnownHosts(d) \/ WriteKnownHosts(d) \/ SaveSecrets(d)
           \/ PullFails(d) \/ Applied(d)
    PROVE  Own(d)'
  <1>0. TypeOK /\ Own(d) /\ pull[d] \in Pulls
    BY Fields DEF Honest
  <1>1. push[d].stage = "none" /\ UNCHANGED <<remote, push, deleted>>
    <2>1. CASE StartPull(d)
      BY <1>0, <2>1 DEF StartPull, Free, PullRest
    <2>2. CASE pull[d].stage # "none"
      BY <1>0, <2>2 DEF Own, StartPull, Get, Fetched, Confirm, SaveList, MergeKnownHosts,
         WriteKnownHosts, SaveSecrets, PullFails, Applied, PullRest
    <2> QED
      BY <2>1, <2>2 DEF PullAt, Get, Fetched, Confirm, SaveList, MergeKnownHosts,
         WriteKnownHosts, SaveSecrets, PullFails, Applied
  <1>2. ASSUME Held(d)' \subseteq Held(d), list'[d] = list[d]
        PROVE  \A v \in Held(d)' : Good(d, v)'
    BY <1>0, <1>1, <1>2 DEF Own, Good, Holds
  <1>3. CASE StartPull(d)
    <2>1. pull'[d].stage = "get" /\ run'[d] = "ui"
      BY <1>0, <1>3 DEF StartPull, PullAt, PullRest, Free, TypeOK
    <2>2. Held(d)' = Held(d) /\ list' = list
      BY <1>3 DEF StartPull, PullRest, Held, diskVars
    <2> QED
      BY <1>1, <1>2, <2>1, <2>2 DEF Own
  <1>4. CASE Get(d)
    <2>1. pull'[d].stage \in {"list", "fetched"} /\ pull'[d].bundle = remote /\ run' = run
      BY <1>0, <1>4 DEF Get, PullRest, TypeOK
    <2>2. Held(d)' = Held(d) /\ list' = list
      BY <1>4 DEF Get, PullRest, Held, diskVars
    <2>3. run[d] # "off"
      BY <1>0, <1>4 DEF Get, Own
    <2>4. Same(remote)' /\ \A v \in Held(d)' : v.sha <= remote'.ver
      BY <1>0, <1>1, <2>2, Fields DEF Same, Own, Good
    <2> QED
      BY <1>1, <1>2, <2>1, <2>2, <2>3, <2>4 DEF Own
  <1>5. CASE Fetched(d) \/ Confirm(d)
    <2>1. \/ pull'[d].stage = "none"
          \/ /\ pull'[d].stage \in {"panel", "list"} /\ pull'[d].bundle = pull[d].bundle
             /\ pull[d].stage \in {"fetched", "panel"}
      BY <1>0, <1>5 DEF Fetched, Confirm, PullAt, NoPull, TypeOK, Pulls
    <2>2. Held(d)' = Held(d) /\ list' = list /\ run' = run
      BY <1>5 DEF Fetched, Confirm, PullRest, Held, diskVars
    <2> QED
      BY <1>0, <1>1, <1>2, <2>1, <2>2 DEF Own, Same
  <1>6. CASE SaveList(d)
    <2>1. /\ pull'[d].stage = "merge" /\ pull'[d].bundle.ver = pull[d].bundle.ver
          /\ pull'[d].bundle.pw = pull[d].bundle.pw /\ list'[d] = pull[d].bundle.list
      BY <1>0, <1>6 DEF SaveList, TypeOK, Pulls, Bundles
    <2>2. Held(d)' = Held(d) /\ run' = run
      BY <1>6 DEF SaveList, PullRest, Held
    <2>3. /\ Same(pull[d].bundle) /\ run[d] # "off"
          /\ \A v \in Held(d) : v.sha <= pull[d].bundle.ver
      BY <1>0, <1>6 DEF SaveList, Own
    <2>4. \A v \in Held(d)' : Good(d, v)'
      <3> SUFFICES ASSUME NEW v \in Held(d)
                   PROVE  Good(d, v)'
        BY <2>2
      <3>1. Good(d, v) /\ v.sha <= pull[d].bundle.ver /\ v.sha \in Nat
        BY <1>0, <2>3, Fields DEF Own
      <3> QED
        BY <1>0, <1>1, <2>1, <2>3, <3>1, Fields DEF Good, Holds, Same
    <2>5. Good(d, Pulled(d))'
      BY <1>1, <2>1, <2>3 DEF Good, Holds, Pulled, Same
    <2> QED
      BY <1>1, <2>1, <2>2, <2>3, <2>4, <2>5 DEF Own
  <1>7. CASE MergeKnownHosts(d) \/ WriteKnownHosts(d)
    <2>1. /\ pull[d].stage \in {"merge", "hosts"} /\ pull'[d].stage \in {"hosts", "seal"}
          /\ pull'[d].bundle.ver = pull[d].bundle.ver /\ pull'[d].bundle.pw = pull[d].bundle.pw
      <3>1. CASE MergeKnownHosts(d)
        <4>1. pull[d].bundle \in Bundles
          BY <1>0 DEF Pulls
        <4>2. \E t \in {"seal", "hosts"} :
                  pull'[d] = [stage |-> t, bundle |-> [pull[d].bundle EXCEPT !.hosts = {}]]
          BY <1>0, <3>1 DEF MergeKnownHosts, TypeOK, Pulls
        <4> QED
          BY <3>1, <4>1, <4>2 DEF MergeKnownHosts, Bundles
      <3>2. CASE WriteKnownHosts(d)
        BY <1>0, <3>2 DEF WriteKnownHosts, PullAt, TypeOK, Pulls
      <3> QED
        BY <1>7, <3>1, <3>2
    <2>2. Held(d)' = Held(d) /\ list' = list /\ run' = run
      BY <1>7 DEF MergeKnownHosts, WriteKnownHosts, PullRest, Held, diskVars
    <2>3. Good(d, Pulled(d))'
      BY <1>0, <1>1, <2>1, <2>2 DEF Own, Good, Holds, Pulled
    <2> QED
      BY <1>0, <1>1, <1>2, <2>1, <2>2, <2>3 DEF Own
  <1>8. CASE SaveSecrets(d)
    <2>1. /\ pull[d].stage = "seal" /\ pull'[d].stage = "applied"
          /\ pull'[d].bundle = pull[d].bundle
      BY <1>0, <1>8 DEF SaveSecrets, PullAt, TypeOK, Pulls
    <2>2. Held(d)' \subseteq Held(d) \cup {Pulled(d)} /\ list' = list /\ run' = run
      BY <1>0, <1>8 DEF SaveSecrets, PullRest, Held, TypeOK
    <2>3. Good(d, Pulled(d)) /\ Pulled(d)' = Pulled(d)
      BY <1>0, <2>1 DEF Own, Pulled
    <2>4. \A v \in Held(d) \cup {Pulled(d)} : Good(d, v)'
      BY <1>0, <1>1, <2>2, <2>3 DEF Own, Good, Holds
    <2>5. Good(d, Pulled(d))'
      BY <2>3, <2>4
    <2> QED
      BY <1>0, <1>1, <2>1, <2>2, <2>4, <2>5 DEF Own
  <1>9. CASE PullFails(d)
    <2>1. pull'[d].stage = "none"
      BY <1>0, <1>9 DEF PullFails, NoPull, TypeOK
    <2>2. Held(d)' = Held(d) /\ list' = list
      BY <1>9 DEF PullFails, Held, diskVars
    <2> QED
      BY <1>1, <1>2, <2>1, <2>2, Idle
  <1>10. CASE Applied(d)
    <2>1. pull'[d].stage = "none" /\ pull[d].stage = "applied"
      BY <1>0, <1>10 DEF Applied, NoPull, TypeOK
    <2>2. Held(d)' \subseteq Held(d) \cup {Pulled(d)} /\ list' = list
      BY <1>0, <1>10 DEF Applied, Held, TypeOK, diskVars
    <2>3. Good(d, Pulled(d))
      BY <1>0, <2>1 DEF Own
    <2>4. \A v \in Held(d)' : Good(d, v)'
      BY <1>0, <1>1, <2>2, <2>3 DEF Own, Good, Holds
    <2> QED
      BY <1>1, <2>1, <2>4, Idle
  <1> QED
    BY <1>3, <1>4, <1>5, <1>6, <1>7, <1>8, <1>9, <1>10

\* Steps of the device keep what it has honest, and so do those of others.
LEMMA HonestInvariant == Patient => (Spec => []Honest)
  <1> SUFFICES ASSUME Patient
               PROVE  Spec => []Honest
    OBVIOUS
  <1>1. Init => NothingYet /\ \A d \in Devices : Own(d)
    BY DEF Init, NothingYet, Own, Held, Good, Holds, NoVault, NoBundle, NoPush, NoPull
  <1>2. ASSUME Honest, NEW d \in Devices, Device(d)
        PROVE  NothingYet' /\ \A e \in Devices : Own(e)'
    <2>0. TypeOK /\ \A e \in Devices : Own(e)
      BY <1>2 DEF Honest
    <2>1. Own(d)'
      BY <1>2, LocalSteps, PushSteps, PullSteps DEF Device
    <2>2. remote' = remote \/ remote'.ver = remote.ver + 1
      BY <1>2, <2>0 DEF Device, Start, Stop, Seal, Add, Delete, Approve, StartPush, Bundle,
         Put, Pushed, StartPull, Get, Fetched, Confirm, SaveList, MergeKnownHosts,
         WriteKnownHosts, SaveSecrets, PullFails, Applied, PullRest, TypeOK, Pushes, Bundles
    <2>3. NothingYet'
      BY <1>2, <2>0, <2>2, Fields DEF Honest, NothingYet
    <2>4. ASSUME NEW e \in Devices \ {d}
          PROVE  /\ Held(e)' = Held(e) /\ secrets'[e] = secrets[e] /\ list'[e] = list[e]
                 /\ push'[e] = push[e] /\ pull'[e] = pull[e] /\ run'[e] = run[e]
                 /\ deleted \subseteq deleted'
      BY <1>2, <2>0 DEF Device, Start, Stop, Seal, Add, Delete, Approve, StartPush, Bundle,
         Put, Pushed, StartPull, Get, Fetched, Confirm, SaveList, MergeKnownHosts,
         WriteKnownHosts, SaveSecrets, PullFails, Applied, PullRest, PushRest, PushFails,
         PullAt, Persist, TypeOK, Held, diskVars, jobVars
    <2>5. ASSUME NEW e \in Devices \ {d}
          PROVE  Own(e)'
      BY <2>0, <2>2, <2>4, StandsStill
    <2> QED
      BY <2>1, <2>3, <2>5
  <1>3. ASSUME Honest, UNCHANGED vars
        PROVE  NothingYet' /\ \A e \in Devices : Own(e)'
    <2>1. UNCHANGED <<remote, list, vault, run, secrets, seals, push, pull, deleted>>
      BY <1>3 DEF vars, diskVars, jobVars
    <2>2. ASSUME NEW e \in Devices
          PROVE  Own(e)'
      <3>1. Held(e)' = Held(e)
        BY <2>1 DEF Held
      <3> QED
        BY <1>3, <2>1, <3>1, StandsStill DEF Honest
    <2> QED
      BY <1>3, <2>1, <2>2 DEF Honest, NothingYet
  <1>4. Honest /\ [Next]_vars /\ TypeOK' => Honest'
    BY <1>2, <1>3 DEF Next, Honest
  <1>5. Init /\ TypeOK => Honest
    BY <1>1 DEF Honest
  <1> QED
    BY <1>4, <1>5, Typed, PTL DEF Spec

-----------------------------------------------------------------------------
(* Known hosts.                                                              *)

Unique(ls) == \A l, m \in ls : l[1] = m[1] => l = m

\* Nothing that is on file, on its way or about to be written has two keys for
\* a host, and what a pull is about to write holds what is on file.
HostsInv ==
    /\ Unique(remote.hosts)
    /\ \A d \in Devices :
          /\ Unique(hosts[d]) /\ Unique(merged[d])
          /\ Unique(push[d].bundle.hosts) /\ Unique(pull[d].bundle.hosts)
Merging == \A d \in Devices : pull[d].stage = "hosts" => hosts[d] \subseteq merged[d]

\* mergeKnownHosts adds only keys of hosts the device has none for.
LEMMA MergeIsUnique ==
    ASSUME TypeOK, HostsInv, NEW d \in Devices
    PROVE  Unique(MergeHosts(d)) /\ hosts[d] \subseteq MergeHosts(d)
  <1>1. hosts[d] \subseteq Lines /\ pull[d].bundle.hosts \subseteq Lines
    BY Fields DEF TypeOK, Pulls, Bundles
  <1>2. \A l \in Lines : l = <<l[1], l[2]>> /\ l[2] \in Keys
    BY DEF Lines
  <1>3. ASSUME NEW l \in hosts[d], NEW m \in pull[d].bundle.hosts,
               KnownKeys(hosts[d], m[1]) \subseteq {m[2]}, l[1] = m[1]
        PROVE  l = m
    <2>1. l[2] \in KnownKeys(hosts[d], m[1])
      BY <1>1, <1>2, <1>3 DEF KnownKeys
    <2> QED
      BY <1>1, <1>2, <1>3, <2>1
  <1> QED
    BY <1>3 DEF MergeHosts, Unique, HostsInv

\* No step gives a host a second key.
LEMMA HostsStep ==
    ASSUME TypeOK, HostsInv, NEW d \in Devices, Device(d)
    PROVE  HostsInv'
  <1>1. CASE Approve(d)
    <2>1. PICK l \in Lines : /\ KnownKeys(hosts[d], l[1]) = {}
                             /\ hosts' = [hosts EXCEPT ![d] = @ \cup {l}]
      BY <1>1 DEF Approve
    <2>2. \A m \in hosts[d] : m[1] # l[1]
      BY <2>1 DEF KnownKeys, TypeOK, Lines
    <2>3. Unique(hosts[d] \cup {l})
      BY <2>2 DEF HostsInv, Unique
    <2> QED
      BY <1>1, <2>1, <2>3 DEF Approve, jobVars, HostsInv, TypeOK
  <1>2. CASE MergeKnownHosts(d)
    <2>1. \A e \in Devices : pull'[e].bundle.hosts \in {pull[e].bundle.hosts, {}}
      BY <1>2 DEF MergeKnownHosts, TypeOK, Bundles
    <2>2. \A e \in Devices : merged'[e] \in {merged[e], {}, MergeHosts(d)}
      BY <1>2 DEF MergeKnownHosts, TypeOK
    <2>3. Unique(MergeHosts(d)) /\ Unique({})
      BY MergeIsUnique DEF Unique
    <2> QED
      BY <1>2, <2>1, <2>2, <2>3 DEF MergeKnownHosts, PullRest, diskVars, HostsInv
  <1>3. CASE WriteKnownHosts(d)
    <2>1. \A e \in Devices :
            /\ pull'[e].bundle = pull[e].bundle
            /\ hosts'[e] \in {hosts[e], merged[e]} /\ merged'[e] \in {merged[e], {}}
      BY <1>3 DEF WriteKnownHosts, PullAt, TypeOK
    <2> QED
      BY <1>3, <2>1 DEF WriteKnownHosts, PullRest, HostsInv, Unique
  <1>4. CASE StartPush(d) \/ Bundle(d) \/ Put(d) \/ Pushed(d)
    <2>1. /\ \A e \in Devices : push'[e].bundle.hosts \in {push[e].bundle.hosts, hosts[e], {}}
          /\ remote'.hosts \in {remote.hosts, push[d].bundle.hosts}
      <3>1. CASE StartPush(d)
        BY <3>1 DEF StartPush, TypeOK, NoBundle
      <3>2. CASE Bundle(d)
        <4>1. \/ push' = [push EXCEPT ![d] = NoPush]
              \/ push' = [push EXCEPT ![d] = [stage |-> "put", bundle |->
                    [ver |-> push[d].bundle.ver, list |-> list[d], pw |-> secrets[d].pw,
                     hosts |-> hosts[d]]]]
          <5>1. push[d] \in Pushes /\ push \in [Devices -> Pushes]
            BY DEF TypeOK, Pushes
          <5> QED
            BY <3>2, <5>1 DEF Bundle, PushFails, Pushes
        <4>2. CASE push' = [push EXCEPT ![d] = NoPush]
          BY <3>2, <4>2 DEF Bundle, TypeOK, NoPush, NoBundle
        <4>3. CASE push' = [push EXCEPT ![d] = [stage |-> "put", bundle |->
                    [ver |-> push[d].bundle.ver, list |-> list[d], pw |-> secrets[d].pw,
                     hosts |-> hosts[d]]]]
          BY <3>2, <4>3 DEF Bundle, TypeOK
        <4> QED
          BY <4>1, <4>2, <4>3
      <3>3. CASE Put(d)
        <4>1. remote' = [push[d].bundle EXCEPT !.ver = remote.ver + 1] \/ remote' = remote
          BY <3>3 DEF Put
        <4>2. push[d].bundle \in Bundles
          BY Fields DEF Pushes
        <4>3. remote'.hosts \in {remote.hosts, push[d].bundle.hosts}
          BY <4>1, <4>2 DEF Bundles
        <4>4. CASE PushFails(d)
          BY <4>3, <4>4 DEF PushFails, TypeOK, NoPush, NoBundle
        <4>5. CASE push' = [push EXCEPT ![d] =
                   [stage |-> "pushed", bundle |-> [NoBundle EXCEPT !.ver = remote'.ver]]]
          BY <4>3, <4>5 DEF TypeOK, NoBundle
        <4> QED
          BY <3>3, <4>4, <4>5 DEF Put
      <3>4. CASE Pushed(d)
        BY <3>4 DEF Pushed, TypeOK, NoPush, NoBundle
      <3> QED
        BY <1>4, <3>1, <3>2, <3>3, <3>4
    <2>2. UNCHANGED <<hosts, merged, pull>>
      BY <1>4 DEF StartPush, Bundle, Put, Pushed, PushRest, diskVars
    <2> QED
      BY <2>1, <2>2 DEF HostsInv, Unique
  <1>5. CASE \/ Start(d) \/ Stop(d) \/ Seal(d) \/ Add(d) \/ Delete(d) \/ StartPull(d)
             \/ Get(d) \/ Fetched(d) \/ Confirm(d) \/ SaveList(d) \/ SaveSecrets(d)
             \/ PullFails(d) \/ Applied(d)
    <2>1. /\ \A e \in Devices :
                /\ push'[e].bundle.hosts \in {push[e].bundle.hosts, {}}
                /\ merged'[e] \in {merged[e], {}}
          /\ UNCHANGED <<hosts, remote>>
      BY <1>5 DEF Start, Stop, Seal, Add, Delete, StartPull, Get, Fetched, Confirm, SaveList,
         SaveSecrets, PullFails, Applied, PullRest, diskVars, jobVars, TypeOK, NoPush, NoBundle
    <2>2. \A e \in Devices : pull'[e].bundle.hosts \in {pull[e].bundle.hosts, {}, remote.hosts}
      <3>1. CASE SaveList(d)
        <4>1. pull'[d].bundle.hosts = pull[d].bundle.hosts
          BY <3>1 DEF SaveList, TypeOK, Bundles
        <4>2. \A e \in Devices \ {d} : pull'[e] = pull[e]
          BY <3>1 DEF SaveList, TypeOK
        <4> QED
          BY <4>1, <4>2
      <3>0. DOMAIN pull = Devices
        BY DEF TypeOK
      <3>2. ASSUME pull' = [pull EXCEPT ![d] = NoPull]
            PROVE  \A e \in Devices : pull'[e].bundle.hosts \in {pull[e].bundle.hosts, {}}
        BY <3>0, <3>2 DEF NoPull, NoBundle
      <3>3. ASSUME NEW t, pull' = [pull EXCEPT ![d].stage = t]
            PROVE  \A e \in Devices : pull'[e].bundle.hosts \in {pull[e].bundle.hosts, {}}
        BY <3>3 DEF TypeOK
      <3>5. CASE Start(d)
        BY <3>3, <3>5 DEF Start
      <3>6. CASE StartPull(d) \/ Fetched(d) \/ Confirm(d) \/ SaveSecrets(d)
        BY <3>2, <3>3, <3>6 DEF StartPull, Fetched, Confirm, SaveSecrets, PullAt
      <3>7. CASE Stop(d) \/ PullFails(d) \/ Applied(d)
        BY <3>2, <3>7 DEF Stop, PullFails, Applied
      <3>4. CASE Seal(d) \/ Add(d) \/ Delete(d)
        <4>1. pull' = pull
          BY <3>4 DEF Seal, Add, Delete, jobVars
        <4> QED
          BY <4>1
      <3>8. CASE Get(d)
        <4>1. pull' = [pull EXCEPT ![d] = [stage |-> IF run[d] = "boot" THEN "list" ELSE "fetched",
                                           bundle |-> remote]]
          BY <3>8 DEF Get
        <4> QED
          BY <3>0, <4>1
      <3> QED
        BY <1>5, <3>1, <3>4, <3>5, <3>6, <3>7, <3>8
    <2> QED
      BY <2>1, <2>2 DEF HostsInv, Unique
  <1> QED
    BY <1>1, <1>2, <1>3, <1>4, <1>5 DEF Device

\* So none ever has one.
LEMMA HostsInvariant == Spec => []HostsInv
  <1>1. Init => HostsInv
    BY DEF Init, HostsInv, Unique, NoBundle, NoPush, NoPull
  <1>2. TypeOK /\ HostsInv /\ [Next]_vars => HostsInv'
    <2>1. ASSUME HostsInv, UNCHANGED vars
          PROVE  HostsInv'
      <3>1. UNCHANGED <<remote, hosts, push, pull, merged>>
        BY <2>1 DEF vars, diskVars, jobVars
      <3> QED
        BY <2>1, <3>1 DEF HostsInv
    <2> QED
      BY <2>1, HostsStep DEF Next
  <1> QED
    BY <1>1, <1>2, Typed, PTL DEF Spec

\* A patient user approves no key while known_hosts is being merged.
LEMMA MergingInvariant == Patient => (Spec => []Merging)
  <1> SUFFICES ASSUME Patient
               PROVE  Spec => []Merging
    OBVIOUS
  <1>1. Init => Merging
    BY DEF Init, Merging, NoPull
  <1>2. ASSUME TypeOK, HostsInv, Merging, NEW d \in Devices, Device(d)
        PROVE  Merging'
    <2>1. CASE Approve(d)
      <3>1. pull[d].stage = "none" /\ UNCHANGED <<pull, merged>>
        BY <2>1 DEF Approve, Free, jobVars
      <3>2. \A e \in Devices \ {d} : hosts'[e] = hosts[e]
        BY <1>2, <2>1 DEF Approve, TypeOK
      <3> QED
        BY <1>2, <3>1, <3>2 DEF Merging
    <2>2. CASE MergeKnownHosts(d)
      <3>1. /\ UNCHANGED hosts
            /\ pull'[d].stage = "hosts" => merged'[d] = MergeHosts(d)
            /\ \A e \in Devices \ {d} : pull'[e] = pull[e] /\ merged'[e] = merged[e]
        BY <1>2, <2>2 DEF MergeKnownHosts, TypeOK, diskVars
      <3> QED
        BY <1>2, <3>1, MergeIsUnique DEF Merging
    <2>3. CASE WriteKnownHosts(d)
      <3>1. /\ pull'[d].stage = "seal"
            /\ \A e \in Devices \ {d} : /\ pull'[e] = pull[e] /\ merged'[e] = merged[e]
                                        /\ hosts'[e] = hosts[e]
        BY <1>2, <2>3 DEF WriteKnownHosts, PullAt, TypeOK
      <3> QED
        BY <1>2, <3>1 DEF Merging
    <2>4. CASE \/ StartPush(d) \/ Bundle(d) \/ Put(d) \/ Pushed(d)
               \/ Seal(d) \/ Add(d) \/ Delete(d)
      BY <1>2, <2>4 DEF Merging, StartPush, Bundle, Put, Pushed, Seal, Add, Delete, PushRest,
         diskVars
    <2>5. CASE \/ Start(d) \/ Stop(d) \/ StartPull(d) \/ Get(d) \/ Fetched(d) \/ Confirm(d)
               \/ SaveList(d) \/ SaveSecrets(d) \/ PullFails(d) \/ Applied(d)
      <3>1. /\ UNCHANGED hosts
            /\ pull'[d].stage = "hosts" => pull' = pull /\ merged' = merged
        BY <1>2, <2>5 DEF Start, Stop, StartPull, Get, Fetched, Confirm, SaveList,
           SaveSecrets, PullFails, Applied, PullAt, PullRest, diskVars, TypeOK, NoPull
      <3>2. \A e \in Devices \ {d} : pull'[e] = pull[e] /\ merged'[e] = merged[e]
        BY <1>2, <2>5 DEF Start, Stop, StartPull, Get, Fetched, Confirm, SaveList,
           SaveSecrets, PullFails, Applied, PullAt, PullRest, diskVars, TypeOK
      <3> QED
        BY <1>2, <3>1, <3>2 DEF Merging
    <2> QED
      BY <1>2, <2>1, <2>2, <2>3, <2>4, <2>5 DEF Device
  <1>3. ASSUME Merging, UNCHANGED vars
        PROVE  Merging'
    <2>1. UNCHANGED <<hosts, pull, merged>>
      BY <1>3 DEF vars, diskVars, jobVars
    <2> QED
      BY <1>3, <2>1 DEF Merging
  <1>4. TypeOK /\ HostsInv /\ Merging /\ [Next]_vars => Merging'
    BY <1>2, <1>3 DEF Next
  <1> QED
    BY <1>1, <1>4, Typed, HostsInvariant, PTL DEF Spec

-----------------------------------------------------------------------------
(* The theorems.                                                             *)

\* Every variable keeps its type, and no pull, crash or repetition leaves a
\* device with two keys for a host, whether or not the users are patient.
THEOREM DevicesAreConsistent == Spec => []Consistent
  <1>1. ASSUME TypeOK, HostsInv
        PROVE  OneKeyPerHost
    <2> SUFFICES ASSUME NEW d \in Devices, NEW h \in Hosts
                 PROVE  Cardinality(KnownKeys(hosts[d], h)) <= 1
      BY DEF OneKeyPerHost
    <2>1. \A k, l \in KnownKeys(hosts[d], h) : k = l
      <3> SUFFICES ASSUME NEW k \in Keys, NEW l \in Keys,
                          <<h, k>> \in hosts[d], <<h, l>> \in hosts[d]
                   PROVE  k = l
        BY DEF KnownKeys
      <3>1. <<h, k>>[1] = <<h, l>>[1]
        OBVIOUS
      <3>2. <<h, k>> = <<h, l>>
        BY <1>1, <3>1 DEF HostsInv, Unique
      <3> QED
        BY <3>2
    <2>2. CASE KnownKeys(hosts[d], h) = {}
      BY <2>2, FS_EmptySet
    <2>3. CASE KnownKeys(hosts[d], h) # {}
      <3>1. PICK k : KnownKeys(hosts[d], h) = {k}
        BY <2>1, <2>3
      <3>2. Cardinality({k}) = 1
        BY FS_Singleton, Zenon
      <3> QED
        BY <3>1, <3>2
    <2> QED
      BY <2>2, <2>3
  <1>2. TypeOK /\ HostsInv => Consistent
    BY <1>1 DEF Consistent
  <1> QED
    BY <1>2, Typed, HostsInvariant, PTL

\* Of patient users, with any number of devices, whatever uploads, lost answers
\* and crashes there were: who holds the sha of what is in the repository has
\* all of it on disk.
THEOREM ShaNeverLies == Patient => (Spec => []ShaIsHonest)
  <1>1. Honest => ShaIsHonest
    BY DEF Honest, Own, Good, Held, ShaIsHonest
  <1> QED
    BY <1>1, HonestInvariant, PTL

\* So no push takes from the repository what no user deleted.
THEOREM PushesKeepEntries == Patient => (Spec => RemoteKeepsEntries)
  <1> SUFFICES ASSUME Patient
               PROVE  Spec => RemoteKeepsEntries
    OBVIOUS
  <1> DEFINE Kept == /\ remote.list \ remote'.list \subseteq deleted
                     /\ remote.pw \ remote'.pw \subseteq deleted
  <1>1. ASSUME Honest, NEW d \in Devices, Device(d)
        PROVE  Kept
    <2>1. CASE Put(d) /\ push[d].bundle.ver = remote.ver
      <3>1. push[d].bundle \in Bundles
        BY <1>1, Fields DEF Honest, Pushes
      <3>2. \/ remote' = remote
            \/ remote'.list = push[d].bundle.list /\ remote'.pw = push[d].bundle.pw
        BY <2>1, <3>1 DEF Put, Bundles
      <3>3. /\ push[d].bundle.list = list[d] /\ push[d].bundle.pw = secrets[d].pw
            /\ secrets[d].sha = remote.ver /\ Good(d, secrets[d])
        BY <1>1, <2>1 DEF Honest, Own, Held, Put
      <3> QED
        BY <3>2, <3>3 DEF Good, Holds
    <2>2. CASE remote' = remote
      BY <2>2
    <2> QED
      BY <1>1, <2>1, <2>2 DEF Device, Start, Stop, Seal, Add, Delete, Approve, StartPush,
         Bundle, Put, Pushed, StartPull, Get, Fetched, Confirm, SaveList, MergeKnownHosts,
         WriteKnownHosts, SaveSecrets, PullFails, Applied, PullRest
  <1>2. Honest /\ [Next]_vars => [Kept]_vars
    BY <1>1 DEF Next
  <1> QED
    BY <1>2, HonestInvariant, PTL DEF Spec, RemoteKeepsEntries

\* Of patient users, no pull takes a line out of known_hosts.
THEOREM KnownHostsAreKept == Patient => (Spec => KnownHostsKept)
  <1> SUFFICES ASSUME Patient
               PROVE  Spec => KnownHostsKept
    OBVIOUS
  <1> DEFINE Kept == \A d \in Devices : hosts[d] \subseteq hosts'[d]
  <1>1. ASSUME TypeOK, Merging, NEW d \in Devices, Device(d)
        PROVE  Kept
    <2>1. CASE WriteKnownHosts(d)
      BY <1>1, <2>1 DEF WriteKnownHosts, PullAt, Merging, TypeOK
    <2>2. CASE Approve(d)
      BY <1>1, <2>2 DEF Approve, TypeOK
    <2>3. CASE hosts' = hosts
      BY <2>3
    <2> QED
      BY <1>1, <2>1, <2>2, <2>3 DEF Device, Start, Stop, Seal, Add, Delete, StartPush,
         Bundle, Put, Pushed, StartPull, Get, Fetched, Confirm, SaveList, MergeKnownHosts,
         SaveSecrets, PullFails, Applied, PullRest, PushRest, diskVars
  <1>2. TypeOK /\ Merging /\ [Next]_vars => [Kept]_vars
    BY <1>1 DEF Next
  <1> QED
    BY <1>2, Typed, MergingInvariant, PTL DEF Spec, KnownHostsKept
=============================================================================
