------------------------------- MODULE MCSync -------------------------------
(* Sync for TLC: devices, servers and keys are interchangeable, and so are  *)
(* the shas of past uploads, which nothing compares with one another.  The  *)
(* list and known_hosts travel in one bundle but never meet, so a behaviour *)
(* exercises one of them: the one it is `about'.                            *)
EXTENDS Sync, TLC

VARIABLE about

MCInit == Init /\ about \in {"entries", "hosts"}
MCNext ==
    /\ Next /\ UNCHANGED about
    /\ \/ about = "entries" /\ UNCHANGED hosts
       \/ about = "hosts" /\ UNCHANGED list /\ remote'.ver < MaxVersion
MCSpec == MCInit /\ [][MCNext]_<<vars, about>>

Symmetry == Permutations(Devices) \cup Permutations(Servers)
    \cup Permutations(Keys) \cup Permutations(Hosts)

Current(v) == v = remote.ver
Sealed(s) == <<Current(s.sha), s.pw>>
Carried(b) == <<Current(b.ver), b.list, b.pw, b.hosts>>

View ==
    <<about, remote, list, hosts, run, merged, used, deleted,
      [d \in Devices |-> <<Sealed(vault[d]), Sealed(secrets[d]),
                           {Sealed(s) : s \in seals[d]},
                           {Sealed(s) : s \in seals[d] \cap {secrets[d]}},
                           push[d].stage, Carried(push[d].bundle),
                           pull[d].stage, Carried(pull[d].bundle)>>]>>
=============================================================================
