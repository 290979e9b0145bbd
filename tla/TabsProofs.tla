----------------------------- MODULE TabsProofs -----------------------------
(***************************************************************************)
(* Proofs about Tabs, for every number of servers, tabs and dials.         *)
(*                                                                         *)
(* The invariants a run of Tabs checks are not inductive one by one: that  *)
(* a tick belongs to the lost tab it will revive depends on generations    *)
(* being fresh, on nothing else in flight carrying the same generation,    *)
(* and on slots not being shared.  CoreInv is their inductive union.       *)
(***************************************************************************)
EXTENDS Tabs, TLAPS

(* The part of TypeOK about tabs, pool and messages.                       *)
CoreType ==
    /\ gen \in 0..MaxGen
    /\ order \in Seq(Slots) /\ active \in Nat
    /\ free \subseteq Slots /\ live \in 0..MaxTabs
    /\ id \in [Slots -> Servers \cup {NoServer}]
    /\ state \in [Slots -> {"none", "connecting", "live", "lost", "reconnecting"}]
    /\ tgen \in [Slots -> 0..MaxGen]
    /\ session \in [Slots -> 0..MaxGen]
    /\ attempt \in [Slots -> Nat]
    /\ until \in [Slots -> BOOLEAN] /\ activity \in [Slots -> BOOLEAN]
    /\ pumpTo \in [Slots -> 0..MaxGen]
    /\ dials \subseteq [gen : 1..MaxGen, auto : BOOLEAN]
    /\ ticks \subseteq 1..MaxGen /\ readers \subseteq 1..MaxGen
    /\ open \subseteq 1..MaxGen

(* The part about the rest of App.                                         *)
AppType ==
    /\ keyPass \in [srv : Servers \cup {NoServer}, sftp : BOOLEAN]
    /\ sftp \in Servers \cup {NoServer}
    /\ lastAttempt \in Servers \cup {NoServer} /\ lastWasSFTP \in BOOLEAN
    /\ card \in Servers \cup {NoServer}
    /\ quitting \in BOOLEAN
    /\ keyPass # NoKey => keyPass.srv # NoServer
    /\ sftp # NoServer => lastAttempt # NoServer

(* Every tab is a tab of some server.                                      *)
IdsReal == \A s \in Tabs : id[s] # NoServer

(* Nothing that exists carries a generation newer than the counter.        *)
Fresh ==
    /\ \A d \in dials : d.gen <= gen
    /\ \A g \in ticks \cup readers \cup open : g <= gen
    /\ \A s \in Tabs : tgen[s] # NoGen /\ tgen[s] <= gen

(* One thing is in flight for a generation.                                *)
OneInFlight ==
    /\ \A d, e \in dials : d.gen = e.gen => d = e
    /\ \A d \in dials : d.gen \notin ticks /\ d.gen \notin readers
    /\ ticks \cap readers = {}

(* A slot in the free list, or not created yet, holds nothing.             *)
SlotsWiped ==
    \A s \in Slots \ Tabs :
        session[s] = NoGen /\ pumpTo[s] = NoGen

(* What the fields of one tab say about each other and about messages.     *)
TabCoherent(s) ==
    /\ state[s] \in {"connecting", "live", "lost", "reconnecting"}
    /\ state[s] = "live" =>
          session[s] = tgen[s] /\ tgen[s] \in readers /\ tgen[s] \in open
    /\ state[s] # "live" => session[s] = NoGen
    /\ state[s] = "lost" =>
          ~HasDial(s) /\ tgen[s] \notin readers
          /\ (until[s] <=> tgen[s] \in ticks)
    /\ state[s] \in {"connecting", "reconnecting"} =>
          tgen[s] \notin ticks /\ tgen[s] \notin readers
    /\ pumpTo[s] \in {NoGen, session[s]}

TabsCoherent == \A s \in Tabs : TabCoherent(s)

OpenHeld == \A g \in open : \E s \in Tabs : session[s] = g

CoreInv ==
    /\ CoreType
    /\ SlotsAccounted /\ ActiveInRange
    /\ GenerationsDistinct
    /\ Fresh /\ OneInFlight
    /\ SlotsWiped /\ TabsCoherent /\ OpenHeld

IInv == CoreInv /\ AppType /\ IdsReal

coreVars == <<gen, order, active, poolVars, tabVars, flightVars>>

-----------------------------------------------------------------------------
(* Sequences without repetition.                                           *)

(* What closeTab's append(a.tabs[:i], a.tabs[i+1:]...) leaves.             *)
LEMMA RemoveAtElements ==
  ASSUME NEW S, NEW s \in Seq(S), NEW i \in DOMAIN s
  PROVE /\ RemoveAt(s, i) \in Seq(S)
        /\ Len(RemoveAt(s, i)) = Len(s) - 1
        /\ \A j \in 1..(Len(s) - 1) :
              RemoveAt(s, i)[j] = IF j < i THEN s[j] ELSE s[j + 1]
BY SMTT(60) DEF RemoveAt

(* Removing one element of a sequence without repetition removes it from   *)
(* its range.                                                              *)
LEMMA RemoveAtRange ==
  ASSUME NEW S, NEW s \in Seq(S), NEW i \in DOMAIN s, IsInjective(s)
  PROVE /\ Range(RemoveAt(s, i)) = Range(s) \ {s[i]}
        /\ IsInjective(RemoveAt(s, i))
<1> DEFINE r == RemoveAt(s, i)
<1>1. /\ r \in Seq(S) /\ Len(r) = Len(s) - 1
      /\ \A j \in 1..(Len(s) - 1) : r[j] = IF j < i THEN s[j] ELSE s[j + 1]
  BY RemoveAtElements
<1>2. DOMAIN r = 1..(Len(s) - 1) /\ DOMAIN s = 1..Len(s) /\ Len(s) \in Nat
  BY <1>1
<1> HIDE DEF r
<1>3. IsInjective(r)
  <2>1. SUFFICES ASSUME NEW j \in DOMAIN r, NEW k \in DOMAIN r, r[j] = r[k]
                 PROVE  j = k
    BY DEF IsInjective
  <2> DEFINE at(n) == IF n < i THEN n ELSE n + 1
  <2>2. /\ j \in Int /\ k \in Int /\ i \in Int
        /\ at(j) \in DOMAIN s /\ at(k) \in DOMAIN s
    BY <1>2
  <2>3. r[j] = s[at(j)] /\ r[k] = s[at(k)]
    BY <1>1, <1>2
  <2>4. at(j) = at(k)
    BY <2>1, <2>2, <2>3 DEF IsInjective
  <2> QED BY <2>2, <2>4
<1>4. Range(r) \subseteq Range(s) \ {s[i]}
  BY <1>1, <1>2 DEF IsInjective, Range
<1>5. ASSUME NEW j \in DOMAIN s, s[j] # s[i]
      PROVE s[j] \in Range(r)
  <2>1. CASE j < i
    <3>1. j \in DOMAIN r /\ r[j] = s[j]
      BY <1>1, <1>2, <2>1
    <3> QED BY <3>1 DEF Range
  <2>2. CASE j > i
    <3>1. j - 1 \in DOMAIN r /\ r[j - 1] = s[j]
      BY <1>1, <1>2, <2>2
    <3> QED BY <3>1 DEF Range
  <2> QED BY <1>2, <1>5, <2>1, <2>2
<1> QED BY <1>3, <1>4, <1>5 DEF Range, r

(* Appending a new element.                                                *)
LEMMA AppendRange ==
  ASSUME NEW S, NEW s \in Seq(S), NEW e \in S, IsInjective(s), e \notin Range(s)
  PROVE /\ Append(s, e) \in Seq(S)
        /\ Len(Append(s, e)) = Len(s) + 1
        /\ Range(Append(s, e)) = Range(s) \cup {e}
        /\ IsInjective(Append(s, e))
<1> DEFINE r == Append(s, e)
<1>1. /\ r \in Seq(S) /\ Len(r) = Len(s) + 1
      /\ \A j \in 1..(Len(s) + 1) : r[j] = IF j = Len(s) + 1 THEN e ELSE s[j]
  OBVIOUS
<1>2. DOMAIN r = 1..(Len(s) + 1) /\ DOMAIN s = 1..Len(s) /\ Len(s) \in Nat
  BY <1>1
<1> HIDE DEF r
<1>3. IsInjective(r)
  BY <1>1, <1>2 DEF IsInjective, Range
<1>4. Range(r) \subseteq Range(s) \cup {e}
  BY <1>1, <1>2 DEF Range
<1>5. e \in Range(r) /\ Range(s) \subseteq Range(r)
  BY <1>1, <1>2 DEF Range
<1> QED BY <1>1, <1>3, <1>4, <1>5 DEF r

(* Positions in the strip and tabs.                                        *)
LEMMA StripTabs ==
  ASSUME CoreInv
  PROVE /\ Tabs \subseteq Slots
        /\ \A i \in DOMAIN order : order[i] \in Tabs
        /\ \A s \in Tabs : \E i \in DOMAIN order : order[i] = s
        /\ DOMAIN order = 1..Len(order) /\ Len(order) \in Nat
        /\ Slots = 1..MaxTabs /\ MaxTabs \in Nat /\ MaxGen \in Nat
        /\ gen \in Nat /\ live \in Nat
<1>1. order \in Seq(Slots) /\ gen \in 0..MaxGen /\ live \in 0..MaxTabs
  BY DEF CoreInv, CoreType
<1>2. DOMAIN order = 1..Len(order) /\ Len(order) \in Nat
      /\ \A i \in DOMAIN order : order[i] \in Slots
  BY <1>1
<1>3. MaxTabs \in Nat /\ MaxGen \in Nat /\ gen \in Nat /\ live \in Nat
  BY <1>1, TabsAssumption
<1> QED BY <1>2, <1>3 DEF Tabs, Range, Slots

-----------------------------------------------------------------------------
(* The building blocks of the actions.                                     *)

(* openTab keeps the invariant: the slot it borrows is in no tab, and the  *)
(* generation it hands out is in no message.                               *)
LEMMA NewTabStep ==
  ASSUME CoreInv, NEW srv \in Servers, NEW dialled \in BOOLEAN,
         NewTab(srv, dialled)
  PROVE CoreInv'
<1> DEFINE g == gen + 1
           new == [gen |-> g, auto |-> FALSE]
<1>1. PICK s \in Slots :
         /\ PoolGet(s)
         /\ order' = Append(order, s)
         /\ active' = Len(order) + 1
         /\ id' = [id EXCEPT ![s] = srv]
         /\ state' = [state EXCEPT ![s] = "connecting"]
         /\ tgen' = [tgen EXCEPT ![s] = g]
         /\ session' = [session EXCEPT ![s] = NoGen]
         /\ attempt' = [attempt EXCEPT ![s] = 0]
         /\ until' = [until EXCEPT ![s] = FALSE]
         /\ activity' = [activity EXCEPT ![s] = FALSE]
  BY DEF NewTab
<1>2. /\ gen < MaxGen /\ gen' = g
      /\ dials' \subseteq dials \cup {new}
      /\ UNCHANGED <<pumpTo, ticks, readers, open>>
  <2>1. dials' = dials \cup {new} \/ dials' = dials
    BY Zenon DEF NewTab
  <2> QED BY <2>1 DEF NewTab
<1>3. s \notin Tabs /\ Tabs \subseteq Slots
  BY <1>1, StripTabs DEF PoolGet, CoreInv, SlotsAccounted
<1>4. /\ order' \in Seq(Slots) /\ Len(order') = Len(order) + 1
      /\ Tabs' = Tabs \cup {s} /\ IsInjective(order')
  BY <1>1, <1>3, AppendRange DEF CoreInv, CoreType, SlotsAccounted, Tabs
<1>5. g \in 1..MaxGen /\ g > gen /\ gen \in Nat
  BY <1>2, StripTabs
<1>5a. new.gen = g /\ new \in [gen : 1..MaxGen, auto : BOOLEAN]
  BY <1>5
<1> HIDE DEF new
<1>6. CoreType'
  <2>1. free' \subseteq Slots /\ live' \in 0..MaxTabs
    <3>1. live < MaxTabs => live + 1 \in 0..MaxTabs
      BY StripTabs
    <3> QED BY <1>1, <3>1 DEF CoreInv, CoreType, PoolGet
  <2>2. dials' \subseteq [gen : 1..MaxGen, auto : BOOLEAN]
    BY <1>2, <1>5a DEF CoreInv, CoreType
  <2>4. 0 \in 0..MaxGen /\ g \in 0..MaxGen
    BY <1>5, StripTabs
  <2>3. gen' \in 0..MaxGen /\ active' \in Nat
    <3>1. Len(order) \in Nat BY StripTabs
    <3> QED BY <1>1, <1>2, <2>4, <3>1
  <2>5. /\ id' \in [Slots -> Servers \cup {NoServer}]
        /\ state' \in [Slots -> {"none", "connecting", "live", "lost", "reconnecting"}]
        /\ tgen' \in [Slots -> 0..MaxGen] /\ session' \in [Slots -> 0..MaxGen]
    BY <1>1, <2>4 DEF CoreInv, CoreType, NoGen
  <2>6. /\ attempt' \in [Slots -> Nat]
        /\ until' \in [Slots -> BOOLEAN] /\ activity' \in [Slots -> BOOLEAN]
    BY <1>1 DEF CoreInv, CoreType
  <2> QED BY <1>2, <1>4, <2>1, <2>2, <2>3, <2>5, <2>6 DEF CoreInv, CoreType
<1>7. SlotsAccounted'
  <2>1. /\ live \in Nat /\ live \in 0..MaxTabs /\ free \subseteq Slots
        /\ Tabs \cap free = {} /\ Tabs \cup free = 1..live
    BY StripTabs DEF CoreInv, CoreType, SlotsAccounted
  <2>2. Tabs' \cap free' = {} /\ Tabs' \cup free' = 1..live'
    BY <1>1, <1>3, <1>4, <2>1 DEF PoolGet, Slots
  <2> QED BY <1>4, <2>2 DEF SlotsAccounted
<1>8. ActiveInRange'
  BY <1>1, <1>4, StripTabs DEF ActiveInRange
<1>9. /\ session[s] = NoGen /\ pumpTo[s] = NoGen
      /\ \A t \in Tabs : tgen[t] <= gen
      /\ \A t \in Tabs : tgen'[t] = tgen[t] /\ state'[t] = state[t]
                        /\ session'[t] = session[t] /\ until'[t] = until[t]
      /\ tgen'[s] = g /\ state'[s] = "connecting" /\ session'[s] = NoGen
  BY <1>1, <1>3 DEF CoreInv, CoreType, SlotsWiped, Fresh
<1>9a. \A t \in Tabs : tgen[t] \in Nat /\ tgen[t] < g
  BY <1>3, <1>5, <1>9, StripTabs DEF CoreInv, CoreType
<1>10. GenerationsDistinct'
  BY <1>4, <1>5, <1>9, <1>9a DEF CoreInv, GenerationsDistinct
<1>11. Fresh'
  <2>1. \A d \in dials' : d.gen <= gen'
    <3>1. \A d \in dials : d.gen \in Nat /\ d.gen <= gen
      BY DEF CoreInv, CoreType, Fresh
    <3> QED BY <1>2, <1>5, <1>5a, <3>1
  <2>2. \A h \in (ticks \cup readers \cup open)' : h <= gen'
    <3> SUFFICES ASSUME NEW h \in ticks \cup readers \cup open PROVE h <= g
      BY <1>2
    <3>1. h \in 1..MaxGen /\ h <= gen
      BY DEF CoreInv, CoreType, Fresh
    <3> QED BY <3>1, <1>5, StripTabs
  <2>3. \A t \in Tabs' : tgen'[t] # NoGen /\ tgen'[t] <= gen'
    BY <1>2, <1>4, <1>5, <1>9, <1>9a DEF CoreInv, Fresh, NoGen
  <2> QED BY <2>1, <2>2, <2>3 DEF Fresh
<1>12. OneInFlight'
  <2>1. \A d \in dials : d.gen # g
    BY <1>5 DEF CoreInv, Fresh
  <2>2. g \notin ticks /\ g \notin readers
    BY <1>5, StripTabs DEF CoreInv, Fresh
  <2> QED BY <1>2, <1>5a, <2>1, <2>2 DEF CoreInv, OneInFlight
<1>13. SlotsWiped'
  BY <1>1, <1>2, <1>4, <1>3 DEF CoreInv, CoreType, SlotsWiped
<1>14. TabsCoherent'
  <2> SUFFICES ASSUME NEW t \in Tabs' PROVE TabCoherent(t)'
    BY DEF TabsCoherent
  <2>1. CASE t = s
    BY <2>1, <1>2, <1>5, <1>9, StripTabs DEF CoreInv, CoreType, Fresh, TabCoherent, NoGen
  <2>2. CASE t # s
    <3>1. t \in Tabs /\ TabCoherent(t)
      BY <2>2, <1>4 DEF CoreInv, TabsCoherent
    <3>2. HasDial(t)' => HasDial(t)
      BY <3>1, <1>2, <1>5a, <1>9, <1>9a DEF HasDial
    <3> QED BY <3>1, <3>2, <1>2, <1>9 DEF TabCoherent
  <2> QED BY <2>1, <2>2
<1>15. OpenHeld'
  BY <1>2, <1>4, <1>9 DEF CoreInv, OpenHeld
<1> QED BY <1>6, <1>7, <1>8, <1>10, <1>11, <1>12, <1>13, <1>14, <1>15 DEF CoreInv

(* closeTab keeps the invariant, whatever messages of the closed tab are   *)
(* consumed with it: the others keep their tabs, and its own find no tab.  *)
LEMMA CloseTabStep ==
  ASSUME CoreInv, NEW i \in DOMAIN order, CloseTab(i),
         UNCHANGED <<gen, ticks>>, dials' \subseteq dials, readers' \subseteq readers,
         \A t \in Tabs : t # order[i] /\ tgen[t] \in readers => tgen[t] \in readers'
  PROVE CoreInv' /\ Tabs' = Tabs \ {order[i]}
<1> DEFINE s == order[i]
<1>1. /\ order' = RemoveAt(order, i)
      /\ open' = open \ {session[s]}
      /\ free' = free \cup {s} /\ live' = live
      /\ id' = [id EXCEPT ![s] = NoServer]
      /\ state' = [state EXCEPT ![s] = "none"]
      /\ tgen' = [tgen EXCEPT ![s] = NoGen]
      /\ session' = [session EXCEPT ![s] = NoGen]
      /\ pumpTo' = [pumpTo EXCEPT ![s] = NoGen]
      /\ attempt' = [attempt EXCEPT ![s] = 0]
      /\ until' = [until EXCEPT ![s] = FALSE]
      /\ activity' \in [Slots -> BOOLEAN]
  BY DEF CloseTab, CoreInv, CoreType
<1>2. s \in Tabs /\ s \in Slots /\ Tabs \subseteq Slots
  BY StripTabs
<1>3. /\ order' \in Seq(Slots) /\ Len(order') = Len(order) - 1
      /\ Tabs' = Tabs \ {s} /\ IsInjective(order')
  BY <1>1, RemoveAtElements, RemoveAtRange DEF CoreInv, CoreType, SlotsAccounted, Tabs
<1>4. active' \in Nat /\ ActiveInRange'
  <2>1. /\ Len(order) \in Nat \ {0} /\ i \in 1..Len(order)
        /\ active \in 0..Len(order) /\ active # 0
    BY StripTabs DEF CoreInv, ActiveInRange
  <2>2. order' = <<>> <=> Len(order') = 0
    BY <1>3
  <2>3. active' = ActiveAfterClose(i, Len(order'))
    BY <1>1 DEF CloseTab
  <2>4. Len(order') \in Nat
    BY <1>3
  <2>5. active' \in 0..Len(order') /\ (active' = 0 <=> Len(order') = 0)
    <3>1. CASE Len(order') = 0
      BY <2>3, <3>1 DEF ActiveAfterClose
    <3>2. CASE Len(order') > 0 /\ active > i
      BY <1>3, <2>1, <2>3, <3>2 DEF ActiveAfterClose
    <3>3. CASE Len(order') > 0 /\ active = i
      <4>1. active' = IF i > Len(order') THEN Len(order') ELSE i
        BY <2>1, <2>3, <3>3 DEF ActiveAfterClose
      <4> QED BY <1>3, <2>1, <3>3, <4>1
    <3>4. CASE Len(order') > 0 /\ active < i
      BY <1>3, <2>1, <2>3, <3>4 DEF ActiveAfterClose
    <3> QED BY <2>1, <2>4, <3>1, <3>2, <3>3, <3>4
  <2> QED BY <2>2, <2>4, <2>5 DEF ActiveInRange
<1> HIDE DEF s
<1>5. CoreType'
  <2>1. 0 \in 0..MaxGen BY StripTabs
  <2>2. /\ id' \in [Slots -> Servers \cup {NoServer}]
        /\ state' \in [Slots -> {"none", "connecting", "live", "lost", "reconnecting"}]
        /\ tgen' \in [Slots -> 0..MaxGen] /\ session' \in [Slots -> 0..MaxGen]
        /\ pumpTo' \in [Slots -> 0..MaxGen]
    BY <1>1, <2>1 DEF CoreInv, CoreType, NoGen
  <2>3. attempt' \in [Slots -> Nat] /\ until' \in [Slots -> BOOLEAN]
    BY <1>1 DEF CoreInv, CoreType
  <2> QED BY <1>1, <1>2, <1>3, <1>4, <2>2, <2>3 DEF CoreInv, CoreType
<1>6. SlotsAccounted'
  BY <1>1, <1>2, <1>3 DEF CoreInv, SlotsAccounted
<1>7. /\ \A t \in Tabs' : t \in Tabs /\ t # s
      /\ \A t \in Tabs' : tgen'[t] = tgen[t] /\ state'[t] = state[t]
                        /\ session'[t] = session[t] /\ until'[t] = until[t]
                        /\ pumpTo'[t] = pumpTo[t]
      /\ session'[s] = NoGen /\ pumpTo'[s] = NoGen
  BY <1>1, <1>2, <1>3 DEF CoreInv, CoreType
<1>8. GenerationsDistinct'
  BY <1>7 DEF CoreInv, GenerationsDistinct
<1>9. Fresh'
  BY <1>1, <1>7 DEF CoreInv, Fresh
<1>10. OneInFlight'
  BY DEF CoreInv, OneInFlight
<1>11. SlotsWiped'
  BY <1>1, <1>2, <1>3, <1>7 DEF CoreInv, CoreType, SlotsWiped
<1>12. TabsCoherent'
  <2> SUFFICES ASSUME NEW t \in Tabs' PROVE TabCoherent(t)'
    BY DEF TabsCoherent
  <2>1. t \in Tabs /\ t # s /\ TabCoherent(t)
    BY <1>7 DEF CoreInv, TabsCoherent
  <2>2. HasDial(t)' => HasDial(t)
    BY <1>7 DEF HasDial
  <2>3. state[t] = "live" => tgen[t] \in open' /\ tgen[t] \in readers'
    <3> SUFFICES ASSUME state[t] = "live" PROVE session[s] # tgen[t] /\ tgen[t] \in readers'
      BY <1>1, <2>1 DEF TabCoherent
    <3>1. tgen[t] \in readers' /\ tgen[t] # NoGen /\ tgen[t] # tgen[s]
      BY <2>1, <1>2 DEF TabCoherent, CoreInv, Fresh, GenerationsDistinct, s
    <3>2. session[s] \in {NoGen, tgen[s]}
      BY <1>2 DEF CoreInv, TabsCoherent, TabCoherent
    <3> QED BY <3>1, <3>2
  <2> QED BY <1>7, <2>1, <2>2, <2>3 DEF TabCoherent
<1>13. OpenHeld'
  <2> SUFFICES ASSUME NEW g \in open' PROVE \E t \in Tabs' : session'[t] = g
    BY DEF OpenHeld
  <2>1. PICK t \in Tabs : session[t] = g
    BY <1>1 DEF CoreInv, OpenHeld
  <2>2. t # s
    BY <2>1, <1>1
  <2> QED BY <1>3, <1>7, <2>1, <2>2
<1> QED BY <1>3, <1>4, <1>5, <1>6, <1>8, <1>9, <1>10, <1>11, <1>12, <1>13 DEF CoreInv, s

(* Steps that touch only what is on screen.                                *)
LEMMA ScreenStep ==
  ASSUME CoreInv,
         UNCHANGED <<gen, order, poolVars, id, state, tgen, session, attempt,
                     until, pumpTo, flightVars>>,
         active' \in 0..Len(order), active' = 0 <=> order = <<>>,
         activity' \in [Slots -> BOOLEAN]
  PROVE CoreInv'
<1>1. Tabs' = Tabs
  BY DEF Tabs
<1>2. CoreType'
  <2>1. active' \in Nat BY StripTabs
  <2> QED BY <2>1 DEF CoreInv, CoreType, poolVars, flightVars
<1>3. SlotsAccounted' /\ ActiveInRange' /\ GenerationsDistinct' /\ Fresh'
      /\ OneInFlight' /\ SlotsWiped' /\ OpenHeld'
  BY <1>1 DEF CoreInv, SlotsAccounted, ActiveInRange, GenerationsDistinct, Fresh,
     OneInFlight, SlotsWiped, OpenHeld, poolVars, flightVars
<1>4. TabsCoherent'
  BY <1>1 DEF CoreInv, TabsCoherent, TabCoherent, HasDial, flightVars
<1> QED BY <1>2, <1>3, <1>4 DEF CoreInv

(* reconnect keeps the invariant on a tab that is lost: the new generation *)
(* is in no message, and a tick of the old one no longer finds the tab.    *)
LEMMA RedialStep ==
  ASSUME CoreInv, NEW s \in Tabs, state[s] = "lost", NEW auto \in BOOLEAN,
         Redial(s, auto), ticks' \subseteq ticks,
         \A t \in Tabs : t # s /\ tgen[t] \in ticks => tgen[t] \in ticks'
  PROVE CoreInv'
<1> DEFINE g == gen + 1
           new == [gen |-> g, auto |-> auto]
<1>1. /\ gen < MaxGen /\ gen' = g
      /\ tgen' = [tgen EXCEPT ![s] = g]
      /\ state' = [state EXCEPT ![s] = "reconnecting"]
      /\ until' = [until EXCEPT ![s] = FALSE]
      /\ dials' = dials \cup {new}
      /\ UNCHANGED <<order, active, free, live, id, session, attempt, activity,
                     pumpTo, readers, open>>
  BY DEF Redial, poolVars
<1>2. g \in 1..MaxGen /\ g \in 0..MaxGen /\ g > gen /\ gen \in Nat /\ Tabs \subseteq Slots
  BY <1>1, StripTabs
<1>3. new.gen = g /\ new \in [gen : 1..MaxGen, auto : BOOLEAN]
  BY <1>2
<1> HIDE DEF new
<1>4. Tabs' = Tabs
  BY <1>1 DEF Tabs
<1>5. /\ \A t \in Tabs : tgen[t] \in Nat /\ tgen[t] < g
      /\ tgen'[s] = g /\ state'[s] = "reconnecting" /\ session[s] = NoGen
      /\ \A t \in Tabs : t # s => tgen'[t] = tgen[t] /\ state'[t] = state[t]
                                 /\ until'[t] = until[t]
  <2>1. \A t \in Tabs : tgen[t] \in 0..MaxGen /\ tgen[t] <= gen
    BY <1>2 DEF CoreInv, CoreType, Fresh
  <2>2. \A t \in Tabs : tgen[t] \in Nat /\ tgen[t] < g
    BY <1>2, <2>1
  <2>3. session[s] = NoGen
    BY DEF CoreInv, TabsCoherent, TabCoherent
  <2>4. /\ tgen'[s] = g /\ state'[s] = "reconnecting"
        /\ \A t \in Tabs : t # s => tgen'[t] = tgen[t] /\ state'[t] = state[t]
                                   /\ until'[t] = until[t]
    BY <1>1, <1>2 DEF CoreInv, CoreType
  <2> QED BY <2>2, <2>3, <2>4
<1>6. /\ \A d \in dials : d.gen # g /\ d.gen \in Nat /\ d.gen <= gen
      /\ \A h \in ticks \cup readers \cup open : h # g /\ h \in Nat /\ h <= gen
  <2>1. /\ \A d \in dials : d.gen \in 1..MaxGen /\ d.gen <= gen
        /\ \A h \in ticks \cup readers \cup open : h \in 1..MaxGen /\ h <= gen
    BY DEF CoreInv, CoreType, Fresh
  <2> QED BY <1>2, <2>1
<1>7. CoreType'
  BY <1>1, <1>2, <1>3 DEF CoreInv, CoreType
<1>8. SlotsAccounted' /\ ActiveInRange'
  BY <1>1, <1>4 DEF CoreInv, SlotsAccounted, ActiveInRange
<1>9. GenerationsDistinct'
  BY <1>4, <1>5 DEF CoreInv, GenerationsDistinct
<1>10. Fresh'
  BY <1>1, <1>2, <1>3, <1>4, <1>5, <1>6 DEF CoreInv, Fresh, NoGen
<1>11. OneInFlight'
  BY <1>1, <1>3, <1>6 DEF CoreInv, OneInFlight
<1>12. SlotsWiped' /\ OpenHeld'
  BY <1>1, <1>4 DEF CoreInv, SlotsWiped, OpenHeld
<1>13. TabsCoherent'
  <2> SUFFICES ASSUME NEW t \in Tabs PROVE TabCoherent(t)'
    BY <1>4 DEF TabsCoherent
  <2>1. TabCoherent(t)
    BY DEF CoreInv, TabsCoherent
  <2>2. CASE t = s
    BY <1>1, <1>5, <1>6, <2>1, <2>2 DEF TabCoherent
  <2>3. CASE t # s
    <3>1. HasDial(t)' => HasDial(t)
      BY <1>1, <1>3, <1>5, <2>3 DEF HasDial
    <3>2. tgen[t] \in ticks' <=> tgen[t] \in ticks
      BY <2>3
    <3> QED BY <1>1, <1>5, <2>1, <2>3, <3>1, <3>2 DEF TabCoherent
  <2> QED BY <2>2, <2>3
<1> QED BY <1>7, <1>8, <1>9, <1>10, <1>11, <1>12, <1>13 DEF CoreInv

(* A tab that loses its session, or whose dial failed, goes to "lost": the *)
(* message that said so was the only thing in flight for its generation,   *)
(* so the tick armed next (or the lack of one) is all that is left.        *)
LEMMA LostStep ==
  ASSUME CoreInv, NEW s \in Tabs, NEW g, g = tgen[s],
         Schedule(s) \/ Park(s),
         UNCHANGED <<gen, order, active, poolVars, id, tgen, activity>>,
         dials' = dials \ {d \in dials : d.gen = g}, readers' = readers \ {g},
         g \notin ticks,
         open' = open \ {g}
  PROVE CoreInv'
<1>1. /\ state' = [state EXCEPT ![s] = "lost"]
      /\ session' = [session EXCEPT ![s] = NoGen]
      /\ pumpTo' = [pumpTo EXCEPT ![s] = NoGen]
      /\ attempt' \in [Slots -> Nat]
      /\ \/ until' = [until EXCEPT ![s] = TRUE] /\ ticks' = ticks \cup {g}
         \/ until' = [until EXCEPT ![s] = FALSE] /\ ticks' = ticks
  <2>1. CASE Schedule(s)
    <3>1. s \in Slots /\ attempt[s] \in Nat
      BY StripTabs DEF CoreInv, CoreType
    <3>2. attempt' = [attempt EXCEPT ![s] = attempt[s] + 1]
      BY <2>1 DEF Schedule
    <3>3. attempt' \in [Slots -> Nat]
      BY <3>1, <3>2 DEF CoreInv, CoreType
    <3> QED BY <2>1, <3>3 DEF Schedule
  <2>2. CASE Park(s)
    BY <2>2 DEF Park, CoreInv, CoreType
  <2> QED BY <2>1, <2>2
<1>2. Tabs \subseteq Slots /\ Tabs' = Tabs
  BY StripTabs DEF Tabs
<1>3. g \in 1..MaxGen /\ g <= gen
  <2>1. s \in Slots /\ tgen[s] # 0 /\ tgen[s] <= gen
    BY <1>2 DEF CoreInv, Fresh, NoGen
  <2>2. tgen[s] \in 0..MaxGen
    BY <2>1 DEF CoreInv, CoreType
  <2> QED BY <2>1, <2>2, StripTabs
<1>4. /\ state'[s] = "lost" /\ session'[s] = NoGen /\ pumpTo'[s] = NoGen
      /\ until'[s] <=> g \in ticks'
      /\ \A t \in Slots : t # s => state'[t] = state[t] /\ session'[t] = session[t]
                        /\ pumpTo'[t] = pumpTo[t] /\ until'[t] = until[t]
      /\ \A h : h # g => (h \in ticks' <=> h \in ticks)
      /\ tgen' = tgen
      /\ \A t \in Tabs : t # s => tgen[t] # g
  <2>1. s \in Slots BY <1>2
  <2>2. /\ state'[s] = "lost" /\ session'[s] = NoGen /\ pumpTo'[s] = NoGen
        /\ \A t \in Slots : t # s => state'[t] = state[t] /\ session'[t] = session[t]
                                     /\ pumpTo'[t] = pumpTo[t]
    BY <1>1, <2>1 DEF CoreInv, CoreType
  <2>3. /\ until'[s] <=> g \in ticks'
        /\ \A t \in Slots : t # s => until'[t] = until[t]
    BY <1>1, <2>1 DEF CoreInv, CoreType
  <2> QED BY <1>1, <2>2, <2>3 DEF CoreInv, GenerationsDistinct
<1>5. CoreType'
  <2>1. ticks' \subseteq 1..MaxGen /\ until' \in [Slots -> BOOLEAN]
    BY <1>1, <1>3 DEF CoreInv, CoreType
  <2>2. /\ state' \in [Slots -> {"none", "connecting", "live", "lost", "reconnecting"}]
        /\ session' \in [Slots -> 0..MaxGen] /\ pumpTo' \in [Slots -> 0..MaxGen]
    <3>1. 0 \in 0..MaxGen BY StripTabs
    <3> QED BY <1>1, <3>1 DEF CoreInv, CoreType, NoGen
  <2> QED BY <1>1, <2>1, <2>2 DEF CoreInv, CoreType, poolVars
<1>6. SlotsAccounted' /\ ActiveInRange' /\ GenerationsDistinct'
  BY <1>2 DEF CoreInv, SlotsAccounted, ActiveInRange, GenerationsDistinct, poolVars
<1>7. Fresh'
  BY <1>1, <1>2, <1>3 DEF CoreInv, Fresh
<1>8. OneInFlight'
  BY <1>1 DEF CoreInv, OneInFlight
<1>9. SlotsWiped'
  BY <1>2, <1>4 DEF CoreInv, SlotsWiped
<1>10. TabsCoherent'
  <2> SUFFICES ASSUME NEW t \in Tabs PROVE TabCoherent(t)'
    BY <1>2 DEF TabsCoherent
  <2>1. TabCoherent(t) /\ t \in Slots
    BY <1>2 DEF CoreInv, TabsCoherent
  <2>2. CASE t = s
    BY <1>4, <2>2 DEF TabCoherent, HasDial
  <2>3. CASE t # s
    BY <1>4, <2>1, <2>3 DEF TabCoherent, HasDial
  <2> QED BY <2>2, <2>3
<1>11. OpenHeld'
  <2> SUFFICES ASSUME NEW h \in open' PROVE \E t \in Tabs : session'[t] = h
    BY <1>2 DEF OpenHeld
  <2>1. PICK t \in Tabs : session[t] = h
    BY DEF CoreInv, OpenHeld
  <2>2. h # g /\ h # NoGen
    BY DEF CoreInv, CoreType, NoGen
  <2>3. t # s
    BY <2>1, <2>2 DEF CoreInv, TabsCoherent, TabCoherent
  <2> QED BY <1>2, <1>4, <2>1, <2>3
<1> QED BY <1>5, <1>6, <1>7, <1>8, <1>9, <1>10, <1>11 DEF CoreInv

(* A dial in flight belongs to a tab that has no session yet.              *)
LEMMA DialOwner ==
  ASSUME CoreInv, NEW d \in dials, NEW s \in TabByGen(d.gen)
  PROVE /\ s \in Tabs /\ tgen[s] = d.gen
        /\ state[s] \in {"connecting", "reconnecting"}
        /\ session[s] = NoGen
        /\ d.gen \notin ticks /\ d.gen \notin readers /\ d.gen \notin open
        /\ d.gen \in 1..MaxGen /\ d.gen <= gen
        /\ dials \ {d} = dials \ {e \in dials : e.gen = d.gen}
<1>1. s \in Tabs /\ tgen[s] = d.gen /\ TabCoherent(s) /\ HasDial(s)
  BY DEF TabByGen, CoreInv, TabsCoherent, HasDial
<1>2. d.gen \in 1..MaxGen /\ d.gen <= gen /\ d.gen \notin ticks /\ d.gen \notin readers
      /\ d.gen # NoGen
  BY DEF CoreInv, CoreType, Fresh, OneInFlight, NoGen
<1>3. state[s] \in {"connecting", "reconnecting"} /\ session[s] = NoGen
  BY <1>1, <1>2 DEF TabCoherent
<1>4. d.gen \notin open
  <2> SUFFICES ASSUME d.gen \in open PROVE FALSE
    OBVIOUS
  <2>1. PICK t \in Tabs : session[t] = d.gen
    BY DEF CoreInv, OpenHeld
  <2>2. tgen[t] = d.gen
    BY <2>1, <1>2 DEF CoreInv, TabsCoherent, TabCoherent
  <2>3. t = s
    BY <1>1, <2>2 DEF CoreInv, GenerationsDistinct
  <2> QED BY <1>2, <1>3, <2>1, <2>3
<1>5. dials \ {d} = dials \ {e \in dials : e.gen = d.gen}
  BY DEF CoreInv, OneInFlight
<1> QED BY <1>1, <1>2, <1>3, <1>4, <1>5

(* A tab found by the generation of a reader is live.                      *)
LEMMA ReaderOwner ==
  ASSUME CoreInv, NEW g \in readers, NEW s \in TabByGen(g)
  PROVE /\ s \in Tabs /\ tgen[s] = g /\ state[s] = "live" /\ session[s] = g
        /\ g \notin ticks /\ \A d \in dials : d.gen # g
<1>1. s \in Tabs /\ tgen[s] = g /\ TabCoherent(s)
  BY DEF TabByGen, CoreInv, TabsCoherent
<1> QED BY <1>1 DEF TabCoherent, CoreInv, OneInFlight

(* Messages that find no tab: consuming them disturbs nothing.             *)
LEMMA DroppedStep ==
  ASSUME CoreInv,
         UNCHANGED <<gen, order, active, poolVars, tabVars, open>>,
         dials' \subseteq dials, ticks' \subseteq ticks, readers' \subseteq readers,
         \A t \in Tabs : tgen[t] \in ticks => tgen[t] \in ticks' \/ state[t] # "lost",
         \A t \in Tabs : tgen[t] \in readers => tgen[t] \in readers'
  PROVE CoreInv'
<1>1. Tabs' = Tabs
  BY DEF Tabs
<1>2. CoreType'
  BY DEF CoreInv, CoreType, poolVars, tabVars
<1>3. SlotsAccounted' /\ ActiveInRange' /\ GenerationsDistinct' /\ Fresh'
      /\ OneInFlight' /\ SlotsWiped' /\ OpenHeld'
  BY <1>1 DEF CoreInv, SlotsAccounted, ActiveInRange, GenerationsDistinct, Fresh,
     OneInFlight, SlotsWiped, OpenHeld, poolVars, tabVars
<1>4. TabsCoherent'
  <2> SUFFICES ASSUME NEW t \in Tabs PROVE TabCoherent(t)'
    BY <1>1 DEF TabsCoherent
  <2>1. TabCoherent(t)
    BY DEF CoreInv, TabsCoherent
  <2>2. HasDial(t)' => HasDial(t)
    BY DEF HasDial, tabVars
  <2> QED BY <2>1, <2>2 DEF TabCoherent, tabVars
<1> QED BY <1>2, <1>3, <1>4 DEF CoreInv

(* connectedMsg.                                                           *)
LEMMA ConnectedStep ==
  ASSUME CoreInv, NEW d \in dials, Connected(d)
  PROVE CoreInv'
<1>0. dials' = dials \ {d} /\ UNCHANGED <<gen, order, active, free, live, ticks>>
  BY DEF Connected, poolVars
<1>1. CASE TabByGen(d.gen) = {}
  <2>1. UNCHANGED <<tabVars, readers, open>>
    BY <1>1 DEF Connected
  <2> QED BY <1>0, <2>1, DroppedStep DEF poolVars
<1>2. ASSUME NEW s \in TabByGen(d.gen),
         /\ session' = [session EXCEPT ![s] = d.gen]
         /\ state' = [state EXCEPT ![s] = "live"]
         /\ attempt' = [attempt EXCEPT ![s] = 0]
         /\ until' = [until EXCEPT ![s] = FALSE]
         /\ pumpTo' = [pumpTo EXCEPT ![s] = d.gen]
         /\ activity' = [activity EXCEPT ![s] = IF s = cur THEN @ ELSE TRUE]
         /\ readers' = readers \cup {d.gen}
         /\ open' = open \cup {d.gen}
         /\ UNCHANGED <<id, tgen>>
      PROVE CoreInv'
  <2> DEFINE g == d.gen
  <2>1. /\ s \in Tabs /\ tgen[s] = g
        /\ session[s] = NoGen
        /\ g \notin ticks /\ g \notin readers /\ g \notin open
        /\ g \in 1..MaxGen /\ g <= gen
        /\ dials' = dials \ {e \in dials : e.gen = g}
    BY <1>0, <1>2, DialOwner
  <2> HIDE DEF g
  <2>2. Tabs' = Tabs /\ Tabs \subseteq Slots /\ s \in Slots
    BY <1>0, <2>1, StripTabs DEF Tabs
  <2>3. /\ session'[s] = g /\ state'[s] = "live" /\ pumpTo'[s] = g
        /\ \A t \in Slots : t # s => session'[t] = session[t] /\ state'[t] = state[t]
                          /\ pumpTo'[t] = pumpTo[t] /\ until'[t] = until[t]
        /\ \A t \in Tabs : t # s => tgen[t] # g
    BY <1>2, <2>1, <2>2 DEF CoreInv, CoreType, GenerationsDistinct, g
  <2>4. CoreType'
    <3>1. activity' \in [Slots -> BOOLEAN] /\ until' \in [Slots -> BOOLEAN]
      BY <1>2 DEF CoreInv, CoreType
    <3>2. g \in 0..MaxGen /\ 0 \in Nat
      BY <2>1, StripTabs
    <3>3. /\ session' \in [Slots -> 0..MaxGen] /\ pumpTo' \in [Slots -> 0..MaxGen]
          /\ state' \in [Slots -> {"none", "connecting", "live", "lost", "reconnecting"}]
          /\ attempt' \in [Slots -> Nat]
      BY <1>2, <3>2 DEF CoreInv, CoreType, g
    <3> QED BY <1>0, <1>2, <2>1, <3>1, <3>3 DEF CoreInv, CoreType, g
  <2>5. SlotsAccounted' /\ ActiveInRange' /\ GenerationsDistinct'
    BY <1>0, <1>2, <2>2 DEF CoreInv, SlotsAccounted, ActiveInRange, GenerationsDistinct
  <2>6. Fresh'
    BY <1>0, <1>2, <2>1, <2>2 DEF CoreInv, Fresh, g
  <2>7. OneInFlight'
    BY <1>0, <1>2, <2>1 DEF CoreInv, OneInFlight, g
  <2>8. SlotsWiped'
    BY <2>1, <2>2, <2>3 DEF CoreInv, SlotsWiped
  <2>9. TabsCoherent'
    <3> SUFFICES ASSUME NEW t \in Tabs PROVE TabCoherent(t)'
      BY <2>2 DEF TabsCoherent
    <3>1. TabCoherent(t) /\ t \in Slots
      BY <2>2 DEF CoreInv, TabsCoherent
    <3>2. CASE t = s
      BY <1>2, <2>1, <2>3, <3>2 DEF TabCoherent, g
    <3>3. CASE t # s
      <4>1. /\ tgen[t] \in readers' <=> tgen[t] \in readers
            /\ tgen[t] \in open' <=> tgen[t] \in open
        BY <1>2, <2>3, <3>3 DEF g
      <4>2. HasDial(t)' => HasDial(t)
        BY <1>0, <1>2 DEF HasDial
      <4> QED BY <1>0, <1>2, <2>3, <3>1, <3>3, <4>1, <4>2 DEF TabCoherent
    <3> QED BY <3>2, <3>3
  <2>10. OpenHeld'
    BY <1>2, <2>1, <2>2, <2>3 DEF CoreInv, OpenHeld, CoreType, NoGen, g
  <2> QED BY <2>4, <2>5, <2>6, <2>7, <2>8, <2>9, <2>10 DEF CoreInv
<1> QED BY <1>1, <1>2 DEF Connected

(* connectFailedMsg.                                                       *)
LEMMA ConnectFailedStep ==
  ASSUME CoreInv, NEW d \in dials, NEW err \in DialErrors, ConnectFailed(d, err)
  PROVE CoreInv'
<1>0. dials' = dials \ {d} /\ UNCHANGED <<gen, readers>>
  BY DEF ConnectFailed
<1>1. CASE TabByGen(d.gen) = {}
  <2>1. UNCHANGED <<order, active, poolVars, tabVars, ticks, open>>
    BY <1>1 DEF ConnectFailed
  <2> QED BY <1>0, <2>1, DroppedStep
<1>2. ASSUME NEW s \in TabByGen(d.gen), Schedule(s) \/ Park(s),
             UNCHANGED <<order, active, poolVars, id, tgen, activity, open>>
      PROVE CoreInv'
  <2>1. /\ s \in Tabs /\ tgen[s] = d.gen
        /\ d.gen \notin ticks /\ readers' = readers \ {d.gen} /\ open' = open \ {d.gen}
        /\ dials' = dials \ {e \in dials : e.gen = d.gen}
    BY <1>0, <1>2, DialOwner
  <2> QED BY <1>0, <1>2, <2>1, LostStep
<1>3. ASSUME NEW i \in DOMAIN order, CloseTab(i), UNCHANGED ticks
      PROVE CoreInv'
  BY <1>0, <1>3, CloseTabStep
<1> QED BY <1>1, <1>2, <1>3 DEF ConnectFailed

(* reconnectMsg.                                                           *)
LEMMA TickStep ==
  ASSUME CoreInv, NEW g \in ticks, Tick(g)
  PROVE CoreInv'
<1>1. ticks' = ticks \ {g}
  BY DEF Tick
<1>2. CASE /\ \A s \in TabByGen(g) : state[s] # "lost"
           /\ UNCHANGED <<gen, order, active, poolVars, tabVars, dials, readers, open>>
  <2>1. \A t \in Tabs : tgen[t] \in ticks => tgen[t] \in ticks' \/ state[t] # "lost"
    BY <1>1, <1>2 DEF TabByGen
  <2> QED BY <1>1, <1>2, <2>1, DroppedStep
<1>3. ASSUME NEW s \in TabByGen(g), state[s] = "lost", Redial(s, TRUE)
      PROVE CoreInv'
  <2>1. s \in Tabs /\ \A t \in Tabs : t # s => tgen[t] # g
    BY <1>3 DEF TabByGen, CoreInv, GenerationsDistinct
  <2> QED BY <1>1, <1>3, <2>1, RedialStep
<1> QED BY <1>2, <1>3 DEF Tick

(* outputMsg.                                                              *)
LEMMA OutputStep ==
  ASSUME CoreInv, NEW g \in readers, Output(g)
  PROVE CoreInv'
<1>1. UNCHANGED <<gen, order, active, poolVars, id, state, tgen, session,
                  attempt, until, pumpTo, dials, ticks, open>>
  BY DEF Output
<1>2. CASE TabByGen(g) = {} /\ readers' = readers \ {g} /\ UNCHANGED activity
  <2>1. \A t \in Tabs : tgen[t] \in readers => tgen[t] \in readers'
    BY <1>2 DEF TabByGen
  <2> QED BY <1>1, <1>2, <2>1, DroppedStep DEF tabVars
<1>3. ASSUME NEW s \in TabByGen(g),
             readers' = (readers \ {g}) \cup {session[s]},
             activity' = [activity EXCEPT ![s] = IF s = cur THEN @ ELSE TRUE]
      PROVE CoreInv'
  <2>1. readers' = readers
    BY <1>3, ReaderOwner
  <2>2. activity' \in [Slots -> BOOLEAN]
    BY <1>3 DEF CoreInv, CoreType
  <2>3. active' \in 0..Len(order) /\ (active' = 0 <=> order = <<>>)
    BY <1>1 DEF CoreInv, ActiveInRange
  <2> QED BY <1>1, <2>1, <2>2, <2>3, ScreenStep DEF flightVars
<1> QED BY <1>2, <1>3 DEF Output

(* sessionEndedMsg.                                                        *)
LEMMA SessionEndedStep ==
  ASSUME CoreInv, NEW g \in readers, NEW lost \in BOOLEAN, SessionEnded(g, lost)
  PROVE CoreInv'
<1>1. readers' = readers \ {g} /\ UNCHANGED <<gen, dials>>
  BY DEF SessionEnded
<1>2. CASE TabByGen(g) = {}
           /\ UNCHANGED <<order, active, poolVars, tabVars, ticks, open>>
  <2>1. \A t \in Tabs : tgen[t] \in readers => tgen[t] \in readers'
    BY <1>1, <1>2 DEF TabByGen
  <2> QED BY <1>1, <1>2, <2>1, DroppedStep
<1>3. ASSUME NEW s \in TabByGen(g), Schedule(s), open' = open \ {g},
             UNCHANGED <<order, active, poolVars, id, tgen, activity>>
      PROVE CoreInv'
  <2>1. /\ s \in Tabs /\ tgen[s] = g /\ g \notin ticks
        /\ dials' = dials \ {d \in dials : d.gen = g}
    BY <1>1, <1>3, ReaderOwner
  <2> QED BY <1>1, <1>3, <2>1, LostStep
<1>4. ASSUME NEW s \in TabByGen(g), NEW i \in DOMAIN order, order[i] = s,
             CloseTab(i), UNCHANGED ticks
      PROVE CoreInv'
  <2>1. s \in Tabs /\ tgen[s] = g
    BY <1>4, ReaderOwner
  <2>2. \A t \in Tabs : t # order[i] /\ tgen[t] \in readers => tgen[t] \in readers'
    BY <1>1, <1>4, <2>1 DEF CoreInv, GenerationsDistinct
  <2> QED BY <1>1, <1>4, <2>2, CloseTabStep
<1> QED BY <1>2, <1>3, <1>4 DEF SessionEnded

(* teardownAllSessions.                                                    *)
LEMMA QuitStep ==
  ASSUME CoreInv, Quit
  PROVE CoreInv'
<1>1. /\ order' = <<>> /\ active' = 0 /\ free' = free \cup Tabs
      /\ open' = open \ {session[s] : s \in Tabs}
      /\ session' = [s \in Slots |-> NoGen] /\ pumpTo' = [s \in Slots |-> NoGen]
      /\ UNCHANGED <<gen, live, dials, ticks, readers>>
  BY DEF Quit
<1>2. Tabs' = {} /\ Tabs \subseteq Slots
  BY <1>1, StripTabs DEF Tabs, Range
<1>3. CoreType'
  <2>1. 0 \in 0..MaxGen BY StripTabs
  <2>2. /\ id' \in [Slots -> Servers \cup {NoServer}]
        /\ state' \in [Slots -> {"none", "connecting", "live", "lost", "reconnecting"}]
        /\ tgen' \in [Slots -> 0..MaxGen] /\ session' \in [Slots -> 0..MaxGen]
        /\ attempt' \in [Slots -> Nat] /\ pumpTo' \in [Slots -> 0..MaxGen]
    BY <2>1 DEF Quit, NoGen
  <2>3. until' \in [Slots -> BOOLEAN] /\ activity' \in [Slots -> BOOLEAN]
    BY DEF Quit
  <2>4. order' \in Seq(Slots) /\ active' \in Nat
    BY <1>1
  <2> QED BY <1>1, <1>2, <2>2, <2>3, <2>4 DEF CoreInv, CoreType
<1>4. SlotsAccounted' /\ ActiveInRange'
  <2>1. Len(order') = 0 /\ IsInjective(order')
    BY <1>1 DEF IsInjective
  <2> QED BY <1>1, <1>2, <2>1 DEF CoreInv, SlotsAccounted, ActiveInRange
<1>5. GenerationsDistinct' /\ Fresh' /\ OneInFlight' /\ TabsCoherent'
  BY <1>1, <1>2 DEF CoreInv, GenerationsDistinct, Fresh, OneInFlight, TabsCoherent
<1>6. SlotsWiped' /\ OpenHeld'
  BY <1>1, <1>2 DEF CoreInv, SlotsWiped, OpenHeld
<1> QED BY <1>3, <1>4, <1>5, <1>6 DEF CoreInv

(* Steps that leave tabs, pool and messages alone.                         *)
LEMMA CoreFrame ==
  ASSUME CoreInv, UNCHANGED coreVars
  PROVE CoreInv'
<1>1. UNCHANGED <<gen, order, active, poolVars, tabVars, open, dials, ticks, readers>>
  BY DEF coreVars, flightVars
<1> QED BY <1>1, DroppedStep

(* switchTo.                                                               *)
LEMMA SwitchStep ==
  ASSUME CoreInv, NEW i \in DOMAIN order, SwitchTo(i),
         UNCHANGED <<gen, order, poolVars, id, state, tgen, session, attempt,
                     until, pumpTo, flightVars>>
  PROVE CoreInv'
<1>1. active' = i /\ activity' = [activity EXCEPT ![order[i]] = FALSE]
  BY DEF SwitchTo
<1>2. i \in 1..Len(order) /\ Len(order) \in Nat
  BY StripTabs
<1>3. order # <<>> /\ active' \in 0..Len(order) /\ active' # 0
  BY <1>1, <1>2
<1>4. activity' \in [Slots -> BOOLEAN]
  BY <1>1 DEF CoreInv, CoreType
<1> QED BY <1>3, <1>4, ScreenStep

(* openTab as a handler.                                                   *)
LEMMA OpenTabStep ==
  ASSUME CoreInv, NEW srv \in Servers, NEW force \in BOOLEAN, OpenTab(srv, force)
  PROVE CoreInv'
<1>1. CASE NewTab(srv, TRUE)
  BY <1>1, NewTabStep
<1>2. ASSUME NEW i \in DOMAIN order, SwitchTo(i),
             UNCHANGED <<gen, order, poolVars, id, state, tgen, session, attempt,
                         until, pumpTo, flightVars>>
      PROVE CoreInv'
  BY <1>2, SwitchStep
<1>3. CASE UNCHANGED coreVars
  BY <1>3, CoreFrame
<1> QED BY <1>1, <1>2, <1>3, Zenon DEF OpenTab, coreVars

(* The keyboard.                                                           *)
LEMMA KeysStep ==
  ASSUME CoreInv, AppType, Keys
  PROVE CoreInv'
<1>1. ASSUME NEW srv \in Servers, NEW force \in BOOLEAN, Open(srv, force)
      PROVE CoreInv'
  BY <1>1, OpenTabStep DEF Open
<1>2. ASSUME NEW i \in DOMAIN order, Switch(i)
      PROVE CoreInv'
  BY <1>2, SwitchStep DEF Switch
<1>3. CASE CloseActive
  <2>1. active \in DOMAIN order
    BY <1>3, StripTabs DEF CloseActive, CoreInv, ActiveInRange
  <2> QED BY <1>3, <2>1, CloseTabStep DEF CloseActive
<1>4. CASE ManualReconnect
  <2>1. cur \in Tabs
    BY <1>4, StripTabs DEF ManualReconnect, CoreInv, ActiveInRange, cur
  <2> QED BY <1>4, <2>1, RedialStep DEF ManualReconnect
<1>5. ASSUME NEW srv \in Servers, OpenSFTP(srv)
      PROVE CoreInv'
  BY <1>5, CoreFrame DEF OpenSFTP, coreVars
<1>6. CASE Retry
  <2>1. lastAttempt \in Servers
    BY <1>6 DEF Retry, AppType
  <2>2. CASE OpenTab(lastAttempt, FALSE)
    BY <2>1, <2>2, OpenTabStep
  <2>3. CASE UNCHANGED coreVars
    BY <2>3, CoreFrame
  <2> QED BY <1>6, <2>2, <2>3 DEF Retry, coreVars
<1>7. CASE Dismiss
  BY <1>7, CoreFrame DEF Dismiss, coreVars
<1>8. CASE KeyPassEnter
  <2>1. keyPass.srv \in Servers /\ (~keyPass.sftp) \in BOOLEAN
    BY <1>8 DEF KeyPassEnter, AppType
  <2>2. CASE NewTab(keyPass.srv, ~keyPass.sftp)
    BY <2>1, <2>2, NewTabStep
  <2>3. CASE UNCHANGED coreVars
    BY <2>3, CoreFrame
  <2> QED BY <1>8, <2>2, <2>3, Zenon DEF KeyPassEnter, coreVars
<1>9. CASE KeyPassEsc
  BY <1>9, CoreFrame DEF KeyPassEsc, coreVars
<1>10. CASE Quit
  BY <1>10, QuitStep
<1> QED
  BY <1>1, <1>2, <1>3, <1>4, <1>5, <1>6, <1>7, <1>8, <1>9, <1>10 DEF Keys

(* The message loop.                                                       *)
LEMMA MessagesStep ==
  ASSUME CoreInv, Messages
  PROVE CoreInv'
<1>1. ASSUME NEW d \in dials, DialDone(d)
      PROVE CoreInv'
  BY <1>1, ConnectedStep, ConnectFailedStep DEF DialDone
<1>2. ASSUME NEW err, SftpDone(err)
      PROVE CoreInv'
  BY <1>2, CoreFrame DEF SftpDone, coreVars
<1> QED BY <1>1, <1>2, TickStep, OutputStep, SessionEndedStep DEF Messages

LEMMA CoreStep ==
  ASSUME CoreInv, AppType, [Next]_vars
  PROVE CoreInv'
<1>1. CASE UNCHANGED vars
  BY <1>1, CoreFrame DEF vars, coreVars
<1> QED BY <1>1, KeysStep, MessagesStep DEF Next

LEMMA CoreInit ==
  ASSUME Init
  PROVE IInv
<1>1. Tabs = {} /\ Len(order) = 0 /\ IsInjective(order)
  BY DEF Init, Tabs, Range, IsInjective
<1>2. MaxTabs \in Nat /\ MaxGen \in Nat /\ 0 \in 0..MaxGen /\ 0 \in 0..MaxTabs
  BY TabsAssumption
<1>3. CoreType
  <2>1. order \in Seq(Slots)
    BY DEF Init
  <2>2. gen \in 0..MaxGen /\ live \in 0..MaxTabs /\ active \in Nat /\ free \subseteq Slots
    BY <1>2 DEF Init
  <2>3. /\ id \in [Slots -> Servers \cup {NoServer}]
        /\ state \in [Slots -> {"none", "connecting", "live", "lost", "reconnecting"}]
        /\ tgen \in [Slots -> 0..MaxGen] /\ session \in [Slots -> 0..MaxGen]
        /\ attempt \in [Slots -> Nat] /\ pumpTo \in [Slots -> 0..MaxGen]
    BY <1>2 DEF Init, NoGen
  <2>4. until \in [Slots -> BOOLEAN] /\ activity \in [Slots -> BOOLEAN]
    BY DEF Init
  <2> QED BY <2>1, <2>2, <2>3, <2>4 DEF Init, CoreType
<1>4. SlotsAccounted /\ ActiveInRange /\ GenerationsDistinct
  BY <1>1 DEF Init, SlotsAccounted, ActiveInRange, GenerationsDistinct
<1>5. Fresh /\ OneInFlight /\ SlotsWiped /\ TabsCoherent /\ OpenHeld
  BY <1>1 DEF Init, Fresh, OneInFlight, SlotsWiped, TabsCoherent, OpenHeld
<1>6. AppType
  <2>1. keyPass \in [srv : Servers \cup {NoServer}, sftp : BOOLEAN]
    BY DEF Init, NoKey
  <2> QED BY <1>1, <2>1 DEF Init, AppType
<1>7. IdsReal
  BY <1>1 DEF IdsReal
<1> QED BY <1>3, <1>4, <1>5, <1>6, <1>7 DEF CoreInv, IInv

-----------------------------------------------------------------------------
(* The servers that questions, cards and tabs are about.                   *)

(* Tabs keep their server, and new ones get a real one.                    *)
LEMMA IdsFrame ==
  ASSUME IdsReal, UNCHANGED <<order, id>>
  PROVE IdsReal'
BY DEF IdsReal, Tabs

LEMMA IdsNewTab ==
  ASSUME CoreInv, IdsReal, NEW srv \in Servers, NEW dialled, NewTab(srv, dialled)
  PROVE IdsReal'
<1>1. PICK s \in Slots : /\ PoolGet(s)
                         /\ order' = Append(order, s)
                         /\ id' = [id EXCEPT ![s] = srv]
  BY DEF NewTab
<1>2. s \notin Tabs /\ Tabs \subseteq Slots
  BY <1>1, StripTabs DEF PoolGet, CoreInv, SlotsAccounted
<1>3. Tabs' = Tabs \cup {s}
  BY <1>1, <1>2, AppendRange DEF CoreInv, CoreType, SlotsAccounted, Tabs
<1>4. id \in [Slots -> Servers \cup {NoServer}] /\ srv # NoServer
  BY TabsAssumption DEF CoreInv, CoreType
<1> QED BY <1>1, <1>2, <1>3, <1>4 DEF IdsReal

LEMMA IdsCloseTab ==
  ASSUME CoreInv, IdsReal, NEW i \in DOMAIN order, CloseTab(i)
  PROVE IdsReal'
<1>1. order' = RemoveAt(order, i) /\ id' = [id EXCEPT ![order[i]] = NoServer]
  BY DEF CloseTab
<1>2. Tabs' = Tabs \ {order[i]} /\ Tabs \subseteq Slots
  BY <1>1, RemoveAtRange, StripTabs DEF CoreInv, CoreType, SlotsAccounted, Tabs
<1>3. id \in [Slots -> Servers \cup {NoServer}]
  BY DEF CoreInv, CoreType
<1> QED BY <1>1, <1>2, <1>3 DEF IdsReal

LEMMA IdsOpenTab ==
  ASSUME CoreInv, IdsReal, NEW srv \in Servers, NEW force, OpenTab(srv, force)
  PROVE IdsReal'
<1>1. CASE UNCHANGED <<order, id>>
  BY <1>1, IdsFrame
<1>2. CASE NewTab(srv, TRUE)
  BY <1>2, IdsNewTab
<1> QED BY <1>1, <1>2, Zenon DEF OpenTab, tabVars

LEMMA IdsStep ==
  ASSUME CoreInv, AppType, IdsReal, [Next]_vars
  PROVE IdsReal'
<1>0. CASE UNCHANGED vars
  BY <1>0, IdsFrame DEF vars, tabVars
<1>1. ASSUME NEW srv \in Servers, NEW force \in BOOLEAN, Open(srv, force)
      PROVE IdsReal'
  BY <1>1, IdsOpenTab DEF Open
<1>2. ASSUME NEW i \in DOMAIN order, Switch(i)
      PROVE IdsReal'
  BY <1>2, IdsFrame DEF Switch
<1>3. CASE CloseActive
  <2>1. active \in DOMAIN order
    BY <1>3, StripTabs DEF CloseActive, CoreInv, ActiveInRange
  <2> QED BY <1>3, <2>1, IdsCloseTab DEF CloseActive
<1>4. CASE ManualReconnect
  BY <1>4, IdsFrame DEF ManualReconnect, Redial
<1>5. ASSUME NEW srv \in Servers, OpenSFTP(srv)
      PROVE IdsReal'
  BY <1>5, IdsFrame DEF OpenSFTP, tabVars
<1>6. CASE Retry
  <2>1. lastAttempt \in Servers
    BY <1>6 DEF Retry, AppType
  <2>2. CASE OpenTab(lastAttempt, FALSE)
    BY <2>1, <2>2, IdsOpenTab
  <2>3. CASE UNCHANGED <<order, id>>
    BY <2>3, IdsFrame
  <2> QED BY <1>6, <2>2, <2>3 DEF Retry, tabVars
<1>7. CASE Dismiss
  BY <1>7, IdsFrame DEF Dismiss, tabVars
<1>8. CASE KeyPassEnter
  <2>1. keyPass.srv \in Servers
    BY <1>8 DEF KeyPassEnter, AppType
  <2>2. CASE NewTab(keyPass.srv, ~keyPass.sftp)
    BY <2>1, <2>2, IdsNewTab
  <2>3. CASE UNCHANGED <<order, id>>
    BY <2>3, IdsFrame
  <2> QED BY <1>8, <2>2, <2>3, Zenon DEF KeyPassEnter, tabVars
<1>9. CASE KeyPassEsc
  BY <1>9, IdsFrame DEF KeyPassEsc, tabVars
<1>10. CASE Quit
  BY <1>10 DEF Quit, IdsReal, Tabs, Range
<1>11. ASSUME NEW d \in dials, Connected(d)
       PROVE IdsReal'
  BY <1>11, IdsFrame DEF Connected, tabVars
<1>12. ASSUME NEW d \in dials, NEW err, ConnectFailed(d, err)
       PROVE IdsReal'
  <2>1. ASSUME NEW i \in DOMAIN order, CloseTab(i)
        PROVE IdsReal'
    BY <2>1, IdsCloseTab
  <2>2. CASE UNCHANGED <<order, id>>
    BY <2>2, IdsFrame
  <2> QED BY <1>12, <2>1, <2>2 DEF ConnectFailed, tabVars
<1>13. ASSUME NEW g \in ticks, Tick(g)
       PROVE IdsReal'
  BY <1>13, IdsFrame DEF Tick, Redial, tabVars
<1>14. ASSUME NEW g \in readers, Output(g)
       PROVE IdsReal'
  BY <1>14, IdsFrame DEF Output
<1>15. ASSUME NEW g \in readers, NEW lost \in BOOLEAN, SessionEnded(g, lost)
       PROVE IdsReal'
  <2>1. ASSUME NEW i \in DOMAIN order, CloseTab(i)
        PROVE IdsReal'
    BY <2>1, IdsCloseTab
  <2>2. CASE UNCHANGED <<order, id>>
    BY <2>2, IdsFrame
  <2> QED BY <1>15, <2>1, <2>2 DEF SessionEnded, tabVars
<1>16. ASSUME NEW err, SftpDone(err)
       PROVE IdsReal'
  BY <1>16, IdsFrame DEF SftpDone, tabVars
<1>17. Keys => IdsReal'
  BY <1>1, <1>2, <1>3, <1>4, <1>5, <1>6, <1>7, <1>8, <1>9, <1>10 DEF Keys
<1>18. Messages => IdsReal'
  BY <1>11, <1>12, <1>13, <1>14, <1>15, <1>16 DEF Messages, DialDone
<1> QED BY <1>0, <1>17, <1>18 DEF Next

LEMMA AppStep ==
  ASSUME IInv, [Next]_vars
  PROVE AppType'
<1> DEFINE Known == Servers \cup {NoServer}
<1>0. CASE UNCHANGED appVars
  BY <1>0 DEF appVars, AppType, IInv
<1>1. CASE UNCHANGED <<keyPass, sftp, quitting>>
           /\ \E srv \in Servers, force \in BOOLEAN : OpenTab(srv, force)
  <2>1. PICK srv \in Servers, force \in BOOLEAN : OpenTab(srv, force)
    BY <1>1
  <2>2. \/ UNCHANGED <<lastAttempt, lastWasSFTP>>
        \/ lastAttempt' = srv /\ lastWasSFTP' = FALSE
    BY <2>1 DEF OpenTab
  <2>3. card' = NoServer \/ UNCHANGED card
    BY <2>1 DEF OpenTab, SwitchTo, NewTab
  <2>4. srv # NoServer BY TabsAssumption
  <2> QED BY <1>1, <2>2, <2>3, <2>4 DEF AppType, IInv, NoKey
<1>2. ASSUME NEW srv \in Servers, StartSFTP(srv), UNCHANGED <<keyPass, quitting>>
      PROVE AppType'
  <2>1. srv # NoServer BY TabsAssumption
  <2> QED BY <1>2, <2>1 DEF StartSFTP, AppType, IInv, NoKey
<1>3. ASSUME NEW i \in DOMAIN order, SwitchTo(i),
             UNCHANGED <<keyPass, sftp, lastAttempt, lastWasSFTP, quitting>>
      PROVE AppType'
  BY <1>3 DEF SwitchTo, AppType, IInv, NoKey
<1>4. CASE Retry
  <2>1. lastAttempt \in Servers
    BY <1>4 DEF Retry, AppType, IInv
  <2>2. CASE OpenTab(lastAttempt, FALSE) /\ UNCHANGED sftp
    BY <1>4, <2>1, <2>2, <1>1 DEF Retry
  <2>3. CASE StartSFTP(lastAttempt)
    BY <1>4, <2>1, <2>3, <1>2 DEF Retry
  <2> QED BY <1>4, <2>2, <2>3 DEF Retry
<1>5. CASE KeyPassEnter
  <2>1. keyPass.srv \in Servers /\ NoKey \in [srv : Known, sftp : BOOLEAN]
        /\ keyPass' = NoKey /\ quitting' = quitting
    BY <1>5 DEF KeyPassEnter, AppType, IInv, NoKey
  <2>2. \/ UNCHANGED <<sftp, lastAttempt, lastWasSFTP, card>>
        \/ StartSFTP(keyPass.srv)
        \/ NewTab(keyPass.srv, ~keyPass.sftp)
           /\ lastAttempt' = keyPass.srv /\ lastWasSFTP' = keyPass.sftp
           /\ (sftp' = sftp \/ sftp' = keyPass.srv)
    BY <1>5, Zenon DEF KeyPassEnter
  <2>3. keyPass.sftp \in BOOLEAN /\ keyPass.srv # NoServer
    BY <2>1, TabsAssumption DEF IInv, AppType
  <2>4. CASE UNCHANGED <<sftp, lastAttempt, lastWasSFTP, card>>
    BY <2>1, <2>4 DEF IInv, AppType
  <2>5. CASE StartSFTP(keyPass.srv)
    BY <2>1, <2>3, <2>5 DEF IInv, AppType, StartSFTP
  <2>6. CASE NewTab(keyPass.srv, ~keyPass.sftp)
             /\ lastAttempt' = keyPass.srv /\ lastWasSFTP' = keyPass.sftp
             /\ (sftp' = sftp \/ sftp' = keyPass.srv)
    <3>1. card' = NoServer
      BY <2>6 DEF NewTab
    <3> QED BY <2>1, <2>3, <2>6, <3>1 DEF IInv, AppType
  <2> QED BY <2>2, <2>4, <2>5, <2>6
<1>6. CASE KeyPassEsc
  BY <1>6 DEF KeyPassEsc, AppType, IInv, NoKey
<1>7. CASE Dismiss
  BY <1>7 DEF Dismiss, AppType, IInv, NoKey
<1>8. CASE Quit
  BY <1>8 DEF Quit, AppType, IInv, NoKey
<1>9. Keys => AppType'
  <2>1. ASSUME NEW srv \in Servers, NEW force \in BOOLEAN, Open(srv, force)
        PROVE AppType'
    BY <2>1, <1>1 DEF Open
  <2>2. ASSUME NEW i \in DOMAIN order, Switch(i)
        PROVE AppType'
    BY <2>2, <1>3 DEF Switch
  <2>3. CASE CloseActive \/ ManualReconnect
    BY <2>3, <1>0 DEF CloseActive, ManualReconnect
  <2>4. ASSUME NEW srv \in Servers, OpenSFTP(srv)
        PROVE AppType'
    BY <2>4, <1>2 DEF OpenSFTP
  <2> QED BY <2>1, <2>2, <2>3, <2>4, <1>4, <1>5, <1>6, <1>7, <1>8 DEF Keys
<1>10. ASSUME NEW d \in dials, Connected(d)
       PROVE AppType'
  <2>1. card' = card \/ card' = NoServer
    BY <1>10 DEF Connected
  <2>2. UNCHANGED <<keyPass, sftp, lastAttempt, lastWasSFTP, quitting>>
    BY <1>10 DEF Connected
  <2> QED BY <2>1, <2>2 DEF AppType, IInv, NoKey
<1>11. ASSUME NEW d \in dials, NEW err, ConnectFailed(d, err)
       PROVE AppType'
  <2>1. UNCHANGED <<sftp, lastAttempt, lastWasSFTP, quitting>>
    BY <1>11 DEF ConnectFailed
  <2>2. CASE UNCHANGED <<keyPass, card>>
    BY <2>1, <2>2 DEF AppType, IInv, NoKey
  <2>3. ASSUME NEW s \in TabByGen(d.gen),
               \/ keyPass' = [srv |-> id[s], sftp |-> FALSE] /\ UNCHANGED card
               \/ card' = id[s] /\ UNCHANGED keyPass
        PROVE AppType'
    <3>1. s \in Tabs /\ s \in Slots /\ id[s] # NoServer
      BY StripTabs DEF TabByGen, IInv, IdsReal
    <3>2. id[s] \in Servers
      BY <3>1 DEF IInv, CoreInv, CoreType
    <3>3. /\ [srv |-> id[s], sftp |-> FALSE] \in [srv : Known, sftp : BOOLEAN]
          /\ [srv |-> id[s], sftp |-> FALSE].srv = id[s]
      BY <3>2
    <3>4. CASE keyPass' = [srv |-> id[s], sftp |-> FALSE] /\ UNCHANGED card
      <4>1. keyPass' \in [srv : Known, sftp : BOOLEAN] /\ keyPass'.srv # NoServer
        BY <3>1, <3>3, <3>4
      <4> QED BY <2>1, <3>4, <4>1 DEF AppType, IInv
    <3>5. CASE card' = id[s] /\ UNCHANGED keyPass
      BY <2>1, <3>2, <3>5 DEF AppType, IInv, NoKey
    <3> QED BY <2>3, <3>4, <3>5
  <2> QED BY <1>11, <2>2, <2>3 DEF ConnectFailed
<1>12. ASSUME NEW err, SftpDone(err)
       PROVE AppType'
  <2>1. /\ sftp # NoServer /\ sftp' = NoServer
        /\ UNCHANGED <<lastAttempt, lastWasSFTP, card, quitting>>
        /\ keyPass' = [srv |-> lastAttempt, sftp |-> TRUE] \/ keyPass' = keyPass
    BY <1>12, Zenon DEF SftpDone
  <2>2. lastAttempt \in Servers
    BY <2>1 DEF AppType, IInv
  <2>3. /\ [srv |-> lastAttempt, sftp |-> TRUE] \in [srv : Known, sftp : BOOLEAN]
        /\ [srv |-> lastAttempt, sftp |-> TRUE].srv # NoServer
    BY <2>2, TabsAssumption
  <2>4. CASE keyPass' = keyPass
    BY <2>1, <2>4 DEF AppType, IInv, NoKey
  <2>5. CASE keyPass' = [srv |-> lastAttempt, sftp |-> TRUE]
    <3>1. keyPass' \in [srv : Known, sftp : BOOLEAN] /\ keyPass'.srv # NoServer
      BY <2>3, <2>5
    <3> QED BY <2>1, <3>1 DEF AppType, IInv
  <2> QED BY <2>1, <2>4, <2>5
<1>13. Messages => AppType'
  <2>1. \A g : Tick(g) \/ Output(g) => AppType'
    BY <1>0 DEF Tick, Output
  <2>2. \A g, lost : SessionEnded(g, lost) => AppType'
    BY <1>0 DEF SessionEnded
  <2> QED BY <2>1, <2>2, <1>10, <1>11, <1>12 DEF Messages, DialDone
<1>14. UNCHANGED vars => AppType'
  BY <1>0 DEF vars
<1> QED BY <1>9, <1>13, <1>14 DEF Next

-----------------------------------------------------------------------------
(* Theorems.                                                               *)

(* The inductive invariant holds throughout: every message and every key   *)
(* keeps the tabs, the pool and what is in flight in step.                 *)
THEOREM Invariance == Spec => []IInv
<1>1. Init => IInv
  BY CoreInit
<1>2. IInv /\ [Next]_vars => IInv'
  BY CoreStep, AppStep, IdsStep DEF IInv
<1> QED BY <1>1, <1>2, PTL DEF Spec

(* Every variable keeps its type, whatever the number of servers, tabs and *)
(* dials.                                                                  *)
THEOREM TypeCorrect == Spec => []TypeOK
<1>1. IInv => TypeOK
  BY DEF IInv, CoreInv, CoreType, AppType, TypeOK
<1> QED BY <1>1, Invariance, PTL

(* No two tabs share a generation, so a message finds one tab or none.     *)
THEOREM MessagesFindOneTab == Spec => []GenerationsDistinct
<1>1. IInv => GenerationsDistinct
  BY DEF IInv, CoreInv
<1> QED BY <1>1, Invariance, PTL

(* Emulator slots are neither leaked nor shared between tabs.              *)
THEOREM SlotsNeverShared == Spec => []SlotsAccounted
<1>1. IInv => SlotsAccounted
  BY DEF IInv, CoreInv
<1> QED BY <1>1, Invariance, PTL

(* The strip shows a tab whenever there is one.                            *)
THEOREM StripShowsATab == Spec => []ActiveInRange
<1>1. IInv => ActiveInRange
  BY DEF IInv, CoreInv
<1> QED BY <1>1, Invariance, PTL

(* What is typed into a tab reaches that tab's own open session or nobody. *)
THEOREM KeysReachTheirSession == Spec => []KeysGoHome
<1>1. IInv => KeysGoHome
  <2> SUFFICES ASSUME IInv, NEW s \in Slots, pumpTo[s] # NoGen
               PROVE s \in Tabs /\ session[s] = pumpTo[s] /\ pumpTo[s] \in open
    BY DEF KeysGoHome
  <2>1. s \in Tabs
    BY DEF IInv, CoreInv, SlotsWiped
  <2>2. TabCoherent(s)
    BY <2>1 DEF IInv, CoreInv, TabsCoherent
  <2> QED BY <2>1, <2>2 DEF TabCoherent
<1> QED BY <1>1, Invariance, PTL

(* A session that is up is held by a tab: closing or redialling a tab      *)
(* while its connection is being made never leaks the connection.          *)
THEOREM SessionsAreHeld == Spec => []NoOrphanSessions
<1>1. IInv => NoOrphanSessions
  <2> SUFFICES ASSUME IInv PROVE NoOrphanSessions
    OBVIOUS
  <2>1. ASSUME NEW g \in open
        PROVE \E s \in {t \in Tabs : session[t] # NoGen} : session[s] = g
    <3>1. g # NoGen
      BY DEF IInv, CoreInv, CoreType, NoGen
    <3> QED BY <3>1 DEF IInv, CoreInv, OpenHeld
  <2>2. ASSUME NEW s \in Tabs, session[s] # NoGen
        PROVE session[s] \in open
    BY <2>2 DEF IInv, CoreInv, TabsCoherent, TabCoherent
  <2> QED BY <2>1, <2>2 DEF NoOrphanSessions
<1> QED BY <1>1, Invariance, PTL

(* No tab waits for a message that is not coming.                          *)
THEOREM TabsAreDriven == Spec => []EveryTabDriven
<1>1. IInv => EveryTabDriven
  <2> SUFFICES ASSUME IInv, NEW s \in Tabs
               PROVE /\ state[s] = "live" =>
                           session[s] = tgen[s] /\ tgen[s] \in readers
                           /\ tgen[s] \notin ticks
                     /\ state[s] = "lost" =>
                           ~HasDial(s) /\ tgen[s] \notin readers
                           /\ (until[s] <=> tgen[s] \in ticks)
                     /\ state[s] \in {"connecting", "reconnecting"} =>
                           session[s] = NoGen /\ tgen[s] \notin ticks
                           /\ tgen[s] \notin readers
    BY DEF EveryTabDriven
  <2>1. TabCoherent(s) /\ ticks \cap readers = {}
    BY DEF IInv, CoreInv, TabsCoherent, OneInFlight
  <2> QED BY <2>1 DEF TabCoherent
<1> QED BY <1>1, Invariance, PTL

(* A tab parked because its host key was not accepted is redialled only by *)
(* a dial that can put the question to the user: every tick belongs to a   *)
(* tab that announces a retry, never to a parked one.                      *)
THEOREM ParkedTabsAreAsked == Spec => ParkedNeedsUser
<1> DEFINE P == \A s \in Slots :
                  Parked(s) /\ state[s]' = "reconnecting" =>
                     [gen |-> tgen[s]', auto |-> FALSE] \in dials'
<1>1. IInv /\ [Next]_vars => [P]_vars
  <2> SUFFICES ASSUME IInv, Next, NEW s \in Slots, Parked(s),
                      state'[s] = "reconnecting"
               PROVE [gen |-> tgen'[s], auto |-> FALSE] \in dials'
    OBVIOUS
  <2>1. s \in Tabs /\ state[s] = "lost" /\ ~until[s] /\ tgen[s] \notin ticks
        /\ state \in [Slots -> {"none", "connecting", "live", "lost", "reconnecting"}]
        /\ tgen \in [Slots -> 0..MaxGen]
    BY DEF Parked, IInv, CoreInv, CoreType, TabsCoherent, TabCoherent
  <2>2. ASSUME NEW t \in Slots, NEW auto, Redial(t, auto)
        PROVE t = s /\ [gen |-> tgen'[s], auto |-> auto] \in dials'
    <3>1. state' = [state EXCEPT ![t] = "reconnecting"]
          /\ tgen' = [tgen EXCEPT ![t] = gen + 1]
          /\ [gen |-> gen + 1, auto |-> auto] \in dials'
      BY <2>2 DEF Redial
    <3>2. t = s
      BY <2>1, <3>1
    <3> QED BY <2>1, <3>1, <3>2
  <2>3. ASSUME NEW srv, NEW dialled, NewTab(srv, dialled)
        PROVE FALSE
    <3>1. PICK t \in Slots : state' = [state EXCEPT ![t] = "connecting"]
      BY <2>3 DEF NewTab
    <3> QED BY <2>1, <3>1
  <2>4. UNCHANGED state => FALSE
    BY <2>1
  <2>5. ASSUME NEW t, NEW v \in {"none", "live", "lost"}, state' = [state EXCEPT ![t] = v]
        PROVE FALSE
    BY <2>1, <2>5
  <2>6. ASSUME NEW srv, NEW force, OpenTab(srv, force)
        PROVE FALSE
    BY <2>3, <2>4, <2>6, Zenon DEF OpenTab, tabVars
  <2>7. ASSUME NEW i, CloseTab(i) PROVE FALSE
    <3>1. state' = [state EXCEPT ![order[i]] = "none"]
      BY <2>7 DEF CloseTab
    <3> QED BY <2>5, <3>1
  <2>8. ASSUME NEW t, Schedule(t) \/ Park(t) PROVE FALSE
    <3>1. state' = [state EXCEPT ![t] = "lost"]
      BY <2>8 DEF Schedule, Park
    <3> QED BY <2>5, <3>1
  <2>9. CASE Keys
    <3>1. CASE ManualReconnect
      <4>1. active # 0 /\ Redial(cur, FALSE)
        BY <3>1, Zenon DEF ManualReconnect
      <4>2. cur \in Slots
        BY <4>1, StripTabs DEF IInv, CoreInv, ActiveInRange, cur
      <4> QED BY <2>2, <4>1, <4>2
    <3>2. CASE Quit
      <4>1. state' = [t \in Slots |-> "none"]
        BY <3>2 DEF Quit
      <4> QED BY <2>1, <4>1
    <3>3. CASE KeyPassEnter
      BY <2>3, <2>4, <3>3, Zenon DEF KeyPassEnter, tabVars
    <3>4. CASE CloseActive
      BY <2>7, <3>4 DEF CloseActive
    <3>5. CASE Dismiss \/ KeyPassEsc \/ \E srv \in Servers : OpenSFTP(srv)
      BY <2>4, <3>5 DEF Dismiss, KeyPassEsc, OpenSFTP, tabVars
    <3>6. CASE Retry
      BY <2>4, <2>6, <3>6 DEF Retry, tabVars
    <3>7. CASE \E i \in DOMAIN order : Switch(i)
      BY <2>4, <3>7 DEF Switch
    <3>8. CASE \E srv \in Servers, force \in BOOLEAN : Open(srv, force)
      BY <2>6, <3>8 DEF Open
    <3> QED BY <2>9, <3>1, <3>2, <3>3, <3>4, <3>5, <3>6, <3>7, <3>8 DEF Keys
  <2>10. CASE Messages
    <3>1. ASSUME NEW g \in ticks, Tick(g) PROVE FALSE
      <4>1. PICK t \in TabByGen(g) : Redial(t, TRUE)
        BY <2>4, <3>1 DEF Tick, tabVars
      <4>2. t \in Slots /\ tgen[t] = g
        BY StripTabs DEF TabByGen, IInv
      <4> QED BY <2>1, <2>2, <4>1, <4>2
    <3>2. ASSUME NEW d, Connected(d) PROVE FALSE
      <4>1. UNCHANGED state \/ \E t : state' = [state EXCEPT ![t] = "live"]
        BY <3>2 DEF Connected, tabVars
      <4> QED BY <2>4, <2>5, <4>1
    <3>3. ASSUME NEW d, NEW err, ConnectFailed(d, err) PROVE FALSE
      BY <2>4, <2>7, <2>8, <3>3 DEF ConnectFailed, tabVars
    <3>4. ASSUME NEW g, NEW lost, SessionEnded(g, lost) PROVE FALSE
      BY <2>4, <2>7, <2>8, <3>4 DEF SessionEnded, tabVars
    <3>5. ASSUME NEW g, Output(g) PROVE FALSE
      BY <2>4, <3>5 DEF Output
    <3>6. ASSUME NEW err, SftpDone(err) PROVE FALSE
      BY <2>4, <3>6 DEF SftpDone, tabVars
    <3> QED BY <2>10, <3>1, <3>2, <3>3, <3>4, <3>5, <3>6 DEF Messages, DialDone
  <2> QED BY <2>9, <2>10 DEF Next
<1>2. Spec => [][P]_vars
  BY <1>1, Invariance, PTL DEF Spec
<1> QED BY <1>2 DEF ParkedNeedsUser

-----------------------------------------------------------------------------
(* What is on screen.                                                      *)

(* Closing another tab moves active with the tab it points at.             *)
LEMMA CloseKeepsView ==
  ASSUME CoreInv, NEW i \in DOMAIN order, CloseTab(i), active # 0, cur \in Tabs'
  PROVE cur' = cur
<1> DEFINE n == Len(order) - 1
<1>1. /\ order' = RemoveAt(order, i)
      /\ active' = ActiveAfterClose(i, Len(RemoveAt(order, i)))
  BY DEF CloseTab
<1>2. order \in Seq(Slots) /\ IsInjective(order) /\ active \in 1..Len(order)
  BY DEF CoreInv, CoreType, SlotsAccounted, ActiveInRange
<1>3. /\ Len(order') = n /\ Range(order') = Tabs \ {order[i]}
      /\ \A j \in 1..n : order'[j] = IF j < i THEN order[j] ELSE order[j + 1]
  BY <1>1, <1>2, RemoveAtElements, RemoveAtRange DEF Tabs
<1>4. cur = order[active] /\ active # i
  BY <1>3 DEF cur, Tabs
<1>5. active' = ActiveAfterClose(i, n)
  BY <1>1, <1>3
<1>6. CASE active > i
  <2>1. active' = active - 1 /\ active' # 0
    BY <1>2, <1>5, <1>6 DEF ActiveAfterClose
  <2>2. order'[active - 1] = order[active]
    BY <1>2, <1>3, <1>6
  <2> QED BY <2>1, <2>2, <1>4 DEF cur
<1>7. CASE active < i
  <2>1. active' = active
    BY <1>2, <1>5, <1>7 DEF ActiveAfterClose
  <2>2. order'[active] = order[active]
    BY <1>2, <1>3, <1>7
  <2> QED BY <2>1, <2>2, <1>4 DEF cur
<1> QED BY <1>2, <1>4, <1>6, <1>7

(* No message changes which tab is on screen, unless it is the one that    *)
(* goes: a shell that exits, a dial that fails and a tick that fires to    *)
(* the left of it leave the user where he is.                              *)
THEOREM ScreenStays == Spec => ViewIsStable
<1>1. ASSUME CoreInv, Messages, active # 0, cur \in Tabs'
      PROVE cur' = cur
  <2>1. ASSUME UNCHANGED <<order, active>>
        PROVE cur' = cur
    BY <2>1 DEF cur
  <2>2. ASSUME NEW d \in dials, DialDone(d)
        PROVE cur' = cur
    <3>1. CASE Connected(d)
      BY <3>1, <2>1 DEF Connected
    <3>2. ASSUME NEW err \in DialErrors, ConnectFailed(d, err)
          PROVE cur' = cur
      BY <3>2, <2>1, <1>1, CloseKeepsView DEF ConnectFailed
    <3> QED BY <2>2, <3>1, <3>2 DEF DialDone
  <2>3. ASSUME NEW g \in ticks, Tick(g)
        PROVE cur' = cur
    BY <2>3, <2>1 DEF Tick, Redial
  <2>4. ASSUME NEW g \in readers, Output(g)
        PROVE cur' = cur
    BY <2>4, <2>1 DEF Output
  <2>5. ASSUME NEW g \in readers, NEW lost \in BOOLEAN, SessionEnded(g, lost)
        PROVE cur' = cur
    BY <2>5, <2>1, <1>1, CloseKeepsView DEF SessionEnded
  <2>6. ASSUME NEW err, SftpDone(err)
        PROVE cur' = cur
    BY <2>6, <2>1 DEF SftpDone
  <2> QED BY <1>1, <2>2, <2>3, <2>4, <2>5, <2>6 DEF Messages
<1>2. CoreInv /\ [Next]_vars => [active # 0 /\ cur \in Tabs' /\ ~Keys => cur' = cur]_vars
  BY <1>1 DEF Next
<1>3. IInv => CoreInv
  BY DEF IInv
<1> QED BY <1>2, <1>3, Invariance, PTL DEF Spec, ViewIsStable

-----------------------------------------------------------------------------
(* Why a retry happens.  The run checks RetryHappens under the fairness of *)
(* the timers; these are the facts it rests on, for every size.            *)

(* Once the user quits there is no tab and nothing moves.                  *)
NoTabsLeft == quitting => order = <<>>

LEMMA NothingAfterQuit == Spec => []NoTabsLeft
<1>1. Init => NoTabsLeft
  BY DEF Init, NoTabsLeft
<1>2. ASSUME NoTabsLeft, [Next]_vars PROVE NoTabsLeft'
  <2>1. CASE UNCHANGED vars
    BY <1>2, <2>1 DEF vars, appVars, NoTabsLeft
  <2>2. CASE quitting' = quitting /\ ~quitting
    BY <2>2 DEF NoTabsLeft
  <2>3. CASE Quit
    BY <2>3 DEF Quit, NoTabsLeft
  <2>4. CASE Keys /\ ~Quit
    BY <2>2, <2>4 DEF Keys, KeysFree, appVars, Open, Switch, CloseActive, ManualReconnect,
       OpenSFTP, Retry, Dismiss, KeyPassEnter, KeyPassEsc
  <2>5. CASE Messages
    BY <2>2, <2>5 DEF Messages, DialDone, appVars, Connected, ConnectFailed, Tick, Output,
       SessionEnded, SftpDone
  <2> QED BY <1>2, <2>1, <2>3, <2>4, <2>5 DEF Next
<1> QED BY <1>1, <1>2, PTL DEF Spec

(* A tick that fires leaves no tab of its generation waiting.              *)
LEMMA TickRedials ==
  ASSUME CoreInv, NEW g \in ticks, Tick(g)
  PROVE ~Announced(g)'
<1>1. CASE /\ \A s \in TabByGen(g) : state[s] # "lost"
           /\ UNCHANGED <<gen, order, active, poolVars, tabVars, dials, readers, open>>
  BY <1>1 DEF Announced, TabByGen, Tabs, tabVars
<1>2. ASSUME NEW s \in TabByGen(g), state[s] = "lost", Redial(s, TRUE)
      PROVE ~Announced(g)'
  <2>1. /\ tgen' = [tgen EXCEPT ![s] = gen + 1]
        /\ state' = [state EXCEPT ![s] = "reconnecting"] /\ order' = order
    BY <1>2 DEF Redial
  <2>2. s \in Tabs /\ Tabs \subseteq Slots /\ \A t \in Tabs : t # s => tgen[t] # g
    BY <1>2, StripTabs DEF TabByGen, CoreInv, GenerationsDistinct
  <2>3. state'[s] = "reconnecting" /\ \A t \in Tabs : t # s => tgen'[t] = tgen[t]
    BY <2>1, <2>2 DEF CoreInv, CoreType
  <2> QED BY <2>1, <2>2, <2>3 DEF Announced, Tabs
<1> QED BY <1>1, <1>2 DEF Tick

(* A tab that announces a retry has its timer running, and the message it  *)
(* sends is taken: the program has not ended.  When it comes, the tab      *)
(* waits no more, whatever slots and generations did meanwhile.  So only   *)
(* the timer's own firing stands between an announced retry and its dial.  *)
THEOREM RetriesAreDriven ==
  Spec => /\ [](\A g \in 1..MaxGen : Announced(g) => g \in ticks /\ ~quitting)
          /\ [][\A g \in ticks : Tick(g) => ~Announced(g)']_vars
<1>1. CoreInv /\ NoTabsLeft => \A g \in 1..MaxGen : Announced(g) => g \in ticks /\ ~quitting
  <2> SUFFICES ASSUME CoreInv, NoTabsLeft, NEW s \in Tabs, state[s] = "lost", until[s]
               PROVE  tgen[s] \in ticks /\ ~quitting
    BY DEF Announced
  <2>1. tgen[s] \in ticks
    BY DEF CoreInv, TabsCoherent, TabCoherent
  <2>2. order # <<>>
    BY DEF Tabs, Range
  <2> QED BY <2>1, <2>2 DEF NoTabsLeft
<1>2. CoreInv => [\A g \in ticks : Tick(g) => ~Announced(g)']_vars
  BY TickRedials
<1>3. IInv => CoreInv
  BY DEF IInv
<1> QED BY <1>1, <1>2, <1>3, Invariance, NothingAfterQuit, PTL DEF Spec
=============================================================================
