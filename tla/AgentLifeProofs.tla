---------------------------- MODULE AgentLifeProofs ----------------------------
(***************************************************************************)
(* First, for any number of zones and of RPC threads: that no walk uses a  *)
(* zone or the domain after it is freed, that the reference counts add up, *)
(* that every zone is freed with the domain, and that walks are complete.  *)
(*                                                                         *)
(* Then, for both agents and any pipelines: what an agent does to its      *)
(* zones from constructor to destructor is a behaviour of StatsZones, so   *)
(* that what is proved of the zones is true of the agents.                 *)
(***************************************************************************)
EXTENDS AgentLife, FiniteSetTheorems, SequenceTheorems, WellFoundedInduction, TLAPS

\* The steps of the domain keep its type, whoever makes them.
LEMMA DomainTyped ==
  ASSUME TypeOK,
         \/ PT!SwitchOn(Dom) \/ PT!SwitchOff(Dom) \/ PT!Off(Dom)
         \/ PT!BeginSample(Dom) \/ PT!EndSample(Dom) \/ UNCHANGED domainVars
  PROVE  phase' \in [{Dom} -> {"off", "on", "draining"}] /\ busy' \in [{Dom} -> BOOLEAN]
  BY DEF TypeOK, PT!SwitchOn, PT!SwitchOff, PT!Off, PT!BeginSample, PT!EndSample, domainVars

LEMMA Walkers == Main \in Walker /\ Collector \in Walker /\ Rpc \subseteq Walker
  BY DEF Walker

\* A put keeps the types of what it changes.
LEMMA PutTyped ==
  ASSUME TypeOK, NEW w \in Walker, NEW z \in Zone \cup {NoZone}, NEW then \in At,
         Put(w, z, then)
  PROVE  /\ refs' \in [Zone -> Int]
         /\ dying' \in [Walker -> Zone \cup {NoZone}]
         /\ ret' \in [Walker -> At]
         /\ at' \in [Walker -> At]
<1>1. refs' \in [Zone -> Int]
  <2>1. refs' = [refs EXCEPT ![z] = refs[z] - 1] /\ refs \in [Zone -> Int]
    BY DEF TypeOK, Put
  <2>2. CASE z \in Zone
    BY <2>1, <2>2
  <2>3. CASE z \notin Zone
    BY <2>1, <2>3
  <2>4. QED
    BY <2>2, <2>3
<1>2. dying' \in [Walker -> Zone \cup {NoZone}]
  BY DEF TypeOK, Put
<1>3. ret' \in [Walker -> At]
  BY DEF TypeOK, Put
<1>4. at' \in [Walker -> At]
  <2>1. (IF refs[z] = 0 THEN "detach" ELSE then) \in At
    BY DEF At
  <2>2. QED
    BY <2>1 DEF TypeOK, Put, Goto
<1>5. QED
  BY <1>1, <1>2, <1>3, <1>4

\* The list gives zones.
LEMMA FirstTyped ==
  ASSUME TypeOK
  PROVE  First \in Zone \cup {NoZone}
<1>1. list \in Seq(Zone)
  BY DEF TypeOK
<1>2. list # <<>> => Head(list) \in Zone
  BY <1>1
<1>3. QED
  BY <1>2 DEF First

LEMMA FollowingTyped ==
  ASSUME TypeOK, NEW z \in Zone
  PROVE  Following(z) \in Zone \cup {NoZone}
<1>0. list \in Seq(Zone)
  BY DEF TypeOK
<1>1. CASE ~Contains(list, z) \/ z = Last(list)
  BY <1>1 DEF Following
<1>2. CASE Contains(list, z) /\ z # Last(list)
  <2> DEFINE i == Position(z)
  <2>1. i \in 1 .. Len(list) /\ list[i] = z
    BY <1>0, <1>2 DEF Position, Contains
  <2>2. i # Len(list)
    BY <1>2, <2>1 DEF Last
  <2>3. i + 1 \in 1 .. Len(list)
    BY <1>0, <2>1, <2>2
  <2>4. list[i + 1] \in Zone
    BY <1>0, <2>3
  <2>5. Following(z) = list[i + 1]
    BY <1>2 DEF Following
  <2>6. QED
    BY <2>4, <2>5
<1>3. QED
  BY <1>1, <1>2

LEMMA RemovedTyped ==
  ASSUME TypeOK, NEW z, Contains(list, z)
  PROVE  RemoveAt(list, Position(z)) \in Seq(Zone)
<1>1. list \in Seq(Zone)
  BY DEF TypeOK
<1>2. Position(z) \in 1 .. Len(list)
  BY <1>1 DEF Position, Contains
<1>3. QED
  BY <1>1, <1>2 DEF RemoveAt

-----------------------------------------------------------------------------
LEMMA TypeInit == Init => TypeOK
<1> SUFFICES ASSUME Init PROVE TypeOK
  OBVIOUS
<1>1. /\ phase \in [{Dom} -> {"off", "on", "draining"}]
      /\ busy \in [{Dom} -> BOOLEAN]
  BY DEF Init, PT!Init
<1>2. "idle" \in At /\ step \in Step
  BY DEF Init, At, Step
<1>3. QED
  BY <1>1, <1>2 DEF Init, TypeOK

\* A walker's own steps.
LEMMA WalkingTyped ==
  ASSUME TypeOK, NEW w \in Walker, Walking(w)
  PROVE  TypeOK'
<1>1. CASE Take(w)
  <2> DEFINE n == IF held[w] = NoZone THEN First ELSE Following(held[w])
  <2>1. n \in Zone \cup {NoZone}
    BY FirstTyped, FollowingTyped DEF TypeOK
  <2>2. next' = [next EXCEPT ![w] = n]
    BY <1>1 DEF Take
  <2>3. refs' = [z \in Zone |-> IF z = n THEN refs[z] + 1 ELSE refs[z]]
    BY <1>1 DEF Take
  <2>4. at' = [at EXCEPT ![w] = "drop"]
    BY <1>1 DEF Take, Goto
  <2>5. UNCHANGED <<domainVars, step, mem, attached, list, owned, held, dying, ret,
                    plan, visited>>
    BY <1>1 DEF Take
  <2> HIDE DEF n
  <2>6. next' \in [Walker -> Zone \cup {NoZone}] /\ refs' \in [Zone -> Int]
    <3>1. next' \in [Walker -> Zone \cup {NoZone}]
      BY <2>1, <2>2 DEF TypeOK
    <3>2. ASSUME NEW z \in Zone PROVE refs[z] \in Int /\ refs[z] + 1 \in Int
      <4>1. refs[z] \in Int
        BY DEF TypeOK
      <4>2. QED
        BY <4>1
    <3>3. QED
      BY <2>3, <3>1, <3>2
  <2>7. at' \in [Walker -> At]
    BY <2>4 DEF TypeOK, At
  <2>8. QED
    BY <2>5, <2>6, <2>7 DEF TypeOK, domainVars
<1>2. CASE Drop(w)
  <2>1. UNCHANGED <<domainVars, step, mem, attached, list, owned, held, next, plan,
                    visited>>
    BY <1>2 DEF Drop
  <2>2. "arrive" \in At
    BY DEF At
  <2>3. CASE held[w] = NoZone
    <3>1. at' = [at EXCEPT ![w] = "arrive"] /\ UNCHANGED <<refs, dying, ret>>
      BY <1>2, <2>3 DEF Drop, Goto
    <3>2. QED
      BY <2>1, <2>2, <3>1 DEF TypeOK, domainVars
  <2>4. CASE held[w] # NoZone
    <3>1. Put(w, held[w], "arrive") /\ held[w] \in Zone \cup {NoZone}
      BY <1>2, <2>4 DEF Drop, TypeOK
    <3>2. QED
      BY <2>1, <2>2, <3>1, PutTyped DEF TypeOK, domainVars
  <2>5. QED
    BY <2>3, <2>4
<1>3. CASE Arrive(w)
  <2>1. next[w] \in Zone \cup {NoZone}
    BY DEF TypeOK
  <2>2. UNCHANGED <<domainVars, step, zoneVars, dying, ret, plan>>
    BY <1>3 DEF Arrive
  <2>3. held' \in [Walker -> Zone \cup {NoZone}] /\ next' \in [Walker -> Zone \cup {NoZone}]
    BY <1>3, <2>1 DEF Arrive, TypeOK
  <2>4. at' \in [Walker -> At]
    BY <1>3 DEF Arrive, Goto, TypeOK, At
  <2>5. visited' \in [Walker -> Seq(Zone)]
    <3>1. CASE next[w] = NoZone
      BY <1>3, <3>1 DEF Arrive, TypeOK
    <3>2. CASE next[w] # NoZone
      <4>1. visited' = [visited EXCEPT ![w] = Append(visited[w], next[w])]
        BY <1>3, <3>2 DEF Arrive
      <4>2. visited[w] \in Seq(Zone) /\ next[w] \in Zone
        BY <2>1, <3>2 DEF TypeOK
      <4>3. Append(visited[w], next[w]) \in Seq(Zone)
        BY <4>2
      <4>4. QED
        BY <4>1, <4>3 DEF TypeOK
    <3>3. QED
      BY <3>1, <3>2
  <2>6. QED
    BY <2>2, <2>3, <2>4, <2>5 DEF TypeOK, domainVars, zoneVars
<1>4. CASE Detach(w)
  <2>1. list' \in Seq(Zone)
    BY <1>4, RemovedTyped DEF Detach, TypeOK
  <2>2. attached' \subseteq Zone /\ at' \in [Walker -> At]
    BY <1>4 DEF Detach, Goto, TypeOK, At
  <2>3. QED
    BY <1>4, <2>1, <2>2 DEF Detach, TypeOK, domainVars
<1>5. CASE Release(w)
  <2>1. mem' \in [Zone -> {"none", "live", "freed", "freed twice"}]
    BY <1>5 DEF Release, TypeOK
  <2>2. at' \in [Walker -> At] /\ dying' \in [Walker -> Zone \cup {NoZone}]
    BY <1>5 DEF Release, Goto, TypeOK
  <2>3. QED
    BY <1>5, <2>1, <2>2 DEF Release, TypeOK, domainVars
<1>6. CASE Visit(w)
  <2>1. UNCHANGED <<domainVars, step, mem, attached, list, owned, held, next, plan,
                    visited>>
    BY <1>6 DEF Visit
  <2>2. "take" \in At /\ "touch" \in At
    BY DEF At
  <2>3. CASE w = Main /\ step = "free"
    <3>1. Put(w, held[w], "take") /\ held[w] \in Zone \cup {NoZone}
      BY <1>6, <2>3 DEF Visit, TypeOK
    <3>2. QED
      BY <2>1, <2>2, <3>1, PutTyped DEF TypeOK, domainVars
  <2>4. CASE ~(w = Main /\ step = "free")
    <3>1. /\ at' = [at EXCEPT ![w] = "touch"] \/ at' = [at EXCEPT ![w] = "take"]
          /\ UNCHANGED <<refs, dying, ret>>
      BY <1>6, <2>4 DEF Visit, Goto
    <3>2. at' \in [Walker -> At]
      BY <2>2, <3>1 DEF TypeOK
    <3>3. QED
      BY <2>1, <3>1, <3>2 DEF TypeOK, domainVars
  <2>5. QED
    BY <2>3, <2>4
<1>7. CASE Touch(w)
  BY <1>7 DEF Touch, Goto, TypeOK, At, domainVars, zoneVars
<1>8. CASE Abandon(w)
  <2>1. Put(w, held[w], "idle") /\ held[w] \in Zone \cup {NoZone} /\ "idle" \in At
    BY <1>8 DEF Abandon, TypeOK, At
  <2>2. /\ held' \in [Walker -> Zone \cup {NoZone}]
        /\ plan' \in [Walker -> Seq(Zone)]
        /\ visited' \in [Walker -> Seq(Zone)]
    <3>1. /\ held' = [held EXCEPT ![w] = NoZone]
          /\ plan' = [plan EXCEPT ![w] = <<>>]
          /\ visited' = [visited EXCEPT ![w] = <<>>]
      BY <1>8 DEF Abandon
    <3>2. <<>> \in Seq(Zone)
      OBVIOUS
    <3>3. QED
      BY <3>1, <3>2 DEF TypeOK
  <2>3. UNCHANGED <<domainVars, step, mem, attached, list, owned, next>>
    BY <1>8 DEF Abandon
  <2>4. QED
    BY <2>1, <2>2, <2>3, PutTyped DEF TypeOK, domainVars
<1>9. QED
  BY <1>1, <1>2, <1>3, <1>4, <1>5, <1>6, <1>7, <1>8 DEF Walking, Passing

\* The beginning and the end of a walk.
LEMMA BeginTyped ==
  ASSUME TypeOK, NEW w \in Walker, BeginWalk(w)
  PROVE  /\ UNCHANGED <<zoneVars, held, next, dying, ret>>
         /\ at' \in [Walker -> At]
         /\ plan' \in [Walker -> Seq(Zone)]
         /\ visited' \in [Walker -> Seq(Zone)]
<1>1. <<>> \in Seq(Zone) /\ "take" \in At
  BY DEF At
<1>2. QED
  BY <1>1 DEF BeginWalk, Goto, TypeOK

LEMMA EndTyped ==
  ASSUME TypeOK, NEW w \in Walker, EndWalk(w)
  PROVE  /\ UNCHANGED <<zoneVars, held, next, dying, ret>>
         /\ at' \in [Walker -> At]
         /\ plan' \in [Walker -> Seq(Zone)]
         /\ visited' \in [Walker -> Seq(Zone)]
<1>1. <<>> \in Seq(Zone) /\ "idle" \in At
  BY DEF At
<1>2. QED
  BY <1>1 DEF EndWalk, Goto, TypeOK

\* The steps of the main thread.
LEMMA MainTyped ==
  ASSUME TypeOK, MainNext
  PROVE  TypeOK'
<1> Main \in Walker
  BY Walkers
<1>1. ASSUME NEW z \in Zone, AttachBlocks(z) PROVE TypeOK'
  <2>1. attached' \subseteq Zone /\ owned' \subseteq Zone
    BY <1>1 DEF AttachBlocks, TypeOK
  <2>2. refs' \in [Zone -> Int]
    <3>1. refs[z] \in Int
      BY DEF TypeOK
    <3>2. refs[z] + 1 \in Int
      BY <3>1
    <3>3. QED
      BY <1>1, <3>2 DEF AttachBlocks, TypeOK
  <2>3. QED
    BY <1>1, <2>1, <2>2 DEF AttachBlocks, TypeOK, Step, domainVars, walkVars
<1>2. CASE MainClear
  BY <1>2, BeginTyped DEF MainClear, MainTo, Step, TypeOK, zoneVars, domainVars
<1>3. CASE MainCleared
  BY <1>3, EndTyped DEF MainCleared, MainTo, Step, TypeOK, zoneVars, domainVars
<1>4. CASE MainStart
  <2>1. phase' \in [{Dom} -> {"off", "on", "draining"}] /\ busy' \in [{Dom} -> BOOLEAN]
    BY <1>4, DomainTyped DEF MainStart
  <2>2. QED
    BY <1>4, <2>1 DEF MainStart, MainTo, Step, TypeOK, zoneVars, walkVars
<1>5. CASE MainShutdown
  BY <1>5 DEF MainShutdown, MainTo, Step, TypeOK, zoneVars, walkVars, domainVars
<1>6. CASE MainStop
  <2>1. phase' \in [{Dom} -> {"off", "on", "draining"}] /\ busy' \in [{Dom} -> BOOLEAN]
    BY <1>6, DomainTyped DEF MainStop
  <2>2. QED
    BY <1>6, <2>1 DEF MainStop, MainTo, Step, TypeOK, zoneVars, walkVars
<1>7. CASE MainFree
  BY <1>7, BeginTyped DEF MainFree, MainTo, Step, TypeOK, zoneVars, domainVars
<1>8. CASE MainGone
  BY <1>8, EndTyped DEF MainGone, MainTo, Step, TypeOK, zoneVars, domainVars
<1>9. ASSUME NEW z \in Zone, Publish(z) PROVE TypeOK'
  <2>1. mem' \in [Zone -> {"none", "live", "freed", "freed twice"}]
    BY <1>9 DEF Publish, TypeOK
  <2>2. list' \in Seq(Zone)
    <3>1. list \in Seq(Zone) /\ list' = Append(list, z)
      BY <1>9 DEF Publish, TypeOK
    <3>2. QED
      BY <3>1
  <2>3. QED
    BY <1>9, <2>1, <2>2 DEF Publish, TypeOK, Step, domainVars, walkVars
<1>10. ASSUME NEW z \in Zone, MainFreeZone(z) PROVE TypeOK'
  <2>1. Put(Main, z, "idle") /\ z \in Zone \cup {NoZone} /\ "idle" \in At
    BY <1>10 DEF MainFreeZone, At
  <2>2. owned' \subseteq Zone
    BY <1>10 DEF MainFreeZone, TypeOK
  <2>3. QED
    BY <1>10, <2>1, <2>2, PutTyped DEF MainFreeZone, TypeOK, domainVars
<1>11. CASE MainSkip
  BY <1>11 DEF MainSkip, MainTo, Step, TypeOK, zoneVars, walkVars, domainVars
<1>12. QED
  BY <1>1, <1>2, <1>3, <1>4, <1>5, <1>6, <1>7, <1>8, <1>9, <1>10, <1>11 DEF MainNext

LEMMA TypeNext == TypeOK /\ [Next]_vars => TypeOK'
<1> SUFFICES ASSUME TypeOK, [Next]_vars PROVE TypeOK'
  OBVIOUS
<1>0. Collector \in Walker /\ Rpc \subseteq Walker
  BY Walkers
<1>1. CASE CollectorBegin
  <2>1. phase' \in [{Dom} -> {"off", "on", "draining"}] /\ busy' \in [{Dom} -> BOOLEAN]
    BY <1>1, DomainTyped DEF CollectorBegin
  <2>2. QED
    BY <1>0, <1>1, <2>1, BeginTyped DEF CollectorBegin, TypeOK, zoneVars
<1>2. CASE CollectorEnd
  <2>1. phase' \in [{Dom} -> {"off", "on", "draining"}] /\ busy' \in [{Dom} -> BOOLEAN]
    BY <1>2, DomainTyped DEF CollectorEnd
  <2>2. QED
    BY <1>0, <1>2, <2>1, EndTyped DEF CollectorEnd, TypeOK, zoneVars
<1>3. ASSUME NEW w \in Rpc, RpcBegin(w) PROVE TypeOK'
  BY <1>0, <1>3, BeginTyped DEF RpcBegin, TypeOK, zoneVars, domainVars
<1>4. ASSUME NEW w \in Rpc, RpcEnd(w) PROVE TypeOK'
  BY <1>0, <1>4, EndTyped DEF RpcEnd, TypeOK, zoneVars, domainVars
<1>5. CASE RpcSwitch
  <2>1. phase' \in [{Dom} -> {"off", "on", "draining"}] /\ busy' \in [{Dom} -> BOOLEAN]
    BY <1>5, DomainTyped DEF RpcSwitch
  <2>2. QED
    BY <1>5, <2>1 DEF RpcSwitch, TypeOK, zoneVars, walkVars
<1>6. CASE Stopped
  <2>1. phase' \in [{Dom} -> {"off", "on", "draining"}] /\ busy' \in [{Dom} -> BOOLEAN]
    BY <1>6, DomainTyped DEF Stopped
  <2>2. QED
    BY <1>6, <2>1 DEF Stopped, TypeOK, zoneVars, walkVars
<1>7. ASSUME NEW w \in Walker, Walking(w) PROVE TypeOK'
  BY <1>7, WalkingTyped
<1>8. CASE MainNext
  BY <1>8, MainTyped
<1>9. CASE UNCHANGED vars
  BY <1>9 DEF vars, domainVars, zoneVars, walkVars, TypeOK
<1>10. QED
  BY <1>1, <1>2, <1>3, <1>4, <1>5, <1>6, <1>7, <1>8, <1>9 DEF Next

\* Type correctness of the zones and of the walks over them.
THEOREM TypeCorrect == Spec => []TypeOK
<1>1. QED
  BY TypeInit, TypeNext, PTL DEF Spec

-----------------------------------------------------------------------------
(* The inductive invariant.                                                *)

\* Who walks when: the RPC threads while the agent serves, the main thread when it
\* clears and when it frees, the collector while it is busy.
WhoWalks ==
  /\ busy[Dom] <=> at[Collector] # "idle"
  /\ phase[Dom] = "off" => ~busy[Dom]
  /\ step \in {"alloc", "attach", "clear", "start", "free", "gone"} => phase[Dom] = "off"
  /\ \A w \in Rpc : at[w] # "idle" => step = "serve"
  /\ at[Main] # "idle" => step \in {"clear", "free"}

\* What a walker has in hand at each place; only stats_domain_free frees.
InHand ==
  \A w \in Walker :
    /\ at[w] \in {"idle", "done"} => held[w] = NoZone
    /\ at[w] \notin {"drop", "arrive", "detach", "release"} => next[w] = NoZone
    /\ at[w] \in {"visit", "touch", "detach", "release"} => held[w] # NoZone
    /\ IF at[w] \in {"detach", "release"}
       THEN w = Main /\ step = "free" /\ dying[w] = held[w] /\ ret[w] = "arrive"
       ELSE dying[w] = NoZone

Unlinked(z) == at[Main] = "release" /\ dying[Main] = z

\* The list has the zones that live, once each; they live until the last walk.
ListInv ==
  /\ \A i, j \in 1 .. Len(list) : list[i] = list[j] => i = j
  /\ \A z \in Zone :
       /\ Contains(list, z) <=> mem[z] = "live" /\ ~Unlinked(z)
       /\ Unlinked(z) => mem[z] = "live"
       /\ mem[z] = "none" => refs[z] = 0 /\ step \in {"alloc", "attach"}
       /\ mem[z] = "freed" => step \in {"free", "gone"}
       /\ mem[z] # "freed twice"
       /\ z \in owned => mem[z] = "live"
  /\ step = "attach" => list # <<>> /\ Last(list) \notin owned
  /\ step \in {"stop", "free", "gone"} => owned = {}
  /\ step = "gone" => list = <<>>

\* The second zone of the list.
Second == IF Len(list) < 2 THEN NoZone ELSE list[2]

\* The walk of stats_domain_free: it is always at the head of what is left, and
\* the reference it holds or has taken is the only one.
LastWalk ==
  step = "free" =>
    LET h == held[Main]
        n == next[Main]
    IN
    /\ at[Main] \notin {"idle", "touch"}
    /\ at[Main] \in {"take", "drop", "visit", "detach"} /\ h # NoZone
         => list # <<>> /\ h = Head(list)
    /\ at[Main] \in {"drop", "detach"} => n = IF h = NoZone THEN First ELSE Second
    /\ at[Main] \in {"release", "arrive"} => n = First
    /\ at[Main] = "done" => list = <<>>
    /\ \A z \in Zone :
         mem[z] = "live" /\ ~Unlinked(z) =>
           refs[z] = IF z = n \/ (at[Main] = "visit" /\ z = h) THEN 1
                     ELSE IF at[Main] = "detach" /\ z = h THEN -1
                     ELSE 0

ZonesInv == TypeOK /\ WhoWalks /\ InHand /\ ListInv /\ RefsAccount /\ LastWalk

-----------------------------------------------------------------------------
(* What the invariant says of a step's walker and zone.                    *)

LEMMA WalkTime ==
  ASSUME ZonesInv, NEW w \in Walker, at[w] # "idle"
  PROVE  /\ step \in {"clear", "serve", "deinit", "stop", "free"}
         /\ step = "free" => w = Main
<1>1. CASE w \in Rpc
  BY <1>1 DEF ZonesInv, WhoWalks
<1>2. CASE w = Main
  BY <1>2 DEF ZonesInv, WhoWalks
<1>3. CASE w = Collector
  <2>1. phase[Dom] # "off"
    BY <1>3 DEF ZonesInv, WhoWalks
  <2>2. step \in Step
    BY DEF ZonesInv, TypeOK
  <2>3. QED
    BY <2>1, <2>2 DEF ZonesInv, WhoWalks, Step
<1>4. QED
  BY <1>1, <1>2, <1>3 DEF Walker

\* Before the last walk all zones that a walker has in hand live.
LEMMA LiveInHand ==
  ASSUME ZonesInv, NEW w \in Walker, at[w] # "idle", step # "free"
  PROVE  \A z \in Zone : mem[z] = "live"
<1>1. step \in {"clear", "serve", "deinit", "stop"}
  BY WalkTime
<1>2. \A z \in Zone : mem[z] \in {"none", "live", "freed", "freed twice"}
  BY DEF ZonesInv, TypeOK
<1>3. QED
  BY <1>1, <1>2 DEF ZonesInv, ListInv

LEMMA FiniteWalkers ==
  /\ IsFiniteSet(Walker)
  /\ \A z : IsFiniteSet(Holders(z)) /\ IsFiniteSet(Takers(z))
<1>1. IsFiniteSet(Rpc)
  BY StatsZonesAssumption
<1>2. IsFiniteSet(Rpc \cup {Main})
  BY <1>1, FS_AddElement
<1>3. IsFiniteSet((Rpc \cup {Main}) \cup {Collector})
  BY <1>2, FS_AddElement
<1>4. Walker = (Rpc \cup {Main}) \cup {Collector}
  BY DEF Walker
<1>5. IsFiniteSet(Walker)
  BY <1>3, <1>4
<1>6. ASSUME NEW z PROVE IsFiniteSet(Holders(z)) /\ IsFiniteSet(Takers(z))
  <2>1. Holders(z) \subseteq Walker /\ Takers(z) \subseteq Walker
    BY DEF Holders, Takers
  <2>2. QED
    BY <1>5, <2>1, FS_Subset
<1>7. QED
  BY <1>5, <1>6

\* A zone that has an owner or a holder is not at 0: no put of theirs frees it.
LEMMA Counted ==
  ASSUME ZonesInv, step # "free", NEW z \in Zone, mem[z] = "live"
  PROVE  /\ refs[z] >= 0
         /\ z \in owned => refs[z] > 0
         /\ Holders(z) # {} => refs[z] > 0
<1>1. refs[z] = Cardinality(Holders(z)) + Cardinality(Takers(z))
                  + (IF z \in owned THEN 1 ELSE 0)
  BY DEF ZonesInv, RefsAccount
<1>2. Cardinality(Holders(z)) \in Nat /\ Cardinality(Takers(z)) \in Nat
  BY FiniteWalkers, FS_CardinalityType
<1>3. Holders(z) # {} => Cardinality(Holders(z)) # 0
  BY FiniteWalkers, FS_EmptySet
<1>4. QED
  BY <1>1, <1>2, <1>3

-----------------------------------------------------------------------------
(* A walk before the last one: it takes and gives back references.         *)

\* The steps of such a walk, which never frees.
Puts(w, then) ==
  /\ refs' = [refs EXCEPT ![held[w]] = @ - 1]
  /\ dying' = [dying EXCEPT ![w] = NoZone]
  /\ ret' = [ret EXCEPT ![w] = then]
  /\ at' = [at EXCEPT ![w] = then]

MovesOn(w) ==
  /\ \/ at[w] \in {"visit", "touch"} /\ \E a \in {"take", "touch"} : Goto(w, a)
     \/ at[w] = "drop" /\ held[w] = NoZone /\ Goto(w, "arrive")
  /\ UNCHANGED <<refs, held, next, dying, ret, plan, visited>>

PutsAndMovesOn(w) ==
  /\ at[w] = "drop" /\ held[w] # NoZone
  /\ Puts(w, "arrive")
  /\ UNCHANGED <<held, next, plan, visited>>

PutsAndReturns(w) ==
  /\ at[w] = "touch" /\ held[w] # NoZone /\ w \in Rpc
  /\ Puts(w, "idle")
  /\ held' = [held EXCEPT ![w] = NoZone]
  /\ plan' = [plan EXCEPT ![w] = <<>>]
  /\ visited' = [visited EXCEPT ![w] = <<>>]
  /\ UNCHANGED next

LEMMA PutInService ==
  ASSUME ZonesInv, step # "free", NEW w \in Walker, at[w] \in {"drop", "touch"},
         held[w] # NoZone, NEW then, Put(w, held[w], then)
  PROVE  Puts(w, then)
<1>1. held[w] \in Zone
  BY DEF ZonesInv, TypeOK
<1>2. mem[held[w]] = "live"
  BY <1>1, LiveInHand
<1>3. w \in Holders(held[w])
  BY DEF Holders
<1>4. refs[held[w]] # 0
  BY <1>1, <1>2, <1>3, Counted
<1>5. QED
  BY <1>4 DEF Put, Puts, Goto

LEMMA ServiceSteps ==
  ASSUME ZonesInv, step # "free", NEW w \in Walker, Walking(w)
  PROVE  /\ at[w] # "idle"
         /\ UNCHANGED <<domainVars, step, mem, attached, list, owned>>
         /\ Take(w) \/ Arrive(w) \/ MovesOn(w) \/ PutsAndMovesOn(w) \/ PutsAndReturns(w)
<1>1. CASE Take(w)
  BY <1>1 DEF Take
<1>2. CASE Arrive(w)
  BY <1>2 DEF Arrive, zoneVars
<1>3. CASE Touch(w)
  BY <1>3 DEF Touch, MovesOn, zoneVars
<1>4. CASE Visit(w)
  BY <1>4 DEF Visit, MovesOn
<1>5. CASE Detach(w) \/ Release(w)
  BY <1>5 DEF Detach, Release, ZonesInv, InHand
<1>6. CASE Drop(w)
  <2>1. CASE held[w] = NoZone
    BY <1>6, <2>1 DEF Drop, MovesOn
  <2>2. CASE held[w] # NoZone
    <3>1. at[w] = "drop" /\ Put(w, held[w], "arrive")
      BY <1>6, <2>2 DEF Drop
    <3>2. Puts(w, "arrive")
      BY <2>2, <3>1, PutInService
    <3>3. QED
      BY <1>6, <2>2, <3>2 DEF Drop, PutsAndMovesOn
  <2>3. QED
    BY <2>1, <2>2
<1>7. CASE Abandon(w)
  <2>1. at[w] = "touch" /\ Put(w, held[w], "idle") /\ held[w] # NoZone
    BY <1>7 DEF Abandon, ZonesInv, InHand
  <2>2. Puts(w, "idle")
    BY <2>1, PutInService
  <2>3. QED
    BY <1>7, <2>1, <2>2 DEF Abandon, PutsAndReturns
<1>8. QED
  BY <1>1, <1>2, <1>3, <1>4, <1>5, <1>6, <1>7 DEF Walking, Passing

\* Two sets that differ in w at most.
LEMMA DifferInOne ==
  ASSUME NEW S, NEW T, NEW w, IsFiniteSet(S), IsFiniteSet(T), S \ {w} = T \ {w}
  PROVE  Cardinality(T) = Cardinality(S) + (IF w \in T THEN 1 ELSE 0)
                                         - (IF w \in S THEN 1 ELSE 0)
<1>1. Cardinality(S) \in Nat /\ Cardinality(T) \in Nat
  BY FS_CardinalityType
<1>2. Cardinality(S \ {w}) = IF w \in S THEN Cardinality(S) - 1 ELSE Cardinality(S)
  BY FS_RemoveElement
<1>3. Cardinality(T \ {w}) = IF w \in T THEN Cardinality(T) - 1 ELSE Cardinality(T)
  BY FS_RemoveElement
<1>4. Cardinality(S \ {w}) = Cardinality(T \ {w})
  OBVIOUS
<1>5. QED
  BY <1>1, <1>2, <1>3, <1>4

\* The references a zone has before and after a step of w, when those of others stay.
LEMMA HandsOfOne ==
  ASSUME NEW w \in Walker, NEW z,
         \A v \in Walker \ {w} : at'[v] = at[v] /\ held'[v] = held[v] /\ next'[v] = next[v]
  PROVE  /\ Cardinality(Holders(z)') =
              Cardinality(Holders(z)) + (IF w \in Holders(z)' THEN 1 ELSE 0)
                                      - (IF w \in Holders(z) THEN 1 ELSE 0)
         /\ Cardinality(Takers(z)') =
              Cardinality(Takers(z)) + (IF w \in Takers(z)' THEN 1 ELSE 0)
                                     - (IF w \in Takers(z) THEN 1 ELSE 0)
<1>1. IsFiniteSet(Holders(z)) /\ IsFiniteSet(Takers(z))
  BY FiniteWalkers
<1>2. Holders(z)' \subseteq Walker /\ Takers(z)' \subseteq Walker
  BY DEF Holders, Takers
<1>3. IsFiniteSet(Holders(z)') /\ IsFiniteSet(Takers(z)')
  BY <1>2, FiniteWalkers, FS_Subset
<1>4. Holders(z) \ {w} = Holders(z)' \ {w}
  BY DEF Holders
<1>5. Takers(z) \ {w} = Takers(z)' \ {w}
  BY DEF Takers
<1>6. QED
  BY <1>1, <1>3, <1>4, <1>5, DifferInOne

\* In service a step of a walk keeps the invariant.
LEMMA ServiceControl ==
  ASSUME ZonesInv, TypeOK', step # "free", NEW w \in Walker, Walking(w)
  PROVE  WhoWalks' /\ InHand' /\ ListInv' /\ LastWalk'
<1>1. /\ at[w] # "idle" /\ step \in {"clear", "serve", "deinit", "stop"}
      /\ UNCHANGED <<phase, busy, step, mem, attached, list, owned>>
  BY ServiceSteps, WalkTime DEF domainVars
<1>2. TypeOK
  BY DEF ZonesInv
<1>3. /\ \A v \in Walker \ {w} : at'[v] = at[v] /\ held'[v] = held[v] /\ next'[v] = next[v]
                                   /\ dying'[v] = dying[v] /\ ret'[v] = ret[v]
      /\ dying'[w] = NoZone /\ at'[w] \notin {"detach", "release"}
      /\ w \notin Rpc => at'[w] # "idle"
      /\ at'[w] = "idle" => held'[w] = NoZone /\ next'[w] = NoZone
      /\ at'[w] = "done" => held'[w] = NoZone
      /\ at'[w] \notin {"drop", "arrive"} => next'[w] = NoZone
      /\ at'[w] \in {"visit", "touch"} => held'[w] # NoZone
  <2>1. CASE Take(w)
    BY <1>2, <2>1 DEF Take, Goto, TypeOK, ZonesInv, InHand
  <2>2. CASE Arrive(w)
    BY <1>2, <2>2 DEF Arrive, Goto, TypeOK, ZonesInv, InHand
  <2>3. CASE MovesOn(w)
    BY <1>2, <2>3 DEF MovesOn, Goto, TypeOK, ZonesInv, InHand
  <2>4. CASE PutsAndMovesOn(w)
    BY <1>2, <2>4 DEF PutsAndMovesOn, Puts, TypeOK, ZonesInv, InHand
  <2>5. CASE PutsAndReturns(w)
    BY <1>2, <2>5 DEF PutsAndReturns, Puts, TypeOK, ZonesInv, InHand
  <2>6. QED
    BY <2>1, <2>2, <2>3, <2>4, <2>5, ServiceSteps
<1>4. WhoWalks'
  <2>1. \A v \in Walker : v \notin Rpc => (at'[v] # "idle" <=> at[v] # "idle")
    BY <1>1, <1>3
  <2>2. ~(at'[w] # "idle" /\ w \in Rpc) \/ step = "serve"
    BY <1>1 DEF ZonesInv, WhoWalks
  <2>3. QED
    BY <1>1, <1>3, <2>1, <2>2, Walkers, StatsZonesAssumption DEF ZonesInv, WhoWalks
<1>5. InHand'
  BY <1>1, <1>3 DEF ZonesInv, InHand
<1>6. ListInv'
  <2>1. \A z \in Zone : ~Unlinked(z) /\ ~Unlinked(z)'
    BY <1>1, <1>3, Walkers DEF Unlinked, ZonesInv, InHand
  <2>2. \A z \in Zone : mem[z] # "none"
    BY <1>1 DEF ZonesInv, ListInv
  <2>3. QED
    BY <1>1, <2>1, <2>2 DEF ZonesInv, ListInv
<1>7. LastWalk'
  BY <1>1 DEF LastWalk
<1>8. QED
  BY <1>4, <1>5, <1>6, <1>7

LEMMA ServiceCounts ==
  ASSUME ZonesInv, TypeOK', step # "free", NEW w \in Walker, Walking(w)
  PROVE  RefsAccount'
<1>1. /\ at[w] # "idle"
      /\ UNCHANGED <<step, mem, owned>>
  BY ServiceSteps
<1>2. TypeOK /\ NoZone \notin Zone
  BY StatsZonesAssumption DEF ZonesInv
<1>3. \A v \in Walker \ {w} : at'[v] = at[v] /\ held'[v] = held[v] /\ next'[v] = next[v]
  <2>1. CASE Take(w)
    BY <1>2, <2>1 DEF Take, Goto, TypeOK
  <2>2. CASE Arrive(w)
    BY <1>2, <2>2 DEF Arrive, Goto, TypeOK
  <2>3. CASE MovesOn(w)
    BY <1>2, <2>3 DEF MovesOn, Goto, TypeOK
  <2>4. CASE PutsAndMovesOn(w)
    BY <1>2, <2>4 DEF PutsAndMovesOn, Puts, TypeOK
  <2>5. CASE PutsAndReturns(w)
    BY <1>2, <2>5 DEF PutsAndReturns, Puts, TypeOK
  <2>6. QED
    BY <2>1, <2>2, <2>3, <2>4, <2>5, ServiceSteps
<1> SUFFICES ASSUME NEW z \in Zone
             PROVE  refs'[z] - refs[z]
                      =  (IF w \in Holders(z)' THEN 1 ELSE 0) - (IF w \in Holders(z) THEN 1 ELSE 0)
                       + (IF w \in Takers(z)' THEN 1 ELSE 0) - (IF w \in Takers(z) THEN 1 ELSE 0)
  <2>1. ASSUME NEW z \in Zone, mem'[z] = "live"
        PROVE  /\ Cardinality(Holders(z)) \in Nat /\ Cardinality(Takers(z)) \in Nat
               /\ refs[z] = Cardinality(Holders(z)) + Cardinality(Takers(z))
                              + (IF z \in owned THEN 1 ELSE 0)
    BY <1>1, <2>1, FiniteWalkers, FS_CardinalityType DEF ZonesInv, RefsAccount
  <2>2. ASSUME NEW z \in Zone PROVE refs[z] \in Int /\ refs'[z] \in Int
    BY <1>2 DEF TypeOK
  <2>3. QED
    BY <1>1, <1>3, <2>1, <2>2, HandsOfOne DEF RefsAccount
<1>4. w \in Holders(z) <=> held[w] = z /\ at[w] \in {"take", "drop", "visit", "touch"}
  BY DEF Holders
<1>5. w \in Holders(z)' <=> held'[w] = z /\ at'[w] \in {"take", "drop", "visit", "touch"}
  BY DEF Holders
<1>6. (w \in Takers(z) <=> next[w] = z) /\ (w \in Takers(z)' <=> next'[w] = z)
  BY DEF Takers
<1>7. refs[z] \in Int
  BY <1>2 DEF TypeOK
<1>8. CASE Take(w)
  <2>1. next[w] = NoZone
    BY <1>8 DEF Take, ZonesInv, InHand
  <2>2. /\ at[w] = "take" /\ at'[w] = "drop" /\ held'[w] = held[w]
        /\ refs'[z] = IF z = next'[w] THEN refs[z] + 1 ELSE refs[z]
    BY <1>2, <1>8 DEF Take, Goto, TypeOK
  <2>3. QED
    BY <1>2, <1>4, <1>5, <1>6, <1>7, <2>1, <2>2
<1>9. CASE Arrive(w)
  <2>1. /\ at[w] = "arrive" /\ at'[w] \in {"done", "visit"} /\ held'[w] = next[w]
        /\ next'[w] = NoZone /\ refs'[z] = refs[z]
        /\ at'[w] = "done" <=> next[w] = NoZone
    BY <1>2, <1>9 DEF Arrive, Goto, zoneVars, TypeOK
  <2>2. QED
    BY <1>2, <1>4, <1>5, <1>6, <1>7, <2>1
<1>10. CASE MovesOn(w)
  <2>1. /\ at[w] \in {"drop", "visit", "touch"} /\ held'[w] = held[w] /\ next'[w] = next[w]
        /\ at'[w] \in {"take", "touch"} \/ (at'[w] = "arrive" /\ held[w] = NoZone)
        /\ refs'[z] = refs[z]
    BY <1>2, <1>10 DEF MovesOn, Goto, TypeOK
  <2>2. QED
    BY <1>2, <1>4, <1>5, <1>6, <1>7, <2>1
<1>11. CASE PutsAndMovesOn(w)
  <2>1. /\ at[w] = "drop" /\ at'[w] = "arrive" /\ held'[w] = held[w] /\ next'[w] = next[w]
        /\ refs'[z] = IF z = held[w] THEN refs[z] - 1 ELSE refs[z]
    BY <1>2, <1>11 DEF PutsAndMovesOn, Puts, TypeOK
  <2>2. QED
    BY <1>2, <1>4, <1>5, <1>6, <1>7, <2>1
<1>12. CASE PutsAndReturns(w)
  <2>1. /\ at[w] = "touch" /\ at'[w] = "idle" /\ next'[w] = next[w]
        /\ refs'[z] = IF z = held[w] THEN refs[z] - 1 ELSE refs[z]
    BY <1>2, <1>12 DEF PutsAndReturns, Puts, TypeOK
  <2>2. QED
    BY <1>2, <1>4, <1>5, <1>6, <1>7, <2>1
<1>13. QED
  BY <1>8, <1>9, <1>10, <1>11, <1>12, ServiceSteps

-----------------------------------------------------------------------------
(* The steps that are not a walker's own.                                  *)

LEMMA BeginKeeps ==
  ASSUME ZonesInv, NEW w \in Walker, BeginWalk(w)
  PROVE  /\ at[w] = "idle" /\ at' = [at EXCEPT ![w] = "take"]
         /\ UNCHANGED <<mem, refs, attached, list, owned, held, next, dying, ret>>
         /\ \A z \in Zone : Holders(z)' = Holders(z) /\ Takers(z)' = Takers(z)
<1>1. /\ at[w] = "idle" /\ at' = [at EXCEPT ![w] = "take"]
      /\ UNCHANGED <<mem, refs, attached, list, owned, held, next, dying, ret>>
  BY DEF BeginWalk, Goto, zoneVars
<1>2. held[w] = NoZone /\ at \in [Walker -> At]
  BY <1>1 DEF ZonesInv, TypeOK, InHand
<1>3. \A z \in Zone : Holders(z)' = Holders(z)
  BY <1>1, <1>2, StatsZonesAssumption DEF Holders
<1>4. \A z \in Zone : Takers(z)' = Takers(z)
  BY <1>1 DEF Takers
<1>5. QED
  BY <1>1, <1>3, <1>4

LEMMA EndKeeps ==
  ASSUME ZonesInv, NEW w \in Walker, EndWalk(w)
  PROVE  /\ at[w] = "done" /\ at' = [at EXCEPT ![w] = "idle"]
         /\ UNCHANGED <<mem, refs, attached, list, owned, held, next, dying, ret>>
         /\ \A z \in Zone : Holders(z)' = Holders(z) /\ Takers(z)' = Takers(z)
<1>1. /\ at[w] = "done" /\ at' = [at EXCEPT ![w] = "idle"]
      /\ UNCHANGED <<mem, refs, attached, list, owned, held, next, dying, ret>>
  BY DEF EndWalk, Goto, zoneVars
<1>2. at \in [Walker -> At]
  BY DEF ZonesInv, TypeOK
<1>3. \A z \in Zone : Holders(z)' = Holders(z)
  BY <1>1, <1>2 DEF Holders
<1>4. \A z \in Zone : Takers(z)' = Takers(z)
  BY <1>1 DEF Takers
<1>5. QED
  BY <1>1, <1>3, <1>4

\* When neither counts nor hands change, the account stays.
LEMMA AccountStays ==
  ASSUME ZonesInv, UNCHANGED <<mem, refs, owned>>, step # "free",
         \A z \in Zone : Holders(z)' = Holders(z) /\ Takers(z)' = Takers(z)
  PROVE  RefsAccount'
BY DEF ZonesInv, RefsAccount

LEMMA MainClearKeeps == ZonesInv /\ TypeOK' /\ MainClear => ZonesInv'
<1> SUFFICES ASSUME ZonesInv, TypeOK', MainClear PROVE ZonesInv'
  OBVIOUS
<1>1. /\ step = "alloc" /\ step' = "clear" /\ UNCHANGED <<phase, busy>>
      /\ \A z \in Zone : mem[z] # "none"
      /\ at[Main] = "idle" /\ at' = [at EXCEPT ![Main] = "take"]
      /\ UNCHANGED <<mem, refs, attached, list, owned, held, next, dying, ret>>
      /\ \A z \in Zone : Holders(z)' = Holders(z) /\ Takers(z)' = Takers(z)
  BY BeginKeeps, Walkers DEF MainClear, MainTo, domainVars
<1>2. at \in [Walker -> At]
  BY DEF ZonesInv, TypeOK
<1>3. WhoWalks'
  BY <1>1, <1>2, Walkers, StatsZonesAssumption DEF ZonesInv, WhoWalks
<1>4. InHand'
  BY <1>1, <1>2 DEF ZonesInv, InHand
<1>5. ListInv'
  BY <1>1, <1>2, Walkers DEF ZonesInv, ListInv, Unlinked
<1>6. RefsAccount'
  BY <1>1, AccountStays
<1>7. LastWalk'
  BY <1>1 DEF LastWalk
<1>8. QED
  BY <1>3, <1>4, <1>5, <1>6, <1>7 DEF ZonesInv

LEMMA MainClearedKeeps == ZonesInv /\ TypeOK' /\ MainCleared => ZonesInv'
<1> SUFFICES ASSUME ZonesInv, TypeOK', MainCleared PROVE ZonesInv'
  OBVIOUS
<1>1. /\ step = "clear" /\ step' = "start" /\ UNCHANGED <<phase, busy>>
      /\ at[Main] = "done" /\ at' = [at EXCEPT ![Main] = "idle"]
      /\ UNCHANGED <<mem, refs, attached, list, owned, held, next, dying, ret>>
      /\ \A z \in Zone : Holders(z)' = Holders(z) /\ Takers(z)' = Takers(z)
  BY EndKeeps, Walkers DEF MainCleared, MainTo, domainVars
<1>2. at \in [Walker -> At]
  BY DEF ZonesInv, TypeOK
<1>3. WhoWalks'
  BY <1>1, <1>2, Walkers, StatsZonesAssumption DEF ZonesInv, WhoWalks
<1>4. InHand'
  BY <1>1, <1>2 DEF ZonesInv, InHand
<1>5. ListInv'
  BY <1>1, <1>2, Walkers DEF ZonesInv, ListInv, Unlinked
<1>6. RefsAccount'
  BY <1>1, AccountStays
<1>7. LastWalk'
  BY <1>1 DEF LastWalk
<1>8. QED
  BY <1>3, <1>4, <1>5, <1>6, <1>7 DEF ZonesInv

LEMMA MainFreeKeeps == ZonesInv /\ TypeOK' /\ MainFree => ZonesInv'
<1> SUFFICES ASSUME ZonesInv, TypeOK', MainFree PROVE ZonesInv'
  OBVIOUS
<1>1. /\ step = "stop" /\ step' = "free" /\ UNCHANGED <<phase, busy>> /\ phase[Dom] = "off"
      /\ at[Main] = "idle" /\ at' = [at EXCEPT ![Main] = "take"]
      /\ UNCHANGED <<mem, refs, attached, list, owned, held, next, dying, ret>>
  BY BeginKeeps, Walkers DEF MainFree, MainTo, domainVars
<1>2. at \in [Walker -> At] /\ refs \in [Zone -> Int]
  BY DEF ZonesInv, TypeOK
<1>3. WhoWalks'
  BY <1>1, <1>2, Walkers, StatsZonesAssumption DEF ZonesInv, WhoWalks
<1>4. InHand'
  BY <1>1, <1>2 DEF ZonesInv, InHand
<1>5. ListInv'
  BY <1>1, <1>2, Walkers DEF ZonesInv, ListInv, Unlinked
<1>6. RefsAccount'
  BY <1>1 DEF RefsAccount
<1>7. \A w \in Walker : at[w] = "idle" /\ held[w] = NoZone /\ next[w] = NoZone
  BY <1>1 DEF Walker, ZonesInv, WhoWalks, InHand
<1>8. ASSUME NEW z \in Zone, mem[z] = "live" PROVE refs[z] = 0
  <2>1. Holders(z) = {} /\ Takers(z) = {} /\ z \notin owned
    BY <1>1, <1>7, StatsZonesAssumption DEF Holders, Takers, ZonesInv, ListInv
  <2>2. QED
    BY <1>1, <1>8, <2>1, FS_EmptySet DEF ZonesInv, RefsAccount
<1>9. LastWalk'
  BY <1>1, <1>2, <1>7, <1>8, Walkers, StatsZonesAssumption DEF LastWalk, Unlinked
<1>10. QED
  BY <1>3, <1>4, <1>5, <1>6, <1>9 DEF ZonesInv

LEMMA MainGoneKeeps == ZonesInv /\ TypeOK' /\ MainGone => ZonesInv'
<1> SUFFICES ASSUME ZonesInv, TypeOK', MainGone PROVE ZonesInv'
  OBVIOUS
<1>1. /\ step = "free" /\ step' = "gone" /\ UNCHANGED <<phase, busy>>
      /\ at[Main] = "done" /\ at' = [at EXCEPT ![Main] = "idle"]
      /\ UNCHANGED <<mem, refs, attached, list, owned, held, next, dying, ret>>
      /\ \A z \in Zone : Holders(z)' = Holders(z) /\ Takers(z)' = Takers(z)
  BY EndKeeps, Walkers DEF MainGone, MainTo, domainVars
<1>2. at \in [Walker -> At]
  BY DEF ZonesInv, TypeOK
<1>3. WhoWalks'
  BY <1>1, <1>2, Walkers, StatsZonesAssumption DEF ZonesInv, WhoWalks
<1>4. InHand'
  <2>1. \A w \in Walker : at[w] \notin {"detach", "release"}
    BY <1>1 DEF ZonesInv, InHand
  <2>2. QED
    BY <1>1, <1>2, <2>1 DEF ZonesInv, InHand
<1>5. list = <<>>
  BY <1>1 DEF ZonesInv, LastWalk
<1>6. ListInv'
  <2>1. \A z \in Zone : ~Unlinked(z) /\ ~Unlinked(z)'
    BY <1>1, <1>2, Walkers DEF Unlinked
  <2>2. /\ list' = <<>> /\ owned' = {} /\ step' = "gone"
        /\ \A i, j \in 1 .. Len(list') : list'[i] = list'[j] => i = j
        /\ \A z \in Zone :
             /\ Contains(list', z) <=> mem'[z] = "live"
             /\ mem'[z] \notin {"none", "freed twice"} /\ z \notin owned'
    <3>1. /\ \A i, j \in 1 .. Len(list) : list[i] = list[j] => i = j
          /\ \A z \in Zone :
               /\ Contains(list, z) <=> mem[z] = "live"
               /\ mem[z] \notin {"none", "freed twice"}
          /\ owned = {}
      BY <1>1, <2>1 DEF ZonesInv, ListInv
    <3>2. list' = list /\ mem' = mem /\ owned' = owned
      BY <1>1
    <3>3. step' = "gone" /\ list' = <<>>
      BY <1>1, <1>5
    <3>4. \A i, j \in 1 .. Len(list') : list'[i] = list'[j] => i = j
      BY <3>1, <3>2
    <3>5. \A z \in Zone :
             /\ Contains(list', z) <=> mem'[z] = "live"
             /\ mem'[z] \notin {"none", "freed twice"} /\ z \notin owned'
      BY <3>1, <3>2
    <3>6. QED
      BY <3>1, <3>2, <3>3, <3>4, <3>5
  <2>3. QED
    BY <2>1, <2>2 DEF ListInv
<1>7. \A z \in Zone : mem[z] # "live"
  <2>1. \A z \in Zone : ~Contains(list, z)
    BY <1>5 DEF Contains
  <2>2. QED
    BY <1>1, <2>1 DEF ZonesInv, ListInv, Unlinked
<1>8. RefsAccount'
  BY <1>1, <1>7 DEF RefsAccount
<1>9. LastWalk'
  BY <1>1 DEF LastWalk
<1>10. QED
  BY <1>3, <1>4, <1>6, <1>8, <1>9 DEF ZonesInv

\* The requests and the collector begin and end walks.
LEMMA OthersKeep ==
  ASSUME ZonesInv, TypeOK', step # "free",
         \/ CollectorBegin \/ CollectorEnd
         \/ \E w \in Rpc : RpcBegin(w) \/ RpcEnd(w)
  PROVE  ZonesInv'
<1>0. at \in [Walker -> At] /\ busy \in [{Dom} -> BOOLEAN]
  BY DEF ZonesInv, TypeOK
<1>1. PICK w \in Walker :
        /\ UNCHANGED <<mem, refs, attached, list, owned, held, next, dying, ret, step, phase>>
        /\ \A z \in Zone : Holders(z)' = Holders(z) /\ Takers(z)' = Takers(z)
        /\ \/ at[w] = "idle" /\ at' = [at EXCEPT ![w] = "take"]
           \/ at[w] = "done" /\ at' = [at EXCEPT ![w] = "idle"]
        /\ IF w = Collector
           THEN /\ phase[Dom] = "off" => ~busy[Dom]'
                /\ busy'[Dom] <=> at'[w] # "idle"
           ELSE busy' = busy /\ w \in Rpc /\ (at[w] = "idle" => step = "serve")
  <2>1. CASE CollectorBegin
    <3>1. BeginWalk(Collector) /\ step' = step /\ phase' = phase
          /\ busy' = [busy EXCEPT ![Dom] = TRUE] /\ phase[Dom] = "on"
      BY <2>1 DEF CollectorBegin, PT!BeginSample
    <3>2. QED
      BY <1>0, <3>1, BeginKeeps, Walkers
  <2>2. CASE CollectorEnd
    <3>1. EndWalk(Collector) /\ step' = step /\ phase' = phase
          /\ busy' = [busy EXCEPT ![Dom] = FALSE]
      BY <2>2 DEF CollectorEnd, PT!EndSample
    <3>2. QED
      BY <1>0, <3>1, EndKeeps, Walkers
  <2>3. ASSUME NEW w \in Rpc, RpcBegin(w)
        PROVE  BeginWalk(w) /\ step = "serve" /\ UNCHANGED <<step, phase, busy>>
    BY <2>3 DEF RpcBegin, domainVars
  <2>4. ASSUME NEW w \in Rpc, RpcEnd(w) PROVE EndWalk(w) /\ UNCHANGED <<step, phase, busy>>
    BY <2>4 DEF RpcEnd, domainVars
  <2>5. CASE \E w \in Rpc : RpcBegin(w)
    BY <2>3, <2>5, BeginKeeps, Walkers, StatsZonesAssumption
  <2>6. CASE \E w \in Rpc : RpcEnd(w)
    BY <2>4, <2>6, EndKeeps, Walkers, StatsZonesAssumption
  <2>7. QED
    BY <2>1, <2>2, <2>5, <2>6
<1>2. WhoWalks'
  BY <1>0, <1>1, Walkers, StatsZonesAssumption DEF ZonesInv, WhoWalks
<1>3. InHand'
  BY <1>0, <1>1 DEF ZonesInv, InHand
<1>4. ListInv'
  <2>1. \A z \in Zone : Unlinked(z)' = Unlinked(z)
    BY <1>0, <1>1, Walkers DEF Unlinked
  <2>2. QED
    BY <1>1, <2>1 DEF ZonesInv, ListInv
<1>5. RefsAccount'
  BY <1>1, AccountStays
<1>6. LastWalk'
  BY <1>1 DEF LastWalk
<1>7. QED
  BY <1>2, <1>3, <1>4, <1>5, <1>6 DEF ZonesInv

\* The domain is switched on or off, is off, or is left alone; no walk moves.
LEMMA SwitchesKeep ==
  ASSUME ZonesInv, TypeOK',
         MainStart \/ MainSkip \/ MainShutdown \/ MainStop \/ RpcSwitch \/ Stopped
  PROVE  ZonesInv'
<1>1. /\ UNCHANGED <<mem, refs, attached, list, owned, at, held, next, dying, ret, busy>>
      /\ step' = step \/ step' \in {"serve", "deinit", "stop"}
      /\ step # step' => step \in {"start", "alloc", "serve", "deinit"}
      /\ step # step' /\ step = "alloc" => \A z \in Zone : mem[z] # "none"
      /\ step # step' /\ step = "serve" => \A w \in Rpc : at[w] = "idle"
      /\ step # step' /\ step' = "stop" => owned = {}
      /\ step # step' => at[Main] = "idle"
      /\ phase'[Dom] = "off" => ~busy[Dom]
      /\ step' \in {"alloc", "attach", "clear", "start", "free", "gone"} => phase'[Dom] = "off"
  <2>1. phase \in [{Dom} -> {"off", "on", "draining"}]
    BY DEF ZonesInv, TypeOK
  <2>2. CASE MainStart
    BY <2>1, <2>2 DEF MainStart, MainTo, PT!SwitchOn, zoneVars, walkVars, ZonesInv, WhoWalks
  <2>3. CASE MainSkip
    BY <2>1, <2>3 DEF MainSkip, MainTo, domainVars, zoneVars, walkVars, ZonesInv, WhoWalks
  <2>4. CASE MainShutdown
    BY <2>1, <2>4 DEF MainShutdown, MainTo, domainVars, zoneVars, walkVars, ZonesInv, WhoWalks
  <2>5. CASE MainStop
    BY <2>1, <2>5 DEF MainStop, MainTo, PT!SwitchOff, domainVars, zoneVars, walkVars,
                      ZonesInv, WhoWalks
  <2>6. CASE RpcSwitch
    BY <2>1, <2>6 DEF RpcSwitch, PT!SwitchOn, PT!SwitchOff, zoneVars, walkVars,
                      ZonesInv, WhoWalks
  <2>7. CASE Stopped
    BY <2>1, <2>7 DEF Stopped, PT!Off, zoneVars, walkVars, ZonesInv, WhoWalks
  <2>8. QED
    BY <2>2, <2>3, <2>4, <2>5, <2>6, <2>7
<1>2. step \in Step /\ step' \in Step
  BY DEF ZonesInv, TypeOK
<1>3. WhoWalks'
  BY <1>1, <1>2 DEF ZonesInv, WhoWalks
<1>4. InHand'
  BY <1>1, <1>2 DEF ZonesInv, InHand
<1>5. ListInv'
  BY <1>1, <1>2 DEF ZonesInv, ListInv, Unlinked
<1>6. RefsAccount'
  BY <1>1, <1>2 DEF ZonesInv, RefsAccount, Holders, Takers
<1>7. LastWalk'
  <2>1. step' = "free" => step = "free"
    BY <1>1
  <2>2. Second' = Second /\ First' = First
    BY <1>1 DEF Second, First
  <2>3. QED
    BY <1>1, <2>1, <2>2 DEF ZonesInv, LastWalk, Unlinked
<1>8. QED
  BY <1>3, <1>4, <1>5, <1>6, <1>7 DEF ZonesInv

\* While zones are made nobody walks.
LEMMA NobodyWalks ==
  ASSUME ZonesInv, step \in {"alloc", "attach"}
  PROVE  \A w \in Walker : /\ at[w] = "idle" /\ held[w] = NoZone /\ next[w] = NoZone
                           /\ dying[w] = NoZone
BY WalkTime DEF ZonesInv, InHand

LEMMA PublishKeeps ==
  ASSUME ZonesInv, TypeOK', NEW z \in Zone, Publish(z)
  PROVE  ZonesInv'
<1>1. /\ step = "alloc" /\ step' = "attach" /\ mem[z] = "none"
      /\ mem' = [mem EXCEPT ![z] = "live"] /\ list' = Append(list, z)
      /\ UNCHANGED <<phase, busy, refs, attached, owned, at, held, next, dying, ret>>
  BY DEF Publish, domainVars, walkVars
<1>2. list \in Seq(Zone) /\ mem \in [Zone -> {"none", "live", "freed", "freed twice"}]
  BY DEF ZonesInv, TypeOK
<1>3. /\ Len(list') = Len(list) + 1 /\ Len(list) \in Nat
      /\ \A i \in 1 .. Len(list) : list'[i] = list[i]
      /\ list'[Len(list) + 1] = z
      /\ list' # <<>> /\ Last(list') = z
  <2> DEFINE l == Append(list, z)
  <2>1. /\ l # <<>> /\ Len(l) = Len(list) + 1
        /\ \A i \in 1 .. Len(list) : l[i] = list[i]
        /\ l[Len(list) + 1] = z
    <3>1. list \in Seq(Zone)
      BY <1>2
    <3>2. l # <<>>
      BY <3>1, AppendProperties
    <3>3. Len(l) = Len(list) + 1
      BY <3>1, AppendProperties
    <3>4. \A i \in 1 .. Len(list) : l[i] = list[i]
      BY <3>1, AppendProperties
    <3>5. l[Len(list) + 1] = z
      BY <3>1, AppendProperties
    <3>6. QED
      BY <3>2, <3>3, <3>4, <3>5
  <2>2. Len(list) \in Nat
    BY <1>2, LenProperties
  <2>3. list' = l
    BY <1>1
  <2> HIDE DEF l
  <2>4. QED
    BY <2>1, <2>2, <2>3 DEF Last
<1>4. \A y : Contains(list', y) <=> Contains(list, y) \/ y = z
  BY <1>3 DEF Contains
<1>5. ~Contains(list, z) /\ z \notin owned
  BY <1>1 DEF ZonesInv, ListInv
<1>6. \A y : ~Unlinked(y) /\ ~Unlinked(y)'
  BY <1>1, NobodyWalks, Walkers DEF Unlinked
<1>7. WhoWalks'
  BY <1>1 DEF ZonesInv, WhoWalks
<1>8. InHand'
  BY <1>1, NobodyWalks DEF ZonesInv, InHand
<1>9. ListInv'
  <2>1. \A i, j \in 1 .. Len(list') : list'[i] = list'[j] => i = j
    <3>1. \A i, j \in 1 .. Len(list) : list[i] = list[j] => i = j
      BY DEF ZonesInv, ListInv
    <3>2. \A i \in 1 .. Len(list) : list[i] # z
      BY <1>5 DEF Contains
    <3>3. QED
      BY <1>3, <3>1, <3>2
  <2>2. ASSUME NEW y \in Zone
        PROVE  /\ Contains(list', y) <=> mem'[y] = "live"
               /\ mem'[y] = "none" => refs[y] = 0
               /\ mem'[y] # "freed" /\ mem'[y] # "freed twice"
               /\ y \in owned => mem'[y] = "live"
    BY <1>1, <1>2, <1>4, <1>6 DEF ZonesInv, ListInv
  <2>3. QED
    BY <1>1, <1>3, <1>5, <1>6, <2>1, <2>2 DEF ListInv
<1>10. RefsAccount'
  <2>1. \A y \in Zone : Holders(y)' = Holders(y) /\ Takers(y)' = Takers(y)
    BY <1>1 DEF Holders, Takers
  <2>2. Holders(z) = {} /\ Takers(z) = {} /\ refs[z] = 0
    BY <1>1, NobodyWalks, StatsZonesAssumption DEF Holders, Takers, ZonesInv, ListInv
  <2>3. Cardinality(Holders(z)) = 0 /\ Cardinality(Takers(z)) = 0
    BY <2>2, FS_EmptySet
  <2>4. ASSUME NEW y \in Zone, mem'[y] = "live"
        PROVE  refs'[y] = Cardinality(Holders(y)') + Cardinality(Takers(y)')
                            + (IF y \in owned' THEN 1 ELSE 0)
    <3>1. CASE y = z
      <4>1. refs'[z] = 0 /\ z \notin owned'
        BY <1>1, <1>5, <2>2
      <4>2. Cardinality(Holders(z)') = 0 /\ Cardinality(Takers(z)') = 0
        BY <2>1, <2>3
      <4>3. QED
        BY <3>1, <4>1, <4>2
    <3>2. CASE y # z
      BY <1>1, <1>2, <2>1, <2>4, <3>2 DEF ZonesInv, RefsAccount
    <3>3. QED
      BY <3>1, <3>2
  <2>5. QED
    BY <2>4 DEF RefsAccount
<1>11. LastWalk'
  BY <1>1 DEF LastWalk
<1>12. QED
  BY <1>7, <1>8, <1>9, <1>10, <1>11 DEF ZonesInv

LEMMA AttachKeeps ==
  ASSUME ZonesInv, TypeOK', NEW z \in Zone, AttachBlocks(z)
  PROVE  ZonesInv'
<1>1. /\ step = "attach" /\ step' = "alloc" /\ z = Last(list)
      /\ refs' = [refs EXCEPT ![z] = @ + 1] /\ owned' = owned \cup {z}
      /\ UNCHANGED <<phase, busy, mem, list, at, held, next, dying, ret>>
  BY DEF AttachBlocks, domainVars, walkVars
<1>2. list \in Seq(Zone) /\ refs \in [Zone -> Int]
  BY DEF ZonesInv, TypeOK
<1>3. list # <<>> /\ z \notin owned
  BY <1>1 DEF ZonesInv, ListInv
<1>4. Contains(list, z)
  BY <1>1, <1>2, <1>3 DEF Contains, Last
<1>5. mem[z] = "live"
  BY <1>4 DEF ZonesInv, ListInv
<1>6. \A y : ~Unlinked(y) /\ ~Unlinked(y)'
  BY <1>1, NobodyWalks, Walkers DEF Unlinked
<1>7. WhoWalks'
  BY <1>1 DEF ZonesInv, WhoWalks
<1>8. InHand'
  BY <1>1, NobodyWalks DEF ZonesInv, InHand
<1>9. ListInv'
  BY <1>1, <1>2, <1>5, <1>6 DEF ZonesInv, ListInv
<1>10. RefsAccount'
  <2>1. \A y \in Zone : Holders(y)' = Holders(y) /\ Takers(y)' = Takers(y)
    BY <1>1 DEF Holders, Takers
  <2>2. \A y \in Zone : Cardinality(Holders(y)) \in Nat /\ Cardinality(Takers(y)) \in Nat
    BY FiniteWalkers, FS_CardinalityType
  <2>3. QED
    BY <1>1, <1>2, <1>3, <2>1, <2>2 DEF ZonesInv, RefsAccount
<1>11. LastWalk'
  BY <1>1 DEF LastWalk
<1>12. QED
  BY <1>7, <1>8, <1>9, <1>10, <1>11 DEF ZonesInv

\* deinit_*: the owner's reference is never the last one.
LEMMA MainFreeZoneKeeps ==
  ASSUME ZonesInv, TypeOK', NEW z \in Zone, MainFreeZone(z)
  PROVE  ZonesInv'
<1>1. /\ step = "deinit" /\ step' = step /\ z \in owned /\ owned' = owned \ {z}
      /\ at[Main] = "idle" /\ Put(Main, z, "idle")
      /\ UNCHANGED <<phase, busy, mem, list, held, next>>
  BY DEF MainFreeZone, domainVars
<1>2. mem[z] = "live"
  BY <1>1 DEF ZonesInv, ListInv
<1>3. refs[z] # 0
  BY <1>1, <1>2, Counted
<1>4. TypeOK
  BY DEF ZonesInv
<1>5. /\ refs' = [refs EXCEPT ![z] = @ - 1] /\ dying' = [dying EXCEPT ![Main] = NoZone]
      /\ ret' = [ret EXCEPT ![Main] = "idle"] /\ at' = at
  BY <1>1, <1>3, <1>4 DEF Put, Goto, TypeOK
<1>6. WhoWalks'
  BY <1>1, <1>5 DEF ZonesInv, WhoWalks
<1>7. InHand'
  BY <1>1, <1>4, <1>5, Walkers DEF ZonesInv, InHand, TypeOK
<1>8. ListInv'
  BY <1>1, <1>5 DEF ZonesInv, ListInv, Unlinked
<1>9. RefsAccount'
  <2>1. \A y \in Zone : Holders(y)' = Holders(y) /\ Takers(y)' = Takers(y)
    BY <1>1, <1>5 DEF Holders, Takers
  <2>2. \A y \in Zone : Cardinality(Holders(y)) \in Nat /\ Cardinality(Takers(y)) \in Nat
    BY FiniteWalkers, FS_CardinalityType
  <2>3. refs \in [Zone -> Int]
    BY <1>4 DEF TypeOK
  <2>4. QED
    BY <1>1, <1>5, <2>1, <2>2, <2>3 DEF ZonesInv, RefsAccount
<1>10. LastWalk'
  BY <1>1 DEF LastWalk
<1>11. QED
  BY <1>6, <1>7, <1>8, <1>9, <1>10 DEF ZonesInv

-----------------------------------------------------------------------------
(* The last walk.                                                          *)

LEMMA OneOrMore ==
  ASSUME NEW n \in Nat \ {0}
  PROVE  /\ 1 \in 1 .. n /\ n \in 1 .. n
         /\ IF n < 2 THEN n = 1 ELSE n # 1 /\ 2 \in 1 .. n
  OBVIOUS

LEMMA HeadIsFirst ==
  ASSUME ZonesInv, list # <<>>
  PROVE  /\ Len(list) \in Nat \ {0} /\ First = list[1] /\ Head(list) = list[1]
         /\ list[1] \in Zone /\ Contains(list, list[1])
         /\ Position(list[1]) = 1
         /\ Following(list[1]) = Second
         /\ Second # list[1] /\ Second \in Zone \cup {NoZone}
<1>1. list \in Seq(Zone)
  BY DEF ZonesInv, TypeOK
<1>2. Len(list) \in Nat \ {0}
  BY <1>1, EmptySeq
<1>3. Head(list) = list[1] /\ list[1] \in Zone
  BY <1>1, <1>2, ElementOfSeq
<1>4. Contains(list, list[1])
  BY <1>2 DEF Contains
<1>5. DOMAIN list = 1 .. Len(list)
  BY <1>1, LenProperties
<1>6. \A i, j \in 1 .. Len(list) : list[i] = list[j] => i = j
  BY DEF ZonesInv, ListInv
<1>7. Position(list[1]) = 1
  <2>1. \A i \in DOMAIN list : list[i] = list[1] => i = 1
    BY <1>2, <1>5, <1>6
  <2>2. 1 \in DOMAIN list
    BY <1>2, <1>5
  <2>3. QED
    BY <2>1, <2>2 DEF Position
<1>8. Second # list[1] /\ Second \in Zone \cup {NoZone}
  <2>1. CASE Len(list) < 2
    BY <1>3, <2>1, StatsZonesAssumption DEF Second
  <2>2. CASE ~(Len(list) < 2)
    <3>1. 1 \in 1 .. Len(list) /\ 2 \in 1 .. Len(list)
      BY <1>2, <2>2, OneOrMore
    <3>2. list[2] # list[1] /\ list[2] \in Zone
      BY <1>1, <1>6, <3>1, ElementOfSeq
    <3>3. QED
      BY <2>2, <3>2 DEF Second
  <2>3. QED
    BY <2>1, <2>2
<1>9. Following(list[1]) = Second
  <2>1. CASE Len(list) < 2
    <3>1. Len(list) = 1
      BY <1>2, <2>1, OneOrMore
    <3>2. QED
      BY <2>1, <3>1 DEF Following, Second, Last
  <2>2. CASE ~(Len(list) < 2)
    <3>1. Len(list) \in 1 .. Len(list) /\ 1 \in 1 .. Len(list) /\ Len(list) # 1
      BY <1>2, <2>2, OneOrMore
    <3>2. list[1] # Last(list)
      BY <1>6, <3>1 DEF Last
    <3>3. QED
      BY <1>4, <1>7, <2>2, <3>2 DEF Following, Second
  <2>3. QED
    BY <2>1, <2>2
<1>10. QED
  BY <1>2, <1>3, <1>4, <1>7, <1>8, <1>9 DEF First

LEMMA HeadRemoved ==
  ASSUME ZonesInv, list # <<>>, NEW l, l = RemoveAt(list, Position(list[1]))
  PROVE  /\ l \in Seq(Zone) /\ Len(l) = Len(list) - 1
         /\ \A i \in 1 .. Len(l) : l[i] = list[i + 1]
<1>1. list \in Seq(Zone) /\ Len(list) \in Nat \ {0} /\ Position(list[1]) = 1
  BY HeadIsFirst DEF ZonesInv, TypeOK
<1>2. l = SubSeq(list, 1, 0) \o SubSeq(list, 2, Len(list))
  BY <1>1 DEF RemoveAt
<1>3. SubSeq(list, 1, 0) = <<>>
  BY SubSeqEmpty
<1>4. \A i \in 2 .. Len(list) : list[i] \in Zone
  BY <1>1, ElementOfSeq
<1> DEFINE t == SubSeq(list, 2, Len(list))
<1>5. t \in Seq(Zone)
  BY <1>1, <1>4, SubSeqProperties
<1>6. Len(t) = IF 2 <= Len(list) THEN Len(list) - 2 + 1 ELSE 0
  BY <1>1, <1>4, SubSeqProperties
<1>7. \A i \in 1 .. Len(list) - 2 + 1 : t[i] = list[2 + i - 1]
  BY <1>1, <1>4, SubSeqProperties
<1>8. l = t
  BY <1>2, <1>3, <1>5, ConcatEmptySeq
<1> HIDE DEF t
<1>9. QED
  BY <1>1, <1>5, <1>6, <1>7, <1>8

\* What is known of the main thread in its last walk, zone by zone.
LEMMA LastWalkNow ==
  ASSUME ZonesInv, step = "free"
  PROVE  /\ at[Main] \in {"take", "drop", "arrive", "visit", "detach", "release", "done"}
         /\ list \in Seq(Zone) /\ refs \in [Zone -> Int]
         /\ at \in [Walker -> At] /\ held \in [Walker -> Zone \cup {NoZone}]
         /\ next \in [Walker -> Zone \cup {NoZone}] /\ dying \in [Walker -> Zone \cup {NoZone}]
         /\ ret \in [Walker -> At]
         /\ mem \in [Zone -> {"none", "live", "freed", "freed twice"}]
         /\ \A w \in Walker \ {Main} : at[w] = "idle"
         /\ First \in Zone \cup {NoZone}
         /\ list = <<>> <=> First = NoZone
<1>1. TypeOK
  BY DEF ZonesInv
<1>2. at[Main] \in At /\ at[Main] \notin {"idle", "touch"}
  BY <1>1, Walkers DEF TypeOK, ZonesInv, LastWalk
<1>3. \A w \in Walker \ {Main} : at[w] = "idle"
  BY WalkTime
<1>4. First \in Zone \cup {NoZone}
  BY <1>1, FirstTyped
<1>5. list = <<>> <=> First = NoZone
  <2>1. list # <<>> => First \in Zone
    BY HeadIsFirst
  <2>2. list = <<>> => First = NoZone
    BY DEF First
  <2>3. QED
    BY <2>1, <2>2, StatsZonesAssumption
<1>6. QED
  BY <1>1, <1>2, <1>3, <1>4, <1>5 DEF TypeOK, At

\* A step of it leaves the domain, the time and the other walkers alone.
LEMMA LastWalkControl ==
  ASSUME ZonesInv, TypeOK', step = "free", NEW a \in At \ {"idle", "touch"},
         at' = [at EXCEPT ![Main] = a],
         UNCHANGED <<phase, busy, step, owned>>,
         \A w \in Walker \ {Main} :
           held'[w] = held[w] /\ next'[w] = next[w] /\ dying'[w] = dying[w],
         a = "done" => held'[Main] = NoZone,
         a \notin {"drop", "arrive", "detach", "release"} => next'[Main] = NoZone,
         a \in {"visit", "detach", "release"} => held'[Main] # NoZone,
         IF a \in {"detach", "release"} THEN dying'[Main] = held'[Main] /\ ret'[Main] = "arrive"
                                        ELSE dying'[Main] = NoZone
  PROVE  WhoWalks' /\ InHand' /\ RefsAccount'
<1>1. /\ at[Main] # "idle" /\ \A w \in Walker \ {Main} : at[w] = "idle" /\ at'[w] = "idle"
      /\ at'[Main] = a
  BY LastWalkNow, Walkers
<1>2. \A w \in Walker : at'[w] = "idle" <=> at[w] = "idle"
  BY <1>1
<1>3. WhoWalks'
  BY <1>2, Walkers DEF ZonesInv, WhoWalks
<1>4. InHand'
  <2>1. ASSUME NEW w \in Walker \ {Main}
        PROVE  at'[w] = "idle" /\ held'[w] = NoZone /\ next'[w] = NoZone /\ dying'[w] = NoZone
    BY <1>1 DEF ZonesInv, InHand
  <2>2. QED
    BY <1>1, <2>1 DEF InHand
<1>5. RefsAccount'
  BY DEF RefsAccount
<1>6. QED
  BY <1>3, <1>4, <1>5

LEMMA LastTake ==
  ASSUME ZonesInv, TypeOK', step = "free", Take(Main)
  PROVE  ZonesInv'
<1> DEFINE n == IF held[Main] = NoZone THEN First ELSE Second
<1>1. at[Main] = "take" /\ next[Main] = NoZone
  BY Walkers DEF Take, ZonesInv, InHand
<1>2. held[Main] # NoZone => list # <<>> /\ held[Main] = list[1] /\ Following(held[Main]) = Second
  BY <1>1, HeadIsFirst DEF ZonesInv, LastWalk
<1>3. /\ next' = [next EXCEPT ![Main] = n]
      /\ refs' = [z \in Zone |-> IF z = n THEN refs[z] + 1 ELSE refs[z]]
      /\ at' = [at EXCEPT ![Main] = "drop"]
      /\ UNCHANGED <<phase, busy, step, mem, list, owned, held, dying>>
  BY <1>2 DEF Take, Goto, domainVars
<1>4. next'[Main] = n /\ at'[Main] = "drop" /\ "drop" \in At
  BY <1>3, LastWalkNow, Walkers DEF At
<1> HIDE DEF n
<1>5. WhoWalks' /\ InHand' /\ RefsAccount'
  BY <1>1, <1>3, <1>4, LastWalkControl, LastWalkNow, Walkers DEF ZonesInv, InHand
<1>6. \A z \in Zone : ~Unlinked(z) /\ ~Unlinked(z)'
  BY <1>1, <1>4 DEF Unlinked
<1>7. ListInv'
  BY <1>3, <1>6 DEF ZonesInv, ListInv
<1>8. LastWalk'
  <2>1. Second' = Second /\ First' = First
    BY <1>3 DEF Second, First
  <2>2. ASSUME NEW z \in Zone, mem[z] = "live"
        PROVE  refs'[z] = IF z = n THEN 1 ELSE 0
    <3>1. refs[z] = 0
      BY <1>1, <1>6, <2>2, StatsZonesAssumption DEF ZonesInv, LastWalk
    <3>2. QED
      BY <1>3, <3>1
  <2>3. held'[Main] = held[Main]
    BY <1>3
  <2>4. n = IF held[Main] = NoZone THEN First ELSE Second
    BY DEF n
  <2>5. QED
    BY <1>2, <1>3, <1>4, <1>6, <2>1, <2>2, <2>3, <2>4, HeadIsFirst DEF LastWalk
<1>9. QED
  BY <1>5, <1>7, <1>8 DEF ZonesInv

LEMMA LastDrop ==
  ASSUME ZonesInv, TypeOK', step = "free", Drop(Main)
  PROVE  ZonesInv'
<1>1. at[Main] = "drop" /\ dying[Main] = NoZone
  BY Walkers DEF Drop, ZonesInv, InHand
<1>2. /\ UNCHANGED <<phase, busy, step, mem, list, owned, held, next>>
      /\ Second' = Second /\ First' = First
  BY DEF Drop, domainVars, Second, First
<1>3. \A z \in Zone : ~Unlinked(z)
  BY <1>1 DEF Unlinked
<1>4. CASE held[Main] = NoZone
  <2>1. at' = [at EXCEPT ![Main] = "arrive"] /\ UNCHANGED <<refs, dying, ret>>
    BY <1>4 DEF Drop, Goto
  <2>2. at'[Main] = "arrive" /\ "arrive" \in At
    BY <2>1, LastWalkNow, Walkers DEF At
  <2>3. WhoWalks' /\ InHand' /\ RefsAccount'
    BY <1>1, <1>2, <2>1, <2>2, LastWalkControl
  <2>4. \A z \in Zone : ~Unlinked(z)'
    BY <2>2 DEF Unlinked
  <2>5. ListInv'
    BY <1>2, <1>3, <2>1, <2>4 DEF ZonesInv, ListInv
  <2>6. LastWalk'
    BY <1>1, <1>2, <1>3, <1>4, <2>1, <2>2, <2>4 DEF ZonesInv, LastWalk
  <2>7. QED
    BY <2>3, <2>5, <2>6 DEF ZonesInv
<1>5. CASE held[Main] # NoZone
  <2>1. list # <<>> /\ held[Main] = list[1] /\ next[Main] = Second
    BY <1>1, <1>5, HeadIsFirst DEF ZonesInv, LastWalk
  <2> DEFINE h == list[1]
  <2>2. h \in Zone /\ Contains(list, h) /\ Second # h /\ Head(list) = h
    BY <2>1, HeadIsFirst
  <2>3. mem[h] = "live"
    BY <1>3, <2>2 DEF ZonesInv, ListInv
  <2>4. refs[h] = 0
    BY <1>1, <1>3, <2>1, <2>2, <2>3 DEF ZonesInv, LastWalk
  <2>5. /\ refs' = [refs EXCEPT ![h] = refs[h] - 1]
        /\ dying' = [dying EXCEPT ![Main] = h]
        /\ ret' = [ret EXCEPT ![Main] = "arrive"]
        /\ at' = [at EXCEPT ![Main] = "detach"]
    BY <1>5, <2>1, <2>4 DEF Drop, Put, Goto
  <2> HIDE DEF h
  <2>6. /\ at'[Main] = "detach" /\ dying'[Main] = h /\ ret'[Main] = "arrive" /\ held'[Main] = h
        /\ "detach" \in At
    BY <1>2, <2>1, <2>5, LastWalkNow, Walkers DEF At, h
  <2>7. WhoWalks' /\ InHand' /\ RefsAccount'
    BY <1>2, <1>5, <2>5, <2>6, LastWalkControl, LastWalkNow
  <2>8. \A z \in Zone : ~Unlinked(z)'
    BY <2>6 DEF Unlinked
  <2>9. ListInv'
    <3>1. \A z \in Zone : mem[z] # "none"
      BY DEF ZonesInv, ListInv
    <3>2. QED
      BY <1>2, <1>3, <2>8, <3>1 DEF ZonesInv, ListInv
  <2>10. LastWalk'
    <3>1. ASSUME NEW z \in Zone, mem[z] = "live"
          PROVE  refs'[z] = IF z = Second THEN 1 ELSE IF z = h THEN -1 ELSE 0
      <4>1. refs[z] = IF z = Second THEN 1 ELSE 0
        BY <1>1, <1>3, <2>1, <3>1 DEF ZonesInv, LastWalk
      <4>2. refs'[z] = IF z = h THEN -1 ELSE refs[z]
        <5>1. refs' = [refs EXCEPT ![h] = -1]
          BY <2>4, <2>5
        <5>2. QED
          BY <2>2, <5>1, LastWalkNow
      <4>3. QED
        BY <2>2, <4>1, <4>2
    <3>2. QED
      BY <1>2, <1>5, <2>1, <2>2, <2>6, <2>8, <3>1 DEF LastWalk
  <2>11. QED
    BY <2>7, <2>9, <2>10 DEF ZonesInv
<1>6. QED
  BY <1>4, <1>5

LEMMA LastArrive ==
  ASSUME ZonesInv, TypeOK', step = "free", Arrive(Main)
  PROVE  ZonesInv'
<1> DEFINE a == IF next[Main] = NoZone THEN "done" ELSE "visit"
<1>1. at[Main] = "arrive" /\ dying[Main] = NoZone /\ next[Main] = First
  BY Walkers DEF Arrive, ZonesInv, InHand, LastWalk
<1>2. /\ held' = [held EXCEPT ![Main] = First] /\ next' = [next EXCEPT ![Main] = NoZone]
      /\ at' = [at EXCEPT ![Main] = a]
      /\ UNCHANGED <<phase, busy, step, mem, refs, list, owned, dying>>
      /\ Second' = Second /\ First' = First
  BY <1>1 DEF Arrive, Goto, domainVars, zoneVars, Second, First
<1>3. a \in At
  BY DEF At
<1>4. held'[Main] = First /\ next'[Main] = NoZone /\ at'[Main] = a
  BY <1>2, LastWalkNow, Walkers
<1>5. WhoWalks' /\ InHand' /\ RefsAccount'
  BY <1>1, <1>2, <1>3, <1>4, LastWalkControl, LastWalkNow
<1>6. \A z \in Zone : ~Unlinked(z) /\ ~Unlinked(z)'
  BY <1>1, <1>4 DEF Unlinked
<1>7. ListInv'
  BY <1>2, <1>6 DEF ZonesInv, ListInv
<1>8. LastWalk'
  <2>1. ASSUME NEW z \in Zone, mem[z] = "live"
        PROVE  refs'[z] = IF z = First THEN 1 ELSE 0
    BY <1>1, <1>2, <1>6, <2>1 DEF ZonesInv, LastWalk
  <2>2. First # NoZone => list # <<>> /\ First = Head(list)
    BY LastWalkNow DEF First
  <2>3. First = NoZone => list = <<>>
    BY LastWalkNow
  <2>4. CASE First = NoZone
    BY <1>1, <1>2, <1>4, <1>6, <2>1, <2>3, <2>4 DEF LastWalk
  <2>5. CASE First # NoZone
    BY <1>1, <1>2, <1>4, <1>6, <2>1, <2>2, <2>5, StatsZonesAssumption DEF LastWalk
  <2>6. QED
    BY <2>4, <2>5
<1>9. QED
  BY <1>5, <1>7, <1>8 DEF ZonesInv

LEMMA LastVisit ==
  ASSUME ZonesInv, TypeOK', step = "free", Visit(Main)
  PROVE  ZonesInv'
<1> DEFINE h == held[Main]
<1>1. at[Main] = "visit" /\ dying[Main] = NoZone /\ next[Main] = NoZone /\ h # NoZone
  BY Walkers DEF Visit, ZonesInv, InHand
<1>2. list # <<>> /\ h = Head(list)
  BY <1>1 DEF ZonesInv, LastWalk
<1>3. h \in Zone /\ Contains(list, h)
  BY <1>2, HeadIsFirst
<1>4. \A z \in Zone : ~Unlinked(z)
  BY <1>1 DEF Unlinked
<1>5. mem[h] = "live"
  BY <1>3, <1>4 DEF ZonesInv, ListInv
<1>6. \A z \in Zone : mem[z] = "live" => refs[z] = IF z = h THEN 1 ELSE 0
  BY <1>1, <1>4, StatsZonesAssumption DEF ZonesInv, LastWalk
<1>7. /\ refs' = [refs EXCEPT ![h] = refs[h] - 1]
      /\ dying' = [dying EXCEPT ![Main] = NoZone]
      /\ at' = [at EXCEPT ![Main] = "take"]
      /\ UNCHANGED <<phase, busy, step, mem, list, owned, held, next>>
  BY <1>3, <1>5, <1>6 DEF Visit, Put, Goto, domainVars
<1> HIDE DEF h
<1>8. dying'[Main] = NoZone /\ at'[Main] = "take" /\ "take" \in At /\ held'[Main] = h
      /\ next'[Main] = NoZone
  BY <1>1, <1>7, LastWalkNow, Walkers DEF At, h
<1>9. WhoWalks' /\ InHand' /\ RefsAccount'
  BY <1>1, <1>7, <1>8, LastWalkControl, LastWalkNow
<1>10. \A z \in Zone : ~Unlinked(z)'
  BY <1>8 DEF Unlinked
<1>11. ListInv'
  <2>1. \A z \in Zone : mem[z] # "none"
    BY DEF ZonesInv, ListInv
  <2>2. QED
    BY <1>4, <1>7, <1>10, <2>1 DEF ZonesInv, ListInv
<1>12. LastWalk'
  <2>1. ASSUME NEW z \in Zone, mem[z] = "live" PROVE refs'[z] = 0
    <3>1. refs'[z] = IF z = h THEN refs[h] - 1 ELSE refs[z]
      BY <1>3, <1>7, LastWalkNow
    <3>2. refs[z] = IF z = h THEN 1 ELSE 0
      BY <1>6, <2>1
    <3>3. QED
      BY <3>1, <3>2
  <2>2. QED
    BY <1>2, <1>7, <1>8, <1>10, <2>1, StatsZonesAssumption DEF LastWalk
<1>13. QED
  BY <1>9, <1>11, <1>12 DEF ZonesInv


LEMMA LastDetach ==
  ASSUME ZonesInv, TypeOK', step = "free", Detach(Main)
  PROVE  ZonesInv'
<1> DEFINE h == held[Main]
<1>1. at[Main] = "detach" /\ dying[Main] = h /\ ret[Main] = "arrive" /\ h # NoZone
  BY Walkers DEF Detach, ZonesInv, InHand
<1>2. list # <<>> /\ h = list[1] /\ next[Main] = Second
  BY <1>1, HeadIsFirst DEF ZonesInv, LastWalk
<1>3. /\ h \in Zone /\ Contains(list, h) /\ Len(list) \in Nat \ {0} /\ Second # h
      /\ list \in Seq(Zone)
  BY <1>2, HeadIsFirst, LastWalkNow
<1>4. /\ list' = RemoveAt(list, Position(list[1]))
      /\ at' = [at EXCEPT ![Main] = "release"]
      /\ UNCHANGED <<phase, busy, step, mem, refs, owned, held, next, dying, ret>>
  BY <1>1, <1>2, <1>3 DEF Detach, Goto, domainVars
<1>5. /\ list' \in Seq(Zone) /\ Len(list') = Len(list) - 1
      /\ \A i \in 1 .. Len(list') : list'[i] = list[i + 1]
  BY <1>2, <1>4, HeadRemoved
<1> HIDE DEF h
<1>6. at'[Main] = "release" /\ "release" \in At
  BY <1>4, LastWalkNow, Walkers DEF At
<1>7. WhoWalks' /\ InHand' /\ RefsAccount'
  BY <1>1, <1>4, <1>6, LastWalkControl, LastWalkNow DEF h
<1>8. \A z \in Zone : ~Unlinked(z) /\ (Unlinked(z)' <=> z = h)
  BY <1>1, <1>4, <1>6 DEF Unlinked
<1>9. mem[h] = "live"
  BY <1>3, <1>8 DEF ZonesInv, ListInv
<1>10. \A i, j \in 1 .. Len(list) : list[i] = list[j] => i = j
  BY DEF ZonesInv, ListInv
<1>11. ASSUME NEW z PROVE Contains(list', z) <=> Contains(list, z) /\ z # h
  <2>1. ASSUME NEW i \in 1 .. Len(list'), list'[i] = z
        PROVE  Contains(list, z) /\ z # h
    <3>1. i + 1 \in 1 .. Len(list) /\ i + 1 # 1 /\ 1 \in 1 .. Len(list)
      BY <1>3, <1>5
    <3>2. list[i + 1] = z
      BY <1>5, <2>1
    <3>3. QED
      BY <1>2, <1>10, <3>1, <3>2 DEF Contains
  <2>2. ASSUME NEW i \in 1 .. Len(list), list[i] = z, z # h
        PROVE  Contains(list', z)
    <3>1. i # 1
      BY <1>2, <2>2
    <3>2. i - 1 \in 1 .. Len(list') /\ (i - 1) + 1 = i
      BY <1>3, <1>5, <3>1
    <3>3. list'[i - 1] = z
      BY <1>5, <2>2, <3>2
    <3>4. QED
      BY <3>2, <3>3 DEF Contains
  <2>3. QED
    BY <2>1, <2>2 DEF Contains
<1>12. ListInv'
  <2>1. \A i, j \in 1 .. Len(list') : list'[i] = list'[j] => i = j
    <3>1. ASSUME NEW i \in 1 .. Len(list'), NEW j \in 1 .. Len(list'), list'[i] = list'[j]
          PROVE  i = j
      <4>1. i + 1 \in 1 .. Len(list) /\ j + 1 \in 1 .. Len(list)
        BY <1>3, <1>5
      <4>2. list[i + 1] = list[j + 1]
        BY <1>5, <3>1
      <4>3. i + 1 = j + 1
        BY <1>10, <4>1, <4>2
      <4>4. QED
        BY <4>3
    <3>2. QED
      BY <3>1
  <2>2. \A z \in Zone : Contains(list', z) <=> mem[z] = "live" /\ ~Unlinked(z)'
    BY <1>8, <1>11 DEF ZonesInv, ListInv
  <2>3. \A z \in Zone : Unlinked(z)' => mem[z] = "live"
    BY <1>8, <1>9
  <2>4. QED
    BY <1>4, <2>1, <2>2, <2>3 DEF ZonesInv, ListInv
<1>13. First' = Second
  <2>1. First' = IF list' = <<>> THEN NoZone ELSE Head(list')
    BY DEF First
  <2>2. CASE Len(list) < 2
    <3>1. Len(list') = 0
      BY <1>3, <1>5, <2>2
    <3>2. list' = <<>>
      BY <1>5, <3>1, EmptySeq
    <3>3. QED
      BY <2>1, <2>2, <3>2 DEF Second
  <2>3. CASE ~(Len(list) < 2)
    <3>1. Len(list') # 0 /\ 1 \in 1 .. Len(list') /\ 1 + 1 = 2
      BY <1>3, <1>5, <2>3
    <3>2. list' # <<>>
      BY <3>1, EmptySeq
    <3>3. list'[1] = list[2]
      BY <1>5, <3>1
    <3>4. Head(list') = list'[1]
      BY <1>5, <3>2, HeadTailProperties
    <3>5. QED
      BY <2>1, <2>3, <3>2, <3>3, <3>4 DEF Second
  <2>4. QED
    BY <2>2, <2>3
<1>14. LastWalk'
  <2>1. ASSUME NEW z \in Zone, mem[z] = "live", z # h
        PROVE  refs[z] = IF z = next[Main] THEN 1 ELSE 0
    BY <1>1, <1>8, <2>1 DEF ZonesInv, LastWalk, h
  <2>2. QED
    BY <1>2, <1>4, <1>6, <1>8, <1>13, <2>1 DEF LastWalk
<1>15. QED
  BY <1>7, <1>12, <1>14 DEF ZonesInv

LEMMA LastRelease ==
  ASSUME ZonesInv, TypeOK', step = "free", Release(Main)
  PROVE  ZonesInv'
<1> DEFINE h == dying[Main]
<1>1. at[Main] = "release" /\ h = held[Main] /\ ret[Main] = "arrive" /\ h # NoZone
      /\ h \in Zone
  BY Walkers, LastWalkNow DEF Release, ZonesInv, InHand
<1>2. \A z \in Zone : Unlinked(z) <=> z = h
  BY <1>1 DEF Unlinked
<1>3. mem[h] = "live" /\ ~Contains(list, h)
  BY <1>1, <1>2 DEF ZonesInv, ListInv
<1>4. /\ mem' = [mem EXCEPT ![h] = "freed"]
      /\ dying' = [dying EXCEPT ![Main] = NoZone]
      /\ at' = [at EXCEPT ![Main] = "arrive"]
      /\ UNCHANGED <<phase, busy, step, refs, list, owned, held, next, ret>>
      /\ Second' = Second /\ First' = First
  BY <1>1, <1>3, LastWalkNow DEF Release, Goto, domainVars, Second, First
<1> HIDE DEF h
<1>5. at'[Main] = "arrive" /\ dying'[Main] = NoZone /\ "arrive" \in At
  BY <1>4, LastWalkNow, Walkers DEF At
<1>6. WhoWalks' /\ InHand' /\ RefsAccount'
  BY <1>4, <1>5, LastWalkControl, LastWalkNow
<1>7. \A z \in Zone : ~Unlinked(z)'
  BY <1>5 DEF Unlinked
<1>8. /\ mem'[h] = "freed"
      /\ \A z \in Zone : z # h => mem'[z] = mem[z]
  BY <1>1, <1>4, LastWalkNow
<1>9. ListInv'
  <2>1. owned = {}
    BY DEF ZonesInv, ListInv
  <2>2. ASSUME NEW z \in Zone
        PROVE  /\ Contains(list, z) <=> mem'[z] = "live"
               /\ mem'[z] # "none" /\ mem'[z] # "freed twice"
    BY <1>2, <1>3, <1>8 DEF ZonesInv, ListInv
  <2>3. QED
    BY <1>4, <1>7, <2>1, <2>2 DEF ZonesInv, ListInv
<1>10. LastWalk'
  <2>1. ASSUME NEW z \in Zone, mem'[z] = "live"
        PROVE  refs[z] = IF z = next[Main] THEN 1 ELSE 0
    BY <1>1, <1>2, <1>8, <2>1 DEF ZonesInv, LastWalk
  <2>2. next[Main] = First
    BY <1>1 DEF ZonesInv, LastWalk
  <2>3. QED
    BY <1>4, <1>5, <1>7, <2>1, <2>2 DEF LastWalk
<1>11. QED
  BY <1>6, <1>9, <1>10 DEF ZonesInv

LEMMA LastWalkKeeps ==
  ASSUME ZonesInv, TypeOK', step = "free", NEW w \in Walker, Walking(w)
  PROVE  ZonesInv'
<1>1. at[w] # "idle"
  BY DEF Walking, Passing, Take, Drop, Arrive, Detach, Release, Visit, Abandon, Touch
<1>2. w = Main
  BY <1>1, WalkTime
<1>3. ~Touch(Main) /\ ~Abandon(Main)
  BY DEF Touch, Abandon, ZonesInv, LastWalk
<1>4. QED
  BY <1>2, <1>3, LastTake, LastDrop, LastArrive, LastVisit, LastDetach, LastRelease
  DEF Walking, Passing


-----------------------------------------------------------------------------
(* The invariant, and what it says.                                        *)

LEMMA ZonesInit == Init => ZonesInv
<1> SUFFICES ASSUME Init PROVE ZonesInv
  OBVIOUS
<1>1. /\ step = "alloc" /\ list = <<>> /\ owned = {}
      /\ \A z \in Zone : mem[z] = "none" /\ refs[z] = 0
      /\ \A w \in Walker : at[w] = "idle" /\ held[w] = NoZone /\ next[w] = NoZone
                           /\ dying[w] = NoZone
  BY DEF Init
<1>2. TypeOK
  BY TypeInit
<1>3. WhoWalks
  BY <1>1, Walkers DEF WhoWalks, Init, PT!Init
<1>4. InHand
  BY <1>1 DEF InHand
<1>5. ListInv
  <2>1. \A i, j \in 1 .. Len(list) : list[i] = list[j] => i = j
    BY <1>1
  <2>2. \A z \in Zone : ~Contains(list, z) /\ ~Unlinked(z)
    BY <1>1, Walkers DEF Contains, Unlinked
  <2>3. QED
    BY <1>1, <2>1, <2>2 DEF ListInv
<1>6. RefsAccount /\ LastWalk
  BY <1>1 DEF RefsAccount, LastWalk
<1>7. QED
  BY <1>2, <1>3, <1>4, <1>5, <1>6 DEF ZonesInv

\* Nobody else begins or ends a walk during the last one.
LEMMA NoneBeginsLate ==
  ASSUME ZonesInv,
         \/ CollectorBegin \/ CollectorEnd
         \/ \E w \in Rpc : RpcBegin(w) \/ RpcEnd(w)
  PROVE  step # "free"
<1>1. CollectorBegin => phase[Dom] = "on"
  BY DEF CollectorBegin, PT!BeginSample
<1>2. CollectorEnd => at[Collector] = "done"
  BY DEF CollectorEnd, EndWalk
<1>3. ASSUME NEW w \in Rpc, RpcBegin(w) PROVE step = "serve"
  BY <1>3 DEF RpcBegin
<1>4. ASSUME NEW w \in Rpc, RpcEnd(w) PROVE at[w] = "done"
  BY <1>4 DEF RpcEnd, EndWalk
<1>5. \A w \in Walker \ {Main} : at[w] = "done" => step # "free"
  BY WalkTime
<1>6. QED
  BY <1>1, <1>2, <1>3, <1>4, <1>5, Walkers, StatsZonesAssumption
  DEF ZonesInv, WhoWalks

LEMMA ZonesNext == ZonesInv /\ [Next]_vars => ZonesInv'
<1> SUFFICES ASSUME ZonesInv, [Next]_vars PROVE ZonesInv'
  OBVIOUS
<1>0. TypeOK'
  BY TypeNext DEF ZonesInv
<1>1. ASSUME NEW w \in Walker, Walking(w) PROVE ZonesInv'
  <2>1. CASE step = "free"
    BY <1>0, <1>1, <2>1, LastWalkKeeps
  <2>2. CASE step # "free"
    BY <1>0, <1>1, <2>2, ServiceControl, ServiceCounts DEF ZonesInv
  <2>3. QED
    BY <2>1, <2>2
<1>2. CASE \/ CollectorBegin \/ CollectorEnd
           \/ \E w \in Rpc : RpcBegin(w) \/ RpcEnd(w)
  BY <1>0, <1>2, NoneBeginsLate, OthersKeep
<1>3. CASE MainNext
  <2>1. CASE \E z \in Zone : Publish(z) \/ AttachBlocks(z) \/ MainFreeZone(z)
    BY <1>0, <2>1, PublishKeeps, AttachKeeps, MainFreeZoneKeeps
  <2>2. CASE MainClear \/ MainCleared \/ MainFree \/ MainGone
    BY <1>0, <2>2, MainClearKeeps, MainClearedKeeps, MainFreeKeeps, MainGoneKeeps
  <2>3. CASE MainStart \/ MainSkip \/ MainShutdown \/ MainStop
    BY <1>0, <2>3, SwitchesKeep
  <2>4. QED
    BY <1>3, <2>1, <2>2, <2>3 DEF MainNext
<1>4. CASE RpcSwitch \/ Stopped
  BY <1>0, <1>4, SwitchesKeep
<1>5. CASE UNCHANGED vars
  <2>1. /\ UNCHANGED <<phase, busy, step, mem, refs, attached, list, owned>>
        /\ UNCHANGED <<at, held, next, dying, ret>>
    BY <1>5 DEF vars, domainVars, zoneVars, walkVars
  <2>2. WhoWalks' /\ InHand'
    BY <2>1 DEF ZonesInv, WhoWalks, InHand
  <2>3. ListInv'
    BY <2>1 DEF ZonesInv, ListInv, Unlinked
  <2>4. RefsAccount'
    BY <2>1 DEF ZonesInv, RefsAccount, Holders, Takers
  <2>5. LastWalk'
    BY <2>1 DEF ZonesInv, LastWalk, Unlinked, First, Second
  <2>6. QED
    BY <1>0, <2>2, <2>3, <2>4, <2>5 DEF ZonesInv
<1>6. QED
  BY <1>1, <1>2, <1>3, <1>4, <1>5 DEF Next

LEMMA NoneUsedAfterFree == ZonesInv => NoUseAfterFree
<1> SUFFICES ASSUME ZonesInv PROVE NoUseAfterFree
  OBVIOUS
<1>1. TypeOK /\ list \in Seq(Zone)
  BY DEF ZonesInv, TypeOK
<1>2. ASSUME NEW z \in Zone, Contains(list, z) PROVE mem[z] = "live"
  BY <1>2 DEF ZonesInv, ListInv
<1>3. \A z \in ToSet(list) : mem[z] = "live"
  <2>1. ASSUME NEW z \in ToSet(list) PROVE z \in Zone /\ Contains(list, z)
    <3>1. PICK i \in 1 .. Len(list) : list[i] = z
      BY <1>1 DEF ToSet
    <3>2. QED
      BY <1>1, <3>1, ElementOfSeq DEF Contains
  <2>2. QED
    BY <1>2, <2>1
<1>4. ASSUME NEW w \in Walker
      PROVE  /\ held[w] # NoZone /\ at[w] \in {"take", "visit", "touch"} => mem[held[w]] = "live"
             /\ next[w] # NoZone => mem[next[w]] = "live"
             /\ step = "gone" => at[w] = "idle"
  <2>1. /\ held[w] # NoZone => held[w] \in Zone
        /\ next[w] # NoZone => next[w] \in Zone /\ at[w] # "idle"
    BY <1>1 DEF TypeOK, ZonesInv, InHand
  <2>2. step = "gone" => at[w] = "idle"
    BY WalkTime
  <2>3. CASE step # "free"
    BY <2>1, <2>2, <2>3, LiveInHand
  <2>4. CASE step = "free"
    <3>1. CASE w # Main
      BY <2>1, <2>2, <2>4, <3>1, LastWalkNow
    <3>2. CASE w = Main
      <4>1. held[w] # NoZone /\ at[w] \in {"take", "visit", "touch"} => mem[held[w]] = "live"
        <5>1. ASSUME held[w] # NoZone, at[w] \in {"take", "visit", "touch"}
              PROVE  mem[held[w]] = "live"
          <6>1. list # <<>> /\ held[w] = Head(list)
            BY <2>4, <3>2, <5>1 DEF ZonesInv, LastWalk
          <6>2. held[w] \in Zone /\ Contains(list, held[w])
            BY <6>1, HeadIsFirst
          <6>3. QED
            BY <1>2, <6>2
        <5>2. QED
          BY <5>1
      <4>2. next[w] # NoZone => mem[next[w]] = "live"
        <5>1. ASSUME next[w] # NoZone
              PROVE  list # <<>> /\ (next[w] = First \/ next[w] = Second)
          <6>1. at[Main] \in {"drop", "arrive", "detach", "release"}
            BY <2>1, <3>2, <5>1 DEF ZonesInv, InHand
          <6>2. next[w] = First \/ (next[w] = Second /\ list # <<>>)
            BY <2>4, <3>2, <6>1 DEF ZonesInv, LastWalk
          <6>3. next[w] = First => list # <<>>
            BY <5>1 DEF First
          <6>4. QED
            BY <6>2, <6>3
        <5>2. ASSUME next[w] # NoZone, next[w] = Second, list # <<>>
              PROVE  Contains(list, Second)
          <6>1. ~(Len(list) < 2) /\ Second = list[2]
            BY <5>2 DEF Second
          <6>2. 2 \in 1 .. Len(list)
            BY <5>2, <6>1, HeadIsFirst, OneOrMore
          <6>3. QED
            BY <6>1, <6>2 DEF Contains
        <5>3. list # <<>> => Contains(list, First)
          BY HeadIsFirst
        <5>4. QED
          BY <1>2, <2>1, <5>1, <5>2, <5>3
      <4>3. QED
        BY <2>2, <3>2, <4>1, <4>2
    <3>3. QED
      BY <3>1, <3>2
  <2>5. QED
    BY <2>3, <2>4
<1>5. \A z \in Zone : mem[z] # "freed twice"
  BY DEF ZonesInv, ListInv
<1>6. QED
  BY <1>3, <1>4, <1>5 DEF NoUseAfterFree

LEMMA AllFreedInTheEnd == ZonesInv => FreedWithTheDomain
<1> SUFFICES ASSUME ZonesInv PROVE FreedWithTheDomain
  OBVIOUS
<1>1. ASSUME step = "gone", NEW z \in Zone PROVE mem[z] = "freed"
  <2>1. at[Main] = "idle" /\ list = <<>>
    BY <1>1, WalkTime, Walkers DEF ZonesInv, ListInv
  <2>2. ~Contains(list, z) /\ ~Unlinked(z)
    BY <2>1 DEF Contains, Unlinked
  <2>3. mem[z] \notin {"none", "live", "freed twice"}
    BY <1>1, <2>2 DEF ZonesInv, ListInv
  <2>4. QED
    BY <2>3 DEF ZonesInv, TypeOK
<1>2. \A z \in Zone : mem[z] = "freed" => z \notin owned /\ step \in {"free", "gone"}
  BY DEF ZonesInv, ListInv
<1>3. QED
  BY <1>1, <1>2 DEF FreedWithTheDomain

\* Who may walk, what each walker has in hand, which zones are listed and what is
\* left to the walk of stats_domain_free, together.
THEOREM ZonesInvariant == Spec => []ZonesInv
<1>1. QED
  BY ZonesInit, ZonesNext, PTL DEF Spec

\* stats_zone_get and stats_zone_put balance: however many walks cross, a zone's
\* ref_count is its holders, its takers and its owner.
THEOREM CountsAccount == Spec => []RefsAccount
<1>1. ZonesInv => RefsAccount
  BY DEF ZonesInv
<1>2. QED
  BY <1>1, ZonesInvariant, PTL

\* No walk reads a zone after __stats_zone_free, nor the domain after
\* stats_domain_free, and no put frees a zone again.
THEOREM NeverUsedAfterFree == Spec => []NoUseAfterFree
<1>1. QED
  BY NoneUsedAfterFree, ZonesInvariant, PTL

\* stats_domain_free leaves no zone behind, and nothing frees one before it, nor
\* one whose owner still has it.
THEOREM NoZoneOutlivesTheDomain == Spec => []FreedWithTheDomain
<1>1. QED
  BY AllFreedInTheEnd, ZonesInvariant, PTL


-----------------------------------------------------------------------------
(* How far a walk is in its plan.                                          *)

\* Before the last walk the list stays as it was when a walk began: the walk has
\* come to its first zones, and what it holds or has taken follows them.
Progress(w) ==
  LET k == Len(visited[w])
  IN
  /\ plan[w] = list
  /\ k <= Len(list)
  /\ \A i \in 1 .. k : visited[w][i] = list[i]
  /\ at[w] \in {"take", "drop", "visit", "touch"} =>
       held[w] = IF k = 0 THEN NoZone ELSE list[k]
  /\ at[w] \in {"drop", "arrive"} =>
       next[w] = IF k < Len(list) THEN list[k + 1] ELSE NoZone
  /\ at[w] = "done" => k = Len(list)

\* How many zones of its plan the last walk has left the list without.
Removed ==
  Len(visited[Main])
    - (IF at[Main] \in {"take", "drop", "visit", "detach"} /\ held[Main] # NoZone
       THEN 1 ELSE 0)

\* The last walk has come to the first zones of its plan, and the list is the rest.
LastProgress ==
  /\ Removed >= 0
  /\ Len(plan[Main]) = Removed + Len(list)
  /\ \A i \in 1 .. Len(list) : plan[Main][Removed + i] = list[i]
  /\ \A i \in 1 .. Len(visited[Main]) : visited[Main][i] = plan[Main][i]

WalksInv ==
  /\ step = "free" => LastProgress
  /\ step # "free" => \A w \in Walker : at[w] # "idle" => Progress(w)

LEMMA Within ==
  ASSUME NEW n \in Nat, NEW k \in 1 .. n
  PROVE  /\ k < n => k + 1 \in 1 .. n /\ n \in 1 .. n /\ k # n
         /\ ~(k < n) => k = n
  OBVIOUS

LEMMA UpToOneMore ==
  ASSUME NEW k \in Nat, NEW i \in 1 .. k + 1
  PROVE  i = k + 1 \/ i \in 1 .. k
  OBVIOUS

LEMMA Shifted ==
  ASSUME NEW n \in Nat, NEW m, m = n - 1, NEW i \in 1 .. m, NEW k \in Nat
  PROVE  i + 1 \in 1 .. n /\ (k - 1) + (i + 1) = k + i
  OBVIOUS

LEMMA FollowingAt ==
  ASSUME ZonesInv, NEW k \in 1 .. Len(list)
  PROVE  /\ list[k] \in Zone /\ list[k] # NoZone
         /\ Following(list[k]) = IF k < Len(list) THEN list[k + 1] ELSE NoZone
         /\ k < Len(list) => list[k + 1] \in Zone /\ list[k + 1] # NoZone
<1>1. list \in Seq(Zone) /\ Len(list) \in Nat /\ DOMAIN list = 1 .. Len(list)
  BY LenProperties DEF ZonesInv, TypeOK
<1>2. list[k] \in Zone /\ list[k] # NoZone
  BY <1>1, ElementOfSeq, StatsZonesAssumption
<1>3. Contains(list, list[k])
  BY DEF Contains
<1>4. \A i, j \in 1 .. Len(list) : list[i] = list[j] => i = j
  BY DEF ZonesInv, ListInv
<1>5. Position(list[k]) = k
  <2>1. \A i \in DOMAIN list : list[i] = list[k] <=> i = k
    BY <1>1, <1>4
  <2>2. QED
    BY <1>1, <2>1 DEF Position
<1>6. CASE k < Len(list)
  <2>1. k + 1 \in 1 .. Len(list) /\ Len(list) \in 1 .. Len(list) /\ k # Len(list)
    BY <1>1, <1>6, Within
  <2>2. list[k] # Last(list)
    BY <1>4, <2>1 DEF Last
  <2>3. list[k + 1] \in Zone /\ list[k + 1] # NoZone
    BY <1>1, <2>1, ElementOfSeq, StatsZonesAssumption
  <2>4. QED
    BY <1>2, <1>3, <1>5, <1>6, <2>2, <2>3 DEF Following
<1>7. CASE ~(k < Len(list))
  <2>1. k = Len(list)
    BY <1>1, <1>7, Within
  <2>2. list[k] = Last(list)
    BY <2>1 DEF Last
  <2>3. QED
    BY <1>2, <1>7, <2>2 DEF Following
<1>8. QED
  BY <1>6, <1>7

LEMMA WalksTyped ==
  ASSUME TypeOK, NEW w \in Walker
  PROVE  /\ plan[w] \in Seq(Zone) /\ Len(plan[w]) \in Nat
         /\ visited[w] \in Seq(Zone) /\ Len(visited[w]) \in Nat
         /\ list \in Seq(Zone) /\ Len(list) \in Nat
BY LenProperties DEF TypeOK

\* A zone more.
LEMMA OneMore ==
  ASSUME NEW s \in Seq(Zone), NEW z \in Zone
  PROVE  /\ Len(Append(s, z)) = Len(s) + 1
         /\ \A i \in 1 .. Len(s) : Append(s, z)[i] = s[i]
         /\ Append(s, z)[Len(s) + 1] = z
<1>1. Len(Append(s, z)) = Len(s) + 1
  BY AppendProperties
<1>2. \A i \in 1 .. Len(s) : Append(s, z)[i] = s[i]
  BY AppendProperties
<1>3. Append(s, z)[Len(s) + 1] = z
  BY AppendProperties
<1>4. QED
  BY <1>1, <1>2, <1>3

\* A walker that does not move makes no progress.
LEMMA ProgressStays ==
  ASSUME NEW w \in Walker, Progress(w), list' = list, at'[w] = at[w], held'[w] = held[w],
         next'[w] = next[w], plan'[w] = plan[w], visited'[w] = visited[w]
  PROVE  Progress(w)'
BY DEF Progress

LEMMA LastProgressStays ==
  ASSUME LastProgress, list' = list, plan' = plan, visited' = visited, Removed' = Removed
  PROVE  LastProgress'
BY DEF LastProgress

LEMMA ProgressBegins ==
  ASSUME ZonesInv, NEW w \in Walker, BeginWalk(w)
  PROVE  /\ Progress(w)'
         /\ Len(visited'[w]) = 0 /\ plan'[w] = list' /\ at'[w] = "take" /\ held'[w] = NoZone
         /\ list' = list /\ held' = held /\ next' = next
         /\ \A v \in Walker \ {w} : at'[v] = at[v] /\ plan'[v] = plan[v] /\ visited'[v] = visited[v]
<1>1. /\ at[w] = "idle" /\ at' = [at EXCEPT ![w] = "take"]
      /\ plan' = [plan EXCEPT ![w] = list] /\ visited' = [visited EXCEPT ![w] = <<>>]
      /\ list' = list /\ held' = held /\ next' = next
  BY DEF BeginWalk, Goto, zoneVars
<1>2. TypeOK /\ held[w] = NoZone
  BY <1>1 DEF ZonesInv, InHand
<1>3. at'[w] = "take" /\ plan'[w] = list' /\ visited'[w] = <<>> /\ held'[w] = NoZone
  BY <1>1, <1>2 DEF TypeOK
<1>4. Len(visited'[w]) = 0
  BY <1>3, EmptySeq
<1>5. 0 <= Len(list')
  BY <1>1, <1>2, WalksTyped
<1>6. \A v \in Walker \ {w} : at'[v] = at[v] /\ plan'[v] = plan[v] /\ visited'[v] = visited[v]
  BY <1>1, <1>2 DEF TypeOK
<1>7. Progress(w)'
  BY <1>3, <1>4, <1>5 DEF Progress
<1>8. QED
  BY <1>1, <1>3, <1>4, <1>6, <1>7

LEMMA ProgressInService ==
  ASSUME ZonesInv, step # "free", NEW w \in Walker, Walking(w), Progress(w)
  PROVE  at'[w] # "idle" => Progress(w)'
<1> DEFINE k == Len(visited[w])
<1>1. TypeOK /\ list' = list /\ k \in Nat /\ Len(list) \in Nat /\ k <= Len(list)
  BY ServiceSteps, WalksTyped DEF ZonesInv, Progress
<1>2. CASE Take(w)
  <2> DEFINE n == IF held[w] = NoZone THEN First ELSE Following(held[w])
  <2>1. at[w] = "take" /\ held[w] = IF k = 0 THEN NoZone ELSE list[k]
    BY <1>2 DEF Take, Progress
  <2>2. /\ at'[w] = "drop" /\ next'[w] = n /\ held'[w] = held[w]
        /\ plan'[w] = plan[w] /\ visited'[w] = visited[w]
    BY <1>1, <1>2 DEF Take, Goto, TypeOK
  <2>3. n = IF k < Len(list) THEN list[k + 1] ELSE NoZone
    <3>1. CASE k = 0
      <4>1. n = First
        BY <2>1, <3>1
      <4>2. list # <<>> => First = list[1] /\ Len(list) > 0
        BY HeadIsFirst
      <4>3. list = <<>> => First = NoZone /\ Len(list) = 0
        BY EmptySeq DEF First
      <4>4. QED
        BY <1>1, <3>1, <4>1, <4>2, <4>3
    <3>2. CASE k # 0
      <4>1. k \in 1 .. Len(list)
        BY <1>1, <3>2
      <4>2. held[w] = list[k] /\ held[w] # NoZone
        BY <2>1, <3>2, <4>1, FollowingAt
      <4>3. QED
        BY <4>1, <4>2, FollowingAt
    <3>3. QED
      BY <3>1, <3>2
  <2> HIDE DEF n
  <2>4. QED
    BY <1>1, <2>1, <2>2, <2>3 DEF Progress
<1>3. CASE Arrive(w)
  <2>1. at[w] = "arrive" /\ next[w] = IF k < Len(list) THEN list[k + 1] ELSE NoZone
    BY <1>3 DEF Arrive, Progress
  <2>2. plan'[w] = plan[w] /\ held'[w] = next[w]
    BY <1>1, <1>3 DEF Arrive, TypeOK
  <2>3. CASE k < Len(list)
    <3>1. k + 1 \in 1 .. Len(list)
      BY <1>1, <2>3
    <3>2. list[k + 1] \in Zone /\ list[k + 1] # NoZone
      BY <3>1, FollowingAt
    <3>3. at'[w] = "visit" /\ visited'[w] = Append(visited[w], list[k + 1])
      BY <1>1, <1>3, <2>1, <2>3, <3>2 DEF Arrive, Goto, TypeOK
    <3>4. /\ Len(visited'[w]) = k + 1
          /\ \A i \in 1 .. k : visited'[w][i] = visited[w][i]
          /\ visited'[w][k + 1] = list[k + 1]
      BY <1>1, <3>2, <3>3, WalksTyped, OneMore
    <3>5. \A i \in 1 .. k + 1 : visited'[w][i] = list[i]
      BY <1>1, <3>4, UpToOneMore DEF Progress
    <3>6. QED
      BY <1>1, <2>1, <2>2, <2>3, <3>3, <3>4, <3>5 DEF Progress
  <2>4. CASE ~(k < Len(list))
    <3>1. k = Len(list) /\ next[w] = NoZone
      BY <1>1, <2>1, <2>4
    <3>2. at'[w] = "done" /\ visited'[w] = visited[w]
      BY <1>1, <1>3, <3>1 DEF Arrive, Goto, TypeOK
    <3>3. QED
      BY <1>1, <2>2, <3>1, <3>2 DEF Progress
  <2>5. QED
    BY <2>3, <2>4
<1>4. CASE MovesOn(w)
  <2>1. /\ plan'[w] = plan[w] /\ visited'[w] = visited[w] /\ held'[w] = held[w]
        /\ next'[w] = next[w]
        /\ \/ at[w] \in {"visit", "touch"} /\ at'[w] \in {"take", "touch"}
           \/ at[w] = "drop" /\ at'[w] = "arrive"
    BY <1>1, <1>4 DEF MovesOn, Goto, TypeOK
  <2>2. QED
    BY <1>1, <2>1 DEF Progress
<1>5. CASE PutsAndMovesOn(w)
  <2>1. /\ plan'[w] = plan[w] /\ visited'[w] = visited[w] /\ held'[w] = held[w]
        /\ next'[w] = next[w]
        /\ at[w] = "drop" /\ at'[w] = "arrive"
    BY <1>1, <1>5 DEF PutsAndMovesOn, Puts, TypeOK
  <2>2. QED
    BY <1>1, <2>1 DEF Progress
<1>6. CASE PutsAndReturns(w)
  BY <1>1, <1>6 DEF PutsAndReturns, Puts, TypeOK
<1>7. QED
  BY <1>2, <1>3, <1>4, <1>5, <1>6, ServiceSteps

\* A walk does not touch those of others.
LEMMA OthersStayPut ==
  ASSUME TypeOK, NEW w \in Walker, Walking(w), NEW v \in Walker \ {w}
  PROVE  at'[v] = at[v] /\ held'[v] = held[v] /\ next'[v] = next[v]
         /\ plan'[v] = plan[v] /\ visited'[v] = visited[v]
<1>1. CASE Take(w) \/ Detach(w) \/ Release(w) \/ Touch(w)
  <2>1. UNCHANGED <<held, plan, visited>> /\ \E a : Goto(w, a)
    BY <1>1 DEF Take, Detach, Release, Touch
  <2>2. next'[v] = next[v]
    BY <1>1 DEF Take, Detach, Release, Touch, TypeOK
  <2>3. QED
    BY <2>1, <2>2 DEF Goto, TypeOK
<1>2. CASE Drop(w) \/ Visit(w)
  <2>1. UNCHANGED <<held, next, plan, visited>>
    BY <1>2 DEF Drop, Visit
  <2>2. at'[v] = at[v]
    BY <1>2 DEF Drop, Visit, Put, Goto, TypeOK
  <2>3. QED
    BY <2>1, <2>2
<1>3. CASE Abandon(w)
  BY <1>3 DEF Abandon, Put, Goto, TypeOK
<1>4. CASE Arrive(w)
  BY <1>4 DEF Arrive, Goto, TypeOK
<1>5. QED
  BY <1>1, <1>2, <1>3, <1>4 DEF Walking, Passing

-----------------------------------------------------------------------------
\* A step of the last walk.
LEMMA LastWalkProgress ==
  ASSUME ZonesInv, ZonesInv', step = "free", NEW w \in Walker, Walking(w), LastProgress
  PROVE  LastProgress'
<1> DEFINE k == Len(visited[Main])
<1>1. at[w] # "idle"
  BY DEF Walking, Passing, Take, Drop, Arrive, Detach, Release, Visit, Abandon, Touch
<1>2. w = Main /\ ~Touch(Main) /\ ~Abandon(Main)
  BY <1>1, WalkTime DEF Touch, Abandon, ZonesInv, LastWalk
<1>3. TypeOK /\ k \in Nat /\ Len(list) \in Nat /\ Len(plan[Main]) \in Nat
  BY Walkers, WalksTyped DEF ZonesInv
<1>4. CASE Take(Main)
  <2>1. list' = list /\ plan' = plan /\ visited' = visited /\ held' = held
        /\ at[Main] = "take" /\ at'[Main] = "drop"
    BY <1>3, <1>4, Walkers DEF Take, Goto, TypeOK
  <2>2. Removed' = Removed
    BY <2>1 DEF Removed
  <2>3. QED
    BY <2>1, <2>2, LastProgressStays
<1>5. CASE Drop(Main)
  <2>1. list' = list /\ plan' = plan /\ visited' = visited /\ held' = held /\ next' = next
        /\ step' = step /\ at[Main] = "drop" /\ at'[Main] \in {"arrive", "detach"}
    BY <1>3, <1>5, Walkers DEF Drop, Put, Goto, TypeOK
  <2>2. held[Main] # NoZone => at'[Main] = "detach"
    <3>1. ASSUME held[Main] # NoZone, at'[Main] = "arrive" PROVE FALSE
      <4>1. list # <<>> /\ next[Main] = Second
        BY <2>1, <3>1 DEF ZonesInv, LastWalk
      <4>2. next'[Main] = First'
        BY <2>1, <3>1 DEF ZonesInv, LastWalk
      <4>3. First' = First
        BY <2>1 DEF First
      <4>4. QED
        BY <2>1, <4>1, <4>2, <4>3, HeadIsFirst
    <3>2. QED
      BY <2>1, <3>1
  <2>3. Removed' = Removed
    BY <2>1, <2>2 DEF Removed
  <2>4. QED
    BY <2>1, <2>3, LastProgressStays
<1>6. CASE Arrive(Main)
  <2>1. /\ at[Main] = "arrive" /\ next[Main] = First /\ list' = list /\ plan' = plan
        /\ held'[Main] = First
    BY <1>3, <1>6, Walkers DEF Arrive, zoneVars, ZonesInv, LastWalk, TypeOK
  <2>2. Removed = k
    BY <1>3, <2>1 DEF Removed
  <2>3. CASE First = NoZone
    <3>1. visited' = visited /\ held'[Main] = NoZone
      BY <1>6, <2>1, <2>3 DEF Arrive
    <3>2. Removed' = Removed
      BY <2>1, <3>1 DEF Removed
    <3>3. QED
      BY <2>1, <3>1, <3>2, LastProgressStays
  <2>4. CASE First # NoZone
    <3>1. list # <<>>
      BY <2>4 DEF First
    <3>2. First = list[1] /\ First \in Zone /\ 1 \in 1 .. Len(list)
      BY <3>1, HeadIsFirst, OneOrMore
    <3>3. at'[Main] = "visit" /\ visited'[Main] = Append(visited[Main], First)
      BY <1>3, <1>6, <2>1, <2>4, Walkers DEF Arrive, Goto, TypeOK
    <3>4. /\ Len(visited'[Main]) = k + 1
          /\ \A i \in 1 .. k : visited'[Main][i] = visited[Main][i]
          /\ visited'[Main][k + 1] = First
      BY <1>3, <3>2, <3>3, WalksTyped, OneMore, Walkers
    <3>5. Removed' = Removed
      BY <1>3, <2>1, <2>2, <2>4, <3>3, <3>4 DEF Removed
    <3>6. plan[Main][k + 1] = First
      BY <2>2, <3>2 DEF LastProgress
    <3>7. \A i \in 1 .. k + 1 : visited'[Main][i] = plan[Main][i]
      <4>1. \A i \in 1 .. k : visited'[Main][i] = plan[Main][i]
        BY <3>4 DEF LastProgress
      <4>2. QED
        BY <1>3, <3>4, <3>6, <4>1, UpToOneMore
    <3>8. Removed' >= 0 /\ Len(plan'[Main]) = Removed' + Len(list')
      BY <2>1, <3>5 DEF LastProgress
    <3>9. \A i \in 1 .. Len(list') : plan'[Main][Removed' + i] = list'[i]
      BY <2>1, <3>5 DEF LastProgress
    <3>10. \A i \in 1 .. Len(visited'[Main]) : visited'[Main][i] = plan'[Main][i]
      <4>1. Len(visited'[Main]) = k + 1 /\ plan' = plan
        BY <2>1, <3>4
      <4>2. QED
        BY <3>7, <4>1
    <3>11. QED
      BY <3>8, <3>9, <3>10 DEF LastProgress
  <2>5. QED
    BY <2>3, <2>4
<1>7. CASE Detach(Main)
  <2>1. /\ at[Main] = "detach" /\ dying[Main] = held[Main] /\ held[Main] # NoZone
        /\ list # <<>> /\ held[Main] = list[1] /\ Contains(list, list[1])
    BY <1>7, Walkers, HeadIsFirst DEF Detach, ZonesInv, InHand, LastWalk
  <2>2. /\ list' = RemoveAt(list, Position(list[1])) /\ at'[Main] = "release"
        /\ plan' = plan /\ visited' = visited
    BY <1>3, <1>7, <2>1, Walkers DEF Detach, Goto, TypeOK
  <2>3. Len(list') = Len(list) - 1 /\ \A i \in 1 .. Len(list') : list'[i] = list[i + 1]
    BY <2>1, <2>2, HeadRemoved
  <2>4. Removed = k - 1 /\ Removed' = k
    BY <1>3, <2>1, <2>2 DEF Removed
  <2>5. Len(plan[Main]) = k + Len(list')
    BY <1>3, <2>3, <2>4 DEF LastProgress
  <2>6. ASSUME NEW i \in 1 .. Len(list') PROVE plan[Main][k + i] = list'[i]
    <3>1. i + 1 \in 1 .. Len(list) /\ (k - 1) + (i + 1) = k + i
      BY <1>3, <2>3, Shifted
    <3>2. plan[Main][(k - 1) + (i + 1)] = list[i + 1]
      BY <2>4, <3>1 DEF LastProgress
    <3>3. QED
      BY <2>3, <3>1, <3>2
  <2>7. Removed' >= 0 /\ Len(plan'[Main]) = Removed' + Len(list')
    BY <1>3, <2>2, <2>4, <2>5
  <2>8. \A i \in 1 .. Len(list') : plan'[Main][Removed' + i] = list'[i]
    BY <2>2, <2>4, <2>6
  <2>9. \A i \in 1 .. Len(visited'[Main]) : visited'[Main][i] = plan'[Main][i]
    BY <2>2 DEF LastProgress
  <2>10. QED
    BY <2>7, <2>8, <2>9 DEF LastProgress
<1>8. CASE Release(Main)
  <2>1. list' = list /\ plan' = plan /\ visited' = visited /\ at[Main] = "release"
        /\ ret[Main] = "arrive"
    BY <1>8, Walkers DEF Release, ZonesInv, InHand
  <2>2. at'[Main] = "arrive"
    BY <1>3, <1>8, <2>1, Walkers DEF Release, Goto, TypeOK
  <2>3. Removed' = Removed
    BY <2>1, <2>2 DEF Removed
  <2>4. QED
    BY <2>1, <2>3, LastProgressStays
<1>9. CASE Visit(Main)
  <2>1. list' = list /\ plan' = plan /\ visited' = visited /\ held' = held
        /\ at[Main] = "visit" /\ at'[Main] \in {"take", "detach"}
    BY <1>3, <1>9, Walkers DEF Visit, Put, Goto, TypeOK
  <2>2. Removed' = Removed
    BY <2>1 DEF Removed
  <2>3. QED
    BY <2>1, <2>2, LastProgressStays
<1>10. QED
  BY <1>2, <1>4, <1>5, <1>6, <1>7, <1>8, <1>9 DEF Walking, Passing


LEMMA WalksInit == Init => WalksInv
  BY DEF Init, WalksInv

\* Requests and the collector begin and end walks while others go on.
LEMMA OthersProgress ==
  ASSUME ZonesInv, WalksInv, step # "free",
         \/ CollectorBegin \/ CollectorEnd
         \/ \E w \in Rpc : RpcBegin(w) \/ RpcEnd(w)
  PROVE  WalksInv'
<1>1. step' = step /\ TypeOK
  BY DEF CollectorBegin, CollectorEnd, RpcBegin, RpcEnd, ZonesInv
<1>2. ASSUME NEW w \in Walker, BeginWalk(w) PROVE WalksInv'
  <2>1. ASSUME NEW v \in Walker, at'[v] # "idle" PROVE Progress(v)'
    <3>1. CASE v = w
      BY <1>2, <3>1, ProgressBegins
    <3>2. CASE v # w
      BY <1>2, <2>1, <3>2, ProgressBegins, ProgressStays DEF WalksInv
    <3>3. QED
      BY <3>1, <3>2
  <2>2. QED
    BY <1>1, <2>1 DEF WalksInv
<1>3. ASSUME NEW w \in Walker, EndWalk(w) PROVE WalksInv'
  <2>1. /\ list' = list /\ held' = held /\ next' = next /\ at'[w] = "idle"
        /\ \A v \in Walker \ {w} : at'[v] = at[v] /\ plan'[v] = plan[v] /\ visited'[v] = visited[v]
    BY <1>1, <1>3 DEF EndWalk, Goto, zoneVars, TypeOK
  <2>2. ASSUME NEW v \in Walker, at'[v] # "idle" PROVE Progress(v)'
    BY <2>1, <2>2, ProgressStays DEF WalksInv
  <2>3. QED
    BY <1>1, <2>2 DEF WalksInv
<1>4. QED
  BY <1>2, <1>3, Walkers DEF CollectorBegin, CollectorEnd, RpcBegin, RpcEnd

LEMMA MainProgress ==
  ASSUME ZonesInv, ZonesInv', WalksInv, MainNext
  PROVE  WalksInv'
<1>1. TypeOK /\ Main \in Walker
  BY Walkers DEF ZonesInv
<1>2. CASE MainClear
  <2>1. step = "alloc" /\ step' = "clear" /\ BeginWalk(Main)
    BY <1>2 DEF MainClear, MainTo
  <2>2. \A v \in Walker \ {Main} : at'[v] = "idle"
    BY <2>1, NobodyWalks, ProgressBegins, Walkers
  <2>3. QED
    BY <2>1, <2>2, ProgressBegins, Walkers DEF WalksInv
<1>3. CASE MainFree
  <2>1. step' = "free" /\ BeginWalk(Main)
    BY <1>3 DEF MainFree, MainTo
  <2>2. Len(visited'[Main]) = 0 /\ plan'[Main] = list' /\ at'[Main] = "take"
        /\ held'[Main] = NoZone
    BY <1>1, <2>1, ProgressBegins
  <2>3. Removed' = 0
    BY <2>2 DEF Removed
  <2>4. Len(list') \in Nat
    BY <1>1, <2>1, WalksTyped DEF BeginWalk, zoneVars
  <2>5. LastProgress'
    BY <2>2, <2>3, <2>4 DEF LastProgress
  <2>6. QED
    BY <2>1, <2>5 DEF WalksInv
<1>4. CASE MainCleared \/ MainGone
  <2>1. step' \in {"start", "gone"}
    BY <1>4 DEF MainCleared, MainGone, MainTo
  <2>2. \A v \in Walker : at'[v] = "idle"
    BY <2>1 DEF ZonesInv, WhoWalks, Walker
  <2>3. QED
    BY <2>1, <2>2 DEF WalksInv
<1>5. CASE \E z \in Zone : Publish(z) \/ AttachBlocks(z)
  <2>1. step \in {"alloc", "attach"} /\ step' # "free" /\ at' = at
    BY <1>5 DEF Publish, AttachBlocks, walkVars
  <2>2. QED
    BY <2>1, NobodyWalks DEF WalksInv
<1>6. ASSUME NEW z \in Zone, MainFreeZone(z) PROVE WalksInv'
  <2>1. /\ step = "deinit" /\ step' = step /\ at[Main] = "idle"
        /\ UNCHANGED <<list, held, next, plan, visited>>
        /\ \A v \in Walker \ {Main} : at'[v] = at[v]
    BY <1>1, <1>6 DEF MainFreeZone, Put, Goto, TypeOK
  <2>2. at'[Main] = "idle"
    BY <2>1 DEF ZonesInv, WhoWalks
  <2>3. ASSUME NEW v \in Walker, at'[v] # "idle" PROVE Progress(v)'
    BY <2>1, <2>2, <2>3, ProgressStays DEF WalksInv
  <2>4. QED
    BY <2>1, <2>3 DEF WalksInv
<1>7. CASE MainStart \/ MainSkip \/ MainShutdown \/ MainStop
  <2>1. step # "free" /\ step' # "free" /\ UNCHANGED <<list, at, held, next, plan, visited>>
    BY <1>7 DEF MainStart, MainSkip, MainShutdown, MainStop, MainTo, zoneVars, walkVars
  <2>2. ASSUME NEW v \in Walker, at'[v] # "idle" PROVE Progress(v)'
    BY <2>1, <2>2, ProgressStays DEF WalksInv
  <2>3. QED
    BY <2>1, <2>2 DEF WalksInv
<1>8. QED
  BY <1>2, <1>3, <1>4, <1>5, <1>6, <1>7 DEF MainNext

LEMMA WalksNext == ZonesInv /\ ZonesInv' /\ WalksInv /\ [Next]_vars => WalksInv'
<1> SUFFICES ASSUME ZonesInv, ZonesInv', WalksInv, [Next]_vars PROVE WalksInv'
  OBVIOUS
<1>1. ASSUME NEW w \in Walker, Walking(w) PROVE WalksInv'
  <2>1. step' = step
    BY <1>1 DEF Walking, Passing, Take, Drop, Arrive, Detach, Release, Visit, Abandon, Touch
  <2>2. at[w] # "idle"
    BY <1>1 DEF Walking, Passing, Take, Drop, Arrive, Detach, Release, Visit, Abandon, Touch
  <2>3. CASE step = "free"
    BY <1>1, <2>1, <2>3, LastWalkProgress DEF WalksInv
  <2>4. CASE step # "free"
    <3>1. list' = list /\ TypeOK
      BY <1>1, <2>4, ServiceSteps DEF ZonesInv
    <3>2. at'[w] # "idle" => Progress(w)'
      BY <1>1, <2>2, <2>4, ProgressInService DEF WalksInv
    <3>3. ASSUME NEW v \in Walker \ {w}, at'[v] # "idle" PROVE Progress(v)'
      BY <1>1, <2>4, <3>1, <3>3, OthersStayPut, ProgressStays DEF WalksInv
    <3>4. QED
      BY <2>1, <2>4, <3>2, <3>3 DEF WalksInv
  <2>5. QED
    BY <2>3, <2>4
<1>2. CASE \/ CollectorBegin \/ CollectorEnd
           \/ \E w \in Rpc : RpcBegin(w) \/ RpcEnd(w)
  BY <1>2, NoneBeginsLate, OthersProgress
<1>3. CASE MainNext
  BY <1>3, MainProgress
<1>4. CASE RpcSwitch \/ Stopped \/ UNCHANGED vars
  <2>1. UNCHANGED <<step, list, at, held, next, plan, visited>>
    BY <1>4 DEF RpcSwitch, Stopped, vars, zoneVars, walkVars
  <2>2. Removed' = Removed
    BY <2>1 DEF Removed
  <2>3. CASE step = "free"
    BY <2>1, <2>2, <2>3, LastProgressStays DEF WalksInv
  <2>4. CASE step # "free"
    BY <2>1, <2>4, ProgressStays DEF WalksInv
  <2>5. QED
    BY <2>3, <2>4
<1>5. QED
  BY <1>1, <1>2, <1>3, <1>4 DEF Next

LEMMA AllVisited == ZonesInv /\ WalksInv => WalksAreComplete
<1> SUFFICES ASSUME ZonesInv, WalksInv, NEW w \in Walker, at[w] = "done"
             PROVE  visited[w] = plan[w]
  BY DEF WalksAreComplete
<1>1. /\ plan[w] \in Seq(Zone) /\ visited[w] \in Seq(Zone)
      /\ Len(visited[w]) \in Nat /\ Len(plan[w]) \in Nat
  BY WalksTyped DEF ZonesInv
<1>2. CASE step = "free"
  <2>1. w = Main /\ list = <<>>
    BY <1>2, WalkTime DEF ZonesInv, LastWalk
  <2>2. Removed = Len(visited[w]) /\ Len(list) = 0
    <3>1. Len(list) = 0
      BY <2>1, EmptySeq
    <3>2. Removed = Len(visited[w])
      <4>1. at[Main] = "done" /\ Len(visited[Main]) \in Nat
        BY <1>1, <2>1
      <4>2. Removed = Len(visited[Main])
        BY <4>1 DEF Removed
      <4>3. QED
        BY <2>1, <4>2
    <3>3. QED
      BY <3>1, <3>2
  <2>3. Len(plan[w]) = Len(visited[w]) /\ \A i \in 1 .. Len(visited[w]) : visited[w][i] = plan[w][i]
    BY <1>1, <1>2, <2>1, <2>2 DEF WalksInv, LastProgress
  <2>4. QED
    BY <1>1, <2>3, SeqEqual
<1>3. CASE step # "free"
  <2>1. Progress(w)
    BY <1>3 DEF WalksInv
  <2>2. Len(plan[w]) = Len(visited[w]) /\ \A i \in 1 .. Len(visited[w]) : visited[w][i] = plan[w][i]
    BY <2>1 DEF Progress
  <2>3. QED
    BY <1>1, <2>2, SeqEqual
<1>4. QED
  BY <1>2, <1>3

\* Where every walk is in its plan, at any time: get_next_zone skips no zone and comes
\* to none twice, whatever other walks do, and while stats_domain_free takes away the
\* zone it stands on.
THEOREM WalksProgress == Spec => []WalksInv
<1>1. QED
  BY WalksInit, WalksNext, ZonesInvariant, PTL DEF Spec

\* A walk that reaches its end came to all the zones there were, in their order: what
\* stats_domain_clear_metrics, the collector's update and the free rely on.
THEOREM EveryWalkIsComplete == Spec => []WalksAreComplete
<1>1. QED
  BY AllVisited, ZonesInvariant, WalksProgress, PTL

-----------------------------------------------------------------------------
(* The life of an agent *)

LEMMA LifeStarts == LifeInit => Init
  BY DEF LifeInit

\* The constructor attaches zones and starts the domain, in that order.
LEMMA Constructs ==
  ASSUME Construct
  PROVE  [Next]_vars
<1>1. CASE OpenRegistry
  BY <1>1 DEF OpenRegistry, Apart
<1>2. CASE MapBar2
  BY <1>2 DEF MapBar2, Apart
<1>3. CASE OpenDriver
  BY <1>3 DEF OpenDriver, Apart
<1>4. CASE AllocZone
  BY <1>4 DEF AllocZone, Next, MainNext
<1>5. CASE AttachZone
  BY <1>5 DEF AttachZone, Next, MainNext
<1>6. CASE StartDomain
  BY <1>6 DEF StartDomain, Next, MainNext
<1>7. CASE StartServer
  BY <1>7 DEF StartServer, Apart
<1>8. CASE StartDaemon
  BY <1>8 DEF StartDaemon, Apart
<1>9. QED
  BY <1>1, <1>2, <1>3, <1>4, <1>5, <1>6, <1>7, <1>8 DEF Construct
\* The other threads walk the zones and switch the domain.
LEMMA ThreadsWalk ==
  ASSUME Threads
  PROVE  [Next]_vars
<1>1. CASE ScrapeBegin
  BY <1>1 DEF ScrapeBegin, Apart
<1>2. CASE ScrapeEnd
  BY <1>2 DEF ScrapeEnd, Apart
<1>3. CASE Rpcs
  BY <1>3 DEF Rpcs, Next
<1>4. CASE Switch
  BY <1>4 DEF Switch, Next
<1>5. CASE CollectorStep
  BY <1>5 DEF CollectorStep, Next
<1>6. QED
  BY <1>1, <1>2, <1>3, <1>4, <1>5 DEF Threads

\* The destructor frees the zones that have an owner, then the domain.
LEMMA Destructs ==
  ASSUME TypeOK, Destruct
  PROVE  [Next]_vars
<1>1. CASE StopDaemon
  BY <1>1 DEF StopDaemon, Apart
<1>2. CASE StopServer
  BY <1>2 DEF StopServer, Apart
<1>3. CASE FreeZone
  <2> DEFINE z == TearDown[agent][torn + 1].part
  <2>1. MainFreeZone(z)
    BY <1>3 DEF FreeZone
  <2>2. z \in owned
    BY <2>1 DEF MainFreeZone
  <2>3. z \in Zone
    BY <2>2 DEF TypeOK
  <2>4. QED
    BY <2>1, <2>3 DEF Next, MainNext
<1>4. CASE FreeIo
  BY <1>4 DEF FreeIo, Apart
<1>5. CASE CloseDriver
  BY <1>5 DEF CloseDriver, Apart
<1>6. CASE FreeDomain
  BY <1>6 DEF FreeDomain, Next, MainNext
<1>7. CASE UnmapBar2
  BY <1>7 DEF UnmapBar2, Apart
<1>8. CASE CloseRegistry
  BY <1>8 DEF CloseRegistry, Apart
<1>9. QED
  BY <1>1, <1>2, <1>3, <1>4, <1>5, <1>6, <1>7, <1>8 DEF Destruct

\* Every step of an agent is one of its zones, or none to them.
LEMMA LifeSteps ==
  ASSUME TypeOK, [LifeNext]_lifeVars
  PROVE  [Next]_vars
<1>1. CASE Construct
  BY <1>1, Constructs
<1>2. CASE Exit
  BY <1>2 DEF Exit, Apart
<1>3. CASE Threads
  BY <1>3, ThreadsWalk
<1>4. CASE Shutdown
  BY <1>4 DEF Shutdown, Next, MainNext
<1>5. CASE Destruct
  BY <1>5, Destructs
<1>6. CASE \E w \in Walker : Call(w) \/ Walk(w)
  BY <1>6 DEF Call, Walk, Walking, Next
<1>7. CASE UNCHANGED lifeVars
  BY <1>7 DEF lifeVars
<1>8. QED
  BY <1>1, <1>2, <1>3, <1>4, <1>5, <1>6, <1>7 DEF LifeNext

\* The zones of an agent have their types, from its constructor on (agent.cpp).
THEOREM LifeTyped == LifeSpec => []TypeOK
<1>1. LifeInit => TypeOK
  BY LifeStarts, TypeInit
<1>2. TypeOK /\ [LifeNext]_lifeVars => TypeOK'
  BY LifeSteps, TypeNext
<1>3. QED
  BY <1>1, <1>2, PTL DEF LifeSpec

\* Whatever the agents do between their constructor and their destructor
\* (agent.cpp of sn-cfg and of sn-p4), it is a use of the zones that StatsZones
\* describes (stats.c): what holds of the zones there holds of them here.
THEOREM LifeUsesTheZones == LifeSpec => Spec
<1>1. LifeInit => Init
  BY LifeStarts
<1>2. TypeOK /\ [LifeNext]_lifeVars => [Next]_vars
  BY LifeSteps
<1>3. QED
  BY <1>1, <1>2, LifeTyped, PTL DEF LifeSpec, Spec


-----------------------------------------------------------------------------
(* What the zones owe to the agents.                                       *)

\* From the constructor to the destructor of either agent no zone is used, by the RPC
\* threads, the collector or the destructor itself, once its memory is freed.
THEOREM LifeNeverUsesAfterFree == LifeSpec => []NoUseAfterFree
<1>1. QED
  BY LifeUsesTheZones, NeverUsedAfterFree, PTL

\* All that an agent's walks take of a zone's ref_count they give back.
THEOREM LifeCountsAccount == LifeSpec => []RefsAccount
<1>1. QED
  BY LifeUsesTheZones, CountsAccount, PTL

\* deinit_* and stats_domain_free leave nothing allocated.
THEOREM LifeFreesTheZones == LifeSpec => []FreedWithTheDomain
<1>1. QED
  BY LifeUsesTheZones, NoZoneOutlivesTheDomain, PTL

\* A Get, a Clear, an update and the free come to every zone of the agent.
THEOREM LifeWalksAreComplete == LifeSpec => []WalksAreComplete
<1>1. QED
  BY LifeUsesTheZones, EveryWalkIsComplete, PTL

THEOREM LifeZonesInvariant == LifeSpec => []ZonesInv
<1>1. QED
  BY LifeUsesTheZones, ZonesInvariant, PTL

-----------------------------------------------------------------------------
(* The rest of the agent, by its own invariant.                            *)

\* What is open when: each part is opened before what uses it and closed after.
OpenInv ==
  /\ step \notin {"alloc", "attach", "gone"} => "registry" \in up /\ "bar2" \in up
  /\ "bar2" \in up => "registry" \in up
  /\ "daemon" \in up => "server" \in up
  /\ "server" \in up => step \in {"serve", "deinit"}
  /\ scraping => "server" \in up

\* The zones are attached one by one, and detached by the last walk.
AttachedInv ==
  /\ step \in {"clear", "start", "serve", "deinit", "stop"} => attached = Zone
  /\ step = "alloc" => \A z \in Zone : mem[z] # "none" => z \in attached
  /\ step = "attach" => \A z \in Zone : mem[z] # "none" /\ z # Last(list) => z \in attached

Opens(i) == Build[agent][i].op = "open"

\* The constructor opens drivers in the order of its steps, and only good ones.
BuiltInv ==
  /\ agent \in Agents
  /\ built \in Nat
  /\ DOMAIN driver = Drivers(agent)
  /\ step \notin {"alloc", "attach"} => built = Len(Build[agent])
  /\ step = "attach" => ~Opens(built + 1)
  /\ agent = "sn-p4" =>
       \A i \in 1 .. built :
         i <= Len(Build[agent]) /\ Opens(i) =>
           InfoStatus(Pipelines[Build[agent][i].part]) = "OK"
  /\ step \in {"alloc", "attach", "clear", "start", "serve"} =>
       /\ \A i \in 1 .. built :
            i <= Len(Build[agent]) /\ Opens(i) => driver[Build[agent][i].part] = "live"
       /\ \A z \in Zone : mem[z] # "none" => z \in io

LifeInv == OpenInv /\ AttachedInv /\ BuiltInv

LEMMA LifeInvInit == LifeInit => LifeInv
<1> SUFFICES ASSUME LifeInit PROVE LifeInv
  OBVIOUS
<1>1. /\ step = "alloc" /\ up = {} /\ ~scraping /\ built = 0 /\ agent \in Agents
      /\ DOMAIN driver = Drivers(agent) /\ \A z \in Zone : mem[z] = "none"
  BY DEF LifeInit, Init
<1>2. OpenInv /\ AttachedInv
  BY <1>1 DEF OpenInv, AttachedInv
<1>3. \A i \in 1 .. built : FALSE
  BY <1>1
<1>4. BuiltInv
  BY <1>1, <1>3 DEF BuiltInv
<1>5. QED
  BY <1>2, <1>4 DEF LifeInv

\* A step that changes nothing of the zones, but what is open.
LEMMA OpenKeeps ==
  ASSUME ZonesInv, LifeInv, [LifeNext]_lifeVars
  PROVE  OpenInv'
<1>0. step \in Step
  BY DEF ZonesInv, TypeOK
<1>1. CASE OpenRegistry \/ MapBar2
  BY <1>1 DEF OpenRegistry, MapBar2, Apart, vars, LifeInv, OpenInv
<1>2. CASE OpenDriver \/ Exit \/ FreeIo \/ CloseDriver
  BY <1>2 DEF OpenDriver, Exit, FreeIo, CloseDriver, Apart, vars, LifeInv, OpenInv
<1>3. CASE StartServer \/ StartDaemon
  BY <1>3 DEF StartServer, StartDaemon, Apart, vars, LifeInv, OpenInv
<1>4. CASE StopDaemon \/ StopServer
  BY <1>4 DEF StopDaemon, StopServer, Apart, vars, LifeInv, OpenInv
<1>5. CASE UnmapBar2 \/ CloseRegistry
  BY <1>5 DEF UnmapBar2, CloseRegistry, Apart, vars, LifeInv, OpenInv
<1>6. CASE ScrapeBegin \/ ScrapeEnd
  BY <1>6 DEF ScrapeBegin, ScrapeEnd, Apart, vars, LifeInv, OpenInv
<1>7. CASE AllocZone \/ AttachZone
  <2>1. /\ UNCHANGED <<up, scraping>> /\ step \in {"alloc", "attach"}
        /\ step' \in {"alloc", "attach"}
    BY <1>7 DEF AllocZone, AttachZone, Publish, AttachBlocks
  <2>2. QED
    BY <2>1 DEF LifeInv, OpenInv
<1>8. CASE StartDomain
  <2>1. UNCHANGED <<up, scraping>> /\ "bar2" \in up
    BY <1>8 DEF StartDomain, Beside
  <2>2. step \in {"alloc", "clear", "start"} /\ step' \in {"clear", "start", "serve"}
    BY <1>8 DEF StartDomain, MainClear, MainCleared, MainStart, MainSkip, MainTo
  <2>3. QED
    BY <2>1, <2>2 DEF LifeInv, OpenInv
<1>9. CASE Shutdown
  BY <1>9 DEF Shutdown, MainShutdown, MainTo, Beside, LifeInv, OpenInv
<1>10. CASE FreeZone
  BY <1>10 DEF FreeZone, MainFreeZone, LifeInv, OpenInv
<1>11. CASE FreeDomain
  <2>1. UNCHANGED <<up, scraping>> /\ "server" \notin up
    BY <1>11 DEF FreeDomain, Beside
  <2>2. step \in {"deinit", "stop", "free"}
    BY <1>11 DEF FreeDomain, MainStop, MainFree, MainGone, MainTo
  <2>3. QED
    BY <2>1, <2>2 DEF LifeInv, OpenInv
<1>12. CASE Rpcs \/ Switch \/ CollectorStep \/ \E w \in Walker : Call(w) \/ Walk(w)
  <2>1. UNCHANGED <<up, scraping>>
    BY <1>12 DEF Rpcs, Switch, CollectorStep, Call, Walk, Beside
  <2>2. step' = step
    <3>1. CASE Rpcs \/ Switch \/ CollectorStep
      BY <3>1 DEF Rpcs, Switch, CollectorStep, RpcBegin, RpcEnd, RpcSwitch, CollectorBegin,
                  CollectorEnd, Stopped
    <3>2. ASSUME NEW w \in Walker, Call(w) \/ Walk(w) PROVE step' = step
      BY <3>2 DEF Call, Walk, Touch, Passing, Take, Drop, Arrive, Detach, Release, Visit,
                  Abandon
    <3>3. QED
      BY <1>12, <3>1, <3>2
  <2>3. QED
    BY <2>1, <2>2 DEF LifeInv, OpenInv
<1>13. CASE UNCHANGED lifeVars
  BY <1>13 DEF lifeVars, vars, LifeInv, OpenInv
<1>14. QED
  BY <1>1, <1>2, <1>3, <1>4, <1>5, <1>6, <1>7, <1>8, <1>9, <1>10, <1>11, <1>12, <1>13
  DEF LifeNext, Construct, Threads, Destruct


\* What the steps of the threads leave alone; only the last walk frees and detaches.
LEMMA ThreadsKeep ==
  ASSUME ZonesInv,
         Rpcs \/ Switch \/ CollectorStep \/ Shutdown \/ \E w \in Walker : Call(w) \/ Walk(w)
  PROVE  /\ UNCHANGED <<agent, built, driver, io>>
         /\ step' = step \/ (step = "serve" /\ step' = "deinit")
         /\ step # "free" => UNCHANGED <<mem, attached, list>>
<1>1. CASE Rpcs
  BY <1>1 DEF Rpcs, Beside, RpcBegin, RpcEnd, BeginWalk, EndWalk, zoneVars
<1>2. CASE Switch
  BY <1>2 DEF Switch, Beside, RpcSwitch, zoneVars
<1>3. CASE CollectorStep
  BY <1>3 DEF CollectorStep, Beside, CollectorBegin, CollectorEnd, Stopped, BeginWalk, EndWalk,
              zoneVars
<1>4. CASE Shutdown
  BY <1>4 DEF Shutdown, Beside, MainShutdown, MainTo, zoneVars
<1>5. ASSUME NEW w \in Walker, Call(w) \/ Walk(w)
      PROVE  /\ UNCHANGED <<agent, built, driver, io, step>>
             /\ step # "free" => UNCHANGED <<mem, attached, list>>
  <2>1. Walking(w) /\ UNCHANGED <<agent, built, driver, io>>
    BY <1>5 DEF Call, Walk, Walking
  <2>2. step' = step
    BY <2>1 DEF Walking, Passing, Take, Drop, Arrive, Detach, Release, Visit, Abandon, Touch
  <2>3. QED
    BY <2>1, <2>2, ServiceSteps
<1>6. QED
  BY <1>1, <1>2, <1>3, <1>4, <1>5

\* The steps that leave the zones apart.
LEMMA ApartKeeps ==
  ASSUME OpenRegistry \/ MapBar2 \/ OpenDriver \/ StartServer \/ StartDaemon \/ Exit
         \/ ScrapeBegin \/ ScrapeEnd \/ StopDaemon \/ StopServer \/ FreeIo \/ CloseDriver
         \/ UnmapBar2 \/ CloseRegistry
  PROVE  /\ UNCHANGED <<step, mem, attached, list, agent>>
         /\ OpenDriver \/ FreeIo \/ CloseDriver \/ UNCHANGED <<built, driver, io>>
<1>1. CASE OpenRegistry \/ MapBar2 \/ OpenDriver \/ StartServer \/ StartDaemon
  BY <1>1 DEF OpenRegistry, MapBar2, OpenDriver, StartServer, StartDaemon, Apart, vars, zoneVars
<1>2. CASE Exit \/ ScrapeBegin \/ ScrapeEnd \/ StopDaemon \/ StopServer
  BY <1>2 DEF Exit, ScrapeBegin, ScrapeEnd, StopDaemon, StopServer, Apart, vars, zoneVars
<1>3. CASE FreeIo \/ CloseDriver \/ UnmapBar2 \/ CloseRegistry
  BY <1>3 DEF FreeIo, CloseDriver, UnmapBar2, CloseRegistry, Apart, vars, zoneVars
<1>4. QED
  BY <1>1, <1>2, <1>3

\* The main thread clears, starts, stops and frees the domain.
LEMMA DomainSteps ==
  ASSUME StartDomain \/ FreeDomain \/ FreeZone
  PROVE  /\ UNCHANGED <<agent, driver, io, built, mem, attached, list>>
         /\ \/ /\ step = "alloc" /\ step' \in {"clear", "serve"} /\ built = Len(Build[agent])
               /\ \A z \in Zone : mem[z] # "none"
            \/ step \in {"clear", "start"} /\ step' \in {"start", "serve"}
            \/ step = "deinit" /\ step' \in {"deinit", "stop"}
            \/ step \in {"stop", "free"} /\ step' \in {"free", "gone"}
<1>1. CASE StartDomain
  BY <1>1 DEF StartDomain, Beside, MainClear, MainCleared, MainStart, MainSkip, MainTo,
              BeginWalk, EndWalk, zoneVars
<1>2. CASE FreeDomain
  BY <1>2 DEF FreeDomain, Beside, MainStop, MainFree, MainGone, MainTo, BeginWalk, EndWalk,
              zoneVars
<1>3. CASE FreeZone
  BY <1>3 DEF FreeZone, MainFreeZone, ToTear
<1>4. QED
  BY <1>1, <1>2, <1>3

LEMMA LifeDisjuncts ==
  ASSUME [LifeNext]_lifeVars
  PROVE  \/ OpenRegistry \/ MapBar2 \/ OpenDriver \/ StartServer \/ StartDaemon \/ Exit
            \/ ScrapeBegin \/ ScrapeEnd \/ StopDaemon \/ StopServer \/ FreeIo \/ CloseDriver
            \/ UnmapBar2 \/ CloseRegistry
         \/ AllocZone \/ AttachZone
         \/ StartDomain \/ FreeDomain \/ FreeZone
         \/ Rpcs \/ Switch \/ CollectorStep \/ Shutdown \/ \E w \in Walker : Call(w) \/ Walk(w)
         \/ UNCHANGED lifeVars
BY DEF LifeNext, Construct, Threads, Destruct

LEMMA AttachedKeeps ==
  ASSUME ZonesInv, LifeInv, [LifeNext]_lifeVars
  PROVE  AttachedInv'
<1>0. TypeOK /\ AttachedInv
  BY DEF ZonesInv, LifeInv
<1>1. CASE UNCHANGED <<step, mem, attached, list>>
  BY <1>0, <1>1 DEF AttachedInv
<1>2. CASE AllocZone
  <2>1. PICK z \in Zone : Publish(z)
    BY <1>2 DEF AllocZone
  <2>2. /\ step = "alloc" /\ step' = "attach" /\ attached' = attached
        /\ mem' = [mem EXCEPT ![z] = "live"] /\ list' = Append(list, z)
    BY <2>1 DEF Publish
  <2>3. Last(list') = z
    <3>1. list \in Seq(Zone) /\ Len(list) \in Nat
      BY <1>0, LenProperties DEF TypeOK
    <3>2. list' = Append(list, z)
      BY <2>2
    <3>3. Len(list') = Len(list) + 1 /\ list'[Len(list) + 1] = z
      BY <3>1, <3>2, OneMore
    <3>4. QED
      BY <3>3 DEF Last
  <2>4. \A y \in Zone : y # z => mem'[y] = mem[y]
    BY <1>0, <2>2 DEF TypeOK
  <2>5. QED
    BY <1>0, <2>2, <2>3, <2>4 DEF AttachedInv
<1>3. CASE AttachZone
  <2>1. PICK z \in Zone : AttachBlocks(z)
    BY <1>3 DEF AttachZone
  <2>2. /\ step = "attach" /\ step' = "alloc" /\ attached' = attached \cup {z}
        /\ z = Last(list) /\ mem' = mem
    BY <2>1 DEF AttachBlocks
  <2>3. QED
    BY <1>0, <2>2 DEF AttachedInv
<1>4. CASE StartDomain \/ FreeDomain \/ FreeZone
  <2>1. attached \subseteq Zone
    BY <1>0 DEF TypeOK
  <2>2. QED
    BY <1>0, <1>4, <2>1, DomainSteps DEF AttachedInv
<1>5. CASE Rpcs \/ Switch \/ CollectorStep \/ Shutdown \/ \E w \in Walker : Call(w) \/ Walk(w)
  BY <1>0, <1>5, ThreadsKeep DEF AttachedInv
<1>6. CASE UNCHANGED lifeVars
  BY <1>1, <1>6 DEF lifeVars, vars, zoneVars
<1>7. QED
  BY <1>1, <1>2, <1>3, <1>4, <1>5, <1>6, LifeDisjuncts, ApartKeeps

LEMMA BuiltKeeps ==
  ASSUME ZonesInv, LifeInv, [LifeNext]_lifeVars
  PROVE  BuiltInv'
<1>0. /\ TypeOK /\ BuiltInv /\ built \in Nat /\ agent \in Agents
      /\ Len(Build[agent]) \in Nat
  <2>1. TypeOK /\ BuiltInv /\ built \in Nat /\ agent \in Agents
    BY DEF ZonesInv, LifeInv, BuiltInv
  <2>2. Len(Build[agent]) \in Nat
    BY <2>1, AgentAssumption, LenProperties
  <2>3. QED
    BY <2>1, <2>2
<1>1. CASE UNCHANGED <<step, mem, agent, built, driver, io>>
  BY <1>0, <1>1 DEF BuiltInv, Opens
<1>2. CASE OpenDriver
  <2> DEFINE d == Build[agent][built + 1].part
  <2>1. /\ step = "alloc" /\ step' = step /\ mem' = mem /\ agent' = agent /\ io' = io
        /\ built < Len(Build[agent]) /\ built' = built + 1
        /\ driver' = [driver EXCEPT ![d] = "live"]
        /\ agent = "sn-p4" => InfoStatus(Pipelines[d]) = "OK"
    BY <1>2 DEF OpenDriver, ToBuild, Apart, vars, zoneVars
  <2>2. built + 1 \in 1 .. Len(Build[agent])
    BY <1>0, <2>1
  <2>3. d \in DOMAIN driver
    BY <1>0, <2>2 DEF BuiltInv, Drivers
  <2>4. /\ DOMAIN driver' = DOMAIN driver /\ driver'[d] = "live"
        /\ \A x \in DOMAIN driver : x # d => driver'[x] = driver[x]
    BY <2>1, <2>3
  <2> HIDE DEF d
  <2>5. ASSUME NEW i \in 1 .. built + 1, i <= Len(Build[agent]), Opens(i)
        PROVE  /\ agent = "sn-p4" => InfoStatus(Pipelines[Build[agent][i].part]) = "OK"
               /\ driver'[Build[agent][i].part] = "live"
    <3>1. CASE i = built + 1
      <4>1. Build[agent][i].part = d
        BY <3>1 DEF d
      <4>2. QED
        BY <2>1, <2>4, <4>1
    <3>2. CASE i \in 1 .. built
      <4>1. Build[agent][i].part \in DOMAIN driver
        <5>1. i \in 1 .. Len(Build[agent])
          BY <1>0, <2>5
        <5>2. QED
          BY <1>0, <5>1 DEF BuiltInv, Drivers
      <4>2. driver[Build[agent][i].part] = "live"
        BY <1>0, <2>1, <2>5, <3>2 DEF BuiltInv
      <4>3. agent = "sn-p4" => InfoStatus(Pipelines[Build[agent][i].part]) = "OK"
        BY <1>0, <2>5, <3>2 DEF BuiltInv
      <4>4. QED
        BY <2>4, <4>1, <4>2, <4>3
    <3>3. QED
      BY <1>0, <3>1, <3>2, UpToOneMore
  <2>6. /\ DOMAIN driver = Drivers(agent)
        /\ \A z \in Zone : mem[z] # "none" => z \in io
    BY <1>0, <2>1 DEF BuiltInv
  <2>7. built' \in Nat
    BY <1>0, <2>1
  <2>8. Drivers(agent)' = Drivers(agent) /\ \A i : Opens(i)' <=> Opens(i)
    BY <2>1 DEF Drivers, Opens
  <2>9. QED
    BY <1>0, <2>1, <2>4, <2>5, <2>6, <2>7, <2>8 DEF BuiltInv
<1>3. CASE AllocZone
  <2>1. /\ \E z \in Zone : z = NextZone /\ Publish(z)
        /\ io' = io \cup {NextZone}
        /\ Build[agent][built + 1].op = "zone"
        /\ UNCHANGED <<agent, built, driver>>
    BY <1>3 DEF AllocZone, ToBuild
  <2>2. PICK z \in Zone : z = NextZone /\ Publish(z)
    BY <2>1
  <2>3. step = "alloc" /\ step' = "attach" /\ mem' = [mem EXCEPT ![z] = "live"]
    BY <2>2 DEF Publish
  <2>4. \A y \in Zone : mem'[y] # "none" => y \in io'
    BY <1>0, <2>1, <2>2, <2>3 DEF BuiltInv, TypeOK
  <2>5. ~Opens(built + 1)
    BY <2>1 DEF Opens
  <2>6. Drivers(agent)' = Drivers(agent) /\ \A i : Opens(i)' <=> Opens(i)
    BY <2>1 DEF Drivers, Opens
  <2>7. QED
    BY <1>0, <2>1, <2>3, <2>4, <2>5, <2>6 DEF BuiltInv
<1>4. CASE AttachZone
  <2>1. /\ \E z \in Zone : AttachBlocks(z)
        /\ built' = built + 1 /\ UNCHANGED <<agent, driver, io>>
    BY <1>4 DEF AttachZone
  <2>2. step = "attach" /\ step' = "alloc" /\ mem' = mem
    BY <2>1 DEF AttachBlocks
  <2>3. ~Opens(built + 1)
    BY <1>0, <2>2 DEF BuiltInv
  <2>4. Drivers(agent)' = Drivers(agent) /\ \A i : Opens(i)' <=> Opens(i)
    BY <2>1 DEF Drivers, Opens
  <2>5. \A i \in 1 .. built' : Opens(i) => i \in 1 .. built
    BY <1>0, <2>1, <2>3, UpToOneMore
  <2>6. built' \in Nat
    BY <1>0, <2>1
  <2>7. QED
    BY <1>0, <2>1, <2>2, <2>4, <2>5, <2>6 DEF BuiltInv
<1>5. CASE FreeIo \/ CloseDriver
  <2>1. /\ step = "deinit" /\ UNCHANGED <<step, agent, built>>
        /\ DOMAIN driver' = DOMAIN driver
    BY <1>5 DEF FreeIo, CloseDriver, ToTear, Apart, vars
  <2>2. QED
    BY <1>0, <2>1 DEF BuiltInv, Drivers, Opens
<1>6. CASE StartDomain \/ FreeDomain \/ FreeZone
  BY <1>0, <1>6, DomainSteps DEF BuiltInv, Drivers, Opens
<1>7. CASE Rpcs \/ Switch \/ CollectorStep \/ Shutdown \/ \E w \in Walker : Call(w) \/ Walk(w)
  BY <1>0, <1>7, ThreadsKeep DEF BuiltInv, Drivers, Opens
<1>8. CASE UNCHANGED lifeVars
  BY <1>1, <1>8 DEF lifeVars, vars, zoneVars
<1>9. QED
  BY <1>1, <1>2, <1>3, <1>4, <1>5, <1>6, <1>7, <1>8, LifeDisjuncts, ApartKeeps

\* The order in which an agent opens and closes its parts.
THEOREM LifeInvariant == LifeSpec => []LifeInv
<1>1. ZonesInv /\ LifeInv /\ [LifeNext]_lifeVars => LifeInv'
  BY OpenKeeps, AttachedKeeps, BuiltKeeps DEF LifeInv
<1>2. QED
  BY <1>1, LifeInvInit, LifeZonesInvariant, PTL DEF LifeSpec

\* The Prometheus daemon never reads a registry that is destroyed, nor one from which
\* a zone is missing: promhttp_start_daemon comes after, MHD_stop_daemon before.
THEOREM ScrapesAreSafe == LifeSpec => []ScrapesFindTheirMetrics
<1>1. LifeInv => ScrapesFindTheirMetrics
  BY DEF LifeInv, OpenInv, AttachedInv, ScrapesFindTheirMetrics
<1>2. QED
  BY <1>1, LifeInvariant, PTL

\* The driver of a zone's part is open for every call but the collector's late ones,
\* and the card is mapped for those too (agent.cpp, pipeline.cpp, device.cpp).
THEOREM CallsAreSafe == LifeSpec => []CallsFindTheirDriver
<1>1. ASSUME ZonesInv, LifeInv, NEW w \in Walker, at[w] = "touch", ~failed
      PROVE  /\ "bar2" \in up
             /\ w # Collector \/ step \notin {"deinit", "stop"} =>
                  /\ driver[Zones[agent][held[w]].part] = "live"
                  /\ held[w] \in io
  <2>1. /\ step \in {"clear", "serve", "deinit", "stop", "free"}
        /\ step # "free"
    BY <1>1, WalkTime DEF ZonesInv, LastWalk
  <2>2. "bar2" \in up
    BY <1>1, <2>1 DEF LifeInv, OpenInv
  <2>3. ASSUME w # Collector \/ step \notin {"deinit", "stop"}
        PROVE  /\ driver[Zones[agent][held[w]].part] = "live"
               /\ held[w] \in io
    <3>1. step \in {"clear", "serve"}
      BY <1>1, <2>1, <2>3 DEF Walker, ZonesInv, WhoWalks
    <3>2. held[w] \in Zone
      BY <1>1 DEF ZonesInv, InHand, TypeOK
    <3>3. mem[held[w]] = "live"
      BY <1>1, <2>1, <3>2, LiveInHand
    <3>4. held[w] \in io
      BY <1>1, <3>1, <3>2, <3>3 DEF LifeInv, BuiltInv
    <3>5. agent \in Agents /\ built = Len(Build[agent])
      BY <1>1, <3>1 DEF LifeInv, BuiltInv
    <3>6. PICK i \in 1 .. Len(Build[agent]) :
            Build[agent][i] = Step1("open", Zones[agent][held[w]].part, "")
      BY <3>2, <3>5, AgentAssumption
    <3>7. Opens(i) /\ Build[agent][i].part = Zones[agent][held[w]].part
      <4> DEFINE part == Zones[agent][held[w]].part
      <4>1. Step1("open", part, "").op = "open" /\ Step1("open", part, "").part = part
        BY DEF Step1
      <4>2. QED
        BY <3>6, <4>1 DEF Opens
    <3>8. i \in 1 .. built /\ i <= Len(Build[agent])
      <4>1. Len(Build[agent]) \in Nat
        BY <3>5, AgentAssumption, LenProperties
      <4> DEFINE n == Len(Build[agent])
      <4>2. n \in Nat /\ i \in 1 .. n /\ built = n
        BY <3>5, <4>1
      <4> HIDE DEF n
      <4>3. i \in 1 .. built /\ i <= n
        BY <4>2
      <4>4. QED
        BY <4>3 DEF n
    <3>9. driver[Build[agent][i].part] = "live"
      BY <1>1, <3>1, <3>7, <3>8 DEF LifeInv, BuiltInv
    <3>10. QED
      BY <3>4, <3>7, <3>9
  <2>4. QED
    BY <2>2, <2>3
<1>2. ZonesInv /\ LifeInv => CallsFindTheirDriver
  BY <1>1 DEF CallsFindTheirDriver
<1>3. QED
  BY <1>2, LifeInvariant, LifeZonesInvariant, PTL


-----------------------------------------------------------------------------
(* What the metrics show.                                                  *)

LEMMA FirstOfThem ==
  ASSUME NEW S, S \subseteq Nat, S # {}
  PROVE  \E i \in S : \A j \in S : i <= j
<1>1. PICK i \in S : \A j \in S : ~(<<j, i>> \in OpToRel(<, Nat))
  BY NatLessThanWellFounded, WFMin
<1>2. \A j \in S : ~(j < i)
  BY <1>1 DEF OpToRel
<1>3. QED
  BY <1>2

\* A pipeline without a complaint has none about its counters.
LEMMA GoodTypes ==
  ASSUME NEW config, config.counters \in Seq([name : STRING, type : STRING, num_counters : Nat]),
         InfoStatus(config) = "OK"
  PROVE  \A b \in 1 .. Len(config.counters) : config.counters[b].type \in CounterTypes
<1> DEFINE verdicts == [i \in DOMAIN config.counters |-> CounterStatus(config.counters[i])]
           bad == {i \in DOMAIN verdicts : verdicts[i] # "OK"}
           first == CHOOSE i \in bad : \A j \in bad : i <= j
<1>1. FirstComplaint(verdicts) = "OK"
  <2>1. CountersStatus(config.counters) = "OK"
    BY DEF InfoStatus
  <2>2. QED
    BY <2>1 DEF CountersStatus
<1>2. DOMAIN verdicts = 1 .. Len(config.counters)
  BY LenProperties
<1>3. bad = {}
  <2>1. SUFFICES ASSUME bad # {} PROVE FALSE
    OBVIOUS
  <2>2. bad \subseteq Nat
    BY <1>2
  <2>3. \E i \in bad : \A j \in bad : i <= j
    BY <2>1, <2>2, FirstOfThem
  <2>4. first \in bad
    BY <2>3
  <2>5. verdicts[first] # "OK"
    BY <2>4
  <2>6. FirstComplaint(verdicts) = verdicts[first]
    BY <2>1 DEF FirstComplaint
  <2>7. QED
    BY <1>1, <2>5, <2>6
<1>4. ASSUME NEW b \in 1 .. Len(config.counters) PROVE config.counters[b].type \in CounterTypes
  <2>1. verdicts[b] = CounterStatus(config.counters[b]) /\ b \in DOMAIN verdicts
    BY <1>2
  <2>2. CounterStatus(config.counters[b]) = "OK"
    BY <1>3, <2>1
  <2>3. QED
    BY <2>2 DEF CounterStatus
<1>5. QED
  BY <1>4

\* The metrics of a block of counters share out what was latched for it.
LEMMA CounterShare ==
  ASSUME NEW info, info.type \in CounterTypes, info.num_counters \in Nat,
         NEW m \in DOMAIN CounterBlock(info).metrics, NEW e \in 1 .. info.num_counters
  PROVE  LET metric == CounterBlock(info).metrics[m]
         IN  /\ metric.nelements = info.num_counters
             /\ CounterLatch(CounterBlock(info))[metric.offset + e] =
                  <<info.name, metric.units, e>>
<1> DEFINE n == info.num_counters
           metric == CounterBlock(info).metrics[m]
           latch == CounterLatch(CounterBlock(info))
<1>1. m \in DOMAIN Units(info.type) /\ metric = CounterMetric(info, m - 1)
  BY DEF CounterBlock
<1>2. CASE info.type = "PACKETS_AND_BYTES"
  <2>1. Units(info.type) = <<"packets", "bytes">>
    BY <1>2 DEF Units
  <2>2. m \in {1, 2}
    BY <1>1, <2>1
  <2> DEFINE p == BlockRead(info, "packets", n)
             q == BlockRead(info, "bytes", n)
             V == {p[i] : i \in 1 .. n} \cup {q[i] : i \in 1 .. n}
  <2>3. latch = p \o q
    BY <1>2 DEF CounterLatch, CounterBlock
  <2>4. /\ p = [i \in 1 .. n |-> <<info.name, "packets", i>>]
        /\ q = [i \in 1 .. n |-> <<info.name, "bytes", i>>]
    BY DEF BlockRead
  <2>5. p \in Seq(V) /\ q \in Seq(V) /\ Len(p) = n /\ Len(q) = n
    <3>1. p \in [1 .. n -> V] /\ q \in [1 .. n -> V]
      BY <2>4
    <3> HIDE DEF p, q, V
    <3>2. p \in Seq(V) /\ q \in Seq(V)
      BY <3>1, SeqDef
    <3>3. QED
      BY <3>1, <3>2, LenProperties
  <2>6. \A i \in 1 .. n + n : latch[i] = IF i <= n THEN p[i] ELSE q[i - n]
    BY <2>3, <2>5, ConcatProperties
  <2>7. CASE m = 1
    <3>1. metric.nelements = n /\ metric.offset = 0 * n /\ metric.units = "packets"
      BY <1>1, <2>1, <2>7 DEF CounterMetric
    <3>2. metric.offset + e = e /\ e \in 1 .. n + n /\ e <= n
      BY <3>1
    <3>3. latch[e] = p[e]
      BY <2>6, <3>2
    <3>4. QED
      BY <2>4, <3>1, <3>2, <3>3
  <2>8. CASE m = 2
    <3>1. metric.nelements = n /\ metric.offset = 1 * n /\ metric.units = "bytes"
      BY <1>1, <2>1, <2>8 DEF CounterMetric
    <3>2. metric.offset + e = n + e /\ n + e \in 1 .. n + n /\ ~(n + e <= n) /\ (n + e) - n = e
      BY <3>1
    <3>3. latch[n + e] = q[e]
      BY <2>6, <3>2
    <3>4. QED
      BY <2>4, <3>1, <3>2, <3>3
  <2>9. QED
    BY <2>2, <2>7, <2>8
<1>3. CASE info.type # "PACKETS_AND_BYTES"
  <2>1. PICK units : Units(info.type) = <<units>>
    BY <1>3 DEF Units, CounterTypes
  <2>2. m = 1
    BY <1>1, <2>1
  <2>3. latch = BlockRead(info, units, n)
    BY <1>3, <2>1 DEF CounterLatch, CounterBlock
  <2>4. metric.nelements = n /\ metric.offset = 0 * n /\ metric.units = units
    BY <1>1, <2>1, <2>2 DEF CounterMetric
  <2>5. metric.offset + e = e
    BY <2>4
  <2>6. latch[e] = <<info.name, units, e>>
    BY <2>3 DEF BlockRead
  <2>7. QED
    BY <2>4, <2>5, <2>6
<1>4. QED
  BY <1>2, <1>3

\* And so those of a table.
LEMMA EccShare ==
  ASSUME NEW info, NEW m \in DOMAIN EccBlock(info).metrics,
         NEW latch \in EccLatches(EccBlock(info))
  PROVE  LET metric == EccBlock(info).metrics[m]
         IN  /\ metric.nelements = 1
             /\ latch[metric.offset + 1] \in {Zero, <<info.name, metric.units, 1>>}
<1>1. m \in {1, 2} /\ DOMAIN EccUnits = {1, 2}
  BY DEF EccBlock, EccUnits
<1>2. EccBlock(info).metrics[m] = EccMetric(m - 1)
  BY <1>1 DEF EccBlock
<1>3. EccMetric(m - 1).nelements = 1 /\ EccMetric(m - 1).offset = m - 1
      /\ EccMetric(m - 1).units = EccUnits[m]
  BY <1>1 DEF EccMetric
<1>4. latch[m] \in {Zero, <<info.name, EccUnits[m], 1>>}
  <2>1. EccBlock(info).info = info
    BY DEF EccBlock
  <2>2. \/ latch = [i \in DOMAIN EccUnits |-> <<info.name, EccUnits[i], 1>>]
        \/ latch = [i \in DOMAIN EccUnits |-> Zero]
    BY <2>1 DEF EccLatches
  <2>3. QED
    BY <1>1, <2>2
<1>5. (m - 1) + 1 = m
  BY <1>1
<1>6. QED
  BY <1>2, <1>3, <1>4, <1>5


\* Every metric of every block of a pipeline reads its own part of what was latched.
LEMMA ReadingsAreTruthful ==
  ASSUME NEW config, config.counters \in Seq([name : STRING, type : STRING, num_counters : Nat]),
         InfoStatus(config) = "OK", NEW kind,
         NEW reading \in Readings(kind, GetPipeline(config))
  PROVE  Truthful(kind, GetPipeline(config), reading)
<1> DEFINE pipeline == GetPipeline(config)
           blocks == Blocks(kind, pipeline)
<1>1. ASSUME kind = "counters", NEW b \in DOMAIN blocks
      PROVE  \E info : /\ blocks[b] = CounterBlock(info) /\ info.type \in CounterTypes
                       /\ info.num_counters \in Nat
  <2> DEFINE counter == config.counters[b]
             info == GetCounterBlock(counter, config.aliases)
  <2>1. DOMAIN config.counters = 1 .. Len(config.counters)
    BY LenProperties
  <2>2. blocks = [i \in DOMAIN config.counters |->
                    CounterBlock(GetCounterBlock(config.counters[i], config.aliases))]
    BY <1>1 DEF Blocks, CounterBlocks, GetPipeline
  <2>3. b \in 1 .. Len(config.counters) /\ blocks[b] = CounterBlock(info)
    BY <1>1, <2>1, <2>2
  <2>4. counter \in [name : STRING, type : STRING, num_counters : Nat]
    BY <2>3, ElementOfSeq
  <2>5. counter.type \in CounterTypes
    BY <2>3, GoodTypes
  <2>6. info.type = counter.type /\ info.num_counters = counter.num_counters
    BY DEF GetCounterBlock
  <2>7. QED
    BY <2>3, <2>4, <2>5, <2>6
<1>2. ASSUME kind # "counters", NEW b \in DOMAIN blocks
      PROVE  \E info : blocks[b] = EccBlock(info)
  BY <1>2 DEF Blocks, EccBlocks
<1> HIDE DEF pipeline, blocks
<1> DEFINE ends == [b \in DOMAIN blocks |-> Latches(kind, blocks[b]) \cup {Invalid}]
<1>3. PICK latched : /\ \A b \in DOMAIN blocks : latched[b] \in ends[b]
                     /\ reading = [b \in DOMAIN blocks |->
                                     [m \in DOMAIN blocks[b].metrics |->
                                        ReadMetric(blocks[b].metrics[m], latched[b])]]
  BY DEF Readings, blocks, pipeline
<1>4. ASSUME NEW b \in DOMAIN blocks, NEW m \in DOMAIN blocks[b].metrics,
             NEW e \in 1 .. blocks[b].metrics[m].nelements
      PROVE  reading[b][m][e] \in {Zero, <<blocks[b].info.name, blocks[b].metrics[m].units, e>>}
  <2> DEFINE metric == blocks[b].metrics[m]
             latch == latched[b]
  <2>1. reading[b][m][e] = IF latch = Invalid THEN Zero ELSE latch[metric.offset + e]
    BY <1>3 DEF ReadMetric
  <2>2. latch \in Latches(kind, blocks[b]) \/ latch = Invalid
    BY <1>3
  <2>3. ASSUME latch \in Latches(kind, blocks[b])
        PROVE  latch[metric.offset + e] \in {Zero, <<blocks[b].info.name, metric.units, e>>}
    <3>1. CASE kind = "counters"
      <4>1. PICK info : /\ blocks[b] = CounterBlock(info) /\ info.type \in CounterTypes
                        /\ info.num_counters \in Nat
        BY <1>1, <3>1
      <4>2. latch = CounterLatch(CounterBlock(info))
        BY <2>3, <3>1, <4>1 DEF Latches
      <4>3. blocks[b].info = info
        BY <4>1 DEF CounterBlock
      <4>4. m \in DOMAIN CounterBlock(info).metrics
        BY <4>1
      <4>5. metric = CounterBlock(info).metrics[m]
        BY <4>1
      <4>6. metric.nelements = info.num_counters
        BY <4>4, <4>5 DEF CounterBlock, CounterMetric
      <4>7. e \in 1 .. info.num_counters
        BY <4>6
      <4>8. CounterLatch(CounterBlock(info))[metric.offset + e] = <<info.name, metric.units, e>>
        BY <4>1, <4>4, <4>5, <4>7, CounterShare
      <4>9. QED
        BY <4>2, <4>3, <4>8
    <3>2. CASE kind # "counters"
      <4>1. PICK info : blocks[b] = EccBlock(info)
        BY <1>2, <3>2
      <4>2. latch \in EccLatches(EccBlock(info))
        BY <2>3, <3>2, <4>1 DEF Latches
      <4>3. blocks[b].info = info
        BY <4>1 DEF EccBlock
      <4>4. m \in DOMAIN EccBlock(info).metrics /\ metric = EccBlock(info).metrics[m]
        BY <4>1
      <4>5. /\ metric.nelements = 1
            /\ latch[metric.offset + 1] \in {Zero, <<info.name, metric.units, 1>>}
        BY <4>2, <4>4, EccShare
      <4>6. e = 1
        BY <4>5
      <4>7. QED
        BY <4>3, <4>5, <4>6
    <3>3. QED
      BY <3>1, <3>2
  <2>4. QED
    BY <2>1, <2>2, <2>3
<1>5. QED
  BY <1>4 DEF Truthful, blocks, pipeline


\* What a walker's last call has shown, it read of the zone that it still holds.
ShownInv ==
  /\ DOMAIN shown = Walker
  /\ \A w \in Walker : shown[w] # <<>> =>
       /\ agent = "sn-p4" /\ step \notin {"alloc", "attach"}
       /\ held[w] \in Zone
       /\ shown[w] \in ReadingsOf[agent][held[w]]

LEMMA ShownKeeps ==
  ASSUME ZonesInv, LifeInv, ShownInv, [LifeNext]_lifeVars
  PROVE  ShownInv'
<1>0. TypeOK /\ agent \in {"sn-cfg", "sn-p4"} /\ agent \in Agents
  BY AgentAssumption DEF ZonesInv, LifeInv, BuiltInv
<1>1. ASSUME NEW w \in Walker, Call(w) PROVE ShownInv'
  <2>1. PICK reading \in ReadingsOf[agent][held[w]] : shown' = [shown EXCEPT ![w] = reading]
    BY <1>1 DEF Call
  <2>2. Touch(w) /\ agent' = agent
    BY <1>1 DEF Call
  <2>3. at[w] = "touch" /\ held' = held /\ step' = step
    BY <2>2 DEF Touch
  <2>4. step \notin {"alloc", "attach"} /\ held[w] \in Zone
    BY <1>0, <2>3, WalkTime DEF ZonesInv, InHand, TypeOK
  <2>5. agent = "sn-cfg" => reading = <<>>
    BY <1>0, <2>1, <2>4 DEF ReadingsOf
  <2>6. DOMAIN shown' = Walker /\ shown'[w] = reading
        /\ \A v \in Walker \ {w} : shown'[v] = shown[v]
    BY <2>1 DEF ShownInv
  <2>7. QED
    BY <1>0, <2>1, <2>2, <2>3, <2>4, <2>5, <2>6 DEF ShownInv
<1>2. ASSUME NEW w \in Walker, Walk(w) PROVE ShownInv'
  <2>1. Walking(w) /\ agent' = agent /\ shown' = [shown EXCEPT ![w] = <<>>]
    BY <1>2 DEF Walk, Walking
  <2>2. step' = step
    BY <2>1 DEF Walking, Passing, Take, Drop, Arrive, Detach, Release, Visit, Abandon, Touch
  <2>3. \A v \in Walker \ {w} : held'[v] = held[v]
    BY <1>0, <2>1, OthersStayPut
  <2>4. DOMAIN shown' = Walker /\ shown'[w] = <<>>
        /\ \A v \in Walker \ {w} : shown'[v] = shown[v]
    BY <2>1 DEF ShownInv
  <2>5. QED
    BY <2>1, <2>2, <2>3, <2>4 DEF ShownInv
<1>3. ASSUME UNCHANGED <<agent, shown, held>>,
             step \notin {"alloc", "attach"} => step' \notin {"alloc", "attach"}
      PROVE  ShownInv'
  BY <1>3 DEF ShownInv
<1>4. CASE \/ OpenRegistry \/ MapBar2 \/ OpenDriver \/ StartServer \/ StartDaemon \/ Exit
              \/ ScrapeBegin \/ ScrapeEnd \/ StopDaemon \/ StopServer \/ FreeIo \/ CloseDriver
              \/ UnmapBar2 \/ CloseRegistry
  <2>1. UNCHANGED <<vars, agent, shown>>
    <3>1. CASE OpenRegistry \/ MapBar2 \/ OpenDriver \/ StartServer \/ StartDaemon
      BY <3>1 DEF OpenRegistry, MapBar2, OpenDriver, StartServer, StartDaemon, Apart
    <3>2. CASE Exit \/ ScrapeBegin \/ ScrapeEnd \/ StopDaemon \/ StopServer
      BY <3>2 DEF Exit, ScrapeBegin, ScrapeEnd, StopDaemon, StopServer, Apart
    <3>3. CASE FreeIo \/ CloseDriver \/ UnmapBar2 \/ CloseRegistry
      BY <3>3 DEF FreeIo, CloseDriver, UnmapBar2, CloseRegistry, Apart
    <3>4. QED
      BY <1>4, <3>1, <3>2, <3>3
  <2>2. QED
    BY <1>3, <2>1 DEF vars, walkVars
<1>5. CASE AllocZone \/ AttachZone
  <2>1. step \in {"alloc", "attach"} /\ UNCHANGED <<agent, shown, held>>
    BY <1>5 DEF AllocZone, AttachZone, Publish, AttachBlocks, walkVars
  <2>2. QED
    BY <1>3, <2>1
<1>6. CASE StartDomain \/ FreeDomain \/ FreeZone
  <2>1. UNCHANGED <<agent, shown, held>>
    BY <1>6 DEF StartDomain, FreeDomain, FreeZone, Beside, MainClear,
       MainCleared, MainStart, MainSkip, MainStop, MainFree, MainGone, BeginWalk, EndWalk,
       MainFreeZone, walkVars
  <2>2. QED
    BY <1>3, <1>6, <2>1, DomainSteps
<1>7. CASE Rpcs \/ Switch \/ CollectorStep \/ Shutdown
  <2>1. UNCHANGED <<agent, shown>>
    BY <1>7 DEF Rpcs, Switch, CollectorStep, Shutdown, Beside
  <2>2. held' = held
    <3>1. CASE Rpcs
      BY <3>1 DEF Rpcs, RpcBegin, RpcEnd, BeginWalk, EndWalk
    <3>2. CASE Switch
      BY <3>2 DEF Switch, RpcSwitch, walkVars
    <3>3. CASE CollectorStep
      BY <3>3 DEF CollectorStep, CollectorBegin, CollectorEnd, Stopped, BeginWalk, EndWalk,
                  walkVars
    <3>4. CASE Shutdown
      BY <3>4 DEF Shutdown, MainShutdown, walkVars
    <3>5. QED
      BY <1>7, <3>1, <3>2, <3>3, <3>4
  <2>3. step \notin {"alloc", "attach"} => step' \notin {"alloc", "attach"}
    BY <1>7, ThreadsKeep
  <2>4. QED
    BY <1>3, <2>1, <2>2, <2>3
<1>8. CASE UNCHANGED lifeVars
  BY <1>3, <1>8 DEF lifeVars, vars, walkVars
<1>9. QED
  BY <1>1, <1>2, <1>4, <1>5, <1>6, <1>7, <1>8, LifeDisjuncts

THEOREM LifeShows == LifeSpec => []ShownInv
<1>1. LifeInit => ShownInv
  BY DEF LifeInit, ShownInv
<1>2. ZonesInv /\ LifeInv /\ ShownInv /\ [LifeNext]_lifeVars => ShownInv'
  BY ShownKeeps
<1>3. QED
  BY <1>1, <1>2, LifeInvariant, LifeZonesInvariant, PTL DEF LifeSpec

\* Whatever the pipelines and however the calls end, no metric of sn-p4 shows another
\* counter in the place of its own (counters.cpp, table-ecc.cpp).
THEOREM MetricsAreTruthful == LifeSpec => []MetricsShowTheirCounters
<1>1. ASSUME LifeInv, ShownInv, NEW w \in Walker, shown[w] # <<>>
      PROVE  LET zone == Zones[agent][held[w]]
             IN  Truthful(zone.kind, GetPipeline(Pipelines[zone.part]), shown[w])
  <2> DEFINE zone == Zones[agent][held[w]]
             config == Pipelines[zone.part]
  <2>1. /\ agent = "sn-p4" /\ agent \in Agents /\ step \notin {"alloc", "attach"}
        /\ held[w] \in Zone /\ shown[w] \in ReadingsOf[agent][held[w]]
        /\ built = Len(Build[agent])
    BY <1>1 DEF ShownInv, LifeInv, BuiltInv
  <2>2. PICK i \in 1 .. Len(Build[agent]) : Build[agent][i] = Step1("open", zone.part, "")
    BY <2>1, AgentAssumption
  <2>3. InfoStatus(config) = "OK"
    <3>1. Opens(i) /\ Build[agent][i].part = zone.part
      <4>1. Step1("open", zone.part, "").op = "open" /\ Step1("open", zone.part, "").part = zone.part
        BY DEF Step1
      <4>2. QED
        BY <2>2, <4>1 DEF Opens
    <3>2. i \in 1 .. built /\ i <= Len(Build[agent])
      <4> DEFINE n == Len(Build[agent])
      <4>1. n \in Nat /\ i \in 1 .. n /\ built = n
        BY <2>1, <2>2, AgentAssumption, LenProperties
      <4> HIDE DEF n
      <4>2. i \in 1 .. built /\ i <= n
        BY <4>1
      <4>3. QED
        BY <4>2 DEF n
    <3>3. InfoStatus(Pipelines[Build[agent][i].part]) = "OK"
      BY <1>1, <2>1, <3>1, <3>2 DEF LifeInv, BuiltInv
    <3>4. QED
      BY <3>1, <3>3
  <2>4. zone.part \in DOMAIN Pipelines
    BY <2>1, AgentAssumption
  <2>5. config.counters \in Seq([name : STRING, type : STRING, num_counters : Nat])
    BY <2>4, PipelinesAssumption
  <2>6. shown[w] \in Readings(zone.kind, GetPipeline(config))
    BY <2>1 DEF ReadingsOf
  <2>7. QED
    BY <2>3, <2>5, <2>6, ReadingsAreTruthful
<1>2. LifeInv /\ ShownInv => MetricsShowTheirCounters
  BY <1>1 DEF MetricsShowTheirCounters
<1>3. QED
  BY <1>2, LifeInvariant, LifeShows, PTL
=============================================================================
