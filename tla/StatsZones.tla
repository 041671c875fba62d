----------------------------- MODULE StatsZones -----------------------------
(***************************************************************************)
(* The zones of a statistics domain: how they are attached, walked and     *)
(* freed (src/libopennic/src/stats.c), under the agent's use of them: the  *)
(* constructor allocates them and starts the domain, the RPC threads and   *)
(* the collector walk them, the destructor frees the zones and then the    *)
(* domain (src/sn-cfg/src/agent/agent.cpp).                                *)
(*                                                                         *)
(* A zone is counted by references, but the count is one too low: a zone   *)
(* that is only linked in the list has count 0, its owner's and each       *)
(* walker's reference add 1, and the put that finds 0 frees it.  That put  *)
(* is stats_domain_free's.  The domain's spin lock is held for each step   *)
(* in the list, not for the walk.                                          *)
(***************************************************************************)
EXTENDS Integers, FiniteSets, Sequences, SequencesExt

CONSTANTS
  Zone,       \* the zones of the domain
  NoZone,     \* NULL
  Rpc,        \* the gRPC workers
  Main,       \* the thread that runs the constructor and the destructor
  Collector,  \* the domain's collector
  Dom         \* the domain, as PeriodicTask names it

Walker == Rpc \cup {Main, Collector}

ASSUME StatsZonesAssumption ==
  /\ IsFiniteSet(Zone) /\ IsFiniteSet(Rpc)
  /\ NoZone \notin Zone
  /\ Main \notin Rpc /\ Collector \notin Rpc /\ Main # Collector

VARIABLES
  phase, busy,  \* whether the domain is on: PeriodicTask, which StatsDomain implements
  step,      \* how far the main thread is
  mem,       \* mem[z]: the memory of zone z
  refs,      \* refs[z]: zone->ref_count; -1 is UINT_MAX
  attached,  \* the zones whose blocks are attached
  list,      \* domain->zones, along the next pointers
  owned,     \* the zones whose owner has yet to call stats_zone_free
  at,        \* at[w]: where walker w is in its walk
  held,      \* held[w]: the zone whose reference w holds
  next,      \* next[w]: the one get_next_zone took for it
  dying,     \* dying[w]: the zone w has to free
  ret,       \* ret[w]: where w goes on once its put is over
  \* History, read by no action:
  plan,      \* plan[w]: the zones listed when w's walk began
  visited    \* visited[w]: the zones it came to

PT == INSTANCE PeriodicTask WITH Task <- {Dom}

domainVars == <<phase, busy>>
zoneVars   == <<mem, refs, attached, list, owned>>
walkVars   == <<at, held, next, dying, ret, plan, visited>>
vars       == <<domainVars, step, zoneVars, walkVars>>

Step == {"alloc", "attach", "clear", "start", "serve", "deinit", "stop", "free",
         "gone"}
At   == {"idle", "take", "drop", "arrive", "visit", "touch", "detach", "release",
         "done"}

TypeOK ==
  /\ phase \in [{Dom} -> {"off", "on", "draining"}]
  /\ busy \in [{Dom} -> BOOLEAN]
  /\ step \in Step
  /\ mem \in [Zone -> {"none", "live", "freed", "freed twice"}]
  /\ refs \in [Zone -> Int]
  /\ attached \subseteq Zone
  /\ list \in Seq(Zone)
  /\ owned \subseteq Zone
  /\ at \in [Walker -> At]
  /\ held \in [Walker -> Zone \cup {NoZone}]
  /\ next \in [Walker -> Zone \cup {NoZone}]
  /\ dying \in [Walker -> Zone \cup {NoZone}]
  /\ ret \in [Walker -> At]
  /\ plan \in [Walker -> Seq(Zone)]
  /\ visited \in [Walker -> Seq(Zone)]

Init ==
  /\ PT!Init
  /\ step = "alloc"
  /\ mem  = [z \in Zone |-> "none"]
  /\ refs = [z \in Zone |-> 0]
  /\ attached = {}
  /\ list = <<>>
  /\ owned = {}
  /\ at    = [w \in Walker |-> "idle"]
  /\ held  = [w \in Walker |-> NoZone]
  /\ next  = [w \in Walker |-> NoZone]
  /\ dying = [w \in Walker |-> NoZone]
  /\ ret   = [w \in Walker |-> "idle"]
  /\ plan  = [w \in Walker |-> <<>>]
  /\ visited = [w \in Walker |-> <<>>]

Goto(w, a) == at' = [at EXCEPT ![w] = a]

-----------------------------------------------------------------------------
(* stats_zone_alloc *)

\* stats_zone_attach, locked: append the zone to the list.
Publish(z) ==
  /\ step = "alloc"
  /\ mem[z] = "none"
  /\ mem'  = [mem EXCEPT ![z] = "live"]
  /\ list' = Append(list, z)
  /\ step' = "attach"
  /\ UNCHANGED <<domainVars, refs, attached, owned, walkVars>>

\* stats_zone_attach, unlocked: attach its blocks; the caller's reference.
AttachBlocks(z) ==
  /\ step = "attach"
  /\ z = Last(list)
  /\ attached' = attached \cup {z}
  /\ refs'  = [refs EXCEPT ![z] = @ + 1]
  /\ owned' = owned \cup {z}
  /\ step'  = "alloc"
  /\ UNCHANGED <<domainVars, mem, list, walkVars>>

-----------------------------------------------------------------------------
(* stats_domain_get_next_zone *)

Position(z) == CHOOSE i \in DOMAIN list : list[i] = z

\* zone->next; NULL for the last zone and for one that was detached.
Following(z) ==
  IF ~Contains(list, z) \/ z = Last(list) THEN NoZone ELSE list[Position(z) + 1]

First == IF list = <<>> THEN NoZone ELSE Head(list)

\* Under the lock: a reference to the next zone.
Take(w) ==
  LET n == IF held[w] = NoZone THEN First ELSE Following(held[w])
  IN
  /\ at[w] = "take"
  /\ next' = [next EXCEPT ![w] = n]
  /\ refs' = [z \in Zone |-> IF z = n THEN refs[z] + 1 ELSE refs[z]]
  /\ Goto(w, "drop")
  /\ UNCHANGED <<domainVars, step, mem, attached, list, owned, held, dying, ret,
                 plan, visited>>

\* stats_zone_put: the count is decremented; whoever found 0 frees the zone.
Put(w, z, then) ==
  /\ refs'  = [refs EXCEPT ![z] = @ - 1]
  /\ dying' = [dying EXCEPT ![w] = IF refs[z] = 0 THEN z ELSE NoZone]
  /\ ret'   = [ret EXCEPT ![w] = then]
  /\ Goto(w, IF refs[z] = 0 THEN "detach" ELSE then)

\* Unlocked: give the reference to the last zone back.
Drop(w) ==
  /\ at[w] = "drop"
  /\ IF held[w] = NoZone
     THEN Goto(w, "arrive") /\ UNCHANGED <<refs, dying, ret>>
     ELSE Put(w, held[w], "arrive")
  /\ UNCHANGED <<domainVars, step, mem, attached, list, owned, held, next, plan,
                 visited>>

Arrive(w) ==
  /\ at[w] = "arrive"
  /\ held' = [held EXCEPT ![w] = next[w]]
  /\ next' = [next EXCEPT ![w] = NoZone]
  /\ Goto(w, IF next[w] = NoZone THEN "done" ELSE "visit")
  /\ visited' = IF next[w] = NoZone THEN visited
                ELSE [visited EXCEPT ![w] = Append(@, next[w])]
  /\ UNCHANGED <<domainVars, step, zoneVars, dying, ret, plan>>

\* stats_zone_detach.
Detach(w) ==
  /\ at[w] = "detach"
  /\ list' = IF Contains(list, dying[w]) THEN RemoveAt(list, Position(dying[w]))
             ELSE list
  /\ attached' = attached \ {dying[w]}
  /\ Goto(w, "release")
  /\ UNCHANGED <<domainVars, step, mem, refs, owned, held, next, dying, ret, plan,
                 visited>>

\* __stats_zone_free.
Release(w) ==
  /\ at[w] = "release"
  /\ mem' = [mem EXCEPT ![dying[w]] = IF @ = "live" THEN "freed" ELSE "freed twice"]
  /\ dying' = [dying EXCEPT ![w] = NoZone]
  /\ Goto(w, ret[w])
  /\ UNCHANGED <<domainVars, step, refs, attached, list, owned, held, next, ret,
                 plan, visited>>

-----------------------------------------------------------------------------
(* The walks *)

BeginWalk(w) ==
  /\ at[w] = "idle"
  /\ Goto(w, "take")
  /\ plan' = [plan EXCEPT ![w] = list]
  /\ visited' = [visited EXCEPT ![w] = <<>>]
  /\ UNCHANGED <<zoneVars, held, next, dying, ret>>

\* Fault: stats_domain_free counts on the walk's own put.
Visit_OnePut(w) ==
  /\ at[w] = "visit"
  /\ \/ Goto(w, "touch")
     \/ w = Collector /\ Goto(w, "take")
  /\ UNCHANGED <<domainVars, step, zoneVars, held, next, dying, ret, plan, visited>>

\* Fault: stats_domain_free puts both references before it goes on.
Visit_TwoPuts(w) ==
  /\ at[w] = "visit"
  /\ IF w = Main /\ step = "free"
     THEN /\ refs'  = [refs EXCEPT ![held[w]] = @ - 2]
          /\ dying' = [dying EXCEPT ![w] = held[w]]
          /\ ret'   = [ret EXCEPT ![w] = "take"]
          /\ Goto(w, "detach")
     ELSE /\ \/ Goto(w, "touch")
             \/ w = Collector /\ Goto(w, "take")
          /\ UNCHANGED <<refs, dying, ret>>
  /\ UNCHANGED <<domainVars, step, mem, attached, list, owned, held, next, plan,
                 visited>>

\* What a walk does at a zone: stats_domain_free puts the reference of the list
\* (or so it counts it), the collector skips a zone that is disabled, anyone else
\* and the collector otherwise work on its blocks.
Visit(w) ==
  /\ at[w] = "visit"
  /\ IF w = Main /\ step = "free"
     THEN Put(w, held[w], "take")
     ELSE /\ \/ Goto(w, "touch")
             \/ w = Collector /\ Goto(w, "take")
          /\ UNCHANGED <<refs, dying, ret>>
  /\ UNCHANGED <<domainVars, step, mem, attached, list, owned, held, next, plan,
                 visited>>

Touch(w) ==
  /\ at[w] = "touch"
  /\ Goto(w, "take")
  /\ UNCHANGED <<domainVars, step, zoneVars, held, next, dying, ret, plan, visited>>

\* Fault: an early return without the put.
Abandon_NoPut(w) ==
  /\ w \in Rpc
  /\ at[w] = "touch"
  /\ Goto(w, "idle")
  /\ held' = [held EXCEPT ![w] = NoZone]
  /\ plan' = [plan EXCEPT ![w] = <<>>]
  /\ visited' = [visited EXCEPT ![w] = <<>>]
  /\ UNCHANGED <<domainVars, step, zoneVars, next, dying, ret>>

\* stats_domain_get_values, when its buffer is full, and for_each_metric, when
\* the callback fails, end the walk early and put the zone.
Abandon(w) ==
  /\ w \in Rpc
  /\ at[w] = "touch"
  /\ Put(w, held[w], "idle")
  /\ held' = [held EXCEPT ![w] = NoZone]
  /\ plan' = [plan EXCEPT ![w] = <<>>]
  /\ visited' = [visited EXCEPT ![w] = <<>>]
  /\ UNCHANGED <<domainVars, step, mem, attached, list, owned, next>>

\* The function that walked returns.
EndWalk(w) ==
  /\ at[w] = "done"
  /\ Goto(w, "idle")
  /\ plan' = [plan EXCEPT ![w] = <<>>]
  /\ visited' = [visited EXCEPT ![w] = <<>>]
  /\ UNCHANGED <<zoneVars, held, next, dying, ret>>

Passing(w) ==
  \/ Take(w) \/ Drop(w) \/ Arrive(w) \/ Detach(w) \/ Release(w)
  \/ Visit(w) \/ Abandon(w)

Walking(w) == Passing(w) \/ Touch(w)

-----------------------------------------------------------------------------
(* The threads *)

\* The collector updates the domain; a task that is off begins no sample.
CollectorBegin == PT!BeginSample(Dom) /\ BeginWalk(Collector) /\ UNCHANGED step
CollectorEnd   == PT!EndSample(Dom) /\ EndWalk(Collector) /\ UNCHANGED step

\* A Get or a Clear RPC walks the zones, while the agent serves.
RpcBegin(w) == step = "serve" /\ BeginWalk(w) /\ UNCHANGED <<domainVars, step>>
RpcEnd(w)   == EndWalk(w) /\ UNCHANGED <<domainVars, step>>

\* SetServerConfig starts and stops the domain.
RpcSwitch ==
  /\ step = "serve"
  /\ PT!SwitchOn(Dom) \/ PT!SwitchOff(Dom)
  /\ UNCHANGED <<step, zoneVars, walkVars>>

\* The join in stats_domain_stop returns.
Stopped == PT!Off(Dom) /\ UNCHANGED <<step, zoneVars, walkVars>>

MainTo(from, to) == step = from /\ step' = to

\* The constructor has allocated every zone: it clears the domain ...
MainClear ==
  /\ \A z \in Zone : mem[z] # "none"
  /\ MainTo("alloc", "clear")
  /\ BeginWalk(Main)
  /\ UNCHANGED domainVars

MainCleared == MainTo("clear", "start") /\ EndWalk(Main) /\ UNCHANGED domainVars

\* ... and starts it, ...
MainStart ==
  /\ MainTo("start", "serve")
  /\ PT!SwitchOn(Dom)
  /\ UNCHANGED <<zoneVars, walkVars>>

\* ... unless sn-cfg was told not to.
MainSkip ==
  /\ \A z \in Zone : mem[z] # "none"
  /\ MainTo("alloc", "serve")
  /\ UNCHANGED <<domainVars, zoneVars, walkVars>>

\* The server has shut down, every RPC is over: the destructor begins.
MainShutdown ==
  /\ MainTo("serve", "deinit")
  /\ \A w \in Rpc : at[w] = "idle"
  /\ phase[Dom] # "draining"
  /\ UNCHANGED <<domainVars, zoneVars, walkVars>>

\* deinit_*: stats_zone_free.
MainFreeZone(z) ==
  /\ step = "deinit"
  /\ at[Main] = "idle"
  /\ z \in owned
  /\ owned' = owned \ {z}
  /\ Put(Main, z, "idle")
  /\ UNCHANGED <<domainVars, step, mem, attached, list, held, next, plan, visited>>

\* Fault: the thread is waited for and not told to stop.
MainStop_NoFlag ==
  /\ owned = {}
  /\ at[Main] = "idle"
  /\ MainTo("deinit", "stop")
  /\ UNCHANGED <<domainVars, zoneVars, walkVars>>

\* stats_domain_free: stop the domain ...
MainStop ==
  /\ owned = {}
  /\ at[Main] = "idle"
  /\ MainTo("deinit", "stop")
  /\ IF phase[Dom] = "on" THEN PT!SwitchOff(Dom) ELSE UNCHANGED domainVars
  /\ UNCHANGED <<zoneVars, walkVars>>

\* Fault: the thread is told to stop and not waited for.
MainFree_NoJoin ==
  /\ MainTo("stop", "free")
  /\ BeginWalk(Main)
  /\ UNCHANGED domainVars

\* ... walk its zones to free them ...
MainFree ==
  /\ phase[Dom] = "off"
  /\ MainTo("stop", "free")
  /\ BeginWalk(Main)
  /\ UNCHANGED domainVars

\* ... and free the domain itself.
MainGone == MainTo("free", "gone") /\ EndWalk(Main) /\ UNCHANGED domainVars

MainNext ==
  \/ MainClear \/ MainCleared \/ MainStart \/ MainSkip \/ MainShutdown
  \/ MainStop \/ MainFree \/ MainGone
  \/ \E z \in Zone : Publish(z) \/ AttachBlocks(z) \/ MainFreeZone(z)

Next ==
  \/ MainNext
  \/ CollectorBegin \/ CollectorEnd
  \/ \E w \in Rpc : RpcBegin(w) \/ RpcEnd(w)
  \/ RpcSwitch \/ Stopped
  \/ \E w \in Walker : Walking(w)

Spec == Init /\ [][Next]_vars

-----------------------------------------------------------------------------
(* Properties *)

\* Nobody follows a pointer to freed memory: not to a zone a walk holds or has
\* taken, not through the list, and not to the domain; and no zone is freed twice.
NoUseAfterFree ==
  /\ \A w \in Walker :
       /\ held[w] # NoZone /\ at[w] \in {"take", "visit", "touch"}
            => mem[held[w]] = "live"
       /\ next[w] # NoZone => mem[next[w]] = "live"
       /\ step = "gone" => at[w] = "idle"
  /\ \A z \in ToSet(list) : mem[z] = "live"
  /\ \A z \in Zone : mem[z] # "freed twice"

\* The references to zone z that its count stands for, besides the list's.
Holders(z) ==
  {w \in Walker : held[w] = z /\ at[w] \in {"take", "drop", "visit", "touch"}}
Takers(z) == {w \in Walker : next[w] = z}

\* The count of a zone is its references, until the put of stats_domain_free.
RefsAccount ==
  step # "free" =>
    \A z \in Zone :
      mem[z] = "live" =>
        refs[z] = Cardinality(Holders(z)) + Cardinality(Takers(z))
                    + (IF z \in owned THEN 1 ELSE 0)

\* No zone outlives its domain, and none is freed before its owner said so.
FreedWithTheDomain ==
  /\ step = "gone" => \A z \in Zone : mem[z] = "freed"
  /\ \A z \in Zone : mem[z] = "freed" => z \notin owned /\ step \in {"free", "gone"}

\* A walk that runs to its end comes once to every zone that was there when it
\* began, in their order, also when the zones are being freed under it.
WalksAreComplete == \A w \in Walker : at[w] = "done" => visited[w] = plan[w]
=============================================================================
