------------------------------ MODULE AgentLife ------------------------------
(***************************************************************************)
(* The life of an agent with one device: its constructor, its service and  *)
(* its destructor (agent.cpp of sn-cfg and of sn-p4), with what the        *)
(* collector of a domain calls in the meantime.                            *)
(*                                                                         *)
(* The constructor makes the parts of the device one after the other:      *)
(* drivers (device.cpp, pipeline.cpp) and the zones whose blocks call them *)
(* (device.cpp, counters.cpp, table-ecc.cpp).  StatsZones says what then   *)
(* happens to the zones; here each of its steps is taken where the agent   *)
(* takes it.  A failure of the constructor ends the process.               *)
(***************************************************************************)
EXTENDS StatsZones, PipelineStats

CONSTANTS
  Agents,     \* the agents to look at, of "sn-cfg" and "sn-p4"
  Pipelines   \* the configuration of each pipeline that snp4_sdnet_present finds

VARIABLES
  agent,      \* which agent it is
  up,         \* what the process has opened besides the parts of the device
  built,      \* how many steps the constructor has made to build the device
  torn,       \* how many the destructor has made to tear it down
  driver,     \* the driver of each part, and the CMS mutex of the card
  io,         \* the zones whose blocks have their io data
  failed,     \* the process has exited with EXIT_FAILURE
  scraping,   \* the Prometheus daemon is reading the registry
  shown       \* what walker w's last call has put into the metrics of a zone

lifeVars == <<vars, agent, up, built, torn, driver, io, failed, scraping, shown>>

-----------------------------------------------------------------------------
(* The parts of the device.                                                *)

Step1(op, part, kind) == [op |-> op, part |-> part, kind |-> kind]

\* init_pipeline, of one pipeline: a zone is made only when it has blocks.
BuildPipeline(p) ==
  LET has(kind) == Blocks(kind, GetPipeline(Pipelines[p])) # <<>>
  IN  <<Step1("open", p, "")>>
      \o (IF has("counters") THEN <<Step1("zone", p, "counters")>> ELSE <<>>)
      \o (IF has("ecc") THEN <<Step1("zone", p, "ecc")>> ELSE <<>>)

\* init_device: the zones of the system monitors, the card, and its zone.
BuildCard == [n \in 1 .. Cardinality(Zone) - 1 |-> Step1("zone", 0, "sysmon")]
             \o <<Step1("open", 0, ""), Step1("zone", 0, "card")>>

Build ==
  [a \in Agents |->
     IF a = "sn-cfg" THEN BuildCard
     ELSE FlattenSeq([p \in DOMAIN Pipelines |-> BuildPipeline(p)])]

\* The zones of an agent are numbered in the order in which they are made.
Zones == [a \in Agents |-> SelectSeq(Build[a], LAMBDA s : s.op = "zone")]

\* What the folds above compute: the constructor opens the driver of every part for
\* which it makes a zone.
ASSUME AgentAssumption ==
  /\ Agents \subseteq {"sn-cfg", "sn-p4"}
  /\ \A a \in Agents :
       /\ Build[a] \in Seq([op : {"open", "zone"}, part : Nat, kind : STRING])
       /\ Zone = DOMAIN Zones[a]
       /\ \A z \in Zone :
            /\ \E i \in 1 .. Len(Build[a]) :
                 Build[a][i] = Step1("open", Zones[a][z].part, "")
            /\ a = "sn-p4" => Zones[a][z].part \in DOMAIN Pipelines

\* How many counters a block has is a number.
ASSUME PipelinesAssumption ==
  \A p \in DOMAIN Pipelines :
    Pipelines[p].counters \in Seq([name : STRING, type : STRING, num_counters : Nat])

Drivers(a) == {Build[a][i].part : i \in 1 .. Len(Build[a])}

\* The zones of a part that are of a kind, last made first.
Numbers(a, part, kind) ==
  Reverse(SetToSortSeq({z \in Zone : Zones[a][z] = Step1("zone", part, kind)}, <))

\* A zone is freed and then its io data; sn-cfg keeps none for its zones.
FreeZones(a, part, kind) ==
  FlattenSeq([i \in DOMAIN Numbers(a, part, kind) |->
    LET z == Numbers(a, part, kind)[i]
    IN  <<Step1("free", z, kind)>>
        \o (IF a = "sn-p4" THEN <<Step1("io", z, kind)>> ELSE <<>>)])

\* deinit_pipeline of all pipelines, the last one first, and deinit_device.
TearDown ==
  [a \in Agents |->
     IF a = "sn-cfg"
     THEN FreeZones(a, 0, "sysmon") \o FreeZones(a, 0, "card") \o <<Step1("close", 0, "")>>
     ELSE FlattenSeq([i \in DOMAIN Pipelines |->
            LET p == Len(Pipelines) + 1 - i
            IN  FreeZones(a, p, "counters") \o FreeZones(a, p, "ecc")
                \o <<Step1("close", p, "")>>])]

\* What an update of zone z may put into its metrics; of sn-cfg's, see StatsBlock.
ReadingsOf ==
  [a \in Agents |-> [z \in Zone |->
     IF a = "sn-cfg" THEN {<<>>}
     ELSE Readings(Zones[a][z].kind, GetPipeline(Pipelines[Zones[a][z].part]))]]

-----------------------------------------------------------------------------
LifeInit ==
  /\ Init
  /\ agent \in Agents
  /\ up = {}
  /\ built = 0 /\ torn = 0
  /\ driver = [d \in Drivers(agent) |-> "none"]
  /\ io = {}
  /\ failed = FALSE
  /\ scraping = FALSE
  /\ shown = [w \in Walker |-> <<>>]

Running == ~failed

\* The steps of StatsZones leave the rest of the agent alone, ...
Beside == UNCHANGED <<agent, up, built, torn, driver, io, failed, scraping, shown>>

\* ... and so the other way round.
Apart == UNCHANGED <<vars, agent, shown>>

\* A call of the constructor fails, and it calls exit.
Exit ==
  /\ step = "alloc" \/ (step = "serve" /\ "daemon" \notin up)
  /\ failed' = TRUE
  /\ Apart /\ UNCHANGED <<up, built, torn, driver, io, scraping>>

-----------------------------------------------------------------------------
(* The constructor.                                                        *)

\* prom_collector_registry_default_init, smartnic_map_bar2_by_pciaddr.
OpenRegistry ==
  /\ step = "alloc" /\ up = {}
  /\ up' = {"registry"}
  /\ Apart /\ UNCHANGED <<built, torn, driver, io, failed, scraping>>

MapBar2 ==
  /\ step = "alloc" /\ up = {"registry"}
  /\ up' = {"registry", "bar2"}
  /\ Apart /\ UNCHANGED <<built, torn, driver, io, failed, scraping>>

ToBuild(op) ==
  /\ step = "alloc" /\ "bar2" \in up
  /\ built < Len(Build[agent])
  /\ Build[agent][built + 1].op = op

\* snp4_init, the clearing of the tables and the loading of the information, which
\* must be readable; or cms_init and cms_reset.
OpenDriver ==
  /\ ToBuild("open")
  /\ LET d == Build[agent][built + 1].part
     IN /\ agent = "sn-p4" => InfoStatus(Pipelines[d]) = "OK"
        /\ driver' = [driver EXCEPT ![d] = "live"]
  /\ built' = built + 1
  /\ Apart /\ UNCHANGED <<up, torn, io, failed, scraping>>

\* The zone that the next step of the constructor makes.
NextZone == Cardinality({i \in 1 .. built + 1 : Build[agent][i].op = "zone"})

\* stats_zone_alloc, in two steps.
AllocZone ==
  /\ ToBuild("zone")
  /\ \E z \in Zone : z = NextZone /\ Publish(z)
  /\ io' = io \cup {NextZone}
  /\ UNCHANGED <<agent, up, built, torn, driver, failed, scraping, shown>>

AttachZone ==
  /\ \E z \in Zone : AttachBlocks(z)
  /\ built' = built + 1
  /\ UNCHANGED <<agent, up, torn, driver, io, failed, scraping, shown>>

\* The domain is cleared and started, or left alone by sn-cfg.
StartDomain ==
  /\ "bar2" \in up
  /\ built = Len(Build[agent])
  /\ MainClear \/ MainCleared \/ MainStart \/ (agent = "sn-cfg" /\ MainSkip)
  /\ Beside

\* init_server and the domain of the server, then promhttp_start_daemon.
StartServer ==
  /\ step = "serve" /\ "server" \notin up
  /\ up' = up \cup {"server"}
  /\ Apart /\ UNCHANGED <<built, torn, driver, io, failed, scraping>>

StartDaemon ==
  /\ step = "serve" /\ "server" \in up /\ "daemon" \notin up
  /\ up' = up \cup {"daemon"}
  /\ Apart /\ UNCHANGED <<built, torn, driver, io, failed, scraping>>

-----------------------------------------------------------------------------
(* Service.                                                                *)

Serving == step = "serve" /\ "daemon" \in up

\* A scrape of the daemon reads all that is registered.
ScrapeBegin ==
  /\ "daemon" \in up /\ ~scraping
  /\ scraping' = TRUE
  /\ Apart /\ UNCHANGED <<up, built, torn, driver, io, failed>>

ScrapeEnd ==
  /\ scraping
  /\ scraping' = FALSE
  /\ Apart /\ UNCHANGED <<up, built, torn, driver, io, failed>>

Rpcs == /\ \E w \in Rpc : (Serving /\ RpcBegin(w)) \/ RpcEnd(w)
        /\ Beside

\* Only sn-cfg has a request that starts and stops domains.
Switch == Serving /\ agent = "sn-cfg" /\ RpcSwitch /\ Beside

CollectorStep == (CollectorBegin \/ CollectorEnd \/ Stopped) /\ Beside

\* The blocks of a zone are latched and their metrics read.
Call(w) ==
  /\ Touch(w)
  /\ \E reading \in ReadingsOf[agent][held[w]] : shown' = [shown EXCEPT ![w] = reading]
  /\ UNCHANGED <<agent, up, built, torn, driver, io, failed, scraping>>

Walk(w) ==
  /\ Passing(w)
  /\ shown' = [shown EXCEPT ![w] = <<>>]
  /\ UNCHANGED <<agent, up, built, torn, driver, io, failed, scraping>>

-----------------------------------------------------------------------------
(* The destructor.                                                         *)

\* server->Wait() has returned.
Shutdown == Serving /\ MainShutdown /\ Beside

\* MHD_stop_daemon tells its thread to end, ...
StopDaemon ==
  /\ step = "deinit" /\ "daemon" \in up
  /\ up' = up \ {"daemon"}
  /\ Apart /\ UNCHANGED <<built, torn, driver, io, failed, scraping>>

\* Fault: ... and goes on without it.
StopServer_NoJoin ==
  /\ step = "deinit" /\ "daemon" \notin up /\ "server" \in up
  /\ up' = up \ {"server"}
  /\ Apart /\ UNCHANGED <<built, torn, driver, io, failed, scraping>>

\* ... and waits for it; then the domain of the server is freed.
StopServer ==
  /\ step = "deinit" /\ "daemon" \notin up /\ "server" \in up
  /\ ~scraping
  /\ up' = up \ {"server"}
  /\ Apart /\ UNCHANGED <<built, torn, driver, io, failed, scraping>>

ToTear(op) ==
  /\ step = "deinit" /\ "server" \notin up
  /\ at[Main] = "idle" /\ torn < Len(TearDown[agent])
  /\ TearDown[agent][torn + 1].op = op
  /\ torn' = torn + 1

\* stats_zone_free takes the owner's reference, and nothing out of the list.
FreeZone ==
  /\ ToTear("free")
  /\ MainFreeZone(TearDown[agent][torn + 1].part)
  /\ UNCHANGED <<agent, up, built, driver, io, failed, scraping, shown>>

FreeIo ==
  /\ ToTear("io")
  /\ io' = io \ {TearDown[agent][torn + 1].part}
  /\ Apart /\ UNCHANGED <<up, built, driver, failed, scraping>>

\* snp4_deinit; cms_destroy.
CloseDriver ==
  /\ ToTear("close")
  /\ driver' = [driver EXCEPT ![TearDown[agent][torn + 1].part] = "closed"]
  /\ Apart /\ UNCHANGED <<up, built, io, failed, scraping>>

\* stats_domain_free, when all parts are gone.
FreeDomain ==
  /\ "server" \notin up
  /\ torn = Len(TearDown[agent])
  /\ MainStop \/ MainFree \/ MainGone
  /\ Beside

\* Fault: the memory of the card is unmapped before the domains are freed.
UnmapBar2_Early ==
  /\ step = "deinit" /\ torn = Len(TearDown[agent]) /\ "bar2" \in up
  /\ up' = up \ {"bar2"}
  /\ Apart /\ UNCHANGED <<built, torn, driver, io, failed, scraping>>

\* smartnic_unmap_bar2, prom_collector_registry_destroy.
UnmapBar2 ==
  /\ step = "gone" /\ "bar2" \in up
  /\ up' = up \ {"bar2"}
  /\ Apart /\ UNCHANGED <<built, torn, driver, io, failed, scraping>>

CloseRegistry ==
  /\ step = "gone" /\ "bar2" \notin up /\ "registry" \in up
  /\ up' = up \ {"registry"}
  /\ Apart /\ UNCHANGED <<built, torn, driver, io, failed, scraping>>

-----------------------------------------------------------------------------
Construct == OpenRegistry \/ MapBar2 \/ OpenDriver \/ AllocZone \/ AttachZone
             \/ StartDomain \/ StartServer \/ StartDaemon
Destruct  == StopDaemon \/ StopServer \/ FreeZone \/ FreeIo \/ CloseDriver
             \/ FreeDomain \/ UnmapBar2 \/ CloseRegistry
Threads   == ScrapeBegin \/ ScrapeEnd \/ Rpcs \/ Switch \/ CollectorStep

LifeNext ==
  Running /\ (\/ Construct \/ Exit \/ Threads \/ Shutdown \/ Destruct
              \/ \E w \in Walker : Call(w) \/ Walk(w))

\* As in StatsZones; a scrape ends and the destructor goes on.
LifeFairness ==
  /\ \A w \in Walker : WF_lifeVars(Running /\ (Call(w) \/ Walk(w)))
  /\ WF_lifeVars(Running /\ (CollectorEnd \/ Stopped) /\ Beside)
  /\ WF_lifeVars(Running /\ ScrapeEnd)
  /\ WF_lifeVars(Running /\ Destruct)

LifeSpec     == LifeInit /\ [][LifeNext]_lifeVars
FairLifeSpec == LifeSpec /\ LifeFairness

-----------------------------------------------------------------------------
(* Properties *)

(***************************************************************************)
(* A call of a walk finds the memory of the card mapped (stats.c calls the *)
(* drivers from every update and clear).  It finds the driver open and its *)
(* io data there too, but for the collector's calls between deinit_* and   *)
(* the join of stats_domain_free: stats_zone_free takes nothing out of the *)
(* list, so nothing stops the collector from calling what deinit_counters  *)
(* and snp4_deinit have freed (pipeline.cpp:129-134, agent.cpp:252-263).   *)
(***************************************************************************)
CallsFindTheirDriver ==
  \A w \in Walker : at[w] = "touch" /\ ~failed =>
    /\ "bar2" \in up
    /\ w # Collector \/ step \notin {"deinit", "stop"} =>
         /\ driver[Zones[agent][held[w]].part] = "live"
         /\ held[w] \in io

(***************************************************************************)
(* A scrape of the daemon reads a registry that is there, with the metrics *)
(* of every zone registered: it cannot overlap the destruction of one      *)
(* (agent.cpp, promhttp_start_daemon and MHD_stop_daemon).                 *)
(***************************************************************************)
ScrapesFindTheirMetrics ==
  scraping => "registry" \in up /\ attached = Zone /\ step \in {"serve", "deinit"}

(***************************************************************************)
(* What a call puts into an element of a metric is its own counter or a    *)
(* zero: the parts of what a block latches lie where its metrics look for  *)
(* them, whichever calls fail (counters.cpp:32-62, 116-151).               *)
(***************************************************************************)
MetricsShowTheirCounters ==
  \A w \in Walker : shown[w] # <<>> =>
    LET zone == Zones[agent][held[w]]
    IN  Truthful(zone.kind, GetPipeline(Pipelines[zone.part]), shown[w])

(***************************************************************************)
(* Once it has begun, the destructor closes all that was opened: neither   *)
(* the join of the collector nor that of the daemon holds it up.           *)
(***************************************************************************)
AgentEnds == step = "deinit" ~> up = {}
=============================================================================
