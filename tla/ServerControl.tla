--------------------------- MODULE ServerControl ---------------------------
(***************************************************************************)
(* The server's run-time control of statistics collection: the constructor *)
(* of SmartnicConfigImpl and the SetServerConfig handler                   *)
(* (src/sn-cfg/src/agent/agent.cpp, server.cpp), on top of the domains of  *)
(* StatsDomain.                                                            *)
(*                                                                         *)
(* A request lists flags to enable and flags to disable.  A debug flag     *)
(* only sets a bit.  A statistics flag sets its bit in control.stats_flags *)
(* and is then applied to every device: a domain flag starts or stops the  *)
(* device's domain, a zone flag enables or disables the device's zones.    *)
(* The handler stops at the first flag it does not know; what it did       *)
(* before stays done.  It takes no lock.                                   *)
(***************************************************************************)
EXTENDS StatsDomainRefinement, Sequences

CONSTANTS
  Device,       \* the devices the agent manages
  DomainFlag,   \* the flags CTRL_STATS_FLAG_DOMAIN_*
  ZoneFlag,     \* the flags CTRL_STATS_FLAG_ZONE_*
  DebugFlag,    \* the flags DEBUG_FLAG_*
  BadFlag,      \* a number that is none of them
  Main,         \* the thread that runs the constructor; the others are workers
  MaxFlags      \* bounds the flags one request lists

StatsFlag == DomainFlag \cup ZoneFlag
Flag      == StatsFlag \cup DebugFlag

\* One domain object per device and domain flag.
ASSUME ServerControlAssumption ==
  /\ Domain = Device \X DomainFlag
  /\ Main \in Caller
  /\ BadFlag \notin Flag
  /\ DomainFlag \cap ZoneFlag = {} /\ DebugFlag \cap StatsFlag = {}
  /\ MaxFlags \in Nat

VARIABLES
  flags,    \* control.stats_flags and debug.flags, as one set of set bits
  enabled,  \* enabled[v, z]: zone->enabled of the zones of kind z of device v
  serving,  \* has the constructor returned?
  at,       \* at[c]: where c is in set_server_config
  todo,     \* todo[c]: the <<flag, on>> items c has yet to apply
  visit,    \* visit[c]: the devices the current flag has not reached yet
  copy,     \* copy[c]: the bits as c loaded them, before it stores them back
  request,  \* request[c]: the items of the request c is serving
  answer    \* answer[c]: the error code of c's last response

rpcVars    == <<at, todo, visit, copy, request, answer>>
serverVars == <<vars, flags, enabled, serving, rpcVars>>

RpcPC == {"idle", "constructor", "next", "store", "devices"}

\* A request: the debug flags come before the statistics flags, and in each of
\* the two the enables come before the disables.
Lists(F) ==
  {q \in UNION {[1 .. n -> [flag : F \cup {BadFlag}, on : BOOLEAN]] : n \in 0 .. MaxFlags} :
     \A i, j \in DOMAIN q : i < j /\ q[j].on => q[i].on}

Requests ==
  {d \o s : d \in Lists(DebugFlag), s \in Lists(StatsFlag)}

Busy(c) == at[c] # "idle"
ItemOf(c) == Head(todo[c])

ServerTypeOK ==
  /\ TypeOK
  /\ flags \subseteq Flag
  /\ enabled \in [Device \X ZoneFlag -> BOOLEAN]
  /\ serving \in BOOLEAN
  /\ at \in [Caller -> RpcPC]
  /\ \A c \in Caller :
       /\ todo[c] \in Requests
       /\ visit[c] \subseteq Device
       /\ copy[c] \subseteq Flag
       /\ request[c] \in Requests
       /\ answer[c] \in {"none", "ok", "invalid"}

-----------------------------------------------------------------------------
(* The constructor *)

\* init_server_debug has set the bits from the command line: all statistics on,
\* but for those listed.  Each init_<part> has allocated its zones, enabled,
\* and has disabled those whose flag is off.  No domain is started yet.
ServerInit ==
  /\ Init
  /\ \E off \in SUBSET StatsFlag, debug \in SUBSET DebugFlag :
       flags = (StatsFlag \ off) \cup debug
  /\ enabled = [z \in Device \X ZoneFlag |-> z[2] \in flags]
  /\ serving = FALSE
  /\ at      = [c \in Caller |-> IF c = Main THEN "constructor" ELSE "idle"]
  /\ todo    = [c \in Caller |-> <<>>]
  /\ visit   = [c \in Caller |-> {}]
  /\ copy    = [c \in Caller |-> {}]
  /\ request = [c \in Caller |-> <<>>]
  /\ answer  = [c \in Caller |-> "none"]

ToStart == {d \in Domain : d[2] \in flags /\ ~running[d]}

\* The constructor clears and starts the domains that are enabled.
ConstructorStart ==
  /\ at[Main] = "constructor"
  /\ pc[Main] = "idle"
  /\ \E d \in ToStart : StartLocked(Main, d)
  /\ UNCHANGED <<flags, enabled, serving, rpcVars>>

\* All are started: the gRPC server is built and serves requests.
ConstructorReturn ==
  /\ at[Main] = "constructor"
  /\ pc[Main] = "idle"
  /\ ToStart = {}
  /\ serving' = TRUE
  /\ at' = [at EXCEPT ![Main] = "idle"]
  /\ UNCHANGED <<vars, flags, enabled, todo, visit, copy, request, answer>>

-----------------------------------------------------------------------------
(* set_server_config *)

Receive(c) ==
  /\ serving
  /\ c # Main
  /\ ~Busy(c)
  /\ Serialized => \A o \in Caller : ~Busy(o)
  /\ \E q \in {r \in Requests : Len(r) \in 1 .. MaxFlags} :
       /\ todo'    = [todo EXCEPT ![c] = q]
       /\ request' = [request EXCEPT ![c] = q]
  /\ at' = [at EXCEPT ![c] = "next"]
  /\ UNCHANGED <<vars, flags, enabled, serving, visit, copy, answer>>

\* bitset::set and reset are a load and a store of the word: the load.
LoadBits(c) ==
  /\ at[c] = "next"
  /\ todo[c] # <<>>
  /\ ItemOf(c).flag # BadFlag
  /\ copy' = [copy EXCEPT ![c] = flags]
  /\ at'   = [at EXCEPT ![c] = "store"]
  /\ UNCHANGED <<vars, flags, enabled, serving, todo, visit, request, answer>>

\* The store.  The two bitsets are different words.
StoreBits(c) ==
  LET f    == ItemOf(c).flag
      word == IF f \in DebugFlag THEN DebugFlag ELSE StatsFlag
      new  == IF ItemOf(c).on THEN copy[c] \cup {f} ELSE copy[c] \ {f}
  IN
  /\ at[c] = "store"
  /\ flags' = (flags \ word) \cup (new \cap word)
  /\ copy'  = [copy EXCEPT ![c] = {}]
  /\ visit' = [visit EXCEPT ![c] = IF f \in DebugFlag THEN {} ELSE Device]
  /\ at'    = [at EXCEPT ![c] = "devices"]
  /\ UNCHANGED <<vars, enabled, serving, todo, request, answer>>

\* Fault: the domain of the first device only.
SwitchDomain_First(c, v) ==
  /\ at[c] = "devices"
  /\ pc[c] = "idle"
  /\ v \in visit[c]
  /\ ItemOf(c).flag \in DomainFlag
  /\ IF ItemOf(c).on
     THEN StartLocked(c, <<v, ItemOf(c).flag>>)
     ELSE StopLocked(c, <<v, ItemOf(c).flag>>)
  /\ visit' = [visit EXCEPT ![c] = {}]
  /\ UNCHANGED <<flags, enabled, serving, at, todo, copy, request, answer>>

\* Fault: the next domain is switched before the call for the last one is over.
SwitchDomain_Eager(c, v) ==
  /\ at[c] = "devices"
  /\ v \in visit[c]
  /\ ItemOf(c).flag \in DomainFlag
  /\ IF ItemOf(c).on
     THEN StartLocked(c, <<v, ItemOf(c).flag>>)
     ELSE StopLocked(c, <<v, ItemOf(c).flag>>)
  /\ visit' = [visit EXCEPT ![c] = @ \ {v}]
  /\ UNCHANGED <<flags, enabled, serving, at, todo, copy, request, answer>>

\* A domain flag: start or stop the domain of the next device.  The call's own
\* unlocked half is StatsDomain's.
SwitchDomain(c, v) ==
  /\ at[c] = "devices"
  /\ pc[c] = "idle"
  /\ v \in visit[c]
  /\ ItemOf(c).flag \in DomainFlag
  /\ IF ItemOf(c).on
     THEN StartLocked(c, <<v, ItemOf(c).flag>>)
     ELSE StopLocked(c, <<v, ItemOf(c).flag>>)
  /\ visit' = [visit EXCEPT ![c] = @ \ {v}]
  /\ UNCHANGED <<flags, enabled, serving, at, todo, copy, request, answer>>

\* A zone flag: enable or disable the zones of the next device.
SwitchZone(c, v) ==
  /\ at[c] = "devices"
  /\ v \in visit[c]
  /\ ItemOf(c).flag \in ZoneFlag
  /\ enabled' = [enabled EXCEPT ![<<v, ItemOf(c).flag>>] = ItemOf(c).on]
  /\ visit'   = [visit EXCEPT ![c] = @ \ {v}]
  /\ UNCHANGED <<vars, flags, serving, at, todo, copy, request, answer>>

\* Fault: the device iterator runs past the end of the list.
NextFlag_Stuck(c) ==
  /\ at[c] = "devices"
  /\ pc[c] = "idle"
  /\ visit[c] = {}
  /\ at' = [at EXCEPT ![c] = "next"]
  /\ UNCHANGED <<vars, flags, enabled, serving, todo, visit, copy, request,
                 answer>>

NextFlag(c) ==
  /\ at[c] = "devices"
  /\ pc[c] = "idle"
  /\ visit[c] = {}
  /\ todo' = [todo EXCEPT ![c] = Tail(@)]
  /\ at'   = [at EXCEPT ![c] = "next"]
  /\ UNCHANGED <<vars, flags, enabled, serving, visit, copy, request, answer>>

\* Fault: an unknown flag is skipped over in silence.
Respond_AlwaysOk(c) ==
  /\ at[c] = "next"
  /\ todo[c] # <<>> => ItemOf(c).flag = BadFlag
  /\ answer'  = [answer EXCEPT ![c] = "ok"]
  /\ todo'    = [todo EXCEPT ![c] = <<>>]
  /\ request' = [request EXCEPT ![c] = <<>>]
  /\ at'      = [at EXCEPT ![c] = "idle"]
  /\ UNCHANGED <<vars, flags, enabled, serving, visit, copy>>

\* write_response: after the last flag, or at the first one that is unknown.
Respond(c) ==
  /\ at[c] = "next"
  /\ todo[c] # <<>> => ItemOf(c).flag = BadFlag
  /\ answer' = [answer EXCEPT ![c] = IF todo[c] = <<>> THEN "ok" ELSE "invalid"]
  /\ todo'    = [todo EXCEPT ![c] = <<>>]
  /\ request' = [request EXCEPT ![c] = <<>>]
  /\ at'      = [at EXCEPT ![c] = "idle"]
  /\ UNCHANGED <<vars, flags, enabled, serving, visit, copy>>

-----------------------------------------------------------------------------
Handle(c) ==
  \/ LoadBits(c) \/ StoreBits(c) \/ NextFlag(c) \/ Respond(c)
  \/ \E v \in Device : SwitchDomain(c, v) \/ SwitchZone(c, v)

InDomain ==
  \/ \E c \in Caller : Continue(c)
  \/ \E t \in Collector : Collecting(t)

ServerNext ==
  \/ ConstructorStart
  \/ ConstructorReturn
  \/ \E c \in Caller : Receive(c) \/ Handle(c)
  \/ InDomain /\ UNCHANGED <<flags, enabled, serving, rpcVars>>

\* The agent's threads keep running; a client need not send a request.
ServerFairness ==
  /\ WF_serverVars(ConstructorStart \/ ConstructorReturn)
  /\ \A c \in Caller : WF_serverVars(Handle(c))
  /\ \A c \in Caller :
       WF_serverVars(Continue(c) /\ UNCHANGED <<flags, enabled, serving, rpcVars>>)
  /\ \A t \in Collector :
       WF_serverVars(Collecting(t) /\ UNCHANGED <<flags, enabled, serving, rpcVars>>)

ServerSpec     == ServerInit /\ [][ServerNext]_serverVars
FairServerSpec == ServerSpec /\ ServerFairness

-----------------------------------------------------------------------------
(* Properties *)

\* What GetServerConfig reports is what happens: between requests, a domain is
\* collecting on every device if and only if its bit is set in
\* control.stats_flags, and a zone is enabled if and only if its bit is.
ConfigIsInForce ==
  serving /\ (\A c \in Caller : ~Busy(c)) =>
    /\ \A d \in Domain :
         d[2] \in flags <=> \E t \in Collector :
                              thread[t] \notin {"none", "exited"} /\ serves[t] = d
    /\ \A z \in Device \X ZoneFlag : z[2] \in flags <=> enabled[z]

\* The last word a request has on flag f: TRUE, FALSE or, if it has none, b.
Verdict(q, f, b) ==
  LET said == {i \in DOMAIN q : q[i].flag = f}
  IN IF said = {} THEN b ELSE \A i \in said : q[i].on

\* The part of the request before the first flag that is unknown.
Applied(q) ==
  LET bad == {i \in DOMAIN q : q[i].flag = BadFlag}
  IN IF bad = {} THEN q
     ELSE SubSeq(q, 1, (CHOOSE i \in bad : \A j \in bad : i <= j) - 1)

\* A response is written when exactly the flags before the first unknown one
\* have been applied, disables winning over enables, and it says whether that
\* was all of them.
ResponseIsHonest ==
  [][\A c \in Caller :
       Busy(c) /\ c # Main /\ ~Busy(c)' =>
         /\ (answer[c] = "ok")' <=> Applied(request[c]) = request[c]
         /\ \A f \in Flag :
              Verdict(Applied(request[c]), f, f \in flags) <=> f \in flags]_serverVars

\* The handlers are a proper client of the domains: what they do to them is a
\* behaviour of StatsDomain, with everything proved of it.
UsesStatsDomain == Spec

\* Every request is answered, and the server does get to serve.
RequestsAreAnswered == \A c \in Caller : Busy(c) ~> ~Busy(c)
=============================================================================
