----------------------------- MODULE CardConfig -----------------------------
(***************************************************************************)
(* The configuration of a card's switch and ports: SetSwitchConfig,        *)
(* GetSwitchConfig (switch.cpp over libopennic/src/switch.c), SetPortConfig *)
(* (port.cpp over cmac.c) and SetDefaults (defaults.cpp), on the registers  *)
(* of one device.                                                          *)
(*                                                                         *)
(* A port takes its packets from its physical or from its test interface.  *)
(* Each has a multiplexer of its own, so that a selector for a port is     *)
(* written as two registers, the one that is not selected to DROP.  The    *)
(* egress selectors of all ports share one register.  No lock is taken; a  *)
(* write of a register is a step.                                          *)
(*                                                                         *)
(* A handler turns its request into a list of items, done one after the    *)
(* other until one is refused; what was done before stays done.            *)
(***************************************************************************)
EXTENDS Integers, Sequences

CONSTANTS
  NPorts,      \* SWITCH_NUM_PORTS, and dev->nports
  Dest,        \* the destinations of a multiplexer besides DROP
  App,         \* the one of them that is the application
  Writer,      \* the threads that serve Set RPCs
  Reader,      \* the threads that serve GetSwitchConfig
  Request,     \* the Set requests that clients send
  Serialized   \* is at most one Set request served at a time?

Port        == 0 .. NPorts - 1
Interface   == {"PHYSICAL", "TEST"}
Destination == Dest \cup {"DROP"}
Mode        == {"STRAIGHT", "SWAP"}
Selector    == [intf : Interface, dest : Destination]

IsList(q) == Len(q) \in Nat /\ q = [n \in 1 .. Len(q) |-> q[n]]

ASSUME CardConfigAssumption ==
  /\ NPorts \in Nat \ {0}
  /\ App \in Dest /\ "DROP" \notin Dest
  /\ Serialized \in BOOLEAN
  /\ \A r \in Request :
       /\ r.kind \in {"switch", "port", "defaults"}
       /\ r.kind = "switch" => IsList(r.ingress) /\ IsList(r.egress)
       /\ r.kind = "port"   => r.port \in Int

VARIABLES
  mux,      \* smartnic_mux_out_sel: mux[i][p] of interface i of port p
  egress,   \* smartnic_demux_out_sel: one register, a bit for each port
  bypass,   \* bypass_config
  port,     \* port[p]: which of its features are on
  request,  \* request[w]: the request writer w serves
  todo,     \* todo[w]: the items it has yet to do
  half,     \* half[w]: is the first half of an item in two steps done?
  copy,     \* copy[w]: demux as w read it
  failed,   \* failed[w]: the responses that will not be EC_OK
  asking,   \* asking[r]: the port reader r asks for, or -1
  stage,    \* stage[r]: which multiplexer of it comes next
  report,   \* report[r]: the selector it reports for that port
  \* History, read by no action:
  before,   \* before[w]: the registers when w began
  possible  \* possible[r]: the selectors r may report

registers  == <<mux, egress, bypass, port>>
writerVars == <<request, todo, half, copy, failed, before>>
readerVars == <<asking, stage, report>>
vars == <<registers, writerVars, readerVars, possible>>

Idle      == [kind |-> "none"]
Busy(w)   == request[w] # Idle
Item(w)   == Head(todo[w])
NoCopy    == [p \in Port |-> "PHYSICAL"]   \* demux is out of scope
Nowhere   == [intf |-> "none", dest |-> "none"]

\* What port p takes its packets from, as the hardware has it.
InForce(m, p) ==
  IF m["TEST"][p] # "DROP" THEN [intf |-> "TEST", dest |-> m["TEST"][p]]
  ELSE [intf |-> "PHYSICAL", dest |-> m["PHYSICAL"][p]]

\* What of a port is on or off; "limited" is a flow control threshold that is not
\* FC_THRESHOLD_UNLIMITED.
Feature == {"enabled", "fec", "loopback", "limited"}

\* Everything but what a request may put into port has its type.
TypeOK ==
  /\ mux    \in [Interface -> [Port -> Destination]]
  /\ egress \in [Port -> Interface]
  /\ bypass \in Mode
  /\ request \in [Writer -> Request \cup {Idle}]
  /\ DOMAIN todo = Writer
  /\ half   \in [Writer -> BOOLEAN]
  /\ copy   \in [Writer -> [Port -> Interface]]
  /\ asking \in [Reader -> Port \cup {-1}]
  /\ stage  \in [Reader -> 1 .. 2]
  /\ report \in [Reader -> Selector \cup {Nowhere}]
  /\ possible \in [Reader -> SUBSET Selector]

\* The agent starts on a card as it was left: any selectors, one for each port,
\* and, to bound the states, either all ports with every feature on or all off.
Init ==
  /\ mux \in {m \in [Interface -> [Port -> Destination]] :
                \A p \in Port : \E i \in Interface : m[i][p] = "DROP"}
  /\ egress \in [Port -> Interface]
  /\ bypass \in Mode
  /\ \E on \in {{}, Feature} : port = [p \in Port |-> on]
  /\ request = [w \in Writer |-> Idle]
  /\ todo    = [w \in Writer |-> <<>>]
  /\ half    = [w \in Writer |-> FALSE]
  /\ copy    = [w \in Writer |-> NoCopy]
  /\ failed  = [w \in Writer |-> {}]
  /\ asking  = [r \in Reader |-> -1]
  /\ stage   = [r \in Reader |-> 1]
  /\ report  = [r \in Reader |-> Nowhere]
  /\ before  = [w \in Writer |-> <<>>]
  /\ possible = [r \in Reader |-> {}]

-----------------------------------------------------------------------------
(* What a request asks for, item by item; unit is the response it is part of *)

EachPort(f) ==
  LET upTo[n \in 0 .. NPorts] == IF n = 0 THEN <<>> ELSE upTo[n - 1] \o f[n - 1]
  IN upTo[NPorts]

Ingress(p, intf, dest) ==
  [op |-> "ingress", unit |-> 0, index |-> p, intf |-> intf, to |-> dest]
Egress(p, intf)        == [op |-> "egress", unit |-> 0, index |-> p, to |-> intf]
Bypass(mode)           == [op |-> "bypass", unit |-> 0, to |-> mode]
Drop(intf, p)          == [op |-> "drop", unit |-> 0, index |-> p, intf |-> intf]
Feat(unit, p, what, value) ==
  [op |-> "feature", unit |-> unit, index |-> p, what |-> what, to |-> value]
Refused(unit)          == [op |-> "refused", unit |-> unit]

\* set_switch_config: the ingress selectors, the egress selectors, the bypass
\* mode if it is set.
SwitchItems(r) ==
  [n \in DOMAIN r.ingress |->
     Ingress(r.ingress[n].index, r.ingress[n].intf, r.ingress[n].dest)]
    \o [n \in DOMAIN r.egress |-> Egress(r.egress[n].index, r.egress[n].intf)]
    \o (IF r.bypass = "unknown" THEN <<>> ELSE <<Bypass(r.bypass)>>)

\* set_port_config: for each port its state, FEC, loopback and flow control
\* threshold if they are set, in a response of its own.
PortItems(r) ==
  LET set(p, what, value) ==
        IF value = "unknown" THEN <<>> ELSE <<Feat(p, p, what, value)>>
      each == [p \in Port |-> set(p, "enabled", r.state) \o set(p, "fec", r.fec)
                                \o set(p, "loopback", r.loopback)
                                \o set(p, "limited", r.limited)]
  IN  IF r.port > NPorts - 1 THEN <<Refused(r.port)>>
      ELSE IF r.port < 0 THEN EachPort(each)
      ELSE each[r.port]

\* Fault: the ports go up before the switch is set.
DefaultItems_PortsFirst(r) ==
  LET down == [p \in Port |-> <<Feat(0, p, "loopback", "off"),
                                Feat(0, p, "enabled", "off")>>]
      up   == [p \in Port |-> <<Feat(0, p, "fec", "on"),
                                Feat(0, p, "enabled", "on")>>]
      drop(intf) == EachPort([p \in Port |-> <<Drop(intf, p)>>])
  IN  EachPort(down) \o EachPort(up) \o drop("PHYSICAL") \o drop("TEST")
        \o EachPort([p \in Port |-> <<Ingress(p, "PHYSICAL", App)>>])
        \o EachPort([p \in Port |-> <<Egress(p, "PHYSICAL")>>])
        \o <<Bypass("STRAIGHT")>>

\* set_defaults_one_to_one: ports down, all multiplexers to DROP, the switch,
\* (the queues of the hosts,) ports up.
DefaultItems(r) ==
  LET down == [p \in Port |-> <<Feat(0, p, "loopback", "off"),
                                Feat(0, p, "enabled", "off")>>]
      up   == [p \in Port |-> <<Feat(0, p, "fec", "on"),
                                Feat(0, p, "enabled", "on")>>]
      drop(intf) == EachPort([p \in Port |-> <<Drop(intf, p)>>])
  IN  IF r.profile # "one_to_one" THEN <<Refused(0)>>
      ELSE EachPort(down)
             \o drop("PHYSICAL") \o drop("TEST")
             \o EachPort([p \in Port |-> <<Ingress(p, "PHYSICAL", App)>>])
             \o EachPort([p \in Port |-> <<Egress(p, "PHYSICAL")>>])
             \o <<Bypass("STRAIGHT")>>
             \o EachPort(up)

Items(r) ==
  CASE r.kind = "switch" -> SwitchItems(r)
    [] r.kind = "port"   -> PortItems(r)
    [] OTHER             -> DefaultItems(r)

\* What the conversions and the setters accept; drops come from loops over the
\* ports of the card.
Acceptable(i) ==
  CASE i.op = "ingress" -> i.index \in Port /\ i.intf \in Interface
                             /\ i.to \in Destination
    [] i.op = "egress"  -> i.index \in Port /\ i.to \in Interface
    [] i.op = "bypass"  -> i.to \in Mode
    [] i.op = "feature" -> i.to \in {"on", "off"}
    [] OTHER            -> i.op = "drop" /\ i.index \in Port /\ i.intf \in Interface

-----------------------------------------------------------------------------
(* The writers *)

Begin(w) ==
  /\ ~Busy(w)
  /\ Serialized => \A o \in Writer : ~Busy(o)
  /\ \E r \in Request :
       /\ request' = [request EXCEPT ![w] = r]
       /\ todo'    = [todo EXCEPT ![w] = Items(r)]
  /\ before' = [before EXCEPT ![w] = registers]
  /\ UNCHANGED <<registers, half, copy, failed, readerVars, possible>>

NextIs(w, op) == Busy(w) /\ todo[w] # <<>> /\ Item(w).op = op /\ Acceptable(Item(w))

\* The item is done, or only its first half.
Done(w)  == /\ todo' = [todo EXCEPT ![w] = Tail(@)]
            /\ half' = [half EXCEPT ![w] = FALSE]
First(w) == half' = [half EXCEPT ![w] = TRUE] /\ UNCHANGED todo

\* An item that is not accepted ends the response it is part of; on to the next.
Refuse(w) ==
  /\ Busy(w) /\ todo[w] # <<>> /\ ~Acceptable(Item(w))
  /\ failed' = [failed EXCEPT ![w] = @ \cup {Item(w).unit}]
  /\ \E n \in DOMAIN todo[w] :
       /\ \A m \in 1 .. n : todo[w][m].unit = Item(w).unit
       /\ n < Len(todo[w]) => todo[w][n + 1].unit # Item(w).unit
       /\ todo' = [todo EXCEPT ![w] = SubSeq(@, n + 1, Len(@))]
  /\ UNCHANGED <<registers, request, half, copy, before, readerVars, possible>>

\* A write of a multiplexer, and what it lets readers report; towards is the
\* selector that will be in force after the other one is written.
WriteMux(i, p, dest, towards) ==
  /\ mux' = [mux EXCEPT ![i][p] = dest]
  /\ possible' = [r \in Reader |-> IF asking[r] = p
                                   THEN possible[r] \cup {InForce(mux', p)} \cup towards
                                   ELSE possible[r]]

\* Fault: the interface that is not selected is left as it is.
SetIngress_KeepsOther(w) ==
  LET i    == Item(w)
      each == IF half[w] THEN "TEST" ELSE "PHYSICAL"
  IN
  /\ NextIs(w, "ingress")
  /\ WriteMux(each, i.index, IF each = i.intf THEN i.to ELSE mux[each][i.index],
              {[intf |-> i.intf, dest |-> i.to]})
  /\ IF half[w] THEN Done(w) ELSE First(w)
  /\ UNCHANGED <<egress, bypass, port, request, copy, failed, before, readerVars>>

\* switch_set_ingress_selector: PHYSICAL first, then TEST, the one that is not
\* selected to DROP.
SetIngress(w) ==
  LET i    == Item(w)
      each == IF half[w] THEN "TEST" ELSE "PHYSICAL"
  IN
  /\ NextIs(w, "ingress")
  /\ WriteMux(each, i.index, IF each = i.intf THEN i.to ELSE "DROP",
              {[intf |-> i.intf, dest |-> i.to]})
  /\ IF half[w] THEN Done(w) ELSE First(w)
  /\ UNCHANGED <<egress, bypass, port, request, copy, failed, before, readerVars>>

\* switch_set_defaults_one_to_one: one multiplexer after the other.
DropMux(w) ==
  /\ NextIs(w, "drop")
  /\ WriteMux(Item(w).intf, Item(w).index, "DROP", {})
  /\ Done(w)
  /\ UNCHANGED <<egress, bypass, port, request, copy, failed, before, readerVars>>

\* Fault: the register is not read before it is written.
LoadEgress_Blank(w) ==
  /\ NextIs(w, "egress") /\ ~half[w]
  /\ copy' = [copy EXCEPT ![w] = [p \in Port |-> "PHYSICAL"]]
  /\ First(w)
  /\ UNCHANGED <<registers, request, failed, before, readerVars, possible>>

\* switch_set_egress_selector: read the register of all ports ...
LoadEgress(w) ==
  /\ NextIs(w, "egress") /\ ~half[w]
  /\ copy' = [copy EXCEPT ![w] = egress]
  /\ First(w)
  /\ UNCHANGED <<registers, request, failed, before, readerVars, possible>>

\* ... and write it back with the bit of one changed.
StoreEgress(w) ==
  /\ NextIs(w, "egress") /\ half[w]
  /\ egress' = [copy[w] EXCEPT ![Item(w).index] = Item(w).to]
  /\ copy'   = [copy EXCEPT ![w] = NoCopy]
  /\ Done(w)
  /\ UNCHANGED <<mux, bypass, port, request, failed, before, readerVars, possible>>

\* switch_set_bypass_mode: its register has no other field.
SetBypass(w) ==
  /\ NextIs(w, "bypass")
  /\ bypass' = Item(w).to
  /\ Done(w)
  /\ UNCHANGED <<mux, egress, port, request, copy, failed, before, readerVars,
                 possible>>

\* cmac_enable, cmac_rsfec_enable, cmac_loopback_enable and their opposites;
\* fc_set_egress_threshold.
SetFeature(w) ==
  LET i == Item(w) IN
  /\ NextIs(w, "feature")
  /\ port' = [port EXCEPT ![i.index] = IF i.to = "on" THEN @ \cup {i.what}
                                       ELSE @ \ {i.what}]
  /\ Done(w)
  /\ UNCHANGED <<mux, egress, bypass, request, copy, failed, before, readerVars,
                 possible>>

\* The last response is written.
Respond(w) ==
  /\ Busy(w) /\ todo[w] = <<>>
  /\ request' = [request EXCEPT ![w] = Idle]
  /\ failed'  = [failed EXCEPT ![w] = {}]
  /\ before'  = [before EXCEPT ![w] = <<>>]
  /\ UNCHANGED <<registers, todo, half, copy, readerVars, possible>>

Serve(w) ==
  \/ Begin(w) \/ Refuse(w) \/ SetIngress(w) \/ DropMux(w) \/ LoadEgress(w)
  \/ StoreEgress(w) \/ SetBypass(w) \/ SetFeature(w) \/ Respond(w)

-----------------------------------------------------------------------------
(* get_switch_config: the ingress selector of a port; the rest of what it     *)
(* reports are copies of single registers                                     *)

\* Fault: the physical interface is looked at first.
Stage_Swapped(n) == IF n = 1 THEN "PHYSICAL" ELSE "TEST"

\* The interface switch_get_ingress_selector looks at first, and second.
Stage(n) == IF n = 1 THEN "TEST" ELSE "PHYSICAL"

\* The reader comes to port p.
Ask(r) ==
  /\ asking[r] = -1
  /\ \E p \in Port :
       /\ asking'   = [asking EXCEPT ![r] = p]
       /\ possible' = [possible EXCEPT ![r] = {InForce(mux, p)}]
  /\ stage'  = [stage EXCEPT ![r] = 1]
  /\ report' = [report EXCEPT ![r] = Nowhere]
  /\ UNCHANGED <<registers, writerVars>>

\* It reports the first interface if that does not drop, or else the second.
ReadMux(r) ==
  LET intf == Stage(stage[r])
      dest == mux[intf][asking[r]]
  IN
  /\ asking[r] # -1 /\ report[r] = Nowhere
  /\ IF stage[r] = 1 /\ dest = "DROP"
     THEN stage' = [stage EXCEPT ![r] = 2] /\ UNCHANGED report
     ELSE report' = [report EXCEPT ![r] = [intf |-> intf, dest |-> dest]]
          /\ UNCHANGED stage
  /\ UNCHANGED <<registers, writerVars, asking, possible>>

\* On to the next port, or the end of the RPC.
Reported(r) ==
  /\ asking[r] # -1 /\ report[r] # Nowhere
  /\ asking'   = [asking EXCEPT ![r] = -1]
  /\ stage'    = [stage EXCEPT ![r] = 1]
  /\ report'   = [report EXCEPT ![r] = Nowhere]
  /\ possible' = [possible EXCEPT ![r] = {}]
  /\ UNCHANGED <<registers, writerVars>>

Next ==
  \/ \E w \in Writer : Serve(w)
  \/ \E r \in Reader : Ask(r) \/ ReadMux(r) \/ Reported(r)

Spec == Init /\ [][Next]_vars

-----------------------------------------------------------------------------
(* Properties *)

\* A selector that GetSwitchConfig reports was in force at some moment of the
\* RPC, or was being put in force by a Set RPC that had begun to write it: the
\* two multiplexers of a port are written and read in orders that fit.
ReportIsReal == \A r \in Reader : report[r] # Nowhere => report[r] \in possible[r]

\* When no Set RPC is at work, no port takes packets from two interfaces.
OneInterfaceForwards ==
  (\A w \in Writer : ~Busy(w)) =>
    \A p \in Port : \E i \in Interface : mux[i][p] = "DROP"

\* The items of a request that are granted: those before the first that is not
\* acceptable, response by response.
Granted(items) ==
  {n \in DOMAIN items :
     \A m \in 1 .. n : items[m].unit = items[n].unit => Acceptable(items[m])}

\* The last granted item of q that is about x, if there is one.
LastWord(q, About(_), old, Value(_)) ==
  LET said == {n \in Granted(q) : About(q[n])}
  IN IF said = {} THEN old ELSE Value(q[CHOOSE n \in said : \A m \in said : m <= n])

\* A Set RPC that takes turns with others leaves every register as the last item
\* granted for it says, or as it was; defaults leave a card one to one.
RequestTakesEffect ==
  [][\A w \in Writer : Busy(w) /\ ~Busy(w)' =>
       LET old == before[w]
           q   == Items(request[w])
       IN  IF request[w].kind = "defaults" /\ failed[w] = {}
           THEN /\ \A p \in Port : /\ mux["PHYSICAL"][p] = App
                                   /\ mux["TEST"][p] = "DROP"
                                   /\ egress[p] = "PHYSICAL"
                                   /\ port[p] = {"enabled", "fec"}
                                                  \cup (old[4][p] \cap {"limited"})
                /\ bypass = "STRAIGHT"
           ELSE /\ \A p \in Port :
                     /\ InForce(mux, p) =
                          LastWord(q, LAMBDA i : i.op = "ingress" /\ i.index = p,
                                   InForce(old[1], p),
                                   LAMBDA i : [intf |-> IF i.to = "DROP" THEN "PHYSICAL"
                                                        ELSE i.intf, dest |-> i.to])
                     /\ egress[p] =
                          LastWord(q, LAMBDA i : i.op = "egress" /\ i.index = p,
                                   old[2][p], LAMBDA i : i.to)
                     /\ \A f \in Feature :
                          f \in port[p] <=>
                            LastWord(q, LAMBDA i : /\ i.op = "feature"
                                                   /\ i.index = p /\ i.what = f,
                                     f \in old[4][p], LAMBDA i : i.to = "on")
                /\ bypass = LastWord(q, LAMBDA i : i.op = "bypass", old[3],
                                     LAMBDA i : i.to)]_vars

\* "Reset all ingress connections to drop prior to changing the switch
\* configuration" (switch.c): while the defaults change the switch, no packet
\* comes in that could take a path of the old and of the new configuration.  A
\* port that forwards is down.
DefaultsChangeAQuietSwitch ==
  [][\A w \in Writer :
       request[w].kind = "defaults" /\ (<<egress, bypass>>' # <<egress, bypass>>) =>
         \A p \in Port : /\ "enabled" \notin port[p]
                         /\ mux["TEST"][p] = "DROP"]_vars

-----------------------------------------------------------------------------
(* The invariant that OneInterfaceForwards and ReportIsReal follow from, for  *)
(* Set requests that take turns                                              *)

\* One writer is at work, and a half of an item is of one that has two.
TurnsTaken ==
  /\ \A w, o \in Writer : Busy(w) /\ Busy(o) => w = o
  /\ \A w \in Writer : half[w] => NextIs(w, "ingress") \/ NextIs(w, "egress")

\* Writer w has written the physical multiplexer of port p for an item that
\* selects intf, and not the other one.
Between(w, p, intf) ==
  half[w] /\ Item(w).op = "ingress" /\ Item(w).index = p /\ Item(w).intf = intf

\* Two interfaces of a port are open only between the halves of an item that
\* selects the physical one; one that selects the other has closed it.
Selectors ==
  \A p \in Port :
    /\ \/ \E i \in Interface : mux[i][p] = "DROP"
       \/ \E w \in Writer : Between(w, p, "PHYSICAL")
    /\ \A w \in Writer : Between(w, p, "TEST") => mux["PHYSICAL"][p] = "DROP"

\* What a reader has seen and may yet see is among what it may report.
ReportPossible(r) ==
  LET physical(dest) == [intf |-> "PHYSICAL", dest |-> dest]
      p == asking[r]
  IN
  /\ report[r] # Nowhere => report[r] \in possible[r]
  /\ p # -1 => InForce(mux, p) \in possible[r]
  /\ p # -1 /\ stage[r] = 2 =>
       /\ physical(mux["PHYSICAL"][p]) \in possible[r]
       /\ mux["TEST"][p] # "DROP" => physical("DROP") \in possible[r]

ReportsPossible == \A r \in Reader : ReportPossible(r)

CardInv == TypeOK /\ TurnsTaken /\ Selectors /\ ReportsPossible
=============================================================================
