----------------------------- MODULE HostConfig -----------------------------
(***************************************************************************)
(* The DMA queues of a card's hosts: SetHostConfig (host.cpp) and the hosts' *)
(* part of SetDefaults (defaults.cpp), over libopennic/src/qdma.c and       *)
(* flow_control.c, on the registers of one device.                         *)
(*                                                                         *)
(* A host is a channel with a range of queues; each of its functions, a     *)
(* physical and some virtual ones, has a range within, and a table that    *)
(* spreads packets over the queues of the function.  A function's range is  *)
(* written to two blocks of registers, with the table in between.          *)
(***************************************************************************)
EXTENDS Integers, Sequences, FiniteSets

CONSTANTS
  NHosts,      \* QDMA_CHANNEL_MAX, and dev->nhosts
  NFunctions,  \* qdma_function_MAX: 0 is the PF, the others are VFs
  TableSize,   \* the entries of a function's smartnic_hash2qid table
  Wrap,        \* integers of requests are below it; 2^32 in the code
  Writer,      \* the threads that serve Set RPCs
  Request,     \* the Set requests that clients send
  Serialized   \* is at most one Set request served at a time?

Host     == 0 .. NHosts - 1
Function == 0 .. NFunctions - 1
PF       == 0
VFMin    == 1
NoFunction == -1

IsList(q) == Len(q) \in Nat /\ q = [n \in 1 .. Len(q) |-> q[n]]

\* The tables of a host have fewer entries, and the card has fewer hosts and
\* functions, than an integer of a request can count.
ASSUME HostConfigAssumption ==
  /\ NHosts \in Nat \ {0} /\ NFunctions \in Nat \ {0} /\ TableSize \in Nat \ {0}
  /\ Wrap \in Nat /\ NHosts < Wrap /\ NFunctions < Wrap /\ NFunctions * TableSize < Wrap
  /\ Serialized \in BOOLEAN
  /\ \A r \in Request :
       /\ r.kind \in {"host", "defaults"}
       /\ r.kind = "host" =>
            /\ r.host \in Int /\ r.reset \in BOOLEAN
            /\ r.threshold \in Int /\ r.threshold < Wrap
            /\ IsList(r.functions)
            /\ \A n \in 1 .. Len(r.functions) :
                 LET f == r.functions[n] IN {f.index, f.base, f.num} \subseteq 0 .. Wrap - 1

VARIABLES
  range,      \* range[h][f]: igr_q_config, the queues of a function
  hash,       \* hash[h][f]: smartnic_hash2qid, where its packets go
  channel,    \* channel[h]: qdma_func.qconf, the queues of a host
  threshold,  \* threshold[h]: egr_fc_thresh of the host
  request,    \* request[w]: the request writer w serves
  todo,       \* todo[w]: the items of it that are left
  place,      \* place[w]: where in the present item it is
  sum,        \* sum[w]: the queues it has added up
  \* History, read by no action:
  before,     \* before[w]: the registers when w began
  spoilt      \* functions that a request refused half way

registers == <<range, hash, channel, threshold>>
vars == <<registers, request, todo, place, sum, before, spoilt>>

Idle      == [kind |-> "none"]
Busy(w)   == request[w] # Idle
Item(w)   == Head(todo[w])
Queues    == [base : 0 .. Wrap - 1, num : 0 .. Wrap - 1]
NoQueues  == [base |-> 0, num |-> 0]
Unlimited == Wrap - 1                  \* FC_THRESHOLD_UNLIMITED
NoSum     == [next |-> 0, base |-> Wrap - 1, num |-> 0]

TypeOK ==
  /\ range \in [Host -> [Function -> Queues]]
  /\ hash  \in [Host -> [Function -> [base : 0 .. Wrap - 1, spread : 1 .. TableSize]]]
  /\ channel \in [Host -> Queues]
  /\ threshold \in [Host -> 0 .. Wrap - 1]
  /\ request \in [Writer -> Request \cup {Idle}]
  /\ place \in [Writer -> {"base", "table", "range"}]
  /\ DOMAIN todo = Writer
  /\ sum \in [Writer -> [next : 0 .. NFunctions, base : 0 .. Wrap - 1, num : 0 .. Wrap - 1]]
  /\ spoilt \subseteq Host \X Function

\* A card that was not configured yet.
Init ==
  /\ range = [h \in Host |-> [f \in Function |-> NoQueues]]
  /\ hash  = [h \in Host |-> [f \in Function |-> [base |-> 0, spread |-> 1]]]
  /\ channel   = [h \in Host |-> NoQueues]
  /\ threshold = [h \in Host |-> Unlimited]
  /\ request = [w \in Writer |-> Idle]
  /\ todo    = [w \in Writer |-> <<>>]
  /\ place   = [w \in Writer |-> "base"]
  /\ sum     = [w \in Writer |-> NoSum]
  /\ before  = [w \in Writer |-> <<>>]
  /\ spoilt  = {}

-----------------------------------------------------------------------------
(* What a request asks for, item by item; unit is the response it is part of *)

\* convert_to_driver_qdma_function: the sum wraps.
FunctionOf(ftype, index) ==
  CASE ftype = "PHYSICAL" /\ index = 0 -> PF
    [] ftype = "VIRTUAL" /\ (VFMin + index) % Wrap < NFunctions -> (VFMin + index) % Wrap
    [] OTHER -> NoFunction

SetQueues(unit, h, f, base, num) ==
  [op |-> "queues", unit |-> unit, host |-> h, func |-> f, base |-> base, num |-> num]
SetChannel(unit, h, base, num) ==
  [op |-> "channel", unit |-> unit, host |-> h, base |-> base, num |-> num]
SumUp(h)         == [op |-> "sum", unit |-> h, host |-> h]
SetThreshold(h, t) ==
  [op |-> "threshold", unit |-> h, host |-> h,
   value |-> IF t < 0 THEN Unlimited ELSE t]
Refused(unit)    == [op |-> "refused", unit |-> unit]

EachHost(f) ==
  LET upTo[n \in 0 .. NHosts] == IF n = 0 THEN <<>> ELSE upTo[n - 1] \o f[n - 1]
  IN upTo[NHosts]

\* set_host_config: for each host the reset if it is asked for, the functions, and
\* the channel from them; then the threshold.
HostItems(r, h) ==
  LET reset == [n \in 1 .. NFunctions |-> SetQueues(h, h, n - 1, 0, 0)]
                 \o <<SetChannel(h, h, 0, 0)>>
      functions ==
        [n \in DOMAIN r.functions |->
           LET f == r.functions[n]
           IN  SetQueues(h, h, FunctionOf(f.ftype, f.index), f.base, f.num)]
  IN  (IF "dma" \in r.has
       THEN (IF r.reset THEN reset ELSE <<>>) \o functions \o <<SumUp(h)>>
       ELSE <<>>)
      \o (IF "flow_control" \in r.has THEN <<SetThreshold(h, r.threshold)>> ELSE <<>>)

\* set_defaults_one_to_one: one queue for the PF of each host.
DefaultItems ==
  EachHost([h \in Host |-> <<SetQueues(0, h, PF, h, 1), SetChannel(0, h, h, 1)>>])

Items(r) ==
  IF r.kind = "defaults" THEN DefaultItems
  ELSE CASE r.host > NHosts - 1 -> <<Refused(r.host)>>
         [] r.host < 0 -> EachHost([h \in Host |-> HostItems(r, h)])
         [] OTHER -> HostItems(r, r.host)

-----------------------------------------------------------------------------
(* The writers *)

Begin(w) ==
  /\ ~Busy(w)
  /\ Serialized => \A o \in Writer : ~Busy(o)
  /\ \E r \in Request :
       /\ request' = [request EXCEPT ![w] = r]
       /\ todo'    = [todo EXCEPT ![w] = Items(r)]
  /\ before' = [before EXCEPT ![w] = registers]
  /\ UNCHANGED <<registers, place, sum, spoilt>>

NextIs(w, op) == Busy(w) /\ todo[w] # <<>> /\ Item(w).op = op
Done(w)       == todo' = [todo EXCEPT ![w] = Tail(@)]
GoTo(w, p)    == place' = [place EXCEPT ![w] = p]

\* Fault: what is refused for one host ends the whole request.
Abort_All(w) ==
  /\ todo'  = [todo EXCEPT ![w] = <<>>]
  /\ GoTo(w, "base")

\* The rest of the response that the item is part of is not done.
Abort(w) ==
  /\ \E n \in DOMAIN todo[w] :
       /\ \A m \in 1 .. n : todo[w][m].unit = Item(w).unit
       /\ n < Len(todo[w]) => todo[w][n + 1].unit # Item(w).unit
       /\ todo' = [todo EXCEPT ![w] = SubSeq(@, n + 1, Len(@))]
  /\ GoTo(w, "base")

\* A host that there is not, or a function that cannot be converted.
Refuse(w) ==
  /\ Busy(w) /\ todo[w] # <<>>
  /\ \/ Item(w).op = "refused"
     \/ Item(w).op = "queues" /\ Item(w).func = NoFunction
  /\ Abort(w)
  /\ UNCHANGED <<registers, request, sum, before, spoilt>>

\* Fault: the number of queues is not looked at.
WriteBase_AnyNumber(w) ==
  LET i == Item(w) IN
  /\ NextIs(w, "queues") /\ i.func # NoFunction /\ place[w] = "base"
  /\ hash' = [hash EXCEPT ![i.host][i.func].base = i.base]
  /\ GoTo(w, "table")
  /\ UNCHANGED <<todo, spoilt, range, channel, threshold, request, sum, before>>

\* qdma_function_set_queues: the base for the table is written, and then the number
\* of queues is looked at.
WriteBase(w) ==
  LET i == Item(w) IN
  /\ NextIs(w, "queues") /\ i.func # NoFunction /\ place[w] = "base"
  /\ hash' = [hash EXCEPT ![i.host][i.func].base = i.base]
  /\ \/ /\ i.num <= TableSize
        /\ GoTo(w, "table")
        /\ UNCHANGED <<todo, spoilt>>
     \/ /\ i.num > TableSize
        /\ Abort(w)
        /\ spoilt' = spoilt \cup {<<i.host, i.func>>}
  /\ UNCHANGED <<range, channel, threshold, request, sum, before>>

\* Every entry of the table; q % spread in entry q.
WriteTable(w) ==
  LET i == Item(w) IN
  /\ NextIs(w, "queues") /\ place[w] = "table"
  /\ hash' = [hash EXCEPT ![i.host][i.func].spread = IF i.num > 0 THEN i.num ELSE 1]
  /\ GoTo(w, "range")
  /\ UNCHANGED <<range, channel, threshold, request, todo, sum, before, spoilt>>

\* And the range itself.
WriteRange(w) ==
  LET i == Item(w) IN
  /\ NextIs(w, "queues") /\ place[w] = "range"
  /\ range'  = [range EXCEPT ![i.host][i.func] = [base |-> i.base, num |-> i.num]]
  /\ spoilt' = spoilt \ {<<i.host, i.func>>}
  /\ Done(w)
  /\ GoTo(w, "base")
  /\ UNCHANGED <<hash, channel, threshold, request, sum, before>>

\* qdma_channel_set_queues
WriteChannel(w) ==
  LET i == Item(w) IN
  /\ NextIs(w, "channel")
  /\ channel' = [channel EXCEPT ![i.host] = [base |-> i.base, num |-> i.num]]
  /\ Done(w)
  /\ UNCHANGED <<range, hash, threshold, request, place, sum, before, spoilt>>

\* The functions of the host are read one by one ...
AddFunction(w) ==
  LET f == sum[w].next
      q == range[Item(w).host][f]
  IN
  /\ NextIs(w, "sum") /\ f \in Function
  /\ sum' = [sum EXCEPT ![w] =
               IF q.num = 0 THEN [@ EXCEPT !.next = f + 1]
               ELSE [next |-> f + 1,
                     base |-> IF q.base < @.base THEN q.base ELSE @.base,
                     num  |-> (@.num + q.num) % Wrap]]
  /\ UNCHANGED <<registers, request, todo, place, before, spoilt>>

\* ... and the channel is written if they have queues.
WriteSum(w) ==
  /\ NextIs(w, "sum") /\ sum[w].next = NFunctions
  /\ channel' = IF sum[w].num > 0
                THEN [channel EXCEPT ![Item(w).host] =
                        [base |-> sum[w].base, num |-> sum[w].num]]
                ELSE channel
  /\ sum' = [sum EXCEPT ![w] = NoSum]
  /\ Done(w)
  /\ UNCHANGED <<range, hash, threshold, request, place, before, spoilt>>

\* fc_set_egress_threshold
WriteThreshold(w) ==
  /\ NextIs(w, "threshold")
  /\ threshold' = [threshold EXCEPT ![Item(w).host] = Item(w).value]
  /\ Done(w)
  /\ UNCHANGED <<range, hash, channel, request, place, sum, before, spoilt>>

\* The last response is written.
Respond(w) ==
  /\ Busy(w) /\ todo[w] = <<>>
  /\ request' = [request EXCEPT ![w] = Idle]
  /\ before'  = [before EXCEPT ![w] = <<>>]
  /\ UNCHANGED <<registers, todo, place, sum, spoilt>>

Serve(w) ==
  \/ Begin(w) \/ Refuse(w) \/ WriteBase(w) \/ WriteTable(w) \/ WriteRange(w)
  \/ WriteChannel(w) \/ AddFunction(w) \/ WriteSum(w) \/ WriteThreshold(w)
  \/ Respond(w)

Next == \E w \in Writer : Serve(w)

Spec == Init /\ [][Next]_vars

-----------------------------------------------------------------------------
(* Properties *)

Quiet == \A w \in Writer : ~Busy(w)

Own(h, f)      == {q \in 0 .. 2 * Wrap : /\ q >= range[h][f].base
                                         /\ q < range[h][f].base + range[h][f].num}
QueueOf(h, f, entry) == hash[h][f].base + (entry % hash[h][f].spread)
Share(h, f, q) == Cardinality({e \in 0 .. TableSize - 1 : QueueOf(h, f, e) = q})

\* "an equal weighted distribution of all allocated queues" (README.STACK.INSTALL):
\* when no Set RPC is at work, the packets of a function go to all its queues, to
\* no other, and to none more often than to another by more than an entry; unless
\* the last request for the function was refused when its base was written.
EvenlySpread ==
  Quiet => \A h \in Host, f \in Function :
    range[h][f].num > 0 /\ <<h, f>> \notin spoilt =>
      /\ \A e \in 0 .. TableSize - 1 : QueueOf(h, f, e) \in Own(h, f)
      /\ \A j, k \in Own(h, f) : Share(h, f, j) > 0 /\ Share(h, f, j) - Share(h, f, k) <= 1

Refusable(i) ==
  \/ i.op = "refused"
  \/ i.op = "queues" /\ (i.func = NoFunction \/ i.num > TableSize)

\* The items of a request that are granted: those before the first that is
\* refused, response by response.
Granted(items) ==
  {n \in DOMAIN items :
     \A m \in 1 .. n : items[m].unit = items[n].unit => ~Refusable(items[m])}

\* The last granted item of q that is about x, or old.
LastWord(q, About(_), old, Value(_)) ==
  LET said == {n \in Granted(q) : About(q[n])}
  IN IF said = {} THEN old ELSE Value(q[CHOOSE n \in said : \A m \in said : m <= n])

\* How many queues the first n functions have.
Sums(queues) ==
  LET to[n \in 0 .. NFunctions] == IF n = 0 THEN 0 ELSE to[n - 1] + queues[n - 1].num
  IN to

\* A Set RPC that takes turns with others leaves every range and threshold as the
\* last item granted for it says, or as it was.  A channel that was summed up has
\* as many queues as its functions and begins with their first; it keeps what it
\* was when they have none.
RequestTakesEffect ==
  [][\A w \in Writer : Busy(w) /\ ~Busy(w)' =>
       LET old == before[w]
           q   == Items(request[w])
       IN \A h \in Host :
            /\ \A f \in Function :
                 range[h][f] =
                   LastWord(q, LAMBDA i : i.op = "queues" /\ i.host = h /\ i.func = f,
                            old[1][h][f], LAMBDA i : [base |-> i.base, num |-> i.num])
            /\ threshold[h] =
                 LastWord(q, LAMBDA i : i.op = "threshold" /\ i.host = h,
                          old[4][h], LAMBDA i : i.value)
            /\ LET explicit ==
                     LastWord(q, LAMBDA i : i.op = "channel" /\ i.host = h,
                              old[3][h], LAMBDA i : [base |-> i.base, num |-> i.num])
                   summed == \E n \in Granted(q) : q[n].op = "sum" /\ q[n].host = h
                   used   == {f \in Function : range[h][f].num > 0}
               IN IF summed /\ used # {}
                  THEN /\ channel[h].num = Sums(range[h])[NFunctions]
                       /\ \A f \in used : channel[h].base <= range[h][f].base
                       /\ \E f \in used : channel[h].base = range[h][f].base
                  ELSE channel[h] = explicit]_vars
=============================================================================
