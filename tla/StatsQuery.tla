------------------------------ MODULE StatsQuery ------------------------------
(***************************************************************************)
(* The RPCs that get and clear statistics, one after the other or in the   *)
(* stream of a Batch: stats, host_stats, port_stats, switch_stats and      *)
(* pipeline_stats walk the metrics of the devices and of their hosts,      *)
(* ports or pipelines (stats.cpp, host.cpp, port.cpp, switch.cpp and       *)
(* pipeline.cpp of the agents), while collectors update the metrics        *)
(* (libopennic/src/stats.c) and other workers do the same.                 *)
(*                                                                         *)
(* A Get copies the values of a metric, each under the metric's lock, and  *)
(* shows those of the copy that pass the filters.  A Clear holds the block *)
(* of the metric, sets up what its filter lets pass, and clears it value   *)
(* by value.                                                               *)
(***************************************************************************)
EXTENDS StatsFilter, Batch, SequencesExt

CONSTANTS
  Worker,      \* the threads that serve RPCs
  Device,      \* 1 .. n; a client counts from 0
  Metrics,     \* Metrics[d]: the metrics of a device in the order of the walk
  Items,       \* the items of the agent's Batch, CfgItems or P4Items
  Units,       \* Units[item][d]: the zones of each unit (a host, a port, ...), for
               \* an item that has units; those of the device for one that has not
  Whole,       \* the items without units
  Request,     \* Request[w]: what clients send to worker w
  Idle,
  MaxValue,    \* a value is at most that
  MaxRequests, \* bounds the requests of a worker
  MaxChanges   \* bounds what the collectors find changed

VARIABLES
  value,    \* value[d][m][n], the values of the metrics
  owner,    \* owner[d][b]: the worker whose Clear holds the block, or Idle
  changes,  \* changes made up to now
  served,   \* served[w]: requests w has taken
  req,      \* req[w]: the present request, or Idle
  todo,     \* todo[w]: the targets left to answer
  walk,     \* walk[w]: the metrics left of the present target
  pc,       \* where w is in the present metric
  copy,     \* copy[w]: the values copied up to now
  valid,    \* valid[w]: the BitArray of a Clear
  shown,    \* shown[w]: the metrics of the response being built
  answers,  \* answers[w]: the responses to the request
  cleared   \* history: the values that the present pass cleared

metricVars == <<value, changes>>
callVars   == <<served, req, todo, answers>>
passVars   == <<walk, pc, copy, valid, shown, cleared>>
vars == <<metricVars, owner, callVars, passVars>>

Metric(d, m) == Metrics[d][m]
Blocks(d)    == {Metric(d, m).block : m \in DOMAIN Metrics[d]}

\* Metrics have been cleared once before the server serves.
Init ==
  /\ \E v \in {0, MaxValue} :
       value = [d \in Device |-> [m \in DOMAIN Metrics[d] |-> [n \in Index(Metric(d, m)) |-> v]]]
  /\ owner = [d \in Device |-> [b \in Blocks(d) |-> Idle]]
  /\ changes = 0
  /\ served  = [w \in Worker |-> 0]
  /\ req     = [w \in Worker |-> Idle]
  /\ todo    = [w \in Worker |-> <<>>]
  /\ walk    = [w \in Worker |-> <<>>]
  /\ pc      = [w \in Worker |-> "idle"]
  /\ copy    = [w \in Worker |-> <<>>]
  /\ valid   = [w \in Worker |-> Idle]
  /\ shown   = [w \in Worker |-> <<>>]
  /\ answers = [w \in Worker |-> <<>>]
  /\ cleared = [w \in Worker |-> {}]

-----------------------------------------------------------------------------
(* The collectors *)

\* stats_block_update_metrics finds a value changed.
Update(d, m, n) ==
  /\ owner[d][Metric(d, m).block] = Idle
  /\ changes < MaxChanges
  /\ changes' = changes + 1
  /\ \E v \in 0 .. MaxValue : v # value[d][m][n] /\ value' = [value EXCEPT ![d][m][n] = v]
  /\ UNCHANGED <<owner, callVars, passVars>>

-----------------------------------------------------------------------------
(* What a request asks for *)

Target(d, unit, code) == [dev |-> d, unit |-> unit, code |-> code]

\* Fault: a unit that a device does not have ends the loop.
UnitTargets_Return(item, d, unit) ==
  LET last == Len(Units[item][d + 1]) - 1
  IN  IF item \in Whole THEN <<Target(d, -1, "EC_OK")>>
      ELSE IF unit > last THEN <<>>
      ELSE IF unit > -1 THEN <<Target(d, unit, "EC_OK")>>
      ELSE [i \in 1 .. last + 1 |-> Target(d, i - 1, "EC_OK")]

\* The units of a device that a request is about.
UnitTargets(item, d, unit) ==
  LET last == Len(Units[item][d + 1]) - 1
  IN  IF item \in Whole THEN <<Target(d, -1, "EC_OK")>>
      ELSE IF unit > last THEN <<Target(d, -1, "EC_INVALID_UNIT_ID")>>
      ELSE IF unit > -1 THEN <<Target(d, unit, "EC_OK")>>
      ELSE [i \in 1 .. last + 1 |-> Target(d, i - 1, "EC_OK")]

Targets(r) ==
  IF r.dev > Cardinality(Device) - 1 THEN <<Target(-1, -1, "EC_INVALID_DEVICE_ID")>>
  ELSE IF r.dev > -1 THEN UnitTargets(r.item, r.dev, r.unit)
  ELSE FlattenSeq([d \in Device |-> UnitTargets(r.item, d - 1, r.unit)])

\* The zones of a target, in the order in which they are walked.
ZonesOf(item, t) == Units[item][t.dev + 1][IF item \in Whole THEN 1 ELSE t.unit + 1]

WalkOf(item, t) ==
  SelectSeq([m \in DOMAIN Metrics[t.dev + 1] |-> m],
            LAMBDA m : Metric(t.dev + 1, m).zone \in ZonesOf(item, t))

-----------------------------------------------------------------------------
(* A worker *)

Answer(w, outer, t, metrics) ==
  answers' = [answers EXCEPT ![w] =
                Append(@, [outer |-> outer, dev |-> t.dev, unit |-> t.unit,
                           code |-> t.code, metrics |-> metrics])]

NoTarget == Target(-1, -1, "none")

\* The next request; what the agent does not know is answered at once.
Begin(w) ==
  /\ req[w] = Idle
  /\ served[w] < MaxRequests
  /\ served' = [served EXCEPT ![w] = @ + 1]
  /\ \E r \in Request[w] :
       LET verdict == Verdict(Items, r.item, r.op) IN
       /\ req' = [req EXCEPT ![w] = r]
       /\ IF verdict = "EC_OK"
          THEN /\ todo' = [todo EXCEPT ![w] = Targets(r)]
               /\ answers' = [answers EXCEPT ![w] = <<>>]
          ELSE /\ todo' = [todo EXCEPT ![w] = <<>>]
               /\ answers' = [answers EXCEPT ![w] =
                                <<[outer |-> verdict, dev |-> -1, unit |-> -1,
                                   code |-> "none", metrics |-> <<>>]>>]
  /\ pc' = [pc EXCEPT ![w] = "target"]
  /\ UNCHANGED <<metricVars, owner, walk, copy, valid, shown, cleared>>

\* A device or a unit that is not there.
Refuse(w) ==
  /\ pc[w] = "target"
  /\ todo[w] # <<>>
  /\ Head(todo[w]).code # "EC_OK"
  /\ Answer(w, "EC_OK", Head(todo[w]), <<>>)
  /\ todo' = [todo EXCEPT ![w] = Tail(@)]
  /\ UNCHANGED <<metricVars, owner, served, req, passVars>>

BeginPass(w) ==
  /\ pc[w] = "target"
  /\ todo[w] # <<>>
  /\ Head(todo[w]).code = "EC_OK"
  /\ walk' = [walk EXCEPT ![w] = WalkOf(req[w].item, Head(todo[w]))]
  /\ pc' = [pc EXCEPT ![w] = "metric"]
  /\ UNCHANGED <<metricVars, owner, callVars, copy, valid, shown, cleared>>

Dev(w)  == Head(todo[w]).dev + 1
At(w)   == Head(walk[w])
Here(w) == Metric(Dev(w), At(w))
On(w, op) == pc[w] = "metric" /\ walk[w] # <<>> /\ req[w].op = op

\* stats_metric_get_values: one value under the lock of the metric.
CopyValue(w) ==
  /\ On(w, "GET")
  /\ Len(copy[w]) < Size(Here(w))
  /\ copy' = [copy EXCEPT ![w] = Append(@, value[Dev(w)][At(w)][Len(@)])]
  /\ UNCHANGED <<metricVars, owner, callVars, walk, pc, valid, shown, cleared>>

Copied(w) == [n \in Index(Here(w)) |-> copy[w][n + 1]]

\* get_stats_for_each_metric: a metric is shown if a bit is left, with the values
\* whose bits are set.
ShowMetric(w) ==
  LET array == ApplyFilters(req[w].filters, Here(w), Copied(w))
  IN
  /\ On(w, "GET")
  /\ Len(copy[w]) = Size(Here(w))
  /\ shown' = [shown EXCEPT ![w] =
                 IF IsAllCleared(array) THEN @
                 ELSE Append(@, [metric |-> At(w),
                                 values |-> [n \in Ones(array) |-> Copied(w)[n]]])]
  /\ copy' = [copy EXCEPT ![w] = <<>>]
  /\ walk' = [walk EXCEPT ![w] = Tail(@)]
  /\ UNCHANGED <<metricVars, owner, callVars, pc, valid, cleared>>

\* clear_stats_filter_setup, with the block locked.
SetUpClear(w) ==
  /\ On(w, "CLEAR")
  /\ owner[Dev(w)][Here(w).block] \in {Idle, w}
  /\ owner' = [owner EXCEPT ![Dev(w)][Here(w).block] = w]
  /\ valid' = [valid EXCEPT ![w] = ClearMask(req[w].filters, Here(w))]
  /\ pc'    = [pc EXCEPT ![w] = "clear"]
  /\ UNCHANGED <<metricVars, callVars, walk, copy, shown, cleared>>

\* Fault: a Clear passes over what is zero when the request asks for non_zero.
ClearValue_NonZero(w) ==
  LET n == Len(copy[w])
  IN
  /\ pc[w] = "clear"
  /\ n < Size(Here(w))
  /\ copy' = [copy EXCEPT ![w] = Append(@, 0)]
  /\ IF IsBitSet(valid[w], n) /\ ~Here(w).never_clear
        /\ ~(req[w].filters.non_zero /\ value[Dev(w)][At(w)][n] = 0)
     THEN /\ value' = [value EXCEPT ![Dev(w)][At(w)][n] = 0]
          /\ cleared' = [cleared EXCEPT ![w] = @ \cup {<<At(w), n>>}]
     ELSE UNCHANGED <<value, cleared>>
  /\ UNCHANGED <<changes, owner, callVars, walk, pc, valid, shown>>

\* stats_block_update_metrics asks clear_stats_filter_match about a value and clears
\* it; what it does not clear it updates, which is left to Update here.
ClearValue(w) ==
  LET n == Len(copy[w])
  IN
  /\ pc[w] = "clear"
  /\ n < Size(Here(w))
  /\ copy' = [copy EXCEPT ![w] = Append(@, 0)]
  /\ IF IsBitSet(valid[w], n) /\ ~Here(w).never_clear
     THEN /\ value' = [value EXCEPT ![Dev(w)][At(w)][n] = 0]
          /\ cleared' = [cleared EXCEPT ![w] = @ \cup {<<At(w), n>>}]
     ELSE UNCHANGED <<value, cleared>>
  /\ UNCHANGED <<changes, owner, callVars, walk, pc, valid, shown>>

\* clear_stats_filter_teardown; the block is unlocked after its last metric.
TearDownClear(w) ==
  LET rest == Tail(walk[w])
  IN
  /\ pc[w] = "clear"
  /\ Len(copy[w]) = Size(Here(w))
  /\ copy'  = [copy EXCEPT ![w] = <<>>]
  /\ valid' = [valid EXCEPT ![w] = Idle]
  /\ walk'  = [walk EXCEPT ![w] = rest]
  /\ pc'    = [pc EXCEPT ![w] = "metric"]
  /\ owner' = IF rest # <<>> /\ Metric(Dev(w), Head(rest)).block = Here(w).block THEN owner
              ELSE [owner EXCEPT ![Dev(w)][Here(w).block] = Idle]
  /\ UNCHANGED <<metricVars, callVars, shown, cleared>>

\* write_resp
Respond(w) ==
  /\ pc[w] = "metric"
  /\ walk[w] = <<>>
  /\ Answer(w, "EC_OK", Head(todo[w]), shown[w])
  /\ todo'    = [todo EXCEPT ![w] = Tail(@)]
  /\ pc'      = [pc EXCEPT ![w] = "target"]
  /\ shown'   = [shown EXCEPT ![w] = <<>>]
  /\ cleared' = [cleared EXCEPT ![w] = {}]
  /\ UNCHANGED <<metricVars, owner, served, req, walk, copy, valid>>

Finish(w) ==
  /\ pc[w] = "target"
  /\ todo[w] = <<>>
  /\ req' = [req EXCEPT ![w] = Idle]
  /\ pc'  = [pc EXCEPT ![w] = "idle"]
  /\ answers' = [answers EXCEPT ![w] = <<>>]
  /\ UNCHANGED <<metricVars, owner, served, todo, walk, copy, valid, shown, cleared>>

Serve(w) ==
  \/ Refuse(w) \/ BeginPass(w) \/ CopyValue(w) \/ ShowMetric(w) \/ SetUpClear(w)
  \/ ClearValue(w) \/ TearDownClear(w) \/ Respond(w) \/ Finish(w)

Next ==
  \/ \E d \in Device : \E m \in DOMAIN Metrics[d] : \E n \in Index(Metric(d, m)) :
       Update(d, m, n)
  \/ \E w \in Worker : Begin(w) \/ Serve(w)

Spec == Init /\ [][Next]_vars

-----------------------------------------------------------------------------
(* Properties *)

(***************************************************************************)
(* A Get shows of every metric the values that the filter means, value by  *)
(* value, and, if it asks for non_zero, are not 0 in the copy it shows:    *)
(* words, masks and short circuits neither lose a value nor let one in, a  *)
(* metric without such a value is left out, and what is shown is what was  *)
(* filtered, whatever the collectors do meanwhile (stats.cpp:20-595,       *)
(* 599-662).                                                               *)
(***************************************************************************)
ShowsWhatTheFilterMeans ==
  [][\A w \in Worker : On(w, "GET") /\ walk'[w] # walk[w] =>
       LET filters == req[w].filters
           wanted  == {n \in Meant(filters, Here(w)) : filters.non_zero => Copied(w)[n] # 0}
       IN  shown'[w] = IF wanted = {} THEN shown[w]
                       ELSE Append(shown[w], [metric |-> At(w),
                                              values |-> [n \in wanted |-> Copied(w)[n]]])]_vars

(***************************************************************************)
(* A Clear has cleared, when it answers for a unit, exactly the values     *)
(* that the metric filter means, zero or not, but for the metrics that are *)
(* never cleared; and it has given back every block that it held           *)
(* (stats.cpp:664-756, stats.c:582-682).                                   *)
(***************************************************************************)
ClearsWhatTheFilterMeans ==
  \A w \in Worker : pc[w] = "metric" /\ walk[w] = <<>> /\ req[w].op = "CLEAR" =>
    /\ cleared[w] =
         UNION {{<<m, n>> : n \in Meant(req[w].filters, Metric(Dev(w), m))} :
                m \in {k \in ToSet(WalkOf(req[w].item, Head(todo[w]))) :
                         ~Metric(Dev(w), k).never_clear}}
    /\ \A d \in Device : \A b \in Blocks(d) : owner[d][b] # w

(***************************************************************************)
(* When a request ends, each unit that it names has been answered for once *)
(* and in order, after errors as well; a device without the unit, and a    *)
(* request without a device, an item or an operation, has had one response *)
(* that says so (get_or_clear_*, batch.cpp).                               *)
(***************************************************************************)
AnswersEachUnit ==
  \A w \in Worker : pc[w] = "target" /\ todo[w] = <<>> =>
    LET r       == req[w]
        given   == answers[w]
        devs    == {d \in Device : r.dev < 0 \/ d = r.dev + 1}
        units(d) == IF r.item \in Whole THEN {-1}
                    ELSE {u \in 0 .. Len(Units[r.item][d]) - 1 : r.unit < 0 \/ u = r.unit}
        place(i) == <<given[i].dev, given[i].unit>>
        with(code) == {i \in DOMAIN given : given[i].code = code}
    IN IF r.item \notin DOMAIN Items \/ r.op \notin Items[r.item] \/ devs = {}
       THEN /\ Len(given) = 1
            /\ given[1].outer = "EC_OK" <=> r.item \in DOMAIN Items /\ r.op \in Items[r.item]
            /\ given[1].code # "EC_OK"
       ELSE /\ {place(i) : i \in with("EC_OK")} =
                 UNION {{<<d - 1, u>> : u \in units(d)} : d \in devs}
            /\ {given[i].dev : i \in with("EC_INVALID_UNIT_ID")} =
                 {d - 1 : d \in {e \in devs : r.item \notin Whole /\ r.unit > -1 /\ units(e) = {}}}
            /\ \A i, j \in DOMAIN given : i < j =>
                 \/ given[i].dev < given[j].dev
                 \/ given[i].dev = given[j].dev /\ given[i].unit < given[j].unit
=============================================================================
