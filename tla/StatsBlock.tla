----------------------------- MODULE StatsBlock -----------------------------
(***************************************************************************)
(* One block of statistics: stats_block_update_metrics, the only writer of *)
(* metric values (src/libopennic/src/stats.c).                             *)
(*                                                                         *)
(* The collector thread of the domain and the threads that serve the Clear *)
(* RPCs run the same function, the latter with a filter of what to clear.  *)
(* It holds the mutex of the block throughout, and the spin lock of a      *)
(* metric for each value it writes.  Readers only copy one value at a time *)
(* under its spin lock; the properties are about each value they may see.  *)
(*                                                                         *)
(* A CLEAR_ON_READ metric counts in the hardware since it was last         *)
(* latched; all such metrics of a block are latched at once (a CMAC tick,  *)
(* a probe's latch register, a read of the counters by the P4 driver),     *)
(* which the driver may fail to do.  Any other counter runs freely, in a   *)
(* pair of registers that are read one after the other.                    *)
(***************************************************************************)
EXTENDS Integers, FiniteSets

CONSTANTS
  NMetrics,     \* spec.nmetrics; the metrics are read in order
  Counter,      \* the metrics of type COUNTER
  Flag,         \* those of type FLAG; any other is a GAUGE
  ClearOnRead,  \* the flag stats_metric_flag_CLEAR_ON_READ
  NeverClear,   \* the flag stats_metric_flag_NEVER_CLEAR
  Updater,      \* the threads that run stats_block_update_metrics
  Clearer,      \* those of them that serve Clear RPCs
  NoUpdater,    \* the mutex is free
  Half,         \* 2^32: one register of a pair
  MaxEvents     \* bounds the events the hardware counts

Metric == 1 .. NMetrics
Word   == Half * Half   \* 2^64: the arithmetic of a value
Paired == Counter \ ClearOnRead

ASSUME StatsBlockAssumption ==
  /\ NMetrics \in Nat \ {0}
  /\ Half \in Nat \ {0, 1}
  /\ MaxEvents \in 0 .. Word - 1
  /\ Counter \cup Flag \cup ClearOnRead \cup NeverClear \subseteq Metric
  /\ Counter \cap Flag = {}
  /\ Clearer \subseteq Updater
  /\ NoUpdater \notin Updater

VARIABLES
  live,    \* live[m]: the hardware's running register
  latch,   \* latch[m]: what the last latch took from it
  valid,   \* did the last latch succeed?
  value,   \* value[m]: element->value.u64, what is reported
  last,    \* last[m]: element->last
  owner,   \* who holds the mutex of the block
  pc,      \* pc[u]: where updater u is
  filter,  \* filter[u]: the metrics u's filter matches; none for an update
  cur,     \* cur[u]: the metric u is at
  first,   \* first[u]: which register of the pair u read first, and when
  sample,  \* sample[u]: values[n] as u read it
  \* History, read by no action:
  events,  \* events[m]: what the hardware counted since the start
  mark,    \* mark[m]: the events up to the last capture, and was it torn?
  seen,    \* seen[m]: the mark of the last capture that reached value[m]
  origin   \* origin[m]: the mark of the last capture that cleared value[m]

hwVars      == <<live, latch, valid>>
valueVars   == <<value, last, seen, origin>>
updaterVars == <<owner, pc, filter, cur, first, sample>>
vars == <<hwVars, valueVars, updaterVars, events, mark>>

PC    == {"idle", "latch", "read", "rest", "apply", "release"}
Count == 0 .. Word - 1
Mark  == [at : Count, torn : BOOLEAN]

TypeOK ==
  /\ live \in [Metric -> Count] /\ latch \in [Metric -> Count]
  /\ valid \in BOOLEAN
  /\ value \in [Metric -> Count] /\ last \in [Metric -> Count]
  /\ owner \in Updater \cup {NoUpdater}
  /\ pc \in [Updater -> PC]
  /\ filter \in [Updater -> SUBSET Metric]
  /\ cur \in [Updater -> Metric]
  /\ first \in [Updater -> [low : BOOLEAN, word : Count]]
  /\ sample \in [Updater -> Count]
  /\ events \in [Metric -> Count]
  /\ mark \in [Metric -> Mark] /\ seen \in [Metric -> Mark]
  /\ origin \in [Metric -> Mark]

Start == [at |-> 0, torn |-> FALSE]

\* stats_metric_alloc sets the value and last to init_value, which is 0 for
\* every metric of the agents.
Init ==
  /\ live  = [m \in Metric |-> 0] /\ latch = [m \in Metric |-> 0]
  /\ valid = TRUE
  /\ value = [m \in Metric |-> 0] /\ last  = [m \in Metric |-> 0]
  /\ owner = NoUpdater
  /\ pc     = [u \in Updater |-> "idle"]
  /\ filter = [u \in Updater |-> {}]
  /\ cur    = [u \in Updater |-> 1]
  /\ first  = [u \in Updater |-> [low |-> TRUE, word |-> 0]]
  /\ sample = [u \in Updater |-> 0]
  /\ events = [m \in Metric |-> 0]
  /\ mark   = [m \in Metric |-> Start]
  /\ seen   = [m \in Metric |-> Start]
  /\ origin = [m \in Metric |-> Start]

-----------------------------------------------------------------------------
(* The hardware *)

\* A packet is counted, a condition arises.
Event(m) ==
  /\ m \in Counter \cup Flag
  /\ events[m] < MaxEvents
  /\ events' = [events EXCEPT ![m] = @ + 1]
  /\ live'   = [live EXCEPT ![m] = @ + 1]
  /\ UNCHANGED <<latch, valid, valueVars, updaterVars, mark>>

\* What a gauge measures goes up or down.
Level(m) ==
  /\ m \notin Counter \cup Flag
  /\ live' = [live EXCEPT ![m] = 1 - @]
  /\ UNCHANGED <<latch, valid, valueVars, updaterVars, events, mark>>

-----------------------------------------------------------------------------
(* stats_block_update_metrics *)

\* Fault: the mutex is not taken.
Begin_Unlocked(u) ==
  /\ pc[u] = "idle"
  /\ owner' = u
  /\ \E f \in IF u \in Clearer THEN SUBSET Metric ELSE {{}} :
       filter' = [filter EXCEPT ![u] = f]
  /\ pc'    = [pc EXCEPT ![u] = "latch"]
  /\ cur'   = [cur EXCEPT ![u] = 1]
  /\ UNCHANGED <<hwVars, valueVars, first, sample, events, mark>>

\* Take the mutex and write last_update.
Begin(u) ==
  /\ pc[u] = "idle"
  /\ owner = NoUpdater
  /\ owner' = u
  /\ \E f \in IF u \in Clearer THEN SUBSET Metric ELSE {{}} :
       filter' = [filter EXCEPT ![u] = f]
  /\ pc'    = [pc EXCEPT ![u] = "latch"]
  /\ cur'   = [cur EXCEPT ![u] = 1]
  /\ UNCHANGED <<hwVars, valueVars, first, sample, events, mark>>

\* Fault: the driver has cleared the registers when it reports that it failed.
Latch_Lossy(u) ==
  /\ pc[u] = "latch"
  /\ valid' \in BOOLEAN
  /\ live' = [m \in Metric |-> IF m \in ClearOnRead THEN 0 ELSE live[m]]
  /\ IF valid'
     THEN /\ latch' = [m \in Metric |-> IF m \in ClearOnRead THEN live[m] ELSE latch[m]]
          /\ mark'  = [m \in Metric |-> IF m \in ClearOnRead
                                        THEN [at |-> events[m], torn |-> FALSE]
                                        ELSE mark[m]]
     ELSE UNCHANGED <<latch, mark>>
  /\ pc' = [pc EXCEPT ![u] = "read"]
  /\ UNCHANGED <<valueVars, owner, filter, cur, first, sample, events>>

\* latch_metrics: the CLEAR_ON_READ registers are taken and restart from 0; or
\* the driver fails, and they are left to run.
Latch(u) ==
  /\ pc[u] = "latch"
  /\ valid' \in BOOLEAN
  /\ IF valid'
     THEN /\ latch' = [m \in Metric |-> IF m \in ClearOnRead THEN live[m] ELSE latch[m]]
          /\ live'  = [m \in Metric |-> IF m \in ClearOnRead THEN 0 ELSE live[m]]
          /\ mark'  = [m \in Metric |-> IF m \in ClearOnRead
                                        THEN [at |-> events[m], torn |-> FALSE]
                                        ELSE mark[m]]
     ELSE UNCHANGED <<latch, live, mark>>
  /\ pc' = [pc EXCEPT ![u] = "read"]
  /\ UNCHANGED <<valueVars, owner, filter, cur, first, sample, events>>

\* read_metric of a latched metric, 0 if the latch failed, or of a gauge.
Read(u) ==
  /\ pc[u] = "read"
  /\ cur[u] \notin Paired
  /\ sample' = [sample EXCEPT ![u] = IF cur[u] \notin ClearOnRead THEN live[cur[u]]
                                     ELSE IF valid THEN latch[cur[u]] ELSE 0]
  /\ pc' = [pc EXCEPT ![u] = "apply"]
  /\ UNCHANGED <<hwVars, valueVars, owner, filter, cur, first, events,
                 mark>>

\* read_metric of a pair.  C does not say which of the two it reads first.
ReadFirst(u) ==
  /\ pc[u] = "read"
  /\ cur[u] \in Paired
  /\ \E low \in BOOLEAN :
       first' = [first EXCEPT ![u] = [low |-> low, word |-> live[cur[u]]]]
  /\ pc' = [pc EXCEPT ![u] = "rest"]
  /\ UNCHANGED <<hwVars, valueVars, owner, filter, cur, sample, events,
                 mark>>

ReadRest(u) ==
  LET m  == cur[u]
      lo == IF first[u].low THEN first[u].word ELSE live[m]
      hi == IF first[u].low THEN live[m] ELSE first[u].word
  IN
  /\ pc[u] = "rest"
  /\ sample' = [sample EXCEPT ![u] = (hi \div Half) * Half + (lo % Half)]
  /\ mark'   = [mark EXCEPT ![m] = [at |-> lo,
                                    torn |-> lo \div Half # hi \div Half]]
  /\ pc'     = [pc EXCEPT ![u] = "apply"]
  /\ UNCHANGED <<hwVars, valueVars, owner, filter, cur, first, events>>

\* Fault: a filter clears all the metrics.
DoClear_Wildcard(u) == filter[u] # {} /\ cur[u] \notin NeverClear

DoClear(u) == cur[u] \in filter[u] /\ cur[u] \notin NeverClear

\* What a reading makes of the value of metric m.
NewValue(u, m) ==
  CASE m \in ClearOnRead \cap Counter -> (value[m] + sample[u]) % Word
    [] m \in Paired                   -> (value[m] + sample[u] - last[m]) % Word
    [] m \in Flag                     -> IF sample[u] # 0 THEN 1 ELSE 0
    [] OTHER                          -> sample[u]

\* The body of the loop under the metric's spin lock, and on to the next metric.
Apply(u) ==
  LET m == cur[u]
  IN
  /\ pc[u] = "apply"
  /\ value'  = [value EXCEPT ![m] = IF DoClear(u) THEN 0 ELSE NewValue(u, m)]
  /\ last'   = [last EXCEPT ![m] = IF m \in Paired THEN sample[u] ELSE @]
  /\ seen'   = [seen EXCEPT ![m] = mark[m]]
  /\ origin' = [origin EXCEPT ![m] = IF DoClear(u) THEN mark[m] ELSE @]
  /\ IF m = NMetrics
     THEN pc' = [pc EXCEPT ![u] = "release"] /\ UNCHANGED cur
     ELSE pc' = [pc EXCEPT ![u] = "read"] /\ cur' = [cur EXCEPT ![u] = m + 1]
  /\ UNCHANGED <<hwVars, owner, filter, first, sample, events, mark>>

\* release_metrics, and give the mutex back.
Release(u) ==
  /\ pc[u] = "release"
  /\ owner' = NoUpdater
  /\ pc'     = [pc EXCEPT ![u] = "idle"]
  /\ filter' = [filter EXCEPT ![u] = {}]
  /\ first'  = [first EXCEPT ![u] = [low |-> TRUE, word |-> 0]]
  /\ sample' = [sample EXCEPT ![u] = 0]
  /\ UNCHANGED <<hwVars, valueVars, cur, events, mark>>

-----------------------------------------------------------------------------
Continue(u) ==
  \/ Latch(u) \/ Read(u) \/ ReadFirst(u) \/ ReadRest(u) \/ Apply(u) \/ Release(u)

Next ==
  \/ \E m \in Metric : Event(m) \/ Level(m)
  \/ \E u \in Updater : Begin(u) \/ Continue(u)

\* The collector comes back, and whoever updates goes on to the end.  Clear RPCs
\* need not come, and the mutex need not favour anyone.
Fairness ==
  /\ \A u \in Updater \ Clearer : WF_vars(Begin(u))
  /\ \A u \in Updater : WF_vars(Continue(u))

Spec     == Init /\ [][Next]_vars
FairSpec == Spec /\ Fairness

-----------------------------------------------------------------------------
(* Properties *)

\* A counter shows every event once: its value is the number of events between
\* the reading that last cleared it and the last one it took, whatever clears
\* and updates overlapped and whatever latches failed.  A reading torn by a carry
\* between the registers of a pair is the exception; it is made good by the next
\* one, unless the value was cleared by it.
CountsEveryEventOnce ==
  \A m \in Counter :
    ~seen[m].torn /\ ~origin[m].torn
      => value[m] = (seen[m].at - origin[m].at) % Word

\* A counter goes back only when a filter that matches it clears it, or to mend
\* or make a torn reading.
CountersGoBackOnlyWhenCleared ==
  [][\A m \in Counter :
       value'[m] < value[m] =>
         \/ \E u \in Updater : owner = u /\ m \in filter[u] \ NeverClear
         \/ seen[m].torn \/ seen'[m].torn \/ origin[m].torn]_vars

\* Once the hardware is quiet, everything it counted shows, provided that the
\* driver does not fail for ever.
AllEventsShow ==
  []<>(valid /\ \E u \in Updater : pc[u] = "read") =>
    \A m \in Counter :
      <>[](origin[m].torn \/ value[m] = (events[m] - origin[m].at) % Word)

=============================================================================
