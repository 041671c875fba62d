--------------------------- MODULE StatsBlockProofs ---------------------------
(***************************************************************************)
(* For any number of metrics and updaters and any width of the registers:  *)
(* the type of every variable of StatsBlock; that a counter shows every    *)
(* event once, whatever overlaps and whatever latches fail; and that it    *)
(* goes back only when it is cleared.                                      *)
(*                                                                         *)
(* And of the arrays of bits that say which values of a block a Clear is   *)
(* for: a BitArray of n bits is a set of numbers below n, whatever the     *)
(* width of its words; each operation that the filters use does to the set *)
(* what its name says, and keeps the bits past the end at 0.               *)
(***************************************************************************)
EXTENDS StatsBlock, BitArray, TLAPS

\* The two registers of a pair make a word, whenever each was read.
LEMMA PairIsWord ==
  ASSUME NEW hi \in Count, NEW lo \in Count
  PROVE  (hi \div Half) * Half + (lo % Half) \in Count
<1> DEFINE top == hi \div Half
           low == lo % Half
<1>1. Half \in Nat /\ Half > 1
  BY StatsBlockAssumption
<1>2. hi \in Nat /\ lo \in Nat /\ hi < Half * Half
  BY <1>1 DEF Count, Word
<1>3. top \in Nat /\ top * Half <= hi
  BY <1>1, <1>2
<1>4. low \in 0 .. Half - 1
  BY <1>1, <1>2
<1>5. top <= Half - 1
  <2>1. SUFFICES ASSUME top >= Half PROVE FALSE
    BY <1>1, <1>3
  <2>2. top * Half >= Half * Half
    BY <1>1, <1>3, <2>1
  <2>3. QED
    BY <1>1, <1>2, <1>3, <2>2
<1>6. top * Half <= (Half - 1) * Half
  BY <1>1, <1>3, <1>5
<1>7. (Half - 1) * Half + (Half - 1) = Half * Half - 1
  BY <1>1
<1>8. QED
  BY <1>1, <1>3, <1>4, <1>6, <1>7 DEF Count, Word

-----------------------------------------------------------------------------
\* A register holds no more than what was counted, so that it does not overflow.
TypeInv ==
  /\ TypeOK
  /\ \A m \in Counter \cup Flag : live[m] <= events[m] /\ events[m] <= MaxEvents
  /\ \A m \in Metric \ (Counter \cup Flag) : live[m] \in {0, 1}

LEMMA WordFacts ==
  /\ Word \in Nat /\ Word > 1 /\ MaxEvents \in Nat /\ MaxEvents < Word
  /\ Count \subseteq Nat /\ {0, 1} \subseteq Count
<1>1. Half \in Nat /\ Half > 1
  BY StatsBlockAssumption
<1>2. Half * Half \in Nat /\ Half * Half > 1
  BY <1>1
<1>3. QED
  BY <1>2, StatsBlockAssumption DEF Word, Count

LEMMA TypeInit == Init => TypeInv
<1> SUFFICES ASSUME Init PROVE TypeInv
  OBVIOUS
<1>1. 0 \in Count /\ 1 \in Metric /\ Start \in Mark /\ MaxEvents >= 0
  BY WordFacts, StatsBlockAssumption DEF Metric, Start, Mark
<1>2. Counter \cup Flag \subseteq Metric
  BY StatsBlockAssumption
<1>3. TypeOK
  BY <1>1 DEF Init, TypeOK, PC
<1>4. QED
  BY <1>1, <1>2, <1>3 DEF Init, TypeInv

\* What a reading makes of a value.
LEMMA NewValueTyped ==
  ASSUME TypeOK, NEW u \in Updater
  PROVE  NewValue(u, cur[u]) \in Count
<1> DEFINE m == cur[u]
<1>1. m \in Metric /\ value[m] \in Count /\ last[m] \in Count /\ sample[u] \in Count
  BY DEF TypeOK
<1>2. Word \in Nat /\ Word > 1 /\ Count = 0 .. Word - 1
  BY WordFacts DEF Count
<1> HIDE DEF m
<1>3. (value[m] + sample[u]) % Word \in Count
  BY <1>1, <1>2
<1>4. (value[m] + sample[u] - last[m]) % Word \in Count
  BY <1>1, <1>2
<1>5. 0 \in Count /\ 1 \in Count
  BY <1>2
<1>6. NewValue(u, m) \in Count
  BY <1>1, <1>3, <1>4, <1>5 DEF NewValue
<1>7. QED
  BY <1>6 DEF m

LEMMA TypeNext == TypeInv /\ [Next]_vars => TypeInv'
<1> SUFFICES ASSUME TypeInv, [Next]_vars PROVE TypeInv'
  OBVIOUS
<1> TypeOK
  BY DEF TypeInv
<1>0. Counter \cup Flag \subseteq Metric /\ 0 \in Count /\ 1 \in Count
  BY StatsBlockAssumption, WordFacts
<1>1. ASSUME NEW m \in Metric, Event(m) PROVE TypeInv'
  <2>1. live[m] \in Count /\ events[m] \in Count /\ live[m] <= events[m]
        /\ events[m] < MaxEvents
    BY <1>1 DEF Event, TypeInv, TypeOK
  <2>2. live[m] + 1 \in Count /\ events[m] + 1 \in Count
    BY <2>1, WordFacts DEF Count
  <2>3. live' = [live EXCEPT ![m] = live[m] + 1]
        /\ events' = [events EXCEPT ![m] = events[m] + 1]
    BY <1>1 DEF Event
  <2>4. live' \in [Metric -> Count] /\ events' \in [Metric -> Count]
    BY <2>2, <2>3 DEF TypeOK
  <2>5. TypeOK'
    BY <1>1, <2>4 DEF Event, TypeOK, valueVars, updaterVars
  <2>6. ASSUME NEW k \in Counter \cup Flag
        PROVE  live'[k] <= events'[k] /\ events'[k] <= MaxEvents
    <3>1. CASE k = m
      <4>1. live'[k] = live[m] + 1 /\ events'[k] = events[m] + 1
        BY <2>3, <3>1 DEF TypeOK
      <4>2. QED
        BY <2>1, <4>1, WordFacts DEF Count
    <3>2. CASE k # m
      BY <1>0, <2>3, <3>2 DEF TypeInv, TypeOK
    <3>3. QED
      BY <3>1, <3>2
  <2>7. m \in Counter \cup Flag
    BY <1>1 DEF Event
  <2>8. \A k \in Metric \ (Counter \cup Flag) : live'[k] \in {0, 1}
    BY <2>3, <2>7 DEF TypeInv, TypeOK
  <2>9. QED
    BY <2>5, <2>6, <2>8 DEF TypeInv
<1>2. ASSUME NEW m \in Metric, Level(m) PROVE TypeInv'
  <2>1. live[m] \in {0, 1}
    BY <1>2 DEF Level, TypeInv
  <2>2. 1 - live[m] \in {0, 1}
    BY <2>1
  <2>3. live' = [live EXCEPT ![m] = 1 - live[m]]
    BY <1>2 DEF Level
  <2>4. live' \in [Metric -> Count]
    BY <1>0, <2>2, <2>3 DEF TypeOK
  <2>5. TypeOK'
    BY <1>2, <2>4 DEF Level, TypeOK, valueVars, updaterVars
  <2>6. \A k \in Metric : k # m => live'[k] = live[k]
    BY <2>3 DEF TypeOK
  <2>7. live'[m] \in {0, 1}
    BY <2>2, <2>3 DEF TypeOK
  <2>8. QED
    BY <1>0, <1>2, <2>5, <2>6, <2>7 DEF Level, TypeInv
<1>3. ASSUME NEW u \in Updater, Begin(u) PROVE TypeInv'
  <2>1. 1 \in Metric
    BY StatsBlockAssumption DEF Metric
  <2>2. filter' \in [Updater -> SUBSET Metric]
    BY <1>3 DEF Begin, TypeOK
  <2>3. QED
    BY <1>3, <2>1, <2>2 DEF Begin, TypeInv, TypeOK, PC, hwVars, valueVars
<1>4. ASSUME NEW u \in Updater, Latch(u) PROVE TypeInv'
  <2>1. CASE valid'
    <3>1. latch' = [m \in Metric |-> IF m \in ClearOnRead THEN live[m] ELSE latch[m]]
      BY <1>4, <2>1 DEF Latch
    <3>2. live' = [m \in Metric |-> IF m \in ClearOnRead THEN 0 ELSE live[m]]
      BY <1>4, <2>1 DEF Latch
    <3>3. mark' = [m \in Metric |-> IF m \in ClearOnRead
                                    THEN [at |-> events[m], torn |-> FALSE] ELSE mark[m]]
      BY <1>4, <2>1 DEF Latch
    <3>4. latch' \in [Metric -> Count] /\ live' \in [Metric -> Count]
      BY <1>0, <3>1, <3>2 DEF TypeOK
    <3>5. mark' \in [Metric -> Mark]
      BY <3>3 DEF TypeOK, Mark
    <3>6. pc' \in [Updater -> PC] /\ valid' \in BOOLEAN
      BY <1>4 DEF Latch, TypeOK, PC
    <3>7. TypeOK'
      BY <1>4, <3>4, <3>5, <3>6 DEF Latch, TypeOK, valueVars
    <3>8. events' = events
      BY <1>4 DEF Latch
    <3>9. ASSUME NEW k \in Counter \cup Flag
          PROVE  live'[k] <= events'[k] /\ events'[k] <= MaxEvents
      <4>1. events[k] \in Count /\ live[k] <= events[k] /\ events[k] <= MaxEvents
        BY <1>0 DEF TypeInv, TypeOK
      <4>2. live'[k] = 0 \/ live'[k] = live[k]
        BY <1>0, <3>2
      <4>3. QED
        BY <3>8, <4>1, <4>2, WordFacts DEF Count
    <3>10. \A k \in Metric \ (Counter \cup Flag) : live'[k] \in {0, 1}
      BY <3>2 DEF TypeInv
    <3>11. QED
      BY <3>7, <3>9, <3>10 DEF TypeInv
  <2>2. CASE ~valid'
    BY <1>4, <2>2 DEF Latch, TypeInv, TypeOK, PC, valueVars
  <2>3. QED
    BY <2>1, <2>2
<1>5. ASSUME NEW u \in Updater, Read(u) PROVE TypeInv'
  <2>1. cur[u] \in Metric
    BY DEF TypeOK
  <2>2. sample' \in [Updater -> Count]
    BY <1>0, <1>5, <2>1 DEF Read, TypeOK
  <2>3. QED
    BY <1>5, <2>2 DEF Read, TypeInv, TypeOK, PC, hwVars, valueVars
<1>6. ASSUME NEW u \in Updater, ReadFirst(u) PROVE TypeInv'
  <2>1. live[cur[u]] \in Count
    BY DEF TypeOK
  <2>2. first' \in [Updater -> [low : BOOLEAN, word : Count]]
    BY <1>6, <2>1 DEF ReadFirst, TypeOK
  <2>3. QED
    BY <1>6, <2>2 DEF ReadFirst, TypeInv, TypeOK, PC, hwVars, valueVars
<1>7. ASSUME NEW u \in Updater, ReadRest(u) PROVE TypeInv'
  <2> DEFINE m  == cur[u]
             lo == IF first[u].low THEN first[u].word ELSE live[m]
             hi == IF first[u].low THEN live[m] ELSE first[u].word
             full == (hi \div Half) * Half + (lo % Half)
             to == [at |-> lo, torn |-> lo \div Half # hi \div Half]
  <2>1. m \in Metric /\ lo \in Count /\ hi \in Count
    BY DEF TypeOK
  <2>2. sample' = [sample EXCEPT ![u] = full] /\ mark' = [mark EXCEPT ![m] = to]
    BY <1>7 DEF ReadRest
  <2>3. to \in Mark
    BY <2>1 DEF Mark
  <2> HIDE DEF m, lo, hi
  <2>4. full \in Count
    BY <2>1, PairIsWord
  <2> HIDE DEF full, to
  <2>5. sample' \in [Updater -> Count] /\ mark' \in [Metric -> Mark]
    BY <2>2, <2>3, <2>4 DEF TypeOK
  <2>6. QED
    BY <1>7, <2>5 DEF ReadRest, TypeInv, TypeOK, PC, hwVars, valueVars
<1>8. ASSUME NEW u \in Updater, Apply(u) PROVE TypeInv'
  <2> DEFINE m == cur[u]
             new == NewValue(u, m)
  <2>1. m \in Metric /\ new \in Count /\ sample[u] \in Count /\ mark[m] \in Mark
    BY NewValueTyped DEF TypeOK
  <2>2. value' = [value EXCEPT ![m] = IF DoClear(u) THEN 0 ELSE new]
    BY <1>8 DEF Apply
  <2> HIDE DEF new
  <2>3. value' \in [Metric -> Count]
    BY <1>0, <2>1, <2>2 DEF TypeOK
  <2>4. last' \in [Metric -> Count]
    BY <1>8, <2>1 DEF Apply, TypeOK
  <2>5. seen' \in [Metric -> Mark] /\ origin' \in [Metric -> Mark]
    BY <1>8, <2>1 DEF Apply, TypeOK
  <2>6. cur' \in [Updater -> Metric] /\ pc' \in [Updater -> PC]
    <3>1. CASE m = NMetrics
      BY <1>8, <3>1 DEF Apply, TypeOK, PC
    <3>2. CASE m # NMetrics
      <4>1. m + 1 \in Metric
        BY <2>1, <3>2, StatsBlockAssumption DEF Metric
      <4>2. QED
        BY <1>8, <3>2, <4>1 DEF Apply, TypeOK, PC
    <3>3. QED
      BY <3>1, <3>2
  <2>7. QED
    BY <1>8, <2>3, <2>4, <2>5, <2>6 DEF Apply, TypeInv, TypeOK, hwVars
<1>9. ASSUME NEW u \in Updater, Release(u) PROVE TypeInv'
  BY <1>0, <1>9 DEF Release, TypeInv, TypeOK, PC, hwVars, valueVars
<1>10. CASE UNCHANGED vars
  BY <1>10 DEF vars, hwVars, valueVars, updaterVars, TypeInv, TypeOK
<1>11. QED
  BY <1>1, <1>2, <1>3, <1>4, <1>5, <1>6, <1>7, <1>8, <1>9, <1>10 DEF Next, Continue

\* Type correctness of a block: no value, sample or register overflows its width.
THEOREM TypeCorrect == Spec => []TypeOK
<1>1. TypeInv => TypeOK
  BY DEF TypeInv
<1>2. QED
  BY <1>1, TypeInit, TypeNext, PTL DEF Spec

-----------------------------------------------------------------------------
(* Each event is counted once *)

Latched == Counter \cap ClearOnRead

\* Updater u has latched metric m and is not done with it.
Behind(u, m) == pc[u] \in {"read", "rest", "apply"} /\ cur[u] <= m

\* The mutex keeps all but one updater out, which begins at the first metric.
OneUpdater ==
  \A u \in Updater : /\ pc[u] # "idle" => owner = u
                     /\ pc[u] = "latch" => cur[u] = 1
                     /\ pc[u] = "rest" => cur[u] \in Paired

\* A latched counter: what is counted is in the register, or latched, or in the
\* value; the latched part only until the updater gets there.
LatchedCounts ==
  \A m \in Latched :
    /\ ~mark[m].torn /\ ~seen[m].torn /\ ~origin[m].torn
    /\ mark[m].at + live[m] = events[m]
    /\ value[m] = (seen[m].at - origin[m].at) % Word
    /\ IF valid /\ \E u \in Updater : Behind(u, m)
       THEN seen[m].at + latch[m] = mark[m].at
       ELSE seen[m] = mark[m]

LatchedSample ==
  \A u \in Updater :
    pc[u] = "apply" /\ cur[u] \in Latched =>
      sample[u] = IF valid THEN latch[cur[u]] ELSE 0

\* A pair of registers: the value is the last reading less the one that cleared
\* it, and both are what was counted unless they were torn.
Base(m, b) == /\ value[m] = (last[m] - b) % Word
              /\ ~origin[m].torn => b = origin[m].at

PairedCounts ==
  \A m \in Paired :
    /\ ~seen[m].torn => last[m] = seen[m].at
    /\ \E b \in Count : Base(m, b)

PairedSample ==
  \A u \in Updater :
    pc[u] = "apply" /\ cur[u] \in Paired /\ ~mark[cur[u]].torn =>
      sample[u] = mark[cur[u]].at

CountInv ==
  /\ TypeInv /\ OneUpdater
  /\ LatchedCounts /\ LatchedSample /\ PairedCounts /\ PairedSample

\* Two differences make one, in the arithmetic of a word.
LEMMA Differences ==
  ASSUME NEW a \in Count, NEW b \in Count, NEW c \in Count
  PROVE  (((a - b) % Word) + c - a) % Word = (c - b) % Word
<1>1. Word \in Nat /\ Word > 0 /\ Count = 0 .. Word - 1
  BY WordFacts DEF Count
<1>2. QED
  BY <1>1

LEMMA Kinds ==
  /\ Latched \subseteq Metric /\ Paired \subseteq Metric
  /\ Latched \cap Paired = {} /\ Counter = Latched \cup Paired
  BY StatsBlockAssumption DEF Latched, Paired

LEMMA CountInit == Init => CountInv
<1> SUFFICES ASSUME Init PROVE CountInv
  OBVIOUS
<1>1. TypeInv
  BY TypeInit
<1>2. 0 \in Count /\ Word \in Nat /\ Word > 1
  BY WordFacts
<1>3. (0 - 0) % Word = 0
  BY <1>2
<1>4. \A m \in Latched \cup Paired : m \in Metric
  BY Kinds
<1>5. OneUpdater /\ LatchedSample /\ PairedSample
  BY DEF Init, OneUpdater, LatchedSample, PairedSample
<1>6. LatchedCounts
  BY <1>3, <1>4 DEF Init, LatchedCounts, Behind, Start
<1>7. PairedCounts
  <2>1. ASSUME NEW m \in Paired PROVE ~seen[m].torn => last[m] = seen[m].at
    BY <1>4 DEF Init, Start
  <2>2. ASSUME NEW m \in Paired PROVE Base(m, 0)
    BY <1>3, <1>4 DEF Init, Start, Base
  <2>3. QED
    BY <1>2, <2>1, <2>2 DEF PairedCounts
<1>8. QED
  BY <1>1, <1>5, <1>6, <1>7 DEF CountInv

\* A reading of a pair that is not torn is what was counted.
LEMMA WholePair ==
  ASSUME NEW hi \in Count, NEW lo \in Count, lo \div Half = hi \div Half
  PROVE  (hi \div Half) * Half + (lo % Half) = lo
<1>1. Half \in Nat /\ Half > 0 /\ lo \in Nat
  BY StatsBlockAssumption, WordFacts
<1>2. (lo \div Half) * Half + (lo % Half) = lo
  BY <1>1
<1>3. QED
  BY <1>2

\* The reading of metric m reaches its value, and m is done with.
LEMMA ApplyCounts ==
  ASSUME CountInv, NEW u \in Updater, Apply(u), NEW m \in Counter, cur[u] = m
  PROVE  /\ m \in Latched => value'[m] = (seen'[m].at - origin'[m].at) % Word
         /\ m \in Paired => \E b \in Count : Base(m, b)'
         /\ m \in Paired => (~seen'[m].torn => last'[m] = seen'[m].at)
<1> USE DEF CountInv
<1>1. m \in Metric /\ TypeOK /\ m \notin Flag
  BY StatsBlockAssumption DEF TypeInv
<1>2. /\ mark[m].at \in Count /\ seen[m].at \in Count /\ origin[m].at \in Count
      /\ value[m] \in Count /\ last[m] \in Count /\ sample[u] \in Count
      /\ latch[m] \in Count
  BY <1>1 DEF TypeOK, Mark
<1>3. Word \in Nat /\ Word > 0 /\ Count = 0 .. Word - 1
  BY WordFacts DEF Count
<1>4. seen'[m] = mark[m] /\ origin'[m] = IF DoClear(u) THEN mark[m] ELSE origin[m]
  BY <1>1 DEF Apply, TypeOK
<1>5. value'[m] = IF DoClear(u) THEN 0 ELSE NewValue(u, m)
  BY <1>1 DEF Apply, TypeOK
<1>6. pc[u] = "apply"
  BY DEF Apply
<1>7. ASSUME m \in Latched
      PROVE  value'[m] = (seen'[m].at - origin'[m].at) % Word
  <2>1. CASE DoClear(u)
    <3>1. mark[m].at - mark[m].at = 0 /\ 0 % Word = 0
      BY <1>2, <1>3
    <3>2. QED
      BY <1>4, <1>5, <2>1, <3>1
  <2>2. CASE ~DoClear(u)
    <3>1. NewValue(u, m) = (value[m] + sample[u]) % Word
      BY <1>1, <1>7 DEF NewValue, Latched, Paired
    <3>2. value[m] = (seen[m].at - origin[m].at) % Word
      BY <1>7 DEF LatchedCounts
    <3>3. sample[u] = mark[m].at - seen[m].at
      <4>1. Behind(u, m)
        BY <1>1, <1>6 DEF Behind, Metric
      <4>2. CASE valid
        <5>1. seen[m].at + latch[m] = mark[m].at /\ sample[u] = latch[m]
          BY <1>6, <1>7, <4>1, <4>2 DEF LatchedCounts, LatchedSample
        <5>2. QED
          BY <1>2, <1>3, <5>1
      <4>3. CASE ~valid
        <5>1. seen[m] = mark[m] /\ sample[u] = 0
          BY <1>6, <1>7, <4>3 DEF LatchedCounts, LatchedSample
        <5>2. QED
          BY <1>2, <1>3, <5>1
      <4>4. QED
        BY <4>2, <4>3
    <3>4. value'[m] = (value[m] + (mark[m].at - seen[m].at)) % Word
      BY <1>5, <2>2, <3>1, <3>3
    <3>5. value[m] + (mark[m].at - seen[m].at) = value[m] + mark[m].at - seen[m].at
      BY <1>2, <1>3
    <3>6. (((seen[m].at - origin[m].at) % Word) + mark[m].at - seen[m].at) % Word
            = (mark[m].at - origin[m].at) % Word
      BY <1>2, Differences
    <3>7. QED
      BY <1>4, <2>2, <3>2, <3>4, <3>5, <3>6
  <2>3. QED
    BY <2>1, <2>2
<1>8. ASSUME m \in Paired
      PROVE  \E b \in Count : Base(m, b)'
  <2>1. last'[m] = sample[u]
    BY <1>1, <1>8 DEF Apply, TypeOK
  <2>2. ~mark[m].torn => sample[u] = mark[m].at
    BY <1>6, <1>8 DEF PairedSample
  <2>3. CASE DoClear(u)
    <3>1. sample[u] - sample[u] = 0 /\ 0 % Word = 0
      BY <1>2, <1>3
    <3>2. PICK b \in Count : b = sample[u]
      BY <1>2
    <3>3. Base(m, b)'
      BY <1>4, <1>5, <2>1, <2>2, <2>3, <3>1, <3>2 DEF Base
    <3>4. QED
      BY <3>3
  <2>4. CASE ~DoClear(u)
    <3>1. PICK b \in Count : Base(m, b)
      BY <1>8 DEF PairedCounts
    <3>2. value'[m] = (value[m] + sample[u] - last[m]) % Word
      <4>1. NewValue(u, m) = (value[m] + sample[u] - last[m]) % Word
        BY <1>1, <1>8 DEF NewValue, Paired
      <4>2. QED
        BY <1>5, <2>4, <4>1
    <3>3. value'[m] = (sample[u] - b) % Word
      BY <1>2, <3>1, <3>2, Differences DEF Base
    <3>4. Base(m, b)'
      BY <1>4, <2>1, <2>4, <3>1, <3>3 DEF Base
    <3>5. QED
      BY <3>4
  <2>5. QED
    BY <2>3, <2>4
<1>9. ASSUME m \in Paired
       PROVE  ~seen'[m].torn => last'[m] = seen'[m].at
  <2>1. last'[m] = sample[u]
    BY <1>1, <1>9 DEF Apply, TypeOK
  <2>2. QED
    BY <1>4, <1>6, <1>9, <2>1 DEF PairedSample
<1>10. QED
  BY <1>7, <1>8, <1>9

\* Whoever updates is alone.
LEMMA Alone ==
  ASSUME OneUpdater, NEW u \in Updater, pc[u] # "idle", NEW v \in Updater, v # u
  PROVE  pc[v] = "idle"
  BY DEF OneUpdater

LEMMA CountNext == CountInv /\ [Next]_vars => CountInv'
<1> SUFFICES ASSUME CountInv, [Next]_vars PROVE CountInv'
  OBVIOUS
<1>0. TypeInv /\ TypeOK /\ TypeInv' /\ TypeOK'
  BY TypeNext DEF CountInv, TypeInv
<1>k. /\ Latched \subseteq Metric /\ Paired \subseteq Metric
      /\ Latched \cap Paired = {} /\ Counter = Latched \cup Paired
  BY Kinds
<1>1. ASSUME NEW k \in Metric, Event(k) PROVE CountInv'
  <2>1. live' = [live EXCEPT ![k] = live[k] + 1] /\ events' = [events EXCEPT ![k] = events[k] + 1]
    BY <1>1 DEF Event
  <2>2. UNCHANGED <<latch, valid, valueVars, updaterVars, mark>>
    BY <1>1 DEF Event
  <2>3. ASSUME NEW m \in Latched PROVE mark[m].at + live'[m] = events'[m]
    <3>1. mark[m].at + live[m] = events[m] /\ m \in Metric
      BY <1>k DEF CountInv, LatchedCounts
    <3>2. mark[m].at \in Nat /\ live[m] \in Nat
      BY <1>0, <3>1, WordFacts DEF TypeOK, Mark
    <3>3. CASE m = k
      <4>1. live'[m] = live[m] + 1 /\ events'[m] = events[m] + 1
        BY <1>0, <2>1, <3>1, <3>3 DEF TypeOK
      <4>2. QED
        BY <3>1, <3>2, <4>1
    <3>4. CASE m # k
      BY <1>0, <2>1, <3>1, <3>4 DEF TypeOK
    <3>5. QED
      BY <3>3, <3>4
  <2>4. LatchedCounts'
    BY <2>2, <2>3 DEF CountInv, LatchedCounts, Behind, valueVars, updaterVars
  <2>5. PairedCounts'
    BY <2>2 DEF CountInv, PairedCounts, Base, valueVars
  <2>6. OneUpdater' /\ LatchedSample' /\ PairedSample'
    BY <2>2 DEF CountInv, OneUpdater, LatchedSample, PairedSample, updaterVars
  <2>7. QED
    BY <1>0, <2>4, <2>5, <2>6 DEF CountInv
<1>2. ASSUME NEW k \in Metric, Level(k) PROVE CountInv'
  <2>1. live' = [live EXCEPT ![k] = 1 - live[k]] /\ k \notin Counter
    BY <1>2 DEF Level
  <2>2. UNCHANGED <<latch, valid, valueVars, updaterVars, events, mark>>
    BY <1>2 DEF Level
  <2>3. \A m \in Latched : live'[m] = live[m]
    BY <1>0, <1>k, <2>1 DEF TypeOK
  <2>4. LatchedCounts'
    BY <2>2, <2>3 DEF CountInv, LatchedCounts, Behind, valueVars, updaterVars
  <2>5. PairedCounts'
    BY <2>2 DEF CountInv, PairedCounts, Base, valueVars
  <2>6. OneUpdater' /\ LatchedSample' /\ PairedSample'
    BY <2>2 DEF CountInv, OneUpdater, LatchedSample, PairedSample, updaterVars
  <2>7. QED
    BY <1>0, <2>4, <2>5, <2>6 DEF CountInv
<1>3. ASSUME NEW u \in Updater, Begin(u) PROVE CountInv'
  <2>1. UNCHANGED <<hwVars, valueVars, first, sample, events, mark>>
    BY <1>3 DEF Begin
  <2>2. pc' = [pc EXCEPT ![u] = "latch"] /\ cur' = [cur EXCEPT ![u] = 1] /\ owner' = u
        /\ owner = NoUpdater
    BY <1>3 DEF Begin
  <2>3. \A v \in Updater : pc[v] = "idle"
    BY <2>2, StatsBlockAssumption DEF CountInv, OneUpdater
  <2>4. \A v \in Updater : pc'[v] \in {"idle", "latch"} /\ (pc'[v] # "idle" => v = u)
    BY <1>0, <2>2, <2>3 DEF TypeOK
  <2>5. OneUpdater'
    BY <1>0, <2>2, <2>4 DEF OneUpdater, TypeOK
  <2>6. \A v \in Updater, m \in Metric : ~Behind(v, m) /\ ~Behind(v, m)'
    BY <2>3, <2>4 DEF Behind
  <2>7. LatchedCounts'
    BY <1>k, <2>1, <2>6 DEF CountInv, LatchedCounts, hwVars, valueVars
  <2>8. PairedCounts'
    BY <2>1 DEF CountInv, PairedCounts, Base, valueVars
  <2>9. LatchedSample' /\ PairedSample'
    BY <2>4 DEF LatchedSample, PairedSample
  <2>10. QED
    BY <1>0, <2>5, <2>7, <2>8, <2>9 DEF CountInv
<1>4. ASSUME NEW u \in Updater, Latch(u) PROVE CountInv'
  <2>1. UNCHANGED <<valueVars, owner, filter, cur, first, sample, events>>
    BY <1>4 DEF Latch
  <2>2. pc[u] = "latch" /\ pc' = [pc EXCEPT ![u] = "read"] /\ cur[u] = 1
    BY <1>4 DEF Latch, CountInv, OneUpdater
  <2>3. \A v \in Updater : v # u => pc[v] = "idle" /\ pc'[v] = "idle"
    BY <1>0, <2>2, Alone DEF CountInv, TypeOK
  <2>4. pc'[u] = "read"
    BY <1>0, <2>2 DEF TypeOK
  <2>5. \A v \in Updater, m \in Metric : ~Behind(v, m)
    BY <2>2, <2>3 DEF Behind
  <2>6. \A m \in Metric : Behind(u, m)'
    <3>1. \A m \in Metric : 1 <= m
      BY StatsBlockAssumption DEF Metric
    <3>2. QED
      BY <2>1, <2>2, <2>4, <3>1 DEF Behind
  <2>7. OneUpdater'
    BY <2>1, <2>2, <2>3, <2>4 DEF OneUpdater, CountInv
  <2>8. LatchedSample' /\ PairedSample'
    BY <2>3, <2>4 DEF LatchedSample, PairedSample
  <2>9. PairedCounts'
    BY <2>1 DEF CountInv, PairedCounts, Base, valueVars
  <2>10. ASSUME NEW m \in Latched
         PROVE  /\ ~mark'[m].torn
                /\ mark'[m].at + live'[m] = events'[m]
                /\ IF valid' THEN seen[m].at + latch'[m] = mark'[m].at
                   ELSE seen[m] = mark'[m]
    <3>1. m \in Metric /\ m \in ClearOnRead /\ seen[m] = mark[m] /\ ~mark[m].torn
          /\ mark[m].at + live[m] = events[m]
      BY <1>k, <2>5 DEF CountInv, LatchedCounts, Latched
    <3>2. CASE valid'
      <4>1. latch'[m] = live[m] /\ live'[m] = 0
            /\ mark'[m] = [at |-> events[m], torn |-> FALSE]
        BY <1>4, <3>1, <3>2 DEF Latch
      <4>2. events[m] \in Nat
        BY <1>0, <3>1, WordFacts DEF TypeOK
      <4>3. QED
        BY <2>1, <3>1, <3>2, <4>1, <4>2
    <3>3. CASE ~valid'
      BY <1>4, <2>1, <3>1, <3>3 DEF Latch
    <3>4. QED
      BY <3>2, <3>3
  <2>11. LatchedCounts'
    <3>1. ASSUME NEW m \in Latched
          PROVE  /\ ~seen[m].torn /\ ~origin[m].torn
                 /\ value[m] = (seen[m].at - origin[m].at) % Word
      BY DEF CountInv, LatchedCounts
    <3>2. \A m \in Latched : \E v \in Updater : Behind(v, m)'
      BY <1>k, <2>6
    <3>3. QED
      BY <2>1, <2>10, <3>1, <3>2 DEF LatchedCounts, valueVars
  <2>12. QED
    BY <1>0, <2>7, <2>8, <2>9, <2>11 DEF CountInv
\* The steps that only move on to the reading of a metric that u is at.
<1>5. ASSUME NEW u \in Updater, Read(u) \/ ReadFirst(u)
      PROVE  CountInv'
  <2>1. UNCHANGED <<hwVars, valueVars, owner, filter, cur, events, mark>>
    BY <1>5 DEF Read, ReadFirst
  <2>2. pc[u] = "read" /\ pc'[u] \in {"rest", "apply"}
    BY <1>0, <1>5 DEF Read, ReadFirst, TypeOK
  <2>3. \A v \in Updater : v # u => pc[v] = "idle" /\ pc'[v] = "idle"
    BY <1>0, <1>5, <2>2, Alone DEF CountInv, TypeOK, Read, ReadFirst
  <2>4. \A v \in Updater, m \in Metric : Behind(v, m)' <=> Behind(v, m)
    BY <2>1, <2>2, <2>3 DEF Behind
  <2>5. OneUpdater'
    <3>1. pc'[u] = "rest" => cur[u] \in Paired
      BY <1>0, <1>5 DEF Read, ReadFirst, TypeOK
    <3>2. QED
      BY <2>1, <2>2, <2>3, <3>1 DEF OneUpdater, CountInv
  <2>6. LatchedCounts'
    BY <1>k, <2>1, <2>4 DEF CountInv, LatchedCounts, hwVars, valueVars
  <2>7. PairedCounts'
    BY <2>1 DEF CountInv, PairedCounts, Base, valueVars
  <2>8. pc'[u] = "apply" => cur[u] \notin Paired
    BY <1>0, <1>5 DEF Read, ReadFirst, TypeOK
  <2>9. cur[u] \in Latched /\ pc'[u] = "apply"
          => sample'[u] = IF valid THEN latch[cur[u]] ELSE 0
    BY <1>0, <1>5 DEF Read, ReadFirst, TypeOK, Latched
  <2>10. LatchedSample'
    BY <2>1, <2>3, <2>9 DEF LatchedSample, hwVars
  <2>11. PairedSample'
    BY <2>1, <2>3, <2>8 DEF PairedSample
  <2>12. QED
    BY <1>0, <2>5, <2>6, <2>7, <2>10, <2>11 DEF CountInv
<1>6. ASSUME NEW u \in Updater, ReadRest(u) PROVE CountInv'
  <2> DEFINE lo == IF first[u].low THEN first[u].word ELSE live[cur[u]]
             hi == IF first[u].low THEN live[cur[u]] ELSE first[u].word
  <2>1. UNCHANGED <<hwVars, valueVars, owner, filter, cur, first, events>>
    BY <1>6 DEF ReadRest
  <2>2. pc[u] = "rest" /\ pc'[u] = "apply"
    BY <1>0, <1>6 DEF ReadRest, TypeOK
  <2>3. \A v \in Updater : v # u => pc[v] = "idle" /\ pc'[v] = "idle"
    BY <1>0, <1>6, <2>2, Alone DEF CountInv, TypeOK, ReadRest
  <2>4. \A v \in Updater, m \in Metric : Behind(v, m)' <=> Behind(v, m)
    BY <2>1, <2>2, <2>3 DEF Behind
  <2>5. OneUpdater'
    BY <2>1, <2>2, <2>3 DEF OneUpdater, CountInv
  <2>6. cur[u] \in Paired /\ cur[u] \in Metric
    BY <1>k, <2>2 DEF CountInv, OneUpdater
  <2>7. \A m \in Latched : mark'[m] = mark[m]
    BY <1>0, <1>6, <1>k, <2>6 DEF ReadRest, TypeOK
  <2>8. LatchedCounts'
    BY <1>k, <2>1, <2>4, <2>7 DEF CountInv, LatchedCounts, hwVars, valueVars
  <2>9. PairedCounts'
    BY <2>1 DEF CountInv, PairedCounts, Base, valueVars
  <2>10. LatchedSample'
    BY <1>k, <2>1, <2>3, <2>6 DEF LatchedSample
  <2>11. lo \in Count /\ hi \in Count
    BY <1>0, <2>6 DEF TypeOK
  <2>12. sample'[u] = (hi \div Half) * Half + (lo % Half)
    BY <1>0, <1>6 DEF ReadRest, TypeOK
  <2>13. mark'[cur[u]] = [at |-> lo, torn |-> lo \div Half # hi \div Half]
    BY <1>0, <1>6, <2>6 DEF ReadRest, TypeOK
  <2> HIDE DEF lo, hi
  <2>14. ~mark'[cur[u]].torn => sample'[u] = mark'[cur[u]].at
    <3>1. mark'[cur[u]].at = lo /\ mark'[cur[u]].torn = (lo \div Half # hi \div Half)
      <4>1. \A r, a, b : r = [at |-> a, torn |-> b] => r.at = a /\ r.torn = b
        OBVIOUS
      <4>2. QED
        BY <2>13, <4>1, Zenon
    <3>2. CASE lo \div Half = hi \div Half
      <4>1. (hi \div Half) * Half + (lo % Half) = lo
        BY <2>11, <3>2, WholePair
      <4>2. QED
        BY <2>12, <3>1, <4>1
    <3>3. CASE lo \div Half # hi \div Half
      BY <3>1, <3>3, Zenon
    <3>4. QED
      BY <3>2, <3>3, Zenon
  <2>15. PairedSample'
    BY <2>1, <2>3, <2>14 DEF PairedSample
  <2>16. QED
    BY <1>0, <2>5, <2>8, <2>9, <2>10, <2>15 DEF CountInv
<1>7. ASSUME NEW u \in Updater, Apply(u) PROVE CountInv'
  <2>1. UNCHANGED <<hwVars, owner, filter, first, sample, events, mark>>
    BY <1>7 DEF Apply
  <2>2. PICK k \in Metric : k = cur[u]
    BY <1>0 DEF TypeOK
  <2>3. pc[u] = "apply" /\ pc'[u] \in {"read", "release"}
    BY <1>0, <1>7 DEF Apply, TypeOK
  <2>4. \A v \in Updater : v # u => pc[v] = "idle" /\ pc'[v] = "idle"
    BY <1>0, <1>7, <2>3, Alone DEF CountInv, TypeOK, Apply
  <2>5. OneUpdater'
    BY <2>1, <2>3, <2>4 DEF OneUpdater, CountInv
  <2>6. LatchedSample' /\ PairedSample'
    BY <2>3, <2>4 DEF LatchedSample, PairedSample
  <2>7. \A m \in Metric \ {k} : /\ value'[m] = value[m] /\ last'[m] = last[m]
                                /\ seen'[m] = seen[m] /\ origin'[m] = origin[m]
    BY <1>0, <1>7, <2>2 DEF Apply, TypeOK
  <2>8. seen'[k] = mark[k] /\ (origin'[k] = mark[k] \/ origin'[k] = origin[k])
    BY <1>0, <1>7, <2>2 DEF Apply, TypeOK
  \* Only metric k leaves what u has latched and is not done with.
  <2>9. ASSUME NEW m \in Metric \ {k}
        PROVE  (\E v \in Updater : Behind(v, m)') <=> (\E v \in Updater : Behind(v, m))
    <3>1. Behind(u, m)' <=> Behind(u, m)
      <4>1. CASE k = NMetrics
        <5>1. pc'[u] = "release"
          BY <1>0, <1>7, <2>2, <4>1 DEF Apply, TypeOK
        <5>2. ~(k <= m)
          BY <4>1, StatsBlockAssumption DEF Metric
        <5>3. QED
          BY <2>2, <5>1, <5>2 DEF Behind
      <4>2. CASE k # NMetrics
        <5>1. pc'[u] = "read" /\ cur'[u] = k + 1
          BY <1>0, <1>7, <2>2, <4>2 DEF Apply, TypeOK
        <5>2. k <= m <=> k + 1 <= m
          BY StatsBlockAssumption DEF Metric
        <5>3. QED
          BY <2>2, <2>3, <5>1, <5>2 DEF Behind
      <4>3. QED
        BY <4>1, <4>2
    <3>2. \A v \in Updater : v # u => ~Behind(v, m) /\ ~Behind(v, m)'
      BY <2>4 DEF Behind
    <3>3. QED
      BY <3>1, <3>2
  <2>10. \A v \in Updater : ~Behind(v, k)'
    <3>1. pc'[u] = "read" => cur'[u] = k + 1
      BY <1>0, <1>7, <2>2 DEF Apply, TypeOK
    <3>2. ~(k + 1 <= k)
      BY StatsBlockAssumption DEF Metric
    <3>3. QED
      BY <2>3, <2>4, <3>1, <3>2 DEF Behind
  <2>11. LatchedCounts'
    <3>1. ASSUME NEW m \in Latched, m # k
          PROVE  /\ ~mark'[m].torn /\ ~seen'[m].torn /\ ~origin'[m].torn
                 /\ mark'[m].at + live'[m] = events'[m]
                 /\ value'[m] = (seen'[m].at - origin'[m].at) % Word
                 /\ IF valid' /\ \E v \in Updater : Behind(v, m)'
                    THEN seen'[m].at + latch'[m] = mark'[m].at
                    ELSE seen'[m] = mark'[m]
      BY <1>k, <2>1, <2>7, <2>9, <3>1 DEF CountInv, LatchedCounts, hwVars
    <3>2. ASSUME NEW m \in Latched, m = k
          PROVE  /\ ~mark'[m].torn /\ ~seen'[m].torn /\ ~origin'[m].torn
                 /\ mark'[m].at + live'[m] = events'[m]
                 /\ value'[m] = (seen'[m].at - origin'[m].at) % Word
                 /\ IF valid' /\ \E v \in Updater : Behind(v, m)'
                    THEN seen'[m].at + latch'[m] = mark'[m].at
                    ELSE seen'[m] = mark'[m]
      <4>1. value'[m] = (seen'[m].at - origin'[m].at) % Word
        BY <1>7, <1>k, <2>2, <3>2, ApplyCounts
      <4>2. ~mark[m].torn /\ ~origin[m].torn /\ mark[m].at + live[m] = events[m]
        BY DEF CountInv, LatchedCounts
      <4>3. QED
        BY <2>1, <2>8, <2>10, <3>2, <4>1, <4>2 DEF hwVars
    <3>3. QED
      BY <3>1, <3>2 DEF LatchedCounts
  <2>12. PairedCounts'
    <3>1. ASSUME NEW m \in Paired
          PROVE  /\ ~seen'[m].torn => last'[m] = seen'[m].at
                 /\ \E b \in Count : Base(m, b)'
      <4>1. CASE m = k
        BY <1>7, <1>k, <2>2, <4>1, ApplyCounts
      <4>2. CASE m # k
        <5>1. PICK b \in Count : Base(m, b)
          BY DEF CountInv, PairedCounts
        <5>2. Base(m, b)'
          BY <1>k, <2>7, <4>2, <5>1 DEF Base
        <5>3. QED
          BY <1>k, <2>7, <4>2, <5>2 DEF CountInv, PairedCounts
      <4>3. QED
        BY <4>1, <4>2
    <3>2. QED
      BY <3>1 DEF PairedCounts
  <2>13. QED
    BY <1>0, <2>5, <2>6, <2>11, <2>12 DEF CountInv
<1>8. ASSUME NEW u \in Updater, Release(u) PROVE CountInv'
  <2>1. UNCHANGED <<hwVars, valueVars, cur, events, mark>>
    BY <1>8 DEF Release
  <2>2. pc[u] = "release" /\ pc'[u] = "idle"
    BY <1>0, <1>8 DEF Release, TypeOK
  <2>3. \A v \in Updater : pc'[v] = "idle" /\ pc[v] \in {"idle", "release"}
    BY <1>0, <1>8, <2>2, Alone DEF CountInv, TypeOK, Release
  <2>4. \A v \in Updater, m \in Metric : ~Behind(v, m) /\ ~Behind(v, m)'
    BY <2>3 DEF Behind
  <2>5. OneUpdater' /\ LatchedSample' /\ PairedSample'
    BY <2>3 DEF OneUpdater, LatchedSample, PairedSample
  <2>6. LatchedCounts'
    BY <1>k, <2>1, <2>4 DEF CountInv, LatchedCounts, hwVars, valueVars
  <2>7. PairedCounts'
    BY <2>1 DEF CountInv, PairedCounts, Base, valueVars
  <2>8. QED
    BY <1>0, <2>5, <2>6, <2>7 DEF CountInv
<1>9. CASE UNCHANGED vars
  <2>1. UNCHANGED <<hwVars, valueVars, updaterVars, events, mark>>
    BY <1>9 DEF vars
  <2>2. LatchedCounts'
    BY <2>1 DEF CountInv, LatchedCounts, Behind, hwVars, valueVars, updaterVars
  <2>3. PairedCounts'
    BY <2>1 DEF CountInv, PairedCounts, Base, valueVars
  <2>4. OneUpdater' /\ LatchedSample' /\ PairedSample'
    BY <2>1 DEF CountInv, OneUpdater, LatchedSample, PairedSample, hwVars, updaterVars
  <2>5. QED
    BY <1>0, <2>2, <2>3, <2>4 DEF CountInv
<1>10. QED
  BY <1>1, <1>2, <1>3, <1>4, <1>5, <1>6, <1>7, <1>8, <1>9 DEF Next, Continue

LEMMA Counted == CountInv => CountsEveryEventOnce
<1> SUFFICES ASSUME CountInv, NEW m \in Counter, ~seen[m].torn, ~origin[m].torn
             PROVE  value[m] = (seen[m].at - origin[m].at) % Word
  BY DEF CountsEveryEventOnce
<1>1. CASE m \in Latched
  BY <1>1 DEF CountInv, LatchedCounts
<1>2. CASE m \in Paired
  BY <1>2 DEF CountInv, PairedCounts, Base
<1>3. QED
  BY <1>1, <1>2, Kinds

\* Whatever Clear RPCs overlap with updates and whatever latches fail, a counter
\* shows the events between the reading that cleared it and its last, unless one
\* of the two was torn.
THEOREM CountsOnce == Spec => []CountsEveryEventOnce
  BY Counted, CountInit, CountNext, PTL DEF Spec

-----------------------------------------------------------------------------
(* A counter goes back only when it is cleared.  That value[m] is what was  *)
(* counted since origin[m] says nothing of that yet: it is modulo a word,   *)
(* and the readings might come in another order than they were taken.       *)

\* The readings are taken, and reach the value, in the order of time.
InOrder ==
  /\ \A m \in Counter : /\ origin[m].at <= seen[m].at
                        /\ seen[m].at <= mark[m].at
  /\ \A m \in Paired : mark[m].at <= live[m]
  /\ \A u \in Updater :
       pc[u] = "rest" => /\ mark[cur[u]].at <= first[u].word
                         /\ first[u].word <= live[cur[u]]

OrderInv == CountInv /\ InOrder

LEMMA OrderInit == Init => OrderInv
<1> SUFFICES ASSUME Init PROVE OrderInv
  OBVIOUS
<1>1. \A m \in Counter : m \in Metric
  BY StatsBlockAssumption
<1>2. Start.at = 0
  BY DEF Start
<1>3. InOrder
  BY <1>1, <1>2, Kinds DEF Init, InOrder
<1>4. QED
  BY <1>3, CountInit DEF OrderInv

LEMMA OrderNext == OrderInv /\ [Next]_vars => OrderInv'
<1> SUFFICES ASSUME OrderInv, [Next]_vars PROVE InOrder'
  BY CountNext DEF OrderInv
<1> USE DEF OrderInv
<1>0. TypeInv /\ TypeOK /\ TypeInv' /\ TypeOK' /\ OneUpdater /\ OneUpdater'
  BY CountNext DEF CountInv, TypeInv
<1>k. /\ Latched \subseteq Metric /\ Paired \subseteq Metric
      /\ Latched \cap Paired = {} /\ Counter = Latched \cup Paired
  BY Kinds
<1>n. \A m \in Metric : /\ live[m] \in Nat /\ events[m] \in Nat /\ mark[m].at \in Nat
                        /\ seen[m].at \in Nat /\ origin[m].at \in Nat
  BY <1>0, WordFacts DEF TypeOK, Mark
<1>f. \A u \in Updater : first[u].word \in Nat /\ cur[u] \in Metric
  BY <1>0, WordFacts DEF TypeOK
<1>1. ASSUME NEW k \in Metric, Event(k) PROVE InOrder'
  <2>1. live' = [live EXCEPT ![k] = live[k] + 1]
    BY <1>1 DEF Event
  <2>2. UNCHANGED <<valueVars, updaterVars, mark>>
    BY <1>1 DEF Event
  <2>3. \A m \in Metric : live'[m] \in Nat /\ live[m] <= live'[m]
    BY <1>0, <1>n, <2>1 DEF TypeOK
  <2>4. \A m \in Paired : mark[m].at <= live'[m]
    BY <1>k, <1>n, <2>3 DEF InOrder
  <2>5. \A u \in Updater : pc[u] = "rest" => first[u].word <= live'[cur[u]]
    BY <1>f, <1>n, <2>3 DEF InOrder
  <2>6. QED
    BY <2>2, <2>4, <2>5 DEF InOrder, valueVars, updaterVars
<1>2. ASSUME NEW k \in Metric, Level(k) PROVE InOrder'
  <2>1. live' = [live EXCEPT ![k] = 1 - live[k]] /\ k \notin Counter
    BY <1>2 DEF Level
  <2>2. UNCHANGED <<valueVars, updaterVars, mark>>
    BY <1>2 DEF Level
  <2>3. \A m \in Paired : live'[m] = live[m]
    BY <1>0, <1>k, <2>1 DEF TypeOK
  <2>4. \A u \in Updater : pc[u] = "rest" => cur[u] \in Paired
    BY <1>0 DEF OneUpdater
  <2>5. QED
    BY <2>2, <2>3, <2>4 DEF InOrder, valueVars, updaterVars
\* The steps that touch neither a reading nor a register.
<1>3. ASSUME NEW u \in Updater, Begin(u) \/ Read(u) \/ Release(u) PROVE InOrder'
  <2>1. UNCHANGED <<hwVars, valueVars, mark>>
    BY <1>3 DEF Begin, Read, Release
  <2>2. ASSUME NEW v \in Updater, pc'[v] = "rest"
        PROVE  pc[v] = "rest" /\ cur'[v] = cur[v] /\ first'[v] = first[v]
    <3>1. v # u
      BY <1>0, <1>3, <2>2 DEF Begin, Read, Release, TypeOK
    <3>2. QED
      BY <1>0, <1>3, <2>2, <3>1 DEF Begin, Read, Release, TypeOK
  <2>3. QED
    BY <2>1, <2>2 DEF InOrder, hwVars, valueVars
<1>4. ASSUME NEW u \in Updater, Latch(u) PROVE InOrder'
  <2>1. UNCHANGED <<valueVars, cur, first>>
    BY <1>4 DEF Latch
  <2>2. pc[u] = "latch" /\ pc' = [pc EXCEPT ![u] = "read"]
    BY <1>4 DEF Latch
  <2>3. \A v \in Updater : pc'[v] # "rest"
    BY <1>0, <2>2, Alone DEF TypeOK
  <2>4. \A m \in Paired : live'[m] = live[m] /\ mark'[m] = mark[m]
    <3>1. \A m \in Paired : m \in Metric /\ m \notin ClearOnRead
      BY <1>k DEF Paired
    <3>2. CASE valid'
      BY <1>4, <3>1, <3>2 DEF Latch
    <3>3. CASE ~valid'
      BY <1>4, <3>3 DEF Latch
    <3>4. QED
      BY <3>2, <3>3
  \* A latch is of all that was counted so far.
  <2>5. \A m \in Latched : mark[m].at <= mark'[m].at /\ mark'[m].at \in Nat
    <3>1. \A m \in Latched : m \in Metric /\ m \in ClearOnRead
      BY <1>k DEF Latched
    <3>2. \A m \in Latched : mark[m].at <= events[m]
      BY <1>n, <3>1 DEF CountInv, LatchedCounts
    <3>3. CASE valid'
      <4>1. \A m \in Latched : mark'[m] = [at |-> events[m], torn |-> FALSE]
        BY <1>4, <3>1, <3>3 DEF Latch
      <4>2. \A m \in Latched : mark'[m].at = events[m]
        <5>1. \A r, a, b : r = [at |-> a, torn |-> b] => r.at = a
          OBVIOUS
        <5>2. QED
          BY <4>1, <5>1, Zenon
      <4>3. QED
        BY <1>n, <3>1, <3>2, <4>2
    <3>4. CASE ~valid'
      <4>1. mark' = mark
        BY <1>4, <3>4 DEF Latch
      <4>2. QED
        BY <1>n, <3>1, <4>1
    <3>5. QED
      BY <3>3, <3>4
  <2>6. \A m \in Counter : seen[m].at <= mark'[m].at
    <3>1. \A m \in Latched : seen[m].at <= mark'[m].at
      <4>1. \A m \in Latched : seen[m].at <= mark[m].at /\ m \in Metric
        BY <1>k DEF InOrder
      <4>2. QED
        BY <1>n, <2>5, <4>1
    <3>2. \A m \in Paired : seen[m].at <= mark'[m].at
      BY <1>k, <2>4 DEF InOrder
    <3>3. QED
      BY <1>k, <3>1, <3>2
  <2>7. \A m \in Counter : origin'[m].at <= seen'[m].at /\ seen'[m] = seen[m]
    BY <2>1 DEF InOrder, valueVars
  <2>8. \A m \in Paired : mark'[m].at <= live'[m]
    BY <2>4 DEF InOrder
  <2>9. QED
    BY <2>3, <2>6, <2>7, <2>8 DEF InOrder
<1>5. ASSUME NEW u \in Updater, ReadFirst(u) PROVE InOrder'
  <2>1. UNCHANGED <<hwVars, valueVars, cur, mark>>
    BY <1>5 DEF ReadFirst
  <2>2. cur[u] \in Paired /\ first'[u].word = live[cur[u]]
    BY <1>0, <1>5 DEF ReadFirst, TypeOK
  <2>3. ASSUME NEW v \in Updater, pc'[v] = "rest"
        PROVE  /\ mark[cur[v]].at <= first'[v].word
               /\ first'[v].word <= live[cur[v]]
    <3>1. CASE v = u
      BY <1>k, <1>n, <2>2, <3>1 DEF InOrder
    <3>2. CASE v # u
      <4>1. pc[v] = "rest" /\ first'[v] = first[v]
        BY <1>0, <1>5, <2>3, <3>2 DEF ReadFirst, TypeOK
      <4>2. QED
        BY <4>1 DEF InOrder
    <3>3. QED
      BY <3>1, <3>2
  <2>4. QED
    BY <2>1, <2>3 DEF InOrder, hwVars, valueVars
<1>6. ASSUME NEW u \in Updater, ReadRest(u) PROVE InOrder'
  <2>1. UNCHANGED <<hwVars, valueVars, cur, first>>
    BY <1>6 DEF ReadRest
  <2>2. pc[u] = "rest" /\ pc' = [pc EXCEPT ![u] = "apply"]
    BY <1>6 DEF ReadRest
  <2>3. PICK k \in Paired : k = cur[u]
    BY <1>0, <2>2 DEF OneUpdater
  <2>4. \A v \in Updater : pc'[v] # "rest"
    BY <1>0, <2>2, Alone DEF TypeOK
  \* The word that makes the reading was read no earlier than the reading before
  \* it, whichever of the two came first.
  <2>5. mark[k].at <= mark'[k].at /\ mark'[k].at <= live[k] /\ mark'[k].at \in Nat
    <3> DEFINE lo == IF first[u].low THEN first[u].word ELSE live[k]
    <3>1. mark'[k].at = lo
      BY <1>0, <1>6, <1>k, <2>3 DEF ReadRest, TypeOK
    <3>2. mark[k].at <= first[u].word /\ first[u].word <= live[k] /\ mark[k].at <= live[k]
      BY <2>2, <2>3 DEF InOrder
    <3>3. mark[k].at \in Nat /\ live[k] \in Nat /\ first[u].word \in Nat
      BY <1>k, <1>n, <1>f
    <3>4. QED
      BY <3>1, <3>2, <3>3
  <2>6. \A m \in Metric \ {k} : mark'[m] = mark[m]
    BY <1>0, <1>6, <2>3 DEF ReadRest, TypeOK
  <2>7. ASSUME NEW m \in Counter PROVE seen[m].at <= mark'[m].at
    <3>1. seen[m].at <= mark[m].at /\ m \in Metric
      BY <1>k DEF InOrder
    <3>2. CASE m = k
      BY <1>n, <2>5, <3>1, <3>2
    <3>3. CASE m # k
      BY <2>6, <3>1, <3>3
    <3>4. QED
      BY <3>2, <3>3
  <2>8. ASSUME NEW m \in Paired PROVE mark'[m].at <= live[m]
    <3>1. CASE m = k
      BY <2>5, <3>1
    <3>2. CASE m # k
      BY <1>k, <2>6, <3>2 DEF InOrder
    <3>3. QED
      BY <3>1, <3>2
  <2>9. QED
    BY <2>1, <2>4, <2>7, <2>8 DEF InOrder, hwVars, valueVars
<1>7. ASSUME NEW u \in Updater, Apply(u) PROVE InOrder'
  <2>1. UNCHANGED <<hwVars, first, mark>>
    BY <1>7 DEF Apply
  <2>2. PICK k \in Metric : k = cur[u]
    BY <1>f
  <2>3. pc[u] = "apply" /\ pc'[u] \in {"read", "release"}
    BY <1>0, <1>7 DEF Apply, TypeOK
  <2>4. \A v \in Updater : pc'[v] # "rest"
    <3>1. \A v \in Updater : v # u => pc[v] = "idle" /\ pc'[v] = pc[v]
      <4>1. \A v \in Updater : v # u => pc'[v] = pc[v]
        BY <1>0, <1>7 DEF Apply, TypeOK
      <4>2. \A v \in Updater : v # u => pc[v] = "idle"
        BY <1>0, <2>3, Alone
      <4>3. QED
        BY <4>1, <4>2
    <3>2. QED
      BY <2>3, <3>1
  <2>5. \A m \in Metric \ {k} : seen'[m] = seen[m] /\ origin'[m] = origin[m]
    BY <1>0, <1>7, <2>2 DEF Apply, TypeOK
  <2>6. seen'[k] = mark[k] /\ (origin'[k] = mark[k] \/ origin'[k] = origin[k])
    BY <1>0, <1>7, <2>2 DEF Apply, TypeOK
  <2>7. ASSUME NEW m \in Counter
        PROVE  origin'[m].at <= seen'[m].at /\ seen'[m].at <= mark[m].at
    <3>1. origin[m].at <= seen[m].at /\ seen[m].at <= mark[m].at /\ m \in Metric
      BY <1>k DEF InOrder
    <3>2. CASE m = k
      <4>1. origin[k].at <= mark[k].at /\ mark[k].at <= mark[k].at
        BY <1>n, <3>1, <3>2
      <4>2. QED
        BY <2>6, <3>2, <4>1
    <3>3. CASE m # k
      BY <2>5, <3>1, <3>3
    <3>4. QED
      BY <3>2, <3>3
  <2>8. QED
    BY <2>1, <2>4, <2>7 DEF InOrder, hwVars
<1>8. CASE UNCHANGED vars
  BY <1>8 DEF InOrder, vars, hwVars, valueVars, updaterVars
<1>9. QED
  BY <1>1, <1>2, <1>3, <1>4, <1>5, <1>6, <1>7, <1>8 DEF Next, Continue

\* What fits in a word is not changed by taking it modulo a word.
LEMMA Fits ==
  ASSUME NEW a \in Count, NEW b \in Count, b <= a
  PROVE  (a - b) % Word = a - b
<1>1. Word \in Nat /\ Word > 0 /\ Count = 0 .. Word - 1
  BY WordFacts DEF Count
<1>2. a - b \in 0 .. Word - 1
  BY <1>1
<1>3. QED
  BY <1>1, <1>2

\* Whatever Clear RPCs overlap with updates and whatever latches fail, no reader
\* sees a counter go back, unless a filter that matches it clears it or one of the
\* readings of the pair was torn.
THEOREM CountersOnlyGrow == Spec => CountersGoBackOnlyWhenCleared
<1> DEFINE Justified(m) ==
             \/ \E u \in Updater : owner = u /\ m \in filter[u] \ NeverClear
             \/ seen[m].torn \/ seen'[m].torn \/ origin[m].torn
           Back == \A m \in Counter : value'[m] < value[m] => Justified(m)
<1>1. ASSUME OrderInv, [Next]_vars PROVE [Back]_vars
  <2>0. CountInv /\ InOrder /\ CountInv' /\ InOrder'
    BY <1>1, OrderNext DEF OrderInv
  <2>1. TypeOK /\ TypeOK' /\ OneUpdater /\ Counter \subseteq Metric
    BY <2>0, StatsBlockAssumption DEF CountInv, TypeInv
  <2>2. ASSUME NEW m \in Counter, value'[m] < value[m] PROVE Justified(m)
    <3>1. value[m] \in Nat /\ value'[m] \in Nat /\ value'[m] # value[m] /\ m \in Metric
      <4>1. value[m] \in Nat /\ value'[m] \in Nat /\ m \in Metric
        BY <2>1, WordFacts DEF TypeOK
      <4>2. QED
        BY <2>2, <4>1
    <3>2. PICK u \in Updater : Apply(u)
      <4>1. ~UNCHANGED value
        BY <3>1
      <4>2. QED
        BY <1>1, <4>1 DEF Next, Continue, Event, Level, Begin, Latch, Read, ReadFirst,
                          ReadRest, Release, vars, valueVars
    <3>3. m = cur[u]
      BY <2>1, <3>1, <3>2 DEF Apply, TypeOK
    <3>4. CASE DoClear(u)
      <4>1. owner = u
        BY <2>1, <3>2 DEF OneUpdater, Apply
      <4>2. m \in filter[u] \ NeverClear
        BY <3>3, <3>4 DEF DoClear
      <4>3. QED
        BY <4>1, <4>2
    <3>5. CASE ~DoClear(u)
      <4>1. SUFFICES ASSUME ~seen[m].torn, ~seen'[m].torn, ~origin[m].torn PROVE FALSE
        OBVIOUS
      <4>2. seen'[m] = mark[m] /\ origin'[m] = origin[m]
        BY <2>1, <3>1, <3>2, <3>3, <3>5 DEF Apply, TypeOK
      <4>3. value[m] = (seen[m].at - origin[m].at) % Word
        BY <2>0, <4>1, Counted DEF CountsEveryEventOnce
      <4>4. value'[m] = (seen'[m].at - origin'[m].at) % Word
        <5>1. CountsEveryEventOnce'
          BY <2>0, Counted, PTL
        <5>2. QED
          BY <4>1, <4>2, <5>1 DEF CountsEveryEventOnce
      <4>5. PICK a \in Count, b \in Count, c \in Count :
              a = seen[m].at /\ b = origin[m].at /\ c = mark[m].at
        BY <2>1, <3>1 DEF TypeOK, Mark
      <4>6. b <= a /\ a <= c
        BY <2>0, <4>5 DEF InOrder
      <4>7. a \in Nat /\ b \in Nat /\ c \in Nat
        BY WordFacts
      <4>8. b <= c
        BY <4>6, <4>7
      <4>9. value[m] = a - b
        BY <4>3, <4>5, <4>6, Fits
      <4>10. value'[m] = c - b
        BY <4>2, <4>4, <4>5, <4>8, Fits
      <4>11. QED
        BY <2>2, <4>6, <4>7, <4>9, <4>10
    <3>6. QED
      BY <3>4, <3>5
  <2>3. QED
    BY <2>2
<1>2. QED
  BY <1>1, OrderInit, OrderNext, PTL DEF Spec, CountersGoBackOnlyWhenCleared

-----------------------------------------------------------------------------
(* Arrays of bits *)

LEMMA DivMod ==
  ASSUME NEW a \in Int, NEW b \in Nat \ {0}
  PROVE  /\ a \div b \in Int
         /\ a % b \in 0 .. b - 1
         /\ a = b * (a \div b) + (a % b)
OBVIOUS

LEMMA Split ==
  ASSUME NEW a \in Int, NEW b \in Nat \ {0}
  PROVE  \E q \in Int : \E r \in 0 .. b - 1 : a = b * q + r /\ q = a \div b /\ r = a % b
<1>1. a \div b \in Int /\ a % b \in 0 .. b - 1 /\ a = b * (a \div b) + (a % b)
  BY DivMod
<1> QED
  BY <1>1

LEMMA Unique ==
  ASSUME NEW b \in Nat \ {0}, NEW q \in Int, NEW r \in 0 .. b - 1,
         NEW k \in Int, NEW s \in 0 .. b - 1, b * q + r = b * k + s
  PROVE  q = k /\ r = s
OBVIOUS

LEMMA DivModOf ==
  ASSUME NEW b \in Nat \ {0}, NEW q \in Int, NEW r \in 0 .. b - 1
  PROVE  (b * q + r) \div b = q /\ (b * q + r) % b = r
<1> DEFINE a == b * q + r
<1>1. a \in Int
  OBVIOUS
<1>2. a \div b \in Int /\ a % b \in 0 .. b - 1 /\ a = b * (a \div b) + (a % b)
  BY <1>1, DivMod
<1>3. a \div b = q /\ a % b = r
  BY <1>2, Unique
<1> QED
  BY <1>3

LEMMA Monotone ==
  ASSUME NEW b \in Nat \ {0}, NEW x \in Int, NEW y \in Int, x < y
  PROVE  b * x + b <= b * y
OBVIOUS

\* The last word and the bits of it.
LEMMA LastWord ==
  ASSUME NEW n \in Nat \ {0}
  PROVE  /\ NWords(n) \in Nat \ {0}
         /\ WordBits * (NWords(n) - 1) < n
         /\ n <= WordBits * NWords(n)
         /\ UpperMask(n) = 0 .. n - WordBits * (NWords(n) - 1) - 1
<1>1. WordBits \in Nat \ {0}
  BY BitArrayAssumption
<1>q. PICK q \in Int : \E r \in 0 .. WordBits - 1 :
        n = WordBits * q + r /\ q = n \div WordBits /\ r = n % WordBits
  BY <1>1, Split
<1>r. PICK r \in 0 .. WordBits - 1 :
        n = WordBits * q + r /\ q = n \div WordBits /\ r = n % WordBits
  BY <1>q
<1>2. q \in Int /\ r \in 0 .. WordBits - 1 /\ n = WordBits * q + r
  BY <1>q, <1>r
<1>d. q = n \div WordBits /\ r = n % WordBits
  BY <1>r
<1>3. q >= 0
  <2>1. SUFFICES ASSUME q < 0 PROVE FALSE
    BY <1>2
  <2>2. WordBits * q + WordBits <= WordBits * 0
    BY <1>1, <1>2, <2>1, Monotone
  <2> QED
    BY <1>1, <1>2, <2>2
<1>4. CASE r = 0
  <2>1. q >= 1
    BY <1>1, <1>2, <1>3, <1>4
  <2>2. NWords(n) = q
    <3>1. CASE n > WordBits
      <4>1. n + WordBits - 1 = WordBits * q + (WordBits - 1)
        BY <1>1, <1>2, <1>4
      <4>2. WordBits - 1 \in 0 .. WordBits - 1
        BY <1>1
      <4>3. (n + WordBits - 1) \div WordBits = q
        BY <1>1, <4>1, <4>2, DivModOf
      <4> QED
        BY <3>1, <4>3 DEF NWords
    <3>2. CASE ~(n > WordBits)
      <4>1. SUFFICES ASSUME q >= 2 PROVE FALSE
        BY <1>2, <2>1, <3>2 DEF NWords
      <4>2. WordBits * 1 + WordBits <= WordBits * q
        BY <1>1, <1>2, <4>1, Monotone
      <4> QED
        BY <1>1, <1>2, <1>4, <3>2, <4>2
    <3> QED
      BY <3>1, <3>2
  <2>3. WordBits * (q - 1) = n - WordBits
    BY <1>1, <1>2, <1>4
  <2>4. UpperMask(n) = 0 .. WordBits - 1
    BY <1>d, <1>4 DEF UpperMask, FullMask
  <2> QED
    BY <1>1, <1>2, <1>4, <2>1, <2>2, <2>3, <2>4
<1>5. CASE r > 0
  <2>1. NWords(n) = q + 1
    <3>1. CASE n > WordBits
      <4>1. n + WordBits - 1 = WordBits * (q + 1) + (r - 1)
        BY <1>1, <1>2
      <4>2. r - 1 \in 0 .. WordBits - 1 /\ q + 1 \in Int
        BY <1>1, <1>2, <1>5
      <4>3. (n + WordBits - 1) \div WordBits = q + 1
        BY <1>1, <4>1, <4>2, DivModOf
      <4> QED
        BY <3>1, <4>3 DEF NWords
    <3>2. CASE ~(n > WordBits)
      <4>1. SUFFICES ASSUME q >= 1 PROVE FALSE
        BY <1>2, <1>3, <3>2 DEF NWords
      <4>2. WordBits * 0 + WordBits <= WordBits * q
        BY <1>1, <1>2, <4>1, Monotone
      <4> QED
        BY <1>1, <1>2, <1>5, <3>2, <4>2
    <3> QED
      BY <3>1, <3>2
  <2>2. UpperMask(n) = 0 .. r - 1
    BY <1>2, <1>d, <1>5 DEF UpperMask
  <2>3. WordBits * ((q + 1) - 1) = n - r /\ WordBits * (q + 1) = n - r + WordBits
    BY <1>1, <1>2
  <2>4. n - WordBits * (NWords(n) - 1) - 1 = r - 1
    BY <1>1, <1>2, <2>1, <2>3
  <2>5. WordBits * (NWords(n) - 1) < n /\ n <= WordBits * NWords(n)
    BY <1>1, <1>2, <1>5, <2>1, <2>3
  <2> QED
    BY <1>2, <1>3, <2>1, <2>2, <2>4, <2>5
<1> QED
  BY <1>2, <1>4, <1>5

\* Positions below n and bits of the words are one to one.
LEMMA Place ==
  ASSUME NEW n \in Nat \ {0}, NEW pos \in 0 .. n - 1
  PROVE  /\ pos \div WordBits \in Words(n)
         /\ pos % WordBits \in Mask(n, pos \div WordBits)
         /\ pos % WordBits \in FullMask
<1> DEFINE m == NWords(n)
<1>1. WordBits \in Nat \ {0}
  BY BitArrayAssumption
<1>q. PICK q \in Int : \E r \in 0 .. WordBits - 1 :
        pos = WordBits * q + r /\ q = pos \div WordBits /\ r = pos % WordBits
  BY <1>1, Split
<1>r. PICK r \in 0 .. WordBits - 1 :
        pos = WordBits * q + r /\ q = pos \div WordBits /\ r = pos % WordBits
  BY <1>q
<1>2. q \in Int /\ r \in 0 .. WordBits - 1 /\ pos = WordBits * q + r
  BY <1>q, <1>r
<1>d. q = pos \div WordBits /\ r = pos % WordBits
  BY <1>r
<1>3. m \in Nat \ {0} /\ n <= WordBits * m /\ UpperMask(n) = 0 .. n - WordBits * (m - 1) - 1
  BY LastWord
<1>4. q >= 0
  <2>1. SUFFICES ASSUME q < 0 PROVE FALSE
    BY <1>2
  <2>2. WordBits * q + WordBits <= WordBits * 0
    BY <1>1, <1>2, <2>1, Monotone
  <2> QED
    BY <1>1, <1>2, <2>2
<1>5. q <= m - 1
  <2>1. SUFFICES ASSUME m - 1 < q PROVE FALSE
    BY <1>2, <1>3
  <2>2. WordBits * (m - 1) + WordBits <= WordBits * q
    BY <1>1, <1>2, <1>3, <2>1, Monotone
  <2>3. WordBits * (m - 1) + WordBits = WordBits * m
    BY <1>1, <1>3
  <2> QED
    BY <1>1, <1>2, <1>3, <2>2, <2>3
<1>6. r \in FullMask
  BY <1>2 DEF FullMask
<1>7. q = m - 1 => r \in UpperMask(n)
  BY <1>1, <1>2, <1>3
<1>8. q \in Words(n) /\ r \in Mask(n, q)
  BY <1>2, <1>3, <1>4, <1>5, <1>6, <1>7 DEF Words, Mask
<1> QED
  BY <1>d, <1>6, <1>8

\* The bits of a word that belong to the array are bits of a word.
LEMMA MaskWithin ==
  ASSUME NEW n \in Nat \ {0}, NEW w \in Words(n)
  PROVE  Mask(n, w) \subseteq FullMask
<1>1. n % WordBits \in 0 .. WordBits - 1 /\ WordBits \in Nat
  BY BitArrayAssumption, DivMod
<1>2. UpperMask(n) \subseteq FullMask
  BY <1>1 DEF UpperMask, FullMask
<1> QED
  BY <1>2 DEF Mask

LEMMA PlaceOf ==
  ASSUME NEW n \in Nat \ {0}, NEW w \in Words(n), NEW p \in Mask(n, w)
  PROVE  /\ WordBits * w + p \in 0 .. n - 1
         /\ (WordBits * w + p) \div WordBits = w
         /\ (WordBits * w + p) % WordBits = p
<1> DEFINE m == NWords(n)
<1>1. WordBits \in Nat \ {0}
  BY BitArrayAssumption
<1>2. /\ m \in Nat \ {0} /\ WordBits * (m - 1) < n /\ n <= WordBits * m
      /\ UpperMask(n) = 0 .. n - WordBits * (m - 1) - 1
  BY LastWord
<1>3. w \in Int /\ 0 <= w /\ w <= m - 1
  BY <1>2 DEF Words
<1>4. p \in 0 .. WordBits - 1
  <2>1. n - WordBits * (m - 1) <= WordBits
    <3>1. WordBits * (m - 1) + WordBits = WordBits * m
      BY <1>1, <1>2
    <3> QED
      BY <1>1, <1>2, <3>1
  <2>2. UpperMask(n) \subseteq 0 .. WordBits - 1
    BY <1>1, <1>2, <2>1
  <2> QED
    BY <2>2 DEF Mask, FullMask
<1>5. WordBits * w >= 0
  <2>1. CASE w = 0
    BY <1>1, <2>1
  <2>2. CASE 0 < w
    <3>1. WordBits * 0 + WordBits <= WordBits * w
      BY <1>1, <1>3, <2>2, Monotone
    <3> QED
      BY <1>1, <1>3, <3>1
  <2> QED
    BY <1>3, <2>1, <2>2
<1>6. WordBits * w + p < n
  <2>1. CASE w = m - 1
    BY <1>1, <1>2, <1>4, <2>1 DEF Mask
  <2>2. CASE w < m - 1
    <3>1. WordBits * w + WordBits <= WordBits * (m - 1)
      BY <1>1, <1>2, <1>3, <2>2, Monotone
    <3> QED
      BY <1>1, <1>2, <1>3, <1>4, <3>1
  <2> QED
    BY <1>2, <1>3, <2>1, <2>2
<1>7. (WordBits * w + p) \div WordBits = w /\ (WordBits * w + p) % WordBits = p
  BY <1>1, <1>3, <1>4, DivModOf
<1> QED
  BY <1>1, <1>3, <1>4, <1>5, <1>6, <1>7

-----------------------------------------------------------------------------
(* The operations *)

\* Two arrays of one size that stand for the same numbers have the same words.
LEMMA BitOf ==
  ASSUME NEW a, IsArray(a), NEW w \in Words(a.nbits), NEW p \in Mask(a.nbits, w)
  PROVE  p \in a.words[w] <=> WordBits * w + p \in Ones(a)
<1>1. a.nbits \in Nat \ {0}
  BY DEF IsArray
<1>2. /\ WordBits * w + p \in 0 .. a.nbits - 1
      /\ (WordBits * w + p) \div WordBits = w
      /\ (WordBits * w + p) % WordBits = p
  BY <1>1, PlaceOf
<1> QED
  BY <1>1, <1>2 DEF Ones, IsBitSet, InArray

\* ClearAll and SetAll, with which every filter begins.
THEOREM AllOrNothing ==
  ASSUME NEW n \in Nat \ {0}
  PROVE  /\ IsArray(ClearAll(n)) /\ Ones(ClearAll(n)) = {}
         /\ IsArray(SetAll(n))   /\ Ones(SetAll(n)) = 0 .. n - 1
<1>1. \A w \in Words(n) : Mask(n, w) \subseteq FullMask
  BY MaskWithin
<1>2. IsArray(ClearAll(n)) /\ IsArray(SetAll(n))
  BY <1>1 DEF IsArray, ClearAll, SetAll
<1>3. Ones(ClearAll(n)) = {}
  BY Place DEF Ones, IsBitSet, InArray, ClearAll
<1>4. Ones(SetAll(n)) = 0 .. n - 1
  BY Place DEF Ones, IsBitSet, InArray, SetAll
<1> QED
  BY <1>2, <1>3, <1>4

\* is_all_cleared and is_all_set, which decide what is shown and where a filter stops.
THEOREM AllOrNothingIsSeen ==
  ASSUME NEW a, IsArray(a)
  PROVE  /\ IsAllCleared(a) <=> Ones(a) = {}
         /\ IsAllSet(a) <=> Ones(a) = 0 .. a.nbits - 1
<1>1. a.nbits \in Nat \ {0} /\ \A w \in Words(a.nbits) : a.words[w] \subseteq Mask(a.nbits, w)
  BY DEF IsArray
<1>2. ASSUME IsAllCleared(a) PROVE Ones(a) = {}
  BY <1>1, <1>2, Place DEF IsAllCleared, Ones, IsBitSet, InArray
<1>3. ASSUME Ones(a) = {} PROVE IsAllCleared(a)
  BY <1>1, <1>3, BitOf DEF IsAllCleared
<1>4. ASSUME IsAllSet(a) PROVE Ones(a) = 0 .. a.nbits - 1
  BY <1>1, <1>4, Place DEF IsAllSet, Ones, IsBitSet, InArray
<1>5. ASSUME Ones(a) = 0 .. a.nbits - 1 PROVE IsAllSet(a)
  <2>1. ASSUME NEW w \in Words(a.nbits), NEW p \in Mask(a.nbits, w) PROVE p \in a.words[w]
    BY <1>1, <1>5, <2>1, BitOf, PlaceOf
  <2> QED
    BY <1>1, <2>1 DEF IsAllSet
<1> QED
  BY <1>2, <1>3, <1>4, <1>5

\* negate_all: what a negated filter lets pass.
THEOREM NegateIsComplement ==
  ASSUME NEW a, IsArray(a)
  PROVE  /\ IsArray(NegateAll(a))
         /\ Ones(NegateAll(a)) = (0 .. a.nbits - 1) \ Ones(a)
<1> DEFINE n == a.nbits
<1>1. /\ n \in Nat \ {0} /\ a = [nbits |-> n, words |-> a.words]
      /\ a.words \in [Words(n) -> SUBSET FullMask]
      /\ \A w \in Words(n) : a.words[w] \subseteq Mask(n, w)
  BY DEF IsArray
<1>2. NegateAll(a) = [nbits |-> n, words |-> [w \in Words(n) |-> Mask(n, w) \ a.words[w]]]
  BY <1>1 DEF NegateAll, Flip
<1>3. \A w \in Words(n) : Mask(n, w) \subseteq FullMask
  BY <1>1, MaskWithin
<1>4. IsArray(NegateAll(a))
  BY <1>1, <1>2, <1>3 DEF IsArray
<1>5. ASSUME NEW pos \in 0 .. n - 1 PROVE IsBitSet(NegateAll(a), pos) <=> ~IsBitSet(a, pos)
  BY <1>1, <1>2, <1>5, Place DEF IsBitSet, InArray
<1> QED
  BY <1>2, <1>4, <1>5 DEF Ones

\* &= and |=, which put the members of all_set and of any_set together.
THEOREM AndOrAreSetOperations ==
  ASSUME NEW a, NEW b, IsArray(a), IsArray(b), a.nbits = b.nbits
  PROVE  /\ IsArray(And(a, b)) /\ Ones(And(a, b)) = Ones(a) \cap Ones(b)
         /\ IsArray(Or(a, b))  /\ Ones(Or(a, b)) = Ones(a) \cup Ones(b)
<1> DEFINE n == a.nbits
<1>1. /\ n \in Nat \ {0} /\ a = [nbits |-> n, words |-> a.words]
      /\ a.words \in [Words(n) -> SUBSET FullMask] /\ b.words \in [Words(n) -> SUBSET FullMask]
      /\ \A w \in Words(n) : a.words[w] \subseteq Mask(n, w) /\ b.words[w] \subseteq Mask(n, w)
  BY DEF IsArray
<1>2. /\ And(a, b) = [nbits |-> n, words |-> [w \in Words(n) |-> a.words[w] \cap b.words[w]]]
      /\ Or(a, b)  = [nbits |-> n, words |-> [w \in Words(n) |-> a.words[w] \cup b.words[w]]]
  BY <1>1 DEF And, Or
<1>3. IsArray(And(a, b)) /\ IsArray(Or(a, b))
  BY <1>1, <1>2 DEF IsArray
<1>4. ASSUME NEW pos \in 0 .. n - 1
      PROVE  /\ IsBitSet(And(a, b), pos) <=> IsBitSet(a, pos) /\ IsBitSet(b, pos)
             /\ IsBitSet(Or(a, b), pos)  <=> IsBitSet(a, pos) \/ IsBitSet(b, pos)
  <2>1. pos \div WordBits \in Words(n)
    BY <1>1, Place
  <2> QED
    BY <1>1, <1>2, <2>1 DEF IsBitSet, InArray
<1>5. And(a, b).nbits = n /\ Or(a, b).nbits = n
  BY <1>2
<1>6. Ones(And(a, b)) = Ones(a) \cap Ones(b)
  BY <1>4, <1>5 DEF Ones
<1>7. Ones(Or(a, b)) = Ones(a) \cup Ones(b)
  BY <1>4, <1>5 DEF Ones
<1> QED
  BY <1>3, <1>6, <1>7

\* assign_bit, with which the indices, the labels and non_zero pick values one by one.
THEOREM AssignBitIsOneElement ==
  ASSUME NEW a, IsArray(a), NEW pos \in Int, NEW set \in BOOLEAN
  PROVE  /\ IsArray(AssignBit(a, pos, set))
         /\ Ones(AssignBit(a, pos, set)) =
              IF set THEN Ones(a) \cup ({pos} \cap 0 .. a.nbits - 1) ELSE Ones(a) \ {pos}
<1> DEFINE n == a.nbits
           b == AssignBit(a, pos, set)
<1>1. /\ n \in Nat \ {0} /\ a = [nbits |-> n, words |-> a.words]
      /\ a.words \in [Words(n) -> SUBSET FullMask]
      /\ \A w \in Words(n) : a.words[w] \subseteq Mask(n, w)
  BY DEF IsArray
<1>2. CASE ~(pos \in 0 .. n - 1)
  BY <1>1, <1>2 DEF AssignBit, SetBit, ClearBit, InArray, Ones
<1>3. CASE pos \in 0 .. n - 1
  <2>1. PICK w \in Words(n), p \in FullMask :
          w = pos \div WordBits /\ p = pos % WordBits /\ p \in Mask(n, w)
    BY <1>1, <1>3, Place
  <2>2. b = [nbits |-> n,
             words |-> [a.words EXCEPT ![w] = IF set THEN @ \cup {p} ELSE @ \ {p}]]
    <3>1. InArray(a, pos)
      BY <1>1, <1>3 DEF InArray
    <3>2. CASE set
      <4>1. b = [nbits |-> n, words |-> [a.words EXCEPT ![w] = @ \cup {p}]]
        BY <2>1, <3>1, <3>2 DEF AssignBit, SetBit
      <4> QED
        BY <3>2, <4>1
    <3>3. CASE ~set
      <4>1. b = [nbits |-> n, words |-> [a.words EXCEPT ![w] = @ \ {p}]]
        BY <2>1, <3>1, <3>3 DEF AssignBit, ClearBit
      <4> QED
        BY <3>3, <4>1
    <3> QED
      BY <3>2, <3>3
  <2>3. IsArray(b)
    BY <1>1, <2>1, <2>2 DEF IsArray
  <2>4. ASSUME NEW o \in 0 .. n - 1, o # pos PROVE IsBitSet(b, o) <=> IsBitSet(a, o)
    <3>1. PICK x \in Words(n), y \in FullMask : x = o \div WordBits /\ y = o % WordBits
      BY <1>1, Place
    <3>2. ~(x = w /\ y = p)
      BY <1>1, <1>3, <2>1, <2>4, <3>1, DivMod, BitArrayAssumption
    <3>3. y \in b.words[x] <=> y \in a.words[x]
      BY <1>1, <2>1, <2>2, <3>1, <3>2
    <3> QED
      BY <1>1, <2>2, <3>1, <3>3 DEF IsBitSet, InArray
  <2>5. IsBitSet(b, pos) <=> set
    <3>1. p \in b.words[w] <=> set
      BY <1>1, <2>1, <2>2
    <3> QED
      BY <1>1, <1>3, <2>1, <2>2, <3>1 DEF IsBitSet, InArray
  <2>6. b.nbits = n
    BY <2>2
  <2> QED
    BY <1>3, <2>3, <2>4, <2>5, <2>6 DEF Ones
<1> QED
  BY <1>2, <1>3
=============================================================================
