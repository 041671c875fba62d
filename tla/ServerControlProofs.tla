------------------------ MODULE ServerControlProofs ------------------------
(***************************************************************************)
(* Two parts.  The first is about the domains alone, for any number of     *)
(* domains, callers and collector threads, and cites no assumption but     *)
(* that of StatsDomain: if starts and stops take turns, a domain has one   *)
(* collector, its flag tells the truth and stop joins the right thread.    *)
(*                                                                         *)
(* The second is about the server, for any devices, flags, threads and     *)
(* length of the requests: what the constructor and the handlers do to the *)
(* domains is a behaviour of StatsDomain, however the requests overlap.    *)
(* If they take turns, the configuration that is reported is in force      *)
(* between them, and a response says what has been applied.                *)
(***************************************************************************)
EXTENDS ServerControl, FiniteSetTheorems, SequenceTheorems, TLAPS

(* The domains.                                                            *)

\* The type of every variable, which holds however the callers overlap.
LEMMA TypeInit == Init => TypeOK
  BY StatsDomainAssumption DEF Init, TypeOK, ThreadPC, CallerPC

LEMMA TypeNext == TypeOK /\ [Next]_vars => TypeOK'
<1> SUFFICES ASSUME TypeOK, [Next]_vars PROVE TypeOK'
  OBVIOUS
<1> USE StatsDomainAssumption DEF TypeOK, ThreadPC, CallerPC
<1>1. ASSUME NEW c \in Caller, NEW d \in Domain, StartLocked(c, d)
      PROVE  TypeOK'
  BY <1>1 DEF StartLocked, collectorVars
<1>2. ASSUME NEW c \in Caller, NEW d \in Domain, StopLocked(c, d)
      PROVE  TypeOK'
  BY <1>2 DEF StopLocked, collectorVars
<1>3. ASSUME NEW c \in Caller, StartCreate(c)
      PROVE  TypeOK'
  BY <1>3 DEF StartCreate
<1>4. ASSUME NEW c \in Caller, StopJoin(c)
      PROVE  TypeOK'
  BY <1>4 DEF StopJoin, domainVars, collectorVars
<1>5. ASSUME NEW c \in Caller, StopJoined(c)
      PROVE  TypeOK'
  BY <1>5 DEF StopJoined, domainVars
<1>6. ASSUME NEW t \in Collector, Collecting(t)
      PROVE  TypeOK'
  BY <1>6 DEF Collecting, CollectorCheck, CollectorUpdate, CollectorWake,
              CollectorStep, domainVars, callerVars
<1>7. CASE UNCHANGED vars
  BY <1>7 DEF vars
<1>8. QED
  BY <1>1, <1>2, <1>3, <1>4, <1>5, <1>6, <1>7 DEF Next, Begin, Continue

\* Type correctness of the collector thread's life cycle.
THEOREM TypeCorrect == Spec => []TypeOK
<1>1. QED
  BY TypeInit, TypeNext, PTL DEF Spec

-----------------------------------------------------------------------------
LEMMA SerialInit == Init => SerialInv
<1>1. Init => TypeOK
  BY TypeInit
<1>2. QED
  BY <1>1, StatsDomainAssumption DEF Init, SerialInv, TypeOK, Alive, Owns, InProgress

LEMMA SerialNext ==
  ASSUME Serialized, SerialInv, [Next]_vars
  PROVE  SerialInv'
<1>0. TypeOK /\ TypeOK'
  BY TypeNext DEF SerialInv
<1> USE StatsDomainAssumption DEF SerialInv, Alive, Owns, InProgress
<1>1. ASSUME NEW c \in Caller, MayBegin(c), NEW d \in Domain, StartLocked(c, d)
      PROVE  SerialInv'
  BY <1>0, <1>1 DEF StartLocked, MayBegin, collectorVars, TypeOK
<1>2. ASSUME NEW c \in Caller, MayBegin(c), NEW d \in Domain, StopLocked(c, d)
      PROVE  SerialInv'
  BY <1>0, <1>2 DEF StopLocked, MayBegin, collectorVars, TypeOK
<1>3. ASSUME NEW c \in Caller, StartCreate(c)
      PROVE  SerialInv'
  BY <1>0, <1>3 DEF StartCreate, TypeOK
<1>4. ASSUME NEW c \in Caller, StopJoin(c)
      PROVE  SerialInv'
  BY <1>0, <1>4 DEF StopJoin, Joinable, domainVars, collectorVars, TypeOK
<1>5. ASSUME NEW c \in Caller, StopJoined(c)
      PROVE  SerialInv'
  BY <1>0, <1>5 DEF StopJoined, domainVars, TypeOK
<1>6. ASSUME NEW t \in Collector, Collecting(t)
      PROVE  SerialInv'
  BY <1>0, <1>6 DEF Collecting, CollectorCheck, CollectorUpdate, CollectorWake,
              CollectorStep, domainVars, callerVars, TypeOK
<1>7. CASE UNCHANGED vars
  BY <1>7 DEF vars, TypeOK
<1>8. QED
  BY <1>1, <1>2, <1>3, <1>4, <1>5, <1>6, <1>7 DEF Next, Begin, Continue

\* The agent's callers taking turns, the strengthening is an invariant.
THEOREM SerialInvariant == ASSUME Serialized PROVE Spec => []SerialInv
<1>1. Init => SerialInv
  BY SerialInit
<1>2. SerialInv /\ [Next]_vars => SerialInv'
  BY SerialNext
<1>3. QED
  BY <1>1, <1>2, PTL DEF Spec

LEMMA SerialImplies == SerialInv => OneCollector /\ FlagTellsTruth /\ JoinsOwnCollector
<1> SUFFICES ASSUME SerialInv PROVE OneCollector /\ FlagTellsTruth /\ JoinsOwnCollector
  OBVIOUS
<1> USE DEF SerialInv, TypeOK, Owns, Alive, Collectors, InProgress
<1>1. OneCollector
  BY DEF OneCollector
<1>2. FlagTellsTruth
  <2> SUFFICES ASSUME NEW d \in Domain,
                      \A c \in Caller : InProgress(c) => arg[c] # d
               PROVE  running[d] <=> \E t \in Collectors(d) : thread[t] # "exited"
    BY DEF FlagTellsTruth
  <2>1. ASSUME running[d] PROVE \E t \in Collectors(d) : thread[t] # "exited"
    BY <2>1
  <2>2. ASSUME NEW t \in Collectors(d), thread[t] # "exited" PROVE running[d]
    BY <2>2
  <2>3. QED
    BY <2>1, <2>2
<1>3. JoinsOwnCollector
  BY DEF JoinsOwnCollector
<1>4. QED
  BY <1>1, <1>2, <1>3

\* stats_domain_start never adds a collector to a domain that still has one.
THEOREM AtMostOneCollector == ASSUME Serialized PROVE Spec => []OneCollector
<1>1. SerialInv => OneCollector
  BY SerialImplies
<1>2. QED
  BY <1>1, SerialInvariant, PTL

\* Between calls, domain->thread.running is up exactly when a collector runs.
THEOREM FlagIsTruthful == ASSUME Serialized PROVE Spec => []FlagTellsTruth
<1>1. SerialInv => FlagTellsTruth
  BY SerialImplies
<1>2. QED
  BY <1>1, SerialInvariant, PTL

\* stats_domain_stop only ever waits for the thread of the domain it stops.
THEOREM JoinIsDefined == ASSUME Serialized PROVE Spec => []JoinsOwnCollector
<1>1. SerialInv => JoinsOwnCollector
  BY SerialImplies
<1>2. QED
  BY <1>1, SerialInvariant, PTL

\* The live threads of a domain are the one its handle names, or none.
LEMMA CollectorsOf ==
  ASSUME SerialInv, NEW d \in Domain
  PROVE  Collectors(d) = IF Owns(d) THEN {handle[d]} ELSE {}
<1> USE DEF SerialInv, TypeOK, Owns, Collectors, Alive
<1>1. CASE Owns(d)
  <2>1. handle[d] \in Collectors(d)
    BY <1>1
  <2>2. ASSUME NEW t \in Collectors(d) PROVE t = handle[d]
    BY <2>2
  <2>3. QED
    BY <1>1, <2>1, <2>2
<1>2. CASE ~Owns(d)
  <2>1. ASSUME NEW t \in Collectors(d) PROVE FALSE
    BY <1>2, <2>1
  <2>2. QED
    BY <1>2, <2>1
<1>3. QED
  BY <1>1, <1>2

\* What is made, what lives and what is joined balance: a start that raised the
\* flag is owed one thread, a stop that lowered it owes one join.
LEMMA SerialPairs == SerialInv => StartsAndStopsPair
<1> SUFFICES ASSUME SerialInv, NEW d \in Domain
             PROVE  Cardinality(Creating(d)) + Cardinality(Collectors(d))
                      = Cardinality(Stopping(d)) + (IF running[d] THEN 1 ELSE 0)
  BY DEF StartsAndStopsPair
<1>1. Cardinality(Collectors(d)) = IF Owns(d) THEN 1 ELSE 0
  BY CollectorsOf, FS_EmptySet, FS_Singleton
<1>2. CASE \E c \in Caller : pc[c] = "create" /\ arg[c] = d
  <2>1. PICK c \in Caller : pc[c] = "create" /\ arg[c] = d
    BY <1>2
  <2>2. Creating(d) = {c} /\ Stopping(d) = {}
    BY <2>1 DEF SerialInv, InProgress, Creating, Stopping
  <2>3. running[d] /\ ~Owns(d)
    BY <2>1 DEF SerialInv
  <2>4. Cardinality(Creating(d)) = 1 /\ Cardinality(Stopping(d)) = 0
    BY <2>2, FS_EmptySet, FS_Singleton
  <2>5. Cardinality(Collectors(d)) = 0 /\ (IF running[d] THEN 1 ELSE 0) = 1
    BY <1>1, <2>3
  <2>6. QED
    BY <2>4, <2>5
<1>3. CASE \E c \in Caller : pc[c] \in {"join", "joining"} /\ arg[c] = d
  <2>1. PICK c \in Caller : pc[c] \in {"join", "joining"} /\ arg[c] = d
    BY <1>3
  <2>2. Creating(d) = {} /\ Stopping(d) = {c}
    BY <2>1 DEF SerialInv, InProgress, Creating, Stopping
  <2>3. ~running[d] /\ Owns(d)
    BY <2>1 DEF SerialInv
  <2>4. Cardinality(Creating(d)) = 0 /\ Cardinality(Stopping(d)) = 1
    BY <2>2, FS_EmptySet, FS_Singleton
  <2>5. Cardinality(Collectors(d)) = 1 /\ (IF running[d] THEN 1 ELSE 0) = 0
    BY <1>1, <2>3
  <2>6. QED
    BY <2>4, <2>5
<1>4. CASE /\ ~\E c \in Caller : pc[c] = "create" /\ arg[c] = d
           /\ ~\E c \in Caller : pc[c] \in {"join", "joining"} /\ arg[c] = d
  <2>1. Creating(d) = {} /\ Stopping(d) = {}
    BY <1>4 DEF SerialInv, Creating, Stopping
  <2>2. running[d] <=> Owns(d)
    BY <1>4 DEF SerialInv
  <2>3. Cardinality(Creating(d)) = 0 /\ Cardinality(Stopping(d)) = 0
    BY <2>1, FS_EmptySet
  <2>4. Cardinality(Collectors(d)) = IF running[d] THEN 1 ELSE 0
    BY <1>1, <2>2
  <2>5. QED
    BY <2>3, <2>4
<1>5. QED
  BY <1>2, <1>3, <1>4

\* Every start that raised the flag creates one thread, every stop that lowered
\* it joins one: no thread is left over and none is missing.
THEOREM ThreadsBalance == ASSUME Serialized PROVE Spec => []StartsAndStopsPair
<1>1. SerialInv => StartsAndStopsPair
  BY SerialPairs
<1>2. QED
  BY <1>1, SerialInvariant, PTL

\* The wait in stats_domain_stop covers no update begun after it lowered the
\* flag.
THEOREM JoinWaitsForOneCycle ==
  ASSUME Serialized PROVE Spec => JoinedCollectorStartsNoUpdate
<1> DEFINE Quiet == \A c \in Caller :
                      pc[c] = "joining" /\ thread[target[c]] = "check"
                        => thread'[target[c]] # "update"
<1>1. ASSUME SerialInv, [Next]_vars PROVE Quiet
  <2> SUFFICES ASSUME NEW c \in Caller,
                      pc[c] = "joining",
                      thread[target[c]] = "check"
               PROVE  thread'[target[c]] # "update"
    OBVIOUS
  <2>1. /\ target[c] \in Collector
        /\ ~running[serves[target[c]]]
    BY <1>1 DEF SerialInv, Owns
  <2>2. ASSUME NEW o \in Caller, Begin(o) PROVE thread' = thread
    BY <2>2 DEF Begin, StartLocked, StopLocked, collectorVars
  <2>3. ASSUME NEW o \in Caller, Continue(o) PROVE thread'[target[c]] # "update"
    BY <1>1, <2>1, <2>3 DEF Continue, StartCreate, StopJoin, StopJoined, SerialInv,
         TypeOK, Alive, Owns, InProgress, collectorVars
  <2>4. ASSUME NEW t \in Collector, Collecting(t) PROVE thread'[target[c]] # "update"
    BY <1>1, <2>1, <2>4 DEF Collecting, CollectorCheck, CollectorUpdate, CollectorWake,
         CollectorStep, SerialInv, TypeOK
  <2>5. CASE UNCHANGED vars
    BY <2>5 DEF vars
  <2>6. QED
    BY <1>1, <2>2, <2>3, <2>4, <2>5 DEF Next
<1>2. SerialInv /\ [Next]_vars => [Quiet]_vars
  BY <1>1
<1>3. QED
  BY <1>2, SerialInvariant, PTL DEF Spec, JoinedCollectorStartsNoUpdate
-----------------------------------------------------------------------------
(* The implementation of PeriodicTask *)

\* To show that a function has changed at one point only.
LEMMA ExceptAt ==
  ASSUME NEW S, NEW f, NEW g, NEW d \in S, NEW v,
         f = [x \in S |-> f[x]], g = [x \in S |-> g[x]],
         \A x \in S : g[x] = IF x = d THEN v ELSE f[x]
  PROVE  g = [f EXCEPT ![d] = v]
  OBVIOUS

LEMMA AbstractInit == Init => Abstract!Init
  BY DEF Init, Abstract!Init, phase, busy, Collectors, Alive

\* What SerialInv says of the threads of one domain.
LEMMA OnlyCollector ==
  ASSUME SerialInv, NEW t \in Collector, Alive(t)
  PROVE  Collectors(serves[t]) = {t}
  BY DEF SerialInv, TypeOK, Collectors, Alive

LEMMA AbstractNext ==
  ASSUME Serialized, SerialInv, [Next]_vars
  PROVE  [Abstract!Next]_(Abstract!vars)
<1>0. SerialInv'
  BY SerialNext
<1> USE DEF phase, busy, Collectors, Alive, Abstract!vars
<1>1. ASSUME NEW c \in Caller, MayBegin(c), NEW d \in Domain, StartLocked(c, d)
      PROVE  [Abstract!Next]_(Abstract!vars)
  <2>1. UNCHANGED busy
    BY <1>1 DEF StartLocked, collectorVars
  <2>2. CASE running[d]
    BY <1>1, <2>1, <2>2 DEF StartLocked, collectorVars, SerialInv, TypeOK
  <2>3. CASE ~running[d]
    <3>1. phase[d] = "off"
      BY <1>1, <2>3 DEF MayBegin, SerialInv, InProgress, Owns, TypeOK
    <3>2. \A e \in Domain : phase'[e] = IF e = d THEN "on" ELSE phase[e]
      BY <1>1 DEF StartLocked, collectorVars, SerialInv, TypeOK
    <3>3. phase' = [phase EXCEPT ![d] = "on"]
      BY <3>2, ExceptAt
    <3>4. QED
      BY <2>1, <3>1, <3>3 DEF Abstract!Next, Abstract!SwitchOn
  <2>4. QED
    BY <2>2, <2>3
<1>2. ASSUME NEW c \in Caller, MayBegin(c), NEW d \in Domain, StopLocked(c, d)
      PROVE  [Abstract!Next]_(Abstract!vars)
  <2>1. UNCHANGED busy
    BY <1>2 DEF StopLocked, collectorVars
  <2>2. CASE ~running[d]
    BY <1>2, <2>1, <2>2 DEF StopLocked, collectorVars, SerialInv, TypeOK
  <2>3. CASE running[d]
    <3>1. handle[d] \in Collectors(d)
      BY <1>2, <2>3 DEF MayBegin, SerialInv, InProgress, Owns, TypeOK
    <3>2. \A e \in Domain : phase'[e] = IF e = d THEN "draining" ELSE phase[e]
      BY <1>2, <3>1 DEF StopLocked, collectorVars, SerialInv, TypeOK
    <3>3. phase' = [phase EXCEPT ![d] = "draining"]
      BY <3>2, ExceptAt
    <3>4. QED
      BY <2>1, <2>3, <3>3 DEF Abstract!Next, Abstract!SwitchOff
  <2>4. QED
    BY <2>2, <2>3
<1>3. ASSUME NEW c \in Caller, StartCreate(c)
      PROVE  [Abstract!Next]_(Abstract!vars)
  <2>1. running[arg[c]] /\ arg[c] \in Domain
    BY <1>3 DEF StartCreate, SerialInv, TypeOK
  <2>2. UNCHANGED <<phase, busy>>
    BY <1>3, <2>1 DEF StartCreate, SerialInv, TypeOK
  <2>3. QED
    BY <2>2
<1>4. ASSUME NEW c \in Caller, StopJoin(c)
      PROVE  [Abstract!Next]_(Abstract!vars)
  BY <1>4 DEF StopJoin, domainVars, collectorVars
<1>5. ASSUME NEW c \in Caller, StopJoined(c)
      PROVE  [Abstract!Next]_(Abstract!vars)
  <2> DEFINE t == target[c]
             d == arg[c]
  <2>1. /\ t \in Collector /\ d \in Domain /\ Alive(t) /\ serves[t] = d
        /\ ~running[d] /\ thread[t] = "exited"
    BY <1>5 DEF StopJoined, SerialInv, Owns, TypeOK
  <2>2. Collectors(d) = {t}
    BY <2>1, OnlyCollector DEF Collectors, Alive
  <2>3. phase[d] = "draining" /\ ~busy[d]
    BY <2>1, <2>2
  <2>4. phase' = [phase EXCEPT ![d] = "off"]
    <3>1. Collectors(d)' = {} /\ \A e \in Domain \ {d} : Collectors(e)' = Collectors(e)
      BY <1>5, <2>1, <2>2 DEF StopJoined, domainVars, SerialInv, TypeOK
    <3>2. \A e \in Domain : phase'[e] = IF e = d THEN "off" ELSE phase[e]
      BY <1>5, <2>1, <3>1 DEF StopJoined, domainVars
    <3>3. QED
      BY <2>1, <3>2, ExceptAt
  <2>5. UNCHANGED busy
    BY <1>5, <2>1, <2>2 DEF StopJoined, domainVars, SerialInv, TypeOK
  <2>6. QED
    BY <2>1, <2>3, <2>4, <2>5 DEF Abstract!Next, Abstract!Off
<1>6. ASSUME NEW t \in Collector, Collecting(t)
      PROVE  [Abstract!Next]_(Abstract!vars)
  <2> DEFINE d == serves[t]
  <2>1. Alive(t) /\ d \in Domain /\ Collectors(d) = {t}
    BY <1>6, OnlyCollector DEF Collecting, CollectorCheck, CollectorUpdate,
         CollectorWake, CollectorStep, SerialInv, TypeOK
  <2>2. UNCHANGED phase
    BY <1>6 DEF Collecting, CollectorCheck, CollectorUpdate, CollectorWake,
         CollectorStep, domainVars, SerialInv, TypeOK
  <2>3. CASE CollectorCheck(t) /\ running[d]
    <3>1. phase[d] = "on" /\ ~busy[d]
      BY <2>1, <2>3 DEF CollectorCheck, CollectorStep
    <3>2. busy' = [busy EXCEPT ![d] = TRUE]
      <4>1. ASSUME NEW e \in Domain
            PROVE  /\ Collectors(e)' = Collectors(e)
                   /\ e # d => \A u \in Collectors(e) : thread'[u] = thread[u]
        BY <2>3 DEF CollectorCheck, CollectorStep, SerialInv, TypeOK
      <4>2. \A e \in Domain \ {d} : busy'[e] = busy[e]
        BY <4>1
      <4>3. busy'[d] = TRUE
        BY <2>1, <2>3, <4>1 DEF CollectorCheck, CollectorStep, SerialInv, TypeOK
      <4>4. \A e \in Domain : busy'[e] = IF e = d THEN TRUE ELSE busy[e]
        BY <4>2, <4>3
      <4>5. QED
        BY <2>1, <4>4, ExceptAt
    <3>3. QED
      BY <2>1, <2>2, <3>1, <3>2 DEF Abstract!Next, Abstract!BeginSample
  <2>4. CASE CollectorUpdate(t)
    <3>1. busy[d]
      BY <2>1, <2>4 DEF CollectorUpdate, CollectorStep
    <3>2. busy' = [busy EXCEPT ![d] = FALSE]
      <4>1. ASSUME NEW e \in Domain
            PROVE  /\ Collectors(e)' = Collectors(e)
                   /\ e # d => \A u \in Collectors(e) : thread'[u] = thread[u]
        BY <2>4 DEF CollectorUpdate, CollectorStep, SerialInv, TypeOK
      <4>2. \A e \in Domain \ {d} : busy'[e] = busy[e]
        BY <4>1
      <4>3. busy'[d] = FALSE
        BY <2>1, <2>4, <4>1 DEF CollectorUpdate, CollectorStep, SerialInv, TypeOK
      <4>4. \A e \in Domain : busy'[e] = IF e = d THEN FALSE ELSE busy[e]
        BY <4>2, <4>3
      <4>5. QED
        BY <2>1, <4>4, ExceptAt
    <3>3. QED
      BY <2>1, <2>2, <3>1, <3>2 DEF Abstract!Next, Abstract!EndSample
  <2>5. CASE CollectorWake(t) \/ (CollectorCheck(t) /\ ~running[d])
    <3>1. UNCHANGED busy
      BY <2>1, <2>5 DEF CollectorWake, CollectorCheck, CollectorStep, SerialInv, TypeOK
    <3>2. QED
      BY <2>2, <3>1
  <2>6. QED
    BY <1>6, <2>3, <2>4, <2>5 DEF Collecting
<1>7. CASE UNCHANGED vars
  BY <1>7 DEF vars
<1>8. QED
  BY <1>1, <1>2, <1>3, <1>4, <1>5, <1>6, <1>7 DEF Next, Begin, Continue

\* Starting and stopping a domain switches a periodic task on and off: the
\* safety half of ImplementsPeriodicTask.
THEOREM Implementation == ASSUME Serialized PROVE Spec => Abstract!Spec
<1>1. Init => Abstract!Init
  BY AbstractInit
<1>2. SerialInv /\ [Next]_vars => [Abstract!Next]_(Abstract!vars)
  BY AbstractNext
<1>3. QED
  BY <1>1, <1>2, SerialInvariant, PTL DEF Spec, Abstract!Spec

-----------------------------------------------------------------------------
(* The server.                                                             *)

Item == [flag : Flag \cup {BadFlag}, on : BOOLEAN]

\* Where the threads are: the constructor is alone, and then it is over; a call for a
\* domain is made by a thread that serves, and with turns only one serves.
TurnsInv ==
  /\ at \in [Caller -> RpcPC] /\ serving \in BOOLEAN
  /\ at[Main] \in {"constructor", "idle"}
  /\ \A c \in Caller : at[c] = "constructor" => c = Main /\ ~serving
  /\ ~serving => \A c \in Caller : Busy(c) => c = Main
  /\ Serialized => \A c, o \in Caller : Busy(c) /\ Busy(o) => c = o
  /\ \A c \in Caller : InProgress(c) => at[c] \in {"constructor", "devices"}

-----------------------------------------------------------------------------
(* A server step is a step of the domains, or none.                        *)

LEMMA Switched ==
  ASSUME TurnsInv, NEW c \in Caller, pc[c] = "idle", Busy(c)
  PROVE  MayBegin(c)
<1>1. ASSUME Serialized, NEW o \in Caller PROVE ~InProgress(o)
  <2>1. CASE o = c
    BY <2>1 DEF InProgress
  <2>2. CASE o # c
    BY <1>1, <2>2 DEF TurnsInv, Busy
  <2>3. QED
    BY <2>1, <2>2
<1>2. QED
  BY <1>1 DEF MayBegin

LEMMA DomainStep ==
  ASSUME TurnsInv, [ServerNext]_serverVars
  PROVE  [Next]_vars
<1>1. CASE ConstructorStart
  <2>1. PICK d \in ToStart : StartLocked(Main, d)
    BY <1>1 DEF ConstructorStart
  <2>2. Main \in Caller /\ d \in Domain /\ MayBegin(Main)
    BY <1>1, Switched, ServerControlAssumption DEF ConstructorStart, Busy, ToStart
  <2>3. QED
    BY <2>1, <2>2 DEF Next, Begin
<1>2. ASSUME NEW c \in Caller, NEW v \in Device, SwitchDomain(c, v)
      PROVE  [Next]_vars
  <2>1. MayBegin(c)
    BY <1>2, Switched DEF SwitchDomain, Busy
  <2>2. <<v, ItemOf(c).flag>> \in Domain
    BY <1>2, ServerControlAssumption DEF SwitchDomain
  <2>3. \/ StartLocked(c, <<v, ItemOf(c).flag>>)
        \/ StopLocked(c, <<v, ItemOf(c).flag>>)
    BY <1>2 DEF SwitchDomain
  <2>4. QED
    BY <2>1, <2>2, <2>3 DEF Next, Begin
<1>3. ASSUME NEW c \in Caller,
             Receive(c) \/ LoadBits(c) \/ StoreBits(c) \/ NextFlag(c) \/ Respond(c)
               \/ \E v \in Device : SwitchZone(c, v)
      PROVE  UNCHANGED vars
  BY <1>3 DEF Receive, LoadBits, StoreBits, NextFlag, Respond, SwitchZone
<1>4. CASE InDomain
  BY <1>4 DEF InDomain, Next
<1>5. CASE ConstructorReturn \/ UNCHANGED serverVars
  BY <1>5 DEF ConstructorReturn, serverVars
<1>6. QED
  BY <1>1, <1>2, <1>3, <1>4, <1>5 DEF ServerNext, Handle

LEMMA TurnsInit == ServerInit => TurnsInv
<1> SUFFICES ASSUME ServerInit PROVE TurnsInv
  OBVIOUS
<1>1. /\ Main \in Caller
      /\ at = [c \in Caller |-> IF c = Main THEN "constructor" ELSE "idle"]
      /\ serving = FALSE
      /\ \A c \in Caller : pc[c] = "idle"
  BY ServerControlAssumption DEF ServerInit, Init
<1>2. at \in [Caller -> RpcPC]
  BY <1>1 DEF RpcPC
<1>3. QED
  BY <1>1, <1>2 DEF TurnsInv, Busy, InProgress

\* How a call that goes on moves: it does not begin another one.
LEMMA Going ==
  ASSUME TypeOK, InDomain
  PROVE  \A c \in Caller : InProgress(c)' => InProgress(c)
<1>1. ASSUME NEW c \in Caller, Continue(c) PROVE \A o \in Caller : InProgress(o)' => InProgress(o)
  BY <1>1 DEF Continue, StartCreate, StopJoin, StopJoined, InProgress, TypeOK
<1>2. ASSUME NEW t \in Collector, Collecting(t) PROVE pc' = pc
  BY <1>2 DEF Collecting, CollectorCheck, CollectorUpdate, CollectorWake, CollectorStep, callerVars
<1>3. QED
  BY <1>1, <1>2 DEF InDomain, InProgress

LEMMA TurnsNext ==
  ASSUME TypeOK, TurnsInv, [ServerNext]_serverVars
  PROVE  TurnsInv'
<1> USE DEF TurnsInv, Busy, InProgress, RpcPC
<1>0. Main \in Caller
  BY ServerControlAssumption
<1>1. CASE ConstructorStart
  <2>1. PICK d \in ToStart : StartLocked(Main, d)
    BY <1>1 DEF ConstructorStart
  <2>2. \A c \in Caller \ {Main} : pc'[c] = pc[c]
    BY <2>1 DEF StartLocked, TypeOK
  <2>3. at' = at /\ serving' = serving /\ at[Main] = "constructor"
    BY <1>1 DEF ConstructorStart, rpcVars
  <2>4. QED
    BY <2>2, <2>3
<1>2. CASE ConstructorReturn
  BY <1>0, <1>2 DEF ConstructorReturn, vars
<1>3. ASSUME NEW c \in Caller, Receive(c) PROVE TurnsInv'
  BY <1>0, <1>3 DEF Receive, vars
<1>4. ASSUME NEW c \in Caller, LoadBits(c) \/ StoreBits(c) \/ Respond(c) PROVE TurnsInv'
  BY <1>0, <1>4 DEF LoadBits, StoreBits, Respond, vars
<1>5. ASSUME NEW c \in Caller, NextFlag(c) PROVE TurnsInv'
  BY <1>0, <1>5 DEF NextFlag, vars
<1>6. ASSUME NEW c \in Caller, NEW v \in Device, SwitchDomain(c, v) PROVE TurnsInv'
  <2>1. \A o \in Caller \ {c} : pc'[o] = pc[o]
    BY <1>6 DEF SwitchDomain, StartLocked, StopLocked, TypeOK
  <2>2. at' = at /\ serving' = serving /\ at[c] = "devices"
    BY <1>6 DEF SwitchDomain
  <2>3. QED
    BY <2>1, <2>2
<1>7. ASSUME NEW c \in Caller, NEW v \in Device, SwitchZone(c, v) PROVE TurnsInv'
  BY <1>7 DEF SwitchZone, vars
<1>8. CASE InDomain /\ UNCHANGED <<flags, enabled, serving, rpcVars>>
  BY <1>8, Going DEF rpcVars
<1>9. CASE UNCHANGED serverVars
  BY <1>9 DEF serverVars, rpcVars, vars
<1>10. QED
  BY <1>1, <1>2, <1>3, <1>4, <1>5, <1>6, <1>7, <1>8, <1>9 DEF ServerNext, Handle

LEMMA TurnsInvariant == ServerSpec => [](TypeOK /\ TurnsInv)
<1>1. ServerInit => TypeOK /\ TurnsInv
  BY TypeInit, TurnsInit DEF ServerInit
<1>2. TypeOK /\ TurnsInv /\ [ServerNext]_serverVars => (TypeOK /\ TurnsInv)'
  BY DomainStep, TypeNext, TurnsNext
<1>3. QED
  BY <1>1, <1>2, PTL DEF ServerSpec

\* The constructor and the handlers start and stop domains the way StatsDomain allows
\* its callers to, whether or not the requests take turns.
THEOREM UsesTheDomains == ServerSpec => UsesStatsDomain
<1>1. ServerInit => Init
  BY DEF ServerInit
<1>2. TurnsInv /\ [ServerNext]_serverVars => [Next]_vars
  BY DomainStep
<1>3. QED
  BY <1>1, <1>2, TurnsInvariant, PTL DEF ServerSpec, Spec, UsesStatsDomain

\* So that what is proved of the domains holds in the server.
THEOREM ServerUsesSerially ==
  ASSUME Serialized
  PROVE  ServerSpec => /\ [](SerialInv /\ FlagTellsTruth /\ JoinsOwnCollector)
                       /\ Abstract!Spec
<1>1. SerialInv => FlagTellsTruth /\ JoinsOwnCollector
  BY SerialImplies
<1>2. QED
  BY <1>1, UsesTheDomains, SerialInvariant, Implementation, PTL DEF UsesStatsDomain


-----------------------------------------------------------------------------
(* The reported configuration is in force.                                 *)

\* The flag has been stored, and device v has not been told yet.
Pending(v, f) == \E c \in Caller : at[c] = "devices" /\ ItemOf(c).flag = f /\ v \in visit[c]

\* The bits and what they stand for differ only where a handler is under way.
ForceInv ==
  /\ flags \subseteq Flag
  /\ enabled \in [Device \X ZoneFlag -> BOOLEAN]
  /\ todo \in [Caller -> Seq(Item)]
  /\ copy \in [Caller -> SUBSET Flag] /\ visit \in [Caller -> SUBSET Device]
  /\ \A c \in Caller : at[c] = "store" => copy[c] = flags
  /\ \A c \in Caller : at[c] \in {"store", "devices"} =>
       todo[c] # <<>> /\ ItemOf(c).flag \in Flag
  /\ \A c \in Caller : at[c] = "devices" => (ItemOf(c).flag \in flags <=> ItemOf(c).on)
  /\ ~serving => \A d \in Domain : running[d] => d[2] \in flags
  /\ serving => \A v \in Device, f \in DomainFlag :
       Pending(v, f) \/ (running[<<v, f>>] <=> f \in flags)
  /\ \A v \in Device, f \in ZoneFlag :
       Pending(v, f) \/ (enabled[<<v, f>>] <=> f \in flags)


\* Of two items about one flag, the enabling one comes first.
Ordered(q) ==
  \A i, j \in 1 .. Len(q) :
    i < j /\ q[i].flag = q[j].flag /\ q[j].flag # BadFlag /\ q[j].on => q[i].on

LEMMA SomeInts ==
  ASSUME NEW m \in Nat, NEW n \in Nat, NEW i \in 1 .. m + n
  PROVE  (i <= m => i \in 1 .. m) /\ (~(i <= m) => i - m \in 1 .. n)
  OBVIOUS

LEMMA FlagListIsSeq ==
  ASSUME NEW F \in SUBSET Flag, NEW q \in Lists(F)
  PROVE  /\ q \in Seq(Item)
         /\ \A i \in 1 .. Len(q) : q[i].flag \in F \cup {BadFlag}
         /\ \A i, j \in 1 .. Len(q) : i < j /\ q[j].on => q[i].on
<1> DEFINE FItem == [flag : F \cup {BadFlag}, on : BOOLEAN]
<1>1. PICK n \in 0 .. MaxFlags : q \in [1 .. n -> FItem]
  BY DEF Lists
<1>2. n \in Nat
  BY ServerControlAssumption
<1> HIDE DEF FItem
<1>3. q \in Seq(FItem)
  BY <1>1, <1>2
<1>4. FItem \subseteq Item
  BY DEF FItem, Item
<1>5. q \in Seq(Item)
  BY <1>3, <1>4, SeqMonotonic
<1>6. DOMAIN q = 1 .. Len(q)
  BY <1>5, LenProperties
<1>7. \A i \in 1 .. Len(q) : q[i] \in FItem
  BY <1>3, ElementOfSeq
<1>8. \A i, j \in DOMAIN q : i < j /\ q[j].on => q[i].on
  BY DEF Lists
<1>9. QED
  BY <1>5, <1>6, <1>7, <1>8 DEF FItem

LEMMA RequestIsOrdered ==
  ASSUME NEW q \in Requests
  PROVE  q \in Seq(Item) /\ Ordered(q)
<1>1. PICK d \in Lists(DebugFlag), s \in Lists(StatsFlag) : q = d \o s
  BY DEF Requests
<1>2. DebugFlag \in SUBSET Flag /\ StatsFlag \in SUBSET Flag
  BY DEF Flag
<1>3. /\ d \in Seq(Item)
      /\ \A i \in 1 .. Len(d) : d[i].flag \in DebugFlag \cup {BadFlag}
      /\ \A i, j \in 1 .. Len(d) : i < j /\ d[j].on => d[i].on
  BY <1>2, FlagListIsSeq
<1>4. /\ s \in Seq(Item)
      /\ \A i \in 1 .. Len(s) : s[i].flag \in StatsFlag \cup {BadFlag}
      /\ \A i, j \in 1 .. Len(s) : i < j /\ s[j].on => s[i].on
  BY <1>2, FlagListIsSeq
<1> DEFINE m == Len(d)
           n == Len(s)
<1>5. m \in Nat /\ n \in Nat
  BY <1>3, <1>4, LenProperties
<1>6. /\ q \in Seq(Item) /\ Len(q) = m + n
      /\ \A i \in 1 .. m + n : q[i] = IF i <= m THEN d[i] ELSE s[i - m]
  BY <1>1, <1>3, <1>4, ConcatProperties
<1> HIDE DEF m, n
<1>7. ASSUME NEW i \in 1 .. m + n, NEW j \in 1 .. m + n, i < j,
             q[i].flag = q[j].flag, q[j].flag # BadFlag, q[j].on
      PROVE  q[i].on
  <2>1. CASE j <= m
    <3>1. i <= m /\ i \in 1 .. m /\ j \in 1 .. m
      BY <1>5, <1>7, <2>1
    <3>2. q[i] = d[i] /\ q[j] = d[j]
      BY <1>6, <2>1, <3>1
    <3>3. QED
      BY <1>3, <1>7, <3>1, <3>2 DEF m
  <2>2. CASE ~(i <= m)
    <3>1. ~(j <= m) /\ i - m \in 1 .. n /\ j - m \in 1 .. n /\ i - m < j - m
      BY <1>5, <1>7, <2>2
    <3>2. q[i] = s[i - m] /\ q[j] = s[j - m]
      BY <1>6, <2>2, <3>1
    <3>3. QED
      BY <1>4, <1>7, <3>1, <3>2 DEF n
  <2>3. CASE i <= m /\ ~(j <= m)
    <3>1. i \in 1 .. m /\ j - m \in 1 .. n
      BY <1>5, <2>3, SomeInts
    <3>2. q[i] = d[i] /\ q[j] = s[j - m]
      BY <1>6, <2>3
    <3>3. q[i].flag \in DebugFlag \cup {BadFlag} /\ q[j].flag \in StatsFlag \cup {BadFlag}
      BY <1>3, <1>4, <3>1, <3>2 DEF m, n
    <3>4. QED
      BY <1>7, <3>3, ServerControlAssumption
  <2>4. QED
    BY <2>1, <2>2, <2>3
<1>8. QED
  BY <1>6, <1>7 DEF Ordered


LEMMA ForceInit == ServerInit => ForceInv
<1> SUFFICES ASSUME ServerInit PROVE ForceInv
  OBVIOUS
<1>1. /\ flags \subseteq Flag
      /\ enabled = [z \in Device \X ZoneFlag |-> z[2] \in flags]
      /\ serving = FALSE
      /\ \A c \in Caller : at[c] \in {"constructor", "idle"}
      /\ todo = [c \in Caller |-> <<>>]
      /\ visit = [c \in Caller |-> {}] /\ copy = [c \in Caller |-> {}]
      /\ \A d \in Domain : ~running[d]
  BY DEF ServerInit, Init, Flag
<1>2. enabled \in [Device \X ZoneFlag -> BOOLEAN]
  BY <1>1
<1>3. \A v \in Device, f \in ZoneFlag : enabled[<<v, f>>] <=> f \in flags
  BY <1>1
<1>4. todo \in [Caller -> Seq(Item)]
  BY <1>1, EmptySeq
<1>5. copy \in [Caller -> SUBSET Flag] /\ visit \in [Caller -> SUBSET Device]
  BY <1>1
<1>6. QED
  BY <1>1, <1>2, <1>3, <1>4, <1>5 DEF ForceInv

\* What the store leaves in the two words, when it stores what was loaded.
LEMMA Stored ==
  ASSUME ForceInv, NEW c \in Caller, StoreBits(c)
  PROVE  /\ flags' \subseteq Flag
         /\ \A f \in Flag : f \in flags' <=> IF f = ItemOf(c).flag THEN ItemOf(c).on ELSE f \in flags
<1> DEFINE g == ItemOf(c).flag
           b == ItemOf(c).on
           word == IF g \in DebugFlag THEN DebugFlag ELSE StatsFlag
           new == IF b THEN flags \cup {g} ELSE flags \ {g}
<1>1. flags' = (flags \ word) \cup (new \cap word)
  BY DEF StoreBits, ForceInv
<1>2. g \in Flag /\ flags \subseteq Flag
  BY DEF StoreBits, ForceInv
<1>3. g \in word /\ word \subseteq Flag
  BY <1>2 DEF Flag
<1> HIDE DEF word, g, b
<1>4. \A f \in Flag : f \in flags' <=> IF f = g THEN b ELSE f \in flags
  BY <1>1, <1>2, <1>3
<1>5. QED
  BY <1>1, <1>2, <1>3, <1>4 DEF g, b

\* Between "devices" and the next flag, nothing is pending for the other flags.
LEMMA ForceAlone ==
  ASSUME Serialized, TurnsInv, ForceInv, NEW c \in Caller, Busy(c)
  PROVE  \A v \in Device : \A f : Pending(v, f) =>
           at[c] = "devices" /\ ItemOf(c).flag = f /\ v \in visit[c]
BY DEF TurnsInv, Pending, Busy

LEMMA HeadIsItem ==
  ASSUME NEW q \in Seq(Item), q # <<>>
  PROVE  Head(q) \in Item /\ Tail(q) \in Seq(Item)
BY HeadTailProperties


\* What is pending stays so, as long as no handler is at its devices.
LEMMA NonePending ==
  ASSUME \A c \in Caller : at[c] # "devices"
  PROVE  \A v, f : ~Pending(v, f)
BY DEF Pending

LEMMA ForceSwitched ==
  ASSUME Serialized, TurnsInv, ForceInv, TypeOK, NEW c \in Caller, NEW w \in Device,
         SwitchDomain(c, w) \/ SwitchZone(c, w)
  PROVE  ForceInv'
<1> DEFINE g == ItemOf(c).flag
           b == ItemOf(c).on
<1>1. /\ at[c] = "devices" /\ w \in visit[c] /\ todo[c] # <<>>
      /\ UNCHANGED <<flags, serving, at, todo, copy>>
      /\ visit' = [visit EXCEPT ![c] = @ \ {w}]
      /\ g \in flags <=> b
      /\ c # Main => serving
  BY DEF SwitchDomain, SwitchZone, ForceInv, TurnsInv, Busy
<1>2. serving
  BY <1>1 DEF TurnsInv, Busy
<1>3. visit'[c] = visit[c] \ {w} /\ visit' \in [Caller -> SUBSET Device]
  BY <1>1 DEF ForceInv
<1>4. ASSUME NEW v \in Device, NEW f, Pending(v, f), <<v, f>> # <<w, g>>
      PROVE  Pending(v, f)'
  <2>1. g = f /\ v \in visit[c]
    BY <1>1, <1>4, ForceAlone DEF Busy
  <2>2. v # w
    BY <1>4, <2>1
  <2>3. at'[c] = "devices" /\ ItemOf(c)'.flag = f /\ v \in visit'[c]
    BY <1>1, <1>3, <2>1, <2>2 DEF ItemOf
  <2>4. QED
    BY <2>3 DEF Pending
<1> HIDE DEF g, b
<1>5. \A v \in Device, f \in DomainFlag :
        Pending(v, f)' \/ (running'[<<v, f>>] <=> f \in flags')
  <2> SUFFICES ASSUME NEW v \in Device, NEW f \in DomainFlag
               PROVE  Pending(v, f)' \/ (running'[<<v, f>>] <=> f \in flags')
    OBVIOUS
  <2>0. <<v, f>> \in Domain
    BY ServerControlAssumption
  <2>1. CASE <<v, f>> = <<w, g>>
    <3>1. SwitchDomain(c, w)
      BY <2>1, ServerControlAssumption DEF SwitchZone, g
    <3>2. running'[<<v, f>>] <=> b
      BY <2>0, <2>1, <3>1 DEF SwitchDomain, StartLocked, StopLocked, TypeOK, g, b
    <3>3. QED
      BY <1>1, <2>1, <3>2
  <2>2. CASE <<v, f>> # <<w, g>>
    <3>1. running'[<<v, f>>] = running[<<v, f>>]
      BY <2>0, <2>2 DEF SwitchDomain, SwitchZone, StartLocked, StopLocked, TypeOK, vars, g
    <3>2. Pending(v, f) \/ (running[<<v, f>>] <=> f \in flags)
      BY <1>2 DEF ForceInv
    <3>3. QED
      BY <1>1, <1>4, <2>2, <3>1, <3>2
  <2>3. QED
    BY <2>1, <2>2
<1>6. /\ enabled' \in [Device \X ZoneFlag -> BOOLEAN]
      /\ \A v \in Device, f \in ZoneFlag :
        Pending(v, f)' \/ (enabled'[<<v, f>>] <=> f \in flags')
  <2>0. enabled \in [Device \X ZoneFlag -> BOOLEAN]
    BY DEF ForceInv
  <2>1. CASE SwitchDomain(c, w)
    <3>1. enabled' = enabled /\ g \notin ZoneFlag
      BY <2>1, ServerControlAssumption DEF SwitchDomain, g
    <3>2. \A v \in Device, f \in ZoneFlag :
            Pending(v, f)' \/ (enabled[<<v, f>>] <=> f \in flags)
      BY <1>4, <3>1 DEF ForceInv
    <3>3. QED
      BY <1>1, <2>0, <3>1, <3>2
  <2>2. CASE SwitchZone(c, w)
    <3>1. enabled' = [enabled EXCEPT ![<<w, g>>] = b] /\ g \in ZoneFlag
      BY <2>2 DEF SwitchZone, g, b
    <3>2. b \in BOOLEAN
      BY <1>1, HeadIsItem DEF ForceInv, ItemOf, Item, b
    <3>3. enabled' \in [Device \X ZoneFlag -> BOOLEAN]
      BY <2>0, <3>1, <3>2
    <3>4. ASSUME NEW v \in Device, NEW f \in ZoneFlag
          PROVE  Pending(v, f)' \/ (enabled'[<<v, f>>] <=> f \in flags')
      <4>1. <<v, f>> \in Device \X ZoneFlag /\ <<w, g>> \in Device \X ZoneFlag
        BY <3>1
      <4>2. CASE <<v, f>> = <<w, g>>
        BY <1>1, <2>0, <3>1, <4>1, <4>2
      <4>3. CASE <<v, f>> # <<w, g>>
        <5>1. enabled'[<<v, f>>] = enabled[<<v, f>>]
          BY <2>0, <3>1, <4>1, <4>3
        <5>2. Pending(v, f) \/ (enabled[<<v, f>>] <=> f \in flags)
          BY DEF ForceInv
        <5>3. QED
          BY <1>1, <1>4, <4>3, <5>1, <5>2
      <4>4. QED
        BY <4>2, <4>3
    <3>5. QED
      BY <3>3, <3>4
  <2>3. QED
    BY <2>1, <2>2
<1>7. \A o \in Caller : ItemOf(o)' = ItemOf(o)
  BY <1>1 DEF ItemOf
<1>8. QED
  BY <1>1, <1>2, <1>3, <1>5, <1>6, <1>7 DEF ForceInv


LEMMA ForceStored ==
  ASSUME Serialized, TurnsInv, ForceInv, NEW c \in Caller, StoreBits(c)
  PROVE  ForceInv'
<1> DEFINE g == ItemOf(c).flag
           b == ItemOf(c).on
<1>1. /\ at[c] = "store" /\ at' = [at EXCEPT ![c] = "devices"]
      /\ UNCHANGED <<running, enabled, serving, todo>>
      /\ copy' = [copy EXCEPT ![c] = {}]
      /\ visit' = [visit EXCEPT ![c] = IF g \in DebugFlag THEN {} ELSE Device]
      /\ g \in Flag /\ todo[c] # <<>> /\ at \in [Caller -> RpcPC]
  BY DEF StoreBits, ForceInv, vars, TurnsInv
<1>2. serving /\ \A o \in Caller \ {c} : at[o] = "idle"
  BY <1>1 DEF TurnsInv, Busy
<1>3. /\ flags' \subseteq Flag
      /\ \A f \in Flag : f \in flags' <=> IF f = g THEN b ELSE f \in flags
  BY Stored
<1>4. ASSUME NEW v \in Device, NEW f PROVE ~Pending(v, f)
  BY <1>1, ForceAlone DEF Busy
<1>5. ItemOf(c)' = ItemOf(c)
  BY <1>1 DEF ItemOf
<1> HIDE DEF g, b
<1>6. ASSUME NEW v \in Device, NEW f \in StatsFlag, f = g
      PROVE  Pending(v, f)'
  <2>1. at'[c] = "devices" /\ v \in visit'[c]
    BY <1>1, <1>6, ServerControlAssumption DEF ForceInv
  <2>2. ItemOf(c)'.flag = f
    BY <1>5, <1>6 DEF g
  <2>3. QED
    BY <2>1, <2>2 DEF Pending
<1>7. StatsFlag \subseteq Flag /\ DomainFlag \subseteq StatsFlag /\ ZoneFlag \subseteq StatsFlag
  BY DEF Flag, StatsFlag
<1>8. ASSUME NEW v \in Device, NEW f \in DomainFlag
      PROVE  Pending(v, f)' \/ (running'[<<v, f>>] <=> f \in flags')
  <2>1. running[<<v, f>>] <=> f \in flags
    BY <1>2, <1>4 DEF ForceInv
  <2>2. QED
    BY <1>1, <1>3, <1>6, <1>7, <2>1
<1>9. ASSUME NEW v \in Device, NEW f \in ZoneFlag
      PROVE  Pending(v, f)' \/ (enabled'[<<v, f>>] <=> f \in flags')
  <2>1. enabled[<<v, f>>] <=> f \in flags
    BY <1>4 DEF ForceInv
  <2>2. QED
    BY <1>1, <1>3, <1>6, <1>7, <2>1
<1>10. /\ copy' \in [Caller -> SUBSET Flag] /\ visit' \in [Caller -> SUBSET Device]
       /\ \A o \in Caller : at'[o] # "store"
       /\ \A o \in Caller : at'[o] = "devices" => o = c
  BY <1>1, <1>2 DEF ForceInv
<1>11. todo'[c] # <<>> /\ ItemOf(c)'.flag \in Flag
       /\ (ItemOf(c)'.flag \in flags' <=> ItemOf(c)'.on)
  BY <1>1, <1>3, <1>5 DEF g, b
<1>12. QED
  BY <1>1, <1>2, <1>3, <1>8, <1>9, <1>10, <1>11 DEF ForceInv

LEMMA ForceNext ==
  ASSUME Serialized, TypeOK, TurnsInv, ForceInv, [ServerNext]_serverVars
  PROVE  ForceInv'
<1>0. Main \in Caller /\ at \in [Caller -> RpcPC]
  BY ServerControlAssumption DEF TurnsInv
<1>1. CASE ConstructorStart
  <2>1. PICK d \in ToStart : StartLocked(Main, d)
    BY <1>1 DEF ConstructorStart
  <2>2. \A e \in Domain : running'[e] => e = d \/ running[e]
    BY <2>1 DEF StartLocked, TypeOK, ToStart
  <2>3. UNCHANGED <<flags, enabled, serving, at, todo, visit, copy>> /\ ~serving /\ d[2] \in flags
    BY <1>0, <1>1, <2>1 DEF ConstructorStart, rpcVars, ToStart, TurnsInv
  <2>4. \A v, f : Pending(v, f)' <=> Pending(v, f)
    BY <2>3 DEF Pending, ItemOf
  <2>5. QED
    BY <2>2, <2>3, <2>4 DEF ForceInv, ItemOf
<1>2. CASE ConstructorReturn
  <2>1. /\ UNCHANGED <<running, flags, enabled, todo, visit, copy>> /\ serving'
        /\ at' = [at EXCEPT ![Main] = "idle"] /\ ToStart = {}
    BY <1>2 DEF ConstructorReturn, vars
  <2>2. ~serving /\ \A c \in Caller : at'[c] = "idle"
    BY <1>0, <1>2, <2>1 DEF ConstructorReturn, TurnsInv, Busy
  <2>3. \A v, f : ~Pending(v, f)
    BY <1>0, <1>2, <2>2, NonePending DEF ConstructorReturn, TurnsInv, Busy
  <2>4. ASSUME NEW v \in Device, NEW f \in DomainFlag
        PROVE  running'[<<v, f>>] <=> f \in flags'
    <3>1. <<v, f>> \in Domain /\ <<v, f>>[2] = f
      BY ServerControlAssumption
    <3>2. running[<<v, f>>] => f \in flags
      BY <2>2, <3>1 DEF ForceInv
    <3>3. f \in flags => running[<<v, f>>]
      BY <2>1, <3>1 DEF ToStart
    <3>4. QED
      BY <2>1, <3>2, <3>3
  <2>5. \A v \in Device, f \in ZoneFlag : enabled'[<<v, f>>] <=> f \in flags'
    BY <2>1, <2>3 DEF ForceInv
  <2>6. QED
    BY <2>1, <2>2, <2>4, <2>5 DEF ForceInv
<1>3. ASSUME NEW c \in Caller, Receive(c) \/ LoadBits(c) \/ NextFlag(c) \/ Respond(c)
      PROVE  ForceInv'
  <2>1. UNCHANGED <<running, flags, enabled, serving, visit>>
    BY <1>3 DEF Receive, LoadBits, NextFlag, Respond, vars
  <2>2. \A o \in Caller \ {c} : at'[o] = at[o] /\ copy'[o] = copy[o] /\ todo'[o] = todo[o]
    BY <1>0, <1>3 DEF Receive, LoadBits, NextFlag, Respond, ForceInv
  <2>3. /\ at'[c] \in {"idle", "next", "store"}
        /\ at'[c] = "store" => copy'[c] = flags /\ todo'[c] # <<>> /\ ItemOf(c)'.flag \in Flag
    <3>1. CASE LoadBits(c)
      <4>1. at'[c] = "store" /\ copy'[c] = flags /\ todo' = todo /\ todo[c] # <<>>
            /\ ItemOf(c).flag # BadFlag
        BY <1>0, <3>1 DEF LoadBits, ForceInv
      <4>2. ItemOf(c) \in Item
        BY <4>1, HeadIsItem DEF ForceInv, ItemOf
      <4>3. QED
        BY <4>1, <4>2 DEF Item, ItemOf
    <3>2. CASE ~LoadBits(c)
      BY <1>0, <1>3, <3>2 DEF Receive, NextFlag, Respond
    <3>3. QED
      BY <3>1, <3>2
  <2>4. todo' \in [Caller -> Seq(Item)] /\ copy' \in [Caller -> SUBSET Flag]
    <3>1. CASE Receive(c)
      BY <3>1, RequestIsOrdered DEF Receive, ForceInv
    <3>2. CASE LoadBits(c)
      BY <3>2 DEF LoadBits, ForceInv
    <3>3. CASE NextFlag(c)
      <4>1. at[c] = "devices" /\ todo[c] # <<>>
        BY <3>3 DEF NextFlag, ForceInv
      <4>2. Tail(todo[c]) \in Seq(Item)
        BY <4>1, HeadIsItem DEF ForceInv
      <4>3. QED
        BY <3>3, <4>2 DEF NextFlag, ForceInv
    <3>4. CASE Respond(c)
      BY <3>4, EmptySeq DEF Respond, ForceInv
    <3>5. QED
      BY <1>3, <3>1, <3>2, <3>3, <3>4
  <2>5. \A v \in Device : \A f : Pending(v, f) => Pending(v, f)'
    <3>1. ASSUME NEW v \in Device, NEW f, NEW o \in Caller,
                 at[o] = "devices", ItemOf(o).flag = f, v \in visit[o]
          PROVE  Pending(v, f)'
      <4>1. o # c
        BY <1>3, <3>1 DEF Receive, LoadBits, NextFlag, Respond, Busy
      <4>2. at'[o] = "devices" /\ ItemOf(o)'.flag = f /\ v \in visit'[o]
        BY <2>1, <2>2, <3>1, <4>1 DEF ItemOf
      <4>3. QED
        BY <4>2 DEF Pending
    <3>2. QED
      BY <3>1 DEF Pending
  <2>6. \A o \in Caller \ {c} : ItemOf(o)' = ItemOf(o)
    BY <2>2 DEF ItemOf
  <2>7. ASSUME NEW o \in Caller
        PROVE  /\ at'[o] = "store" => copy'[o] = flags'
               /\ at'[o] \in {"store", "devices"} => todo'[o] # <<>> /\ ItemOf(o)'.flag \in Flag
               /\ at'[o] = "devices" => (ItemOf(o)'.flag \in flags' <=> ItemOf(o)'.on)
    <3>1. CASE o = c
      BY <2>1, <2>3, <3>1
    <3>2. CASE o # c
      <4>1. /\ at[o] = "store" => copy[o] = flags
            /\ at[o] \in {"store", "devices"} => todo[o] # <<>> /\ ItemOf(o).flag \in Flag
            /\ at[o] = "devices" => (ItemOf(o).flag \in flags <=> ItemOf(o).on)
        BY DEF ForceInv
      <4>2. /\ at'[o] = at[o] /\ copy'[o] = copy[o] /\ todo'[o] = todo[o]
            /\ ItemOf(o)' = ItemOf(o) /\ flags' = flags
        BY <2>1, <2>2, <2>6, <3>2
      <4>3. QED
        BY <4>1, <4>2
    <3>3. QED
      BY <3>1, <3>2
  <2>8. /\ ~serving' => \A d \in Domain : running'[d] => d[2] \in flags'
        /\ serving' => \A v \in Device, f \in DomainFlag :
             Pending(v, f)' \/ (running'[<<v, f>>] <=> f \in flags')
        /\ \A v \in Device, f \in ZoneFlag :
             Pending(v, f)' \/ (enabled'[<<v, f>>] <=> f \in flags')
    BY <2>1, <2>5 DEF ForceInv
  <2>9. QED
    BY <2>1, <2>4, <2>7, <2>8 DEF ForceInv
<1>4. ASSUME NEW c \in Caller, StoreBits(c) PROVE ForceInv'
  BY <1>4, ForceStored
<1>5. ASSUME NEW c \in Caller, NEW v \in Device, SwitchDomain(c, v) \/ SwitchZone(c, v)
      PROVE  ForceInv'
  BY <1>5, ForceSwitched
<1>6. CASE (InDomain /\ UNCHANGED <<flags, enabled, serving, rpcVars>>) \/ UNCHANGED serverVars
  <2>1. UNCHANGED <<flags, enabled, serving, at, todo, visit, copy>>
    BY <1>6 DEF rpcVars, serverVars
  <2>2. running' = running
    BY <1>6 DEF InDomain, Continue, StartCreate, StopJoin, StopJoined, Collecting,
                CollectorCheck, CollectorUpdate, CollectorWake, CollectorStep, domainVars,
                serverVars, vars
  <2>3. \A v, f : Pending(v, f)' <=> Pending(v, f)
    BY <2>1 DEF Pending, ItemOf
  <2>4. QED
    BY <2>1, <2>2, <2>3 DEF ForceInv, ItemOf
<1>7. QED
  BY <1>1, <1>2, <1>3, <1>4, <1>5, <1>6 DEF ServerNext, Handle

THEOREM ForceInvariant == ASSUME Serialized PROVE ServerSpec => []ForceInv
<1>1. ServerInit => ForceInv
  BY ForceInit
<1>2. TypeOK /\ TurnsInv /\ ForceInv /\ [ServerNext]_serverVars => ForceInv'
  BY ForceNext
<1>3. QED
  BY <1>1, <1>2, TurnsInvariant, PTL DEF ServerSpec

\* Between requests, what GetServerConfig reports is what happens: a collector goes on
\* exactly for the domains whose flag is up, and the zones are enabled that are said to be.
THEOREM ConfigurationIsInForce == ASSUME Serialized PROVE ServerSpec => []ConfigIsInForce
<1>1. ASSUME TypeOK, TurnsInv, ForceInv, FlagTellsTruth PROVE ConfigIsInForce
  <2> SUFFICES ASSUME serving, \A c \in Caller : ~Busy(c)
               PROVE  /\ \A d \in Domain :
                           d[2] \in flags <=> \E t \in Collector :
                              thread[t] \notin {"none", "exited"} /\ serves[t] = d
                      /\ \A z \in Device \X ZoneFlag : z[2] \in flags <=> enabled[z]
    BY DEF ConfigIsInForce
  <2>1. \A c \in Caller : ~InProgress(c) /\ at[c] # "devices"
    BY <1>1 DEF TurnsInv, Busy
  <2>2. \A v, f : ~Pending(v, f)
    BY <2>1, NonePending
  <2>3. ASSUME NEW d \in Domain
        PROVE  d[2] \in flags <=> \E t \in Collector :
                              thread[t] \notin {"none", "exited"} /\ serves[t] = d
    <3>1. PICK v \in Device, f \in DomainFlag : d = <<v, f>>
      BY ServerControlAssumption
    <3>2. running[d] <=> d[2] \in flags
      BY <1>1, <2>2, <3>1 DEF ForceInv
    <3>3. running[d] <=> \E t \in Collectors(d) : thread[t] # "exited"
      BY <1>1, <2>1 DEF FlagTellsTruth
    <3>4. QED
      BY <3>2, <3>3 DEF Collectors, Alive
  <2>4. ASSUME NEW z \in Device \X ZoneFlag PROVE z[2] \in flags <=> enabled[z]
    <3>1. PICK v \in Device, f \in ZoneFlag : z = <<v, f>>
      OBVIOUS
    <3>2. QED
      BY <1>1, <2>2, <3>1 DEF ForceInv
  <2>5. QED
    BY <2>3, <2>4
<1>2. QED
  BY <1>1, TurnsInvariant, ForceInvariant, ServerUsesSerially, PTL


-----------------------------------------------------------------------------
(* A response says what has been applied.                                  *)

\* What the first n items of q say of flag f, if they do, is the bit b.
Told(q, n, f, b) ==
  (\E i \in 1 .. n : q[i].flag = f) => (b <=> \A i \in 1 .. n : q[i].flag = f => q[i].on)

\* The items that c is through with.
Past(c) == Len(request[c]) - Len(todo[c])

\* What a handler has left is the end of its request; the flags before are known ones,
\* and their bits are what the request says.
HonestInv ==
  /\ request \in [Caller -> Seq(Item)]
  /\ \A c \in Caller : at[c] \in {"next", "store", "devices"} =>
       /\ Ordered(request[c])
       /\ Past(c) \in Nat
       /\ \A i \in 1 .. Len(todo[c]) : todo[c][i] = request[c][Past(c) + i]
       /\ \A i \in 1 .. Past(c) : request[c][i].flag # BadFlag
       /\ \A f \in Flag :
            Told(request[c], IF at[c] = "devices" THEN Past(c) + 1 ELSE Past(c), f, f \in flags)


LEMMA ServerUpToOneMore ==
  ASSUME NEW n \in Nat, NEW i \in 1 .. n + 1
  PROVE  i \in 1 .. n \/ (i = n + 1)
  OBVIOUS

LEMMA ServerWithin ==
  ASSUME NEW n \in Nat, NEW m \in Nat, n + 1 <= m
  PROVE  /\ n + 1 \in 1 .. n + 1 /\ n + 1 \in 1 .. m
         /\ \A i \in 1 .. n : i \in 1 .. n + 1 /\ i \in 1 .. m /\ i < n + 1
  OBVIOUS

\* One item more: an enabling one comes after enabling ones only, so that the last word
\* on a flag is off as soon as there was one to that effect.
LEMMA ToldOneMore ==
  ASSUME NEW q \in Seq(Item), Ordered(q), NEW n \in Nat, n + 1 <= Len(q),
         NEW f \in Flag, NEW b \in BOOLEAN, NEW c \in BOOLEAN, Told(q, n, f, b),
         c <=> IF f = q[n + 1].flag THEN q[n + 1].on ELSE b
  PROVE  Told(q, n + 1, f, c)
<1> DEFINE m == Len(q)
           last == n + 1
<1>1. m \in Nat
  BY LenProperties
<1>2. /\ last \in 1 .. last /\ last \in 1 .. m
      /\ \A i \in 1 .. n : i \in 1 .. last /\ i \in 1 .. m /\ i < last
  BY <1>1, ServerWithin
<1>3. \A i \in 1 .. last : i \in 1 .. n \/ i = last
  BY ServerUpToOneMore
<1>4. f # BadFlag
  BY ServerControlAssumption
<1> HIDE DEF m, last
<1>5. CASE f = q[last].flag
  <2>1. c <=> q[last].on
    BY <1>5 DEF last
  <2>2. ASSUME q[last].on PROVE \A i \in 1 .. last : q[i].flag = f => q[i].on
    <3>1. ASSUME NEW i \in 1 .. n, q[i].flag = f PROVE q[i].on
      BY <1>2, <1>4, <1>5, <2>2, <3>1 DEF Ordered, m
    <3>2. QED
      BY <1>3, <2>2, <3>1
  <2>3. (\A i \in 1 .. last : q[i].flag = f => q[i].on) => q[last].on
    BY <1>2, <1>5
  <2>4. QED
    BY <2>1, <2>2, <2>3 DEF Told, last
<1>6. CASE f # q[last].flag
  <2>1. c <=> b
    BY <1>6 DEF last
  <2>2. (\E i \in 1 .. last : q[i].flag = f) => \E i \in 1 .. n : q[i].flag = f
    BY <1>3, <1>6
  <2>3. (\A i \in 1 .. last : q[i].flag = f => q[i].on)
          <=> \A i \in 1 .. n : q[i].flag = f => q[i].on
    BY <1>2, <1>3, <1>6
  <2>4. QED
    BY <2>1, <2>2, <2>3 DEF Told, last
<1>7. QED
  BY <1>5, <1>6

LEMMA HonestInit == ServerInit => HonestInv
<1> SUFFICES ASSUME ServerInit PROVE HonestInv
  OBVIOUS
<1>1. request = [c \in Caller |-> <<>>] /\ \A c \in Caller : at[c] \in {"constructor", "idle"}
  BY DEF ServerInit
<1>2. QED
  BY <1>1, EmptySeq DEF ServerInit, HonestInv

\* The lengths of what is left and of what is past.
LEMMA Lengths ==
  ASSUME ForceInv, HonestInv, NEW c \in Caller, at[c] \in {"next", "store", "devices"}
  PROVE  /\ Len(request[c]) \in Nat /\ Len(todo[c]) \in Nat
         /\ Past(c) \in Nat /\ Len(request[c]) = Past(c) + Len(todo[c])
         /\ todo[c] # <<>> => /\ Past(c) + 1 <= Len(request[c])
                              /\ 1 \in 1 .. Len(todo[c])
                              /\ request[c][Past(c) + 1] = ItemOf(c)
<1>1. request[c] \in Seq(Item) /\ todo[c] \in Seq(Item)
  BY DEF ForceInv, HonestInv
<1>2. Len(request[c]) \in Nat /\ Len(todo[c]) \in Nat
  BY <1>1, LenProperties
<1>3. Past(c) \in Nat /\ Past(c) = Len(request[c]) - Len(todo[c])
  BY DEF HonestInv, Past
<1>4. Len(request[c]) = Past(c) + Len(todo[c])
  BY <1>2, <1>3
<1>5. ASSUME todo[c] # <<>>
      PROVE  /\ Past(c) + 1 <= Len(request[c])
             /\ 1 \in 1 .. Len(todo[c])
             /\ request[c][Past(c) + 1] = ItemOf(c)
  <2>1. Len(todo[c]) \in Nat \ {0}
    BY <1>1, <1>5, EmptySeq
  <2>2. 1 \in 1 .. Len(todo[c]) /\ Past(c) + 1 <= Len(request[c])
    BY <1>2, <1>3, <1>4, <2>1
  <2>3. todo[c][1] = request[c][Past(c) + 1]
    BY <2>2 DEF HonestInv
  <2>4. Head(todo[c]) = todo[c][1]
    BY <1>1, <1>5
  <2>5. QED
    BY <2>2, <2>3, <2>4 DEF ItemOf
<1>6. QED
  BY <1>2, <1>3, <1>4, <1>5


\* What HonestInv says of one handler, with what it depends on.
LEMMA HonestFor ==
  ASSUME HonestInv, NEW o \in Caller, UNCHANGED flags,
         todo'[o] = todo[o], request'[o] = request[o],
         at[o] \in {"next", "store", "devices"}, at'[o] = "devices" <=> at[o] = "devices"
  PROVE  /\ Ordered(request[o])'
         /\ Past(o)' \in Nat
         /\ (\A i \in 1 .. Len(todo[o]) : todo[o][i] = request[o][Past(o) + i])'
         /\ (\A i \in 1 .. Past(o) : request[o][i].flag # BadFlag)'
         /\ (\A f \in Flag :
            Told(request[o], IF at[o] = "devices" THEN Past(o) + 1 ELSE Past(o), f, f \in flags))'
<1>1. Past(o)' = Past(o) /\ flags' = flags
  BY DEF Past
<1>2. /\ Ordered(request[o])
      /\ Past(o) \in Nat
      /\ (\A i \in 1 .. Len(todo[o]) : todo[o][i] = request[o][Past(o) + i])
      /\ (\A i \in 1 .. Past(o) : request[o][i].flag # BadFlag)
      /\ (\A f \in Flag :
            Told(request[o], IF at[o] = "devices" THEN Past(o) + 1 ELSE Past(o), f, f \in flags))
  BY DEF HonestInv
<1>3. Ordered(request[o])' <=> Ordered(request[o])
  BY DEF Ordered
<1> HIDE DEF Past, Ordered, Told
<1>4. \A f \in Flag : Told(request'[o], IF at'[o] = "devices" THEN Past(o)' + 1 ELSE Past(o)',
                          f, f \in flags')
  BY <1>1, <1>2
<1>5. (\A i \in 1 .. Len(todo[o]) : todo[o][i] = request[o][Past(o) + i])'
      /\ (\A i \in 1 .. Past(o) : request[o][i].flag # BadFlag)'
  BY <1>1, <1>2
<1>6. QED
  BY <1>1, <1>2, <1>3, <1>4, <1>5

LEMMA Beginning ==
  ASSUME NEW n \in Nat
  PROVE  n - n = 0 /\ 1 .. 0 = {} /\ \A i \in 1 .. n : 0 + i = i
OBVIOUS

LEMMA HonestReceived ==
  ASSUME HonestInv, NEW c \in Caller, Receive(c), at \in [Caller -> RpcPC],
         todo \in [Caller -> Seq(Item)]
  PROVE  HonestInv'
<1>1. PICK q \in Requests : todo' = [todo EXCEPT ![c] = q] /\ request' = [request EXCEPT ![c] = q]
  BY DEF Receive
<1>2. q \in Seq(Item) /\ Ordered(q)
  BY RequestIsOrdered
<1>3. /\ request' \in [Caller -> Seq(Item)]
      /\ todo'[c] = q /\ request'[c] = q /\ at'[c] = "next" /\ flags' = flags
      /\ \A o \in Caller \ {c} : at'[o] = at[o] /\ todo'[o] = todo[o] /\ request'[o] = request[o]
  BY <1>1, <1>2 DEF HonestInv, Receive
<1> DEFINE n == Len(q)
<1>4. n \in Nat
  BY <1>2, LenProperties
<1>5. n - n = 0 /\ 1 .. 0 = {} /\ \A i \in 1 .. n : 0 + i = i
  BY <1>4, Beginning
<1>6. Past(c)' = 0
  BY <1>3, <1>5 DEF Past
<1>7. \A i \in 1 .. Len(todo'[c]) : todo'[c][i] = request'[c][Past(c)' + i]
  BY <1>3, <1>5, <1>6
<1>8. \A f : Told(request'[c], Past(c)', f, f \in flags')
  BY <1>5, <1>6 DEF Told
<1>9. ASSUME NEW o \in Caller, at'[o] \in {"next", "store", "devices"}
      PROVE  /\ Ordered(request[o])'
             /\ Past(o)' \in Nat
             /\ (\A i \in 1 .. Len(todo[o]) : todo[o][i] = request[o][Past(o) + i])'
             /\ (\A i \in 1 .. Past(o) : request[o][i].flag # BadFlag)'
             /\ (\A f \in Flag :
                   Told(request[o], IF at[o] = "devices" THEN Past(o) + 1 ELSE Past(o), f,
                        f \in flags))'
  <2>1. CASE o = c
    <3>1. Ordered(request[c])'
      BY <1>2, <1>3 DEF Ordered
    <3>2. Past(c)' \in Nat /\ \A i \in 1 .. Past(c)' : request'[c][i].flag # BadFlag
      BY <1>5, <1>6
    <3>3. QED
      BY <1>3, <1>7, <1>8, <2>1, <3>1, <3>2
  <2>2. CASE o # c
    BY <1>3, <1>9, <2>2, HonestFor
  <2>3. QED
    BY <2>1, <2>2
<1>10. QED
  BY <1>3, <1>9 DEF HonestInv

LEMMA HonestStored ==
  ASSUME Serialized, TurnsInv, ForceInv, HonestInv, NEW c \in Caller, StoreBits(c)
  PROVE  HonestInv'
<1>1. /\ at[c] = "store" /\ at' = [at EXCEPT ![c] = "devices"] /\ at \in [Caller -> RpcPC]
      /\ UNCHANGED <<todo, request>> /\ todo[c] # <<>> /\ ItemOf(c).flag \in Flag
  BY DEF StoreBits, ForceInv, TurnsInv
<1>2. at'[c] = "devices" /\ \A o \in Caller \ {c} : at'[o] = "idle"
  BY <1>1 DEF TurnsInv, Busy
<1> DEFINE q == request[c]
           n == Past(c)
<1>3. Past(c)' = n
  BY <1>1 DEF Past
<1>4. n \in Nat /\ n + 1 <= Len(q) /\ q[n + 1] = ItemOf(c)
  BY <1>1, Lengths
<1>5. Ordered(q) /\ q \in Seq(Item) /\ \A f \in Flag : Told(q, n, f, f \in flags)
  BY <1>1 DEF HonestInv
<1>6. ItemOf(c) \in Item
  BY <1>1, HeadIsItem DEF ForceInv, ItemOf
<1> HIDE DEF q, n
<1>7. ASSUME NEW f \in Flag PROVE Told(q, n + 1, f, f \in flags')
  <2> DEFINE b == f \in flags
             c2 == f \in flags'
  <2>1. c2 <=> IF f = q[n + 1].flag THEN q[n + 1].on ELSE b
    BY <1>4, Stored
  <2>2. Told(q, n, f, b) /\ b \in BOOLEAN /\ c2 \in BOOLEAN
    BY <1>5
  <2> HIDE DEF b, c2
  <2>3. Told(q, n + 1, f, c2)
    BY <1>4, <1>5, <2>1, <2>2, ToldOneMore
  <2>4. QED
    BY <2>3 DEF c2
<1>8. /\ (\A i \in 1 .. Len(todo[c]) : todo[c][i] = request[c][Past(c) + i])
      /\ (\A i \in 1 .. Past(c) : request[c][i].flag # BadFlag)
  BY <1>1 DEF HonestInv
<1>9. /\ Ordered(request[c])'
      /\ Past(c)' \in Nat
      /\ (\A i \in 1 .. Len(todo[c]) : todo[c][i] = request[c][Past(c) + i])'
      /\ (\A i \in 1 .. Past(c) : request[c][i].flag # BadFlag)'
      /\ (\A f \in Flag : Told(request[c], Past(c) + 1, f, f \in flags))'
  BY <1>1, <1>3, <1>4, <1>5, <1>7, <1>8 DEF q, n
<1>10. request' \in [Caller -> Seq(Item)]
  BY <1>1 DEF HonestInv
<1>11. QED
  BY <1>2, <1>9, <1>10 DEF HonestInv


LEMMA HonestOnward ==
  ASSUME TurnsInv, ForceInv, HonestInv, NEW c \in Caller, NextFlag(c)
  PROVE  HonestInv'
<1>1. /\ at[c] = "devices" /\ at' = [at EXCEPT ![c] = "next"] /\ at \in [Caller -> RpcPC]
      /\ UNCHANGED <<request, flags>> /\ todo' = [todo EXCEPT ![c] = Tail(@)]
      /\ todo[c] # <<>> /\ ItemOf(c).flag \in Flag
  BY DEF NextFlag, ForceInv, TurnsInv
<1>2. /\ at'[c] = "next" /\ todo'[c] = Tail(todo[c])
      /\ \A o \in Caller \ {c} : at'[o] = at[o] /\ todo'[o] = todo[o] /\ request'[o] = request[o]
  BY <1>1 DEF ForceInv
<1> DEFINE q == request[c]
           n == Past(c)
           m == Len(todo[c])
<1>3. /\ todo[c] \in Seq(Item) /\ m \in Nat /\ n \in Nat /\ n + 1 <= Len(q) /\ 1 \in 1 .. m
      /\ q[n + 1] = ItemOf(c) /\ Len(q) = n + m
  BY <1>1, Lengths DEF ForceInv
<1>4. /\ Len(todo'[c]) = m - 1
      /\ \A i \in 1 .. Len(Tail(todo[c])) : Tail(todo[c])[i] = todo[c][i + 1]
  <2>1. Len(Tail(todo[c])) = Len(todo[c]) - 1
    BY <1>1, <1>3, HeadTailProperties
  <2>2. \A i \in 1 .. Len(Tail(todo[c])) : Tail(todo[c])[i] = todo[c][i + 1]
    BY <1>1, <1>3, HeadTailProperties
  <2>3. QED
    BY <1>2, <2>1, <2>2
<1>5. \A i \in 1 .. m : todo[c][i] = q[n + i]
  BY <1>1 DEF HonestInv
<1>6. Past(c)' = Len(q) - (m - 1)
  BY <1>1, <1>4 DEF Past
<1>7. /\ Ordered(q) /\ (\A i \in 1 .. n : q[i].flag # BadFlag)
      /\ \A f \in Flag : Told(q, n + 1, f, f \in flags)
  BY <1>1 DEF HonestInv
<1> HIDE DEF q, n, m
<1>8. Past(c)' = n + 1
  BY <1>3, <1>6
<1>9. \A i \in 1 .. n + 1 : i \in 1 .. n \/ i = n + 1
  BY <1>3, ServerUpToOneMore
<1>10. \A i \in 1 .. n + 1 : q[i].flag # BadFlag
  BY <1>1, <1>3, <1>7, <1>9, ServerControlAssumption
<1>11. \A i \in 1 .. m - 1 : i + 1 \in 1 .. m /\ (n + 1) + i = n + (i + 1)
  BY <1>3
<1>12. \A i \in 1 .. m - 1 : todo'[c][i] = q[(n + 1) + i]
  BY <1>2, <1>4, <1>5, <1>11
<1>13. n + 1 \in Nat
  BY <1>3
<1>14. /\ Ordered(request[c])'
       /\ Past(c)' \in Nat
       /\ (\A i \in 1 .. Len(todo[c]) : todo[c][i] = request[c][Past(c) + i])'
       /\ (\A i \in 1 .. Past(c) : request[c][i].flag # BadFlag)'
       /\ (\A f \in Flag : Told(request[c], Past(c), f, f \in flags))'
  <2>1. request'[c] = q /\ flags' = flags
    BY <1>1 DEF q
  <2>2. Ordered(request'[c])
    BY <1>7, <2>1
  <2>3. \A i \in 1 .. Len(todo'[c]) : todo'[c][i] = request'[c][Past(c)' + i]
    BY <1>4, <1>8, <1>12, <2>1
  <2>4. \A i \in 1 .. Past(c)' : request'[c][i].flag # BadFlag
    BY <1>8, <1>10, <2>1
  <2>5. \A f \in Flag : Told(request'[c], Past(c)', f, f \in flags')
    BY <1>7, <1>8, <2>1
  <2>6. QED
    BY <1>8, <1>13, <2>2, <2>3, <2>4, <2>5 DEF Ordered
<1>15. ASSUME NEW o \in Caller, at'[o] \in {"next", "store", "devices"}
       PROVE  /\ Ordered(request[o])'
              /\ Past(o)' \in Nat
              /\ (\A i \in 1 .. Len(todo[o]) : todo[o][i] = request[o][Past(o) + i])'
              /\ (\A i \in 1 .. Past(o) : request[o][i].flag # BadFlag)'
              /\ (\A f \in Flag :
                    Told(request[o], IF at[o] = "devices" THEN Past(o) + 1 ELSE Past(o), f,
                         f \in flags))'
  <2>1. CASE o = c
    BY <1>2, <1>14, <2>1
  <2>2. CASE o # c
    BY <1>1, <1>2, <1>15, <2>2, HonestFor
  <2>3. QED
    BY <2>1, <2>2
<1>16. QED
  BY <1>1, <1>15 DEF HonestInv

LEMMA HonestNext ==
  ASSUME Serialized, TurnsInv, ForceInv, HonestInv, [ServerNext]_serverVars
  PROVE  HonestInv'
<1>0. Main \in Caller /\ at \in [Caller -> RpcPC]
  BY ServerControlAssumption DEF TurnsInv
<1>1. ASSUME request' \in [Caller -> Seq(Item)], flags' = flags,
             \A o \in Caller : at'[o] \in {"next", "store", "devices"} =>
               /\ todo'[o] = todo[o] /\ request'[o] = request[o]
               /\ at[o] \in {"next", "store", "devices"}
               /\ at'[o] = "devices" <=> at[o] = "devices"
      PROVE  HonestInv'
  <2>1. ASSUME NEW o \in Caller, at'[o] \in {"next", "store", "devices"}
        PROVE  /\ Ordered(request[o])'
               /\ Past(o)' \in Nat
               /\ (\A i \in 1 .. Len(todo[o]) : todo[o][i] = request[o][Past(o) + i])'
               /\ (\A i \in 1 .. Past(o) : request[o][i].flag # BadFlag)'
               /\ (\A f \in Flag :
                     Told(request[o], IF at[o] = "devices" THEN Past(o) + 1 ELSE Past(o), f,
                          f \in flags))'
    <3>1. /\ todo'[o] = todo[o] /\ request'[o] = request[o]
          /\ at[o] \in {"next", "store", "devices"} /\ (at'[o] = "devices" <=> at[o] = "devices")
      BY <1>1, <2>1
    <3>2. QED
      BY <1>1, <3>1, HonestFor
  <2>2. QED
    BY <1>1, <2>1 DEF HonestInv
<1>2. ASSUME NEW c \in Caller, Receive(c) PROVE HonestInv'
  BY <1>0, <1>2, HonestReceived DEF ForceInv
<1>3. ASSUME NEW c \in Caller, StoreBits(c) PROVE HonestInv'
  BY <1>3, HonestStored
<1>4. ASSUME NEW c \in Caller, NextFlag(c) PROVE HonestInv'
  BY <1>4, HonestOnward
<1>5. ASSUME NEW c \in Caller, LoadBits(c) PROVE HonestInv'
  <2>1. UNCHANGED <<flags, todo, request>> /\ at' = [at EXCEPT ![c] = "store"] /\ at[c] = "next"
    BY <1>5 DEF LoadBits
  <2>2. QED
    BY <1>0, <1>1, <2>1 DEF HonestInv
<1>6. ASSUME NEW c \in Caller, Respond(c) PROVE HonestInv'
  <2>1. /\ flags' = flags /\ at' = [at EXCEPT ![c] = "idle"]
        /\ todo' = [todo EXCEPT ![c] = <<>>] /\ request' = [request EXCEPT ![c] = <<>>]
    BY <1>6 DEF Respond
  <2>2. request' \in [Caller -> Seq(Item)]
    BY <2>1, EmptySeq DEF HonestInv
  <2>3. at'[c] = "idle" /\ \A o \in Caller \ {c} :
                              at'[o] = at[o] /\ todo'[o] = todo[o] /\ request'[o] = request[o]
    BY <1>0, <2>1 DEF HonestInv, ForceInv
  <2>4. QED
    BY <1>1, <2>1, <2>2, <2>3
<1>7. ASSUME NEW c \in Caller, NEW v \in Device, SwitchDomain(c, v) \/ SwitchZone(c, v)
      PROVE  HonestInv'
  <2>1. UNCHANGED <<flags, at, todo, request>>
    BY <1>7 DEF SwitchDomain, SwitchZone
  <2>2. QED
    BY <1>1, <2>1 DEF HonestInv
<1>8. CASE ConstructorReturn
  <2>1. UNCHANGED <<flags, todo, request>> /\ at' = [at EXCEPT ![Main] = "idle"]
    BY <1>8 DEF ConstructorReturn
  <2>2. QED
    BY <1>0, <1>1, <2>1 DEF HonestInv
<1>9. CASE ConstructorStart \/ (InDomain /\ UNCHANGED <<flags, enabled, serving, rpcVars>>)
             \/ UNCHANGED serverVars
  <2>1. UNCHANGED <<flags, at, todo, request>>
    BY <1>9 DEF ConstructorStart, serverVars, rpcVars
  <2>2. QED
    BY <1>1, <2>1 DEF HonestInv
<1>10. QED
  BY <1>2, <1>3, <1>4, <1>5, <1>6, <1>7, <1>8, <1>9 DEF ServerNext, Handle


AnswerInv == answer \in [Caller -> {"none", "ok", "invalid"}]

LEMMA AnswerInvariant == ServerSpec => []AnswerInv
<1>1. ServerInit => AnswerInv
  BY DEF ServerInit, AnswerInv
<1>2. ASSUME AnswerInv, [ServerNext]_serverVars PROVE AnswerInv'
  <2>1. ASSUME NEW c \in Caller, Receive(c) \/ LoadBits(c) \/ StoreBits(c) \/ NextFlag(c)
                 \/ \E v \in Device : SwitchDomain(c, v) \/ SwitchZone(c, v)
        PROVE  answer' = answer
    BY <2>1 DEF Receive, LoadBits, StoreBits, NextFlag, SwitchDomain, SwitchZone
  <2>2. ASSUME NEW c \in Caller, Respond(c) PROVE AnswerInv'
    BY <1>2, <2>2 DEF Respond, AnswerInv
  <2>3. CASE ConstructorStart \/ ConstructorReturn \/ UNCHANGED serverVars
               \/ (InDomain /\ UNCHANGED <<flags, enabled, serving, rpcVars>>)
    BY <1>2, <2>3 DEF ConstructorStart, ConstructorReturn, serverVars, rpcVars, AnswerInv
  <2>4. QED
    BY <1>2, <2>1, <2>2, <2>3 DEF ServerNext, Handle, AnswerInv
<1>3. QED
  BY <1>1, <1>2, PTL DEF ServerSpec

THEOREM HonestInvariant == ASSUME Serialized PROVE ServerSpec => []HonestInv
<1>1. ServerInit => HonestInv
  BY HonestInit
<1>2. TurnsInv /\ ForceInv /\ HonestInv /\ [ServerNext]_serverVars => HonestInv'
  BY HonestNext
<1>3. QED
  BY <1>1, <1>2, TurnsInvariant, ForceInvariant, PTL DEF ServerSpec

LEMMA Smaller ==
  ASSUME NEW k \in Nat, NEW m \in Nat, k + 1 <= m
  PROVE  /\ k # m /\ (k + 1) - 1 = k
         /\ \A i \in 1 .. m : i \in 1 .. k \/ k + 1 <= i
         /\ \A i \in 1 .. m : i <= k + 1 /\ k + 1 <= i => i = k + 1
  OBVIOUS

LEMMA FirstPart ==
  ASSUME NEW q \in Seq(Item), NEW k \in Nat, k <= Len(q)
  PROVE  /\ SubSeq(q, 1, k) \in Seq(Item) /\ Len(SubSeq(q, 1, k)) = k
         /\ \A i \in 1 .. k : SubSeq(q, 1, k)[i] = q[i]
<1> DEFINE m == Len(q)
<1>1. m \in Nat
  BY LenProperties
<1>2. \A i \in 1 .. k : i \in 1 .. m
  BY <1>1
<1>3. \A i \in 1 .. k : q[i] \in Item
  BY <1>2, ElementOfSeq
<1>4. k \in Int /\ 1 \in Int
  OBVIOUS
<1>5. SubSeq(q, 1, k) \in Seq(Item)
  BY <1>3, <1>4, SubSeqProperties
<1>6. Len(SubSeq(q, 1, k)) = IF 1 <= k THEN k - 1 + 1 ELSE 0
  BY <1>3, <1>4, SubSeqProperties
<1>7. \A i \in 1 .. k - 1 + 1 : SubSeq(q, 1, k)[i] = q[1 + i - 1]
  BY <1>3, <1>4, SubSeqProperties
<1>8. (IF 1 <= k THEN k - 1 + 1 ELSE 0) = k /\ k - 1 + 1 = k /\ \A i \in 1 .. k : 1 + i - 1 = i
  OBVIOUS
<1>9. QED
  BY <1>5, <1>6, <1>7, <1>8

\* The part of a request that a handler has applied when it answers: all of it, or what
\* precedes the first unknown flag.
LEMMA AppliedAtTheEnd ==
  ASSUME NEW q \in Seq(Item), NEW k \in Nat, k <= Len(q),
         \A i \in 1 .. k : q[i].flag # BadFlag,
         k = Len(q) \/ (k + 1 <= Len(q) /\ q[k + 1].flag = BadFlag)
  PROVE  /\ DOMAIN Applied(q) = 1 .. k /\ \A i \in 1 .. k : Applied(q)[i] = q[i]
         /\ Applied(q) = q <=> k = Len(q)
<1> DEFINE bad == {i \in DOMAIN q : q[i].flag = BadFlag}
           m == Len(q)
           Least(i) == i \in bad /\ \A j \in bad : i <= j
           first == CHOOSE i \in bad : \A j \in bad : i <= j
<1>1. m \in Nat /\ DOMAIN q = 1 .. m
  BY LenProperties
<1>2. CASE k = m
  <2>1. bad = {}
    BY <1>1, <1>2
  <2>2. Applied(q) = q
    BY <2>1 DEF Applied
  <2>3. QED
    BY <1>1, <1>2, <2>2
<1>3. CASE k + 1 <= m /\ q[k + 1].flag = BadFlag
  <2>1. /\ k # m /\ (k + 1) - 1 = k
        /\ \A i \in 1 .. m : i \in 1 .. k \/ k + 1 <= i
        /\ \A i \in 1 .. m : i <= k + 1 /\ k + 1 <= i => i = k + 1
    BY <1>1, <1>3, Smaller
  <2>2. k + 1 \in 1 .. m
    BY <1>1, <1>3, ServerWithin
  <2>3. k + 1 \in bad /\ \A j \in bad : k + 1 <= j
    <3>1. k + 1 \in bad
      BY <1>1, <1>3, <2>2
    <3>2. ASSUME NEW j \in 1 .. m, q[j].flag = BadFlag PROVE k + 1 <= j
      <4>1. j \notin 1 .. k
        BY <3>2
      <4>2. QED
        BY <2>1, <4>1
    <3>3. QED
      BY <1>1, <3>1, <3>2
  <2>4. first \in bad /\ \A j \in bad : first <= j
    BY <2>3
  <2>5. first = k + 1
    BY <1>1, <2>1, <2>3, <2>4
  <2> HIDE DEF first
  <2>6. Applied(q) = SubSeq(q, 1, first - 1)
    BY <2>3 DEF Applied, first
  <2>7. Applied(q) = SubSeq(q, 1, k)
    BY <2>1, <2>5, <2>6
  <2>8. SubSeq(q, 1, k) \in Seq(Item) /\ Len(SubSeq(q, 1, k)) = k
        /\ \A i \in 1 .. k : SubSeq(q, 1, k)[i] = q[i]
    BY FirstPart
  <2>9. DOMAIN Applied(q) = 1 .. k
    BY <2>7, <2>8, LenProperties
  <2>10. Applied(q) # q
    BY <2>1, <2>7, <2>8
  <2>11. QED
    BY <2>1, <2>7, <2>8, <2>9, <2>10
<1>4. QED
  BY <1>2, <1>3

LEMMA VerdictIsTold ==
  ASSUME NEW p, NEW q, NEW k \in Nat, DOMAIN p = 1 .. k, \A i \in 1 .. k : p[i] = q[i],
         NEW f, NEW b \in BOOLEAN, Told(q, k, f, b)
  PROVE  Verdict(p, f, b) <=> b
<1> DEFINE said == {i \in DOMAIN p : p[i].flag = f}
<1>1. CASE said = {}
  BY <1>1 DEF Verdict
<1>2. CASE said # {}
  <2>1. \E i \in 1 .. k : q[i].flag = f
    BY <1>2
  <2>2. b <=> \A i \in 1 .. k : q[i].flag = f => q[i].on
    BY <2>1 DEF Told
  <2>3. (\A i \in said : p[i].on) <=> \A i \in 1 .. k : q[i].flag = f => q[i].on
    OBVIOUS
  <2>4. Verdict(p, f, b) <=> \A i \in said : p[i].on
    BY <1>2 DEF Verdict
  <2>5. QED
    BY <2>2, <2>3, <2>4
<1>3. QED
  BY <1>1, <1>2

LEMMA AnswersHonestly ==
  ASSUME AnswerInv, ForceInv, HonestInv, NEW c \in Caller, Respond(c)
  PROVE  /\ (answer[c] = "ok")' <=> Applied(request[c]) = request[c]
         /\ \A f \in Flag :
              Verdict(Applied(request[c]), f, f \in flags) <=> f \in flags
<1> DEFINE q == request[c]
           k == Past(c)
<1>1. /\ at[c] = "next" /\ q \in Seq(Item) /\ todo[c] \in Seq(Item)
      /\ (\A i \in 1 .. k : q[i].flag # BadFlag) /\ \A f \in Flag : Told(q, k, f, f \in flags)
      /\ answer' = [answer EXCEPT ![c] = IF todo[c] = <<>> THEN "ok" ELSE "invalid"]
  BY DEF Respond, HonestInv, ForceInv
<1>2. /\ Len(q) \in Nat /\ Len(todo[c]) \in Nat /\ k \in Nat /\ Len(q) = k + Len(todo[c])
      /\ todo[c] # <<>> => k + 1 <= Len(q) /\ q[k + 1] = ItemOf(c)
  BY <1>1, Lengths
<1>3. todo[c] = <<>> <=> k = Len(q)
  BY <1>1, <1>2, EmptySeq
<1>4. k <= Len(q) /\ (k = Len(q) \/ (k + 1 <= Len(q) /\ q[k + 1].flag = BadFlag))
  BY <1>2, <1>3 DEF Respond
<1> HIDE DEF q, k
<1>5. /\ DOMAIN Applied(q) = 1 .. k /\ \A i \in 1 .. k : Applied(q)[i] = q[i]
      /\ Applied(q) = q <=> k = Len(q)
  BY <1>1, <1>2, <1>4, AppliedAtTheEnd
<1>6. \A f \in Flag : Verdict(Applied(q), f, f \in flags) <=> f \in flags
  <2> SUFFICES ASSUME NEW f \in Flag PROVE Verdict(Applied(q), f, f \in flags) <=> f \in flags
    OBVIOUS
  <2> DEFINE b == f \in flags
             p == Applied(q)
  <2>1. Told(q, k, f, b) /\ b \in BOOLEAN
    BY <1>1
  <2>2. DOMAIN p = 1 .. k /\ \A i \in 1 .. k : p[i] = q[i]
    BY <1>5
  <2> HIDE DEF b, p
  <2>3. Verdict(p, f, b) <=> b
    BY <1>2, <2>1, <2>2, VerdictIsTold
  <2>4. QED
    BY <2>3 DEF b, p
<1>7. answer'[c] = "ok" <=> todo[c] = <<>>
  BY <1>1 DEF AnswerInv
<1>8. QED
  BY <1>3, <1>5, <1>6, <1>7 DEF q


\* A response is written when exactly the flags before the first unknown one have been
\* applied, and it says whether that was all: for requests of any length.
THEOREM ResponsesAreHonest == ASSUME Serialized PROVE ServerSpec => ResponseIsHonest
<1> DEFINE Honest == \A c \in Caller :
             Busy(c) /\ c # Main /\ ~Busy(c)' =>
               /\ (answer[c] = "ok")' <=> Applied(request[c]) = request[c]
               /\ \A f \in Flag :
                    Verdict(Applied(request[c]), f, f \in flags) <=> f \in flags
<1>1. ASSUME AnswerInv, TurnsInv, ForceInv, HonestInv, [ServerNext]_serverVars,
             NEW c \in Caller, Busy(c), c # Main, ~Busy(c)'
      PROVE  Respond(c)
  <2>0. at \in [Caller -> RpcPC] /\ at[c] # "idle" /\ at'[c] = "idle"
    BY <1>1 DEF TurnsInv, Busy
  <2>1. ASSUME NEW o \in Caller, Receive(o) \/ LoadBits(o) \/ StoreBits(o) \/ NextFlag(o)
                 \/ \E v \in Device : SwitchDomain(o, v) \/ SwitchZone(o, v)
        PROVE  FALSE
    BY <2>0, <2>1 DEF Receive, LoadBits, StoreBits, NextFlag, SwitchDomain, SwitchZone
  <2>2. ASSUME NEW o \in Caller, Respond(o) PROVE o = c
    BY <2>0, <2>2 DEF Respond
  <2>3. CASE ConstructorReturn
    BY <1>1, <2>0, <2>3 DEF ConstructorReturn
  <2>4. CASE ConstructorStart \/ UNCHANGED serverVars
               \/ (InDomain /\ UNCHANGED <<flags, enabled, serving, rpcVars>>)
    BY <2>0, <2>4 DEF ConstructorStart, serverVars, rpcVars
  <2>5. QED
    BY <1>1, <2>1, <2>2, <2>3, <2>4 DEF ServerNext, Handle
<1>2. AnswerInv /\ TurnsInv /\ ForceInv /\ HonestInv /\ [ServerNext]_serverVars => Honest
  BY <1>1, AnswersHonestly
<1>3. AnswerInv /\ TurnsInv /\ ForceInv /\ HonestInv /\ [ServerNext]_serverVars
        => [Honest]_serverVars
  BY <1>2
<1>4. QED
  BY <1>3, AnswerInvariant, TurnsInvariant, ForceInvariant, HonestInvariant, PTL
     DEF ServerSpec, ResponseIsHonest
=============================================================================
