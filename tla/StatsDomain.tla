---------------------------- MODULE StatsDomain ----------------------------
(***************************************************************************)
(* The life of a statistics domain's collector thread, as programmed by    *)
(* stats_domain_start, stats_domain_stop and stats_domain_thread of        *)
(* src/libopennic/src/stats.c.                                             *)
(*                                                                         *)
(* A domain holds a `running' flag, which is only touched under the        *)
(* domain's spin lock, and a pthread `handle', which is not: the thread is *)
(* created, and joined, after the lock has been released.  Every action    *)
(* below is therefore one critical section or one pthread call, and other  *)
(* threads run between the two halves of a start or of a stop.             *)
(*                                                                         *)
(* The callers are the threads of the agent that start and stop domains:   *)
(* the main thread in the constructor and the destructor of the agent, and *)
(* the gRPC worker threads that serve SetServerConfig.  Nothing in the     *)
(* agent serialises those workers.  Serialized says whether the clients    *)
(* do: TRUE is one request in flight at a time.                            *)
(***************************************************************************)
EXTENDS Naturals, FiniteSets

CONSTANTS
  Domain,       \* the stats_domain objects
  Caller,       \* the threads that start and stop domains
  Collector,    \* the pthread_t values; bounds the threads alive at once
  NoCollector,  \* the handle of a domain that never had a thread (calloc)
  Serialized    \* is at most one start or stop in progress at a time?

ASSUME StatsDomainAssumption ==
  /\ Domain # {}
  /\ NoCollector \notin Collector
  /\ Serialized \in BOOLEAN

VARIABLES
  running,  \* running[d]: domain->thread.running
  handle,   \* handle[d]: domain->thread.handle
  thread,   \* thread[t]: where collector thread t is in stats_domain_thread
  serves,   \* serves[t]: the domain thread t was created for
  pc,       \* pc[c]: where caller c is in stats_domain_start or _stop
  arg,      \* arg[c]: the domain c is starting or stopping
  target    \* target[c]: the thread c waits for in pthread_join

domainVars    == <<running, handle>>
collectorVars == <<thread, serves>>
callerVars    == <<pc, arg, target>>
vars          == <<running, handle, thread, serves, pc, arg, target>>

ThreadPC == {"none", "check", "update", "sleep", "exited"}
CallerPC == {"idle", "create", "join", "joining", "undefined"}

TypeOK ==
  /\ running \in [Domain -> BOOLEAN]
  /\ handle  \in [Domain -> Collector \cup {NoCollector}]
  /\ thread  \in [Collector -> ThreadPC]
  /\ serves  \in [Collector -> Domain]
  /\ pc      \in [Caller -> CallerPC]
  /\ arg     \in [Caller -> Domain]
  /\ target  \in [Caller -> Collector \cup {NoCollector}]

\* stats_domain_alloc: the object comes from calloc, so the flag is false and
\* the handle null.  The values of serves and arg before their first use do
\* not matter.
Init ==
  /\ running = [d \in Domain |-> FALSE]
  /\ handle  = [d \in Domain |-> NoCollector]
  /\ thread  = [t \in Collector |-> "none"]
  /\ serves  = [t \in Collector |-> CHOOSE d \in Domain : TRUE]
  /\ pc      = [c \in Caller |-> "idle"]
  /\ arg     = [c \in Caller |-> CHOOSE d \in Domain : TRUE]
  /\ target  = [c \in Caller |-> NoCollector]

Alive(t)        == thread[t] # "none"
Collectors(d)   == {t \in Collector : Alive(t) /\ serves[t] = d}
InProgress(c)   == pc[c] # "idle"
MayBegin(c)     == /\ pc[c] = "idle"
                   /\ Serialized => \A o \in Caller : ~InProgress(o)

-----------------------------------------------------------------------------
(* stats_domain_start *)

\* The critical section: raise the flag; go on to create the thread only if
\* the flag was down.
StartLocked(c, d) ==
  /\ running' = [running EXCEPT ![d] = TRUE]
  /\ pc'      = [pc EXCEPT ![c] = IF running[d] THEN "idle" ELSE "create"]
  /\ arg'     = [arg EXCEPT ![c] = d]
  /\ UNCHANGED <<handle, target, collectorVars>>

\* Fault: the handle of the new thread is kept in a local variable.
StartCreate_Local(c) ==
  /\ pc[c] = "create"
  /\ \E t \in Collector :
       /\ ~Alive(t)
       /\ thread' = [thread EXCEPT ![t] = "check"]
       /\ serves' = [serves EXCEPT ![t] = arg[c]]
  /\ pc' = [pc EXCEPT ![c] = "idle"]
  /\ UNCHANGED <<running, handle, arg, target>>

\* pthread_create, outside the lock: overwrites the handle of the domain.
StartCreate(c) ==
  /\ pc[c] = "create"
  /\ \E t \in Collector :
       /\ ~Alive(t)
       /\ handle' = [handle EXCEPT ![arg[c]] = t]
       /\ thread' = [thread EXCEPT ![t] = "check"]
       /\ serves' = [serves EXCEPT ![t] = arg[c]]
  /\ pc' = [pc EXCEPT ![c] = "idle"]
  /\ UNCHANGED <<running, arg, target>>

-----------------------------------------------------------------------------
(* stats_domain_stop *)

\* Fault: the flag is lowered, the thread is left to end by itself.
StopLocked_NoJoin(c, d) ==
  /\ running' = [running EXCEPT ![d] = FALSE]
  /\ arg'     = [arg EXCEPT ![c] = d]
  /\ UNCHANGED <<pc, handle, target, collectorVars>>

\* The critical section: lower the flag; join only if the flag was up.
StopLocked(c, d) ==
  /\ running' = [running EXCEPT ![d] = FALSE]
  /\ pc'      = [pc EXCEPT ![c] = IF running[d] THEN "join" ELSE "idle"]
  /\ arg'     = [arg EXCEPT ![c] = d]
  /\ UNCHANGED <<handle, target, collectorVars>>

\* A thread can be joined once, by one caller.
Joinable(t) ==
  /\ t \in Collector
  /\ Alive(t)
  /\ \A c \in Caller : pc[c] = "joining" => target[c] # t

\* Fault: pthread_detach in the place of pthread_join.
StopJoin_Detach(c) ==
  /\ pc[c] = "join"
  /\ pc' = [pc EXCEPT ![c] = "idle"]
  /\ UNCHANGED <<arg, target, domainVars, collectorVars>>

\* pthread_join is entered with whatever the handle is by then.  A null
\* handle, one that was joined already or one that somebody else is joining
\* is undefined behaviour, in which the caller is left.
StopJoin(c) ==
  /\ pc[c] = "join"
  /\ target' = [target EXCEPT ![c] = handle[arg[c]]]
  /\ pc'     = [pc EXCEPT ![c] = IF Joinable(handle[arg[c]])
                                 THEN "joining" ELSE "undefined"]
  /\ UNCHANGED <<arg, domainVars, collectorVars>>

\* pthread_join returns when the thread has ended, and releases its pthread_t.
StopJoined(c) ==
  /\ pc[c] = "joining"
  /\ thread[target[c]] = "exited"
  /\ thread' = [thread EXCEPT ![target[c]] = "none"]
  /\ pc'     = [pc EXCEPT ![c] = "idle"]
  /\ target' = [target EXCEPT ![c] = NoCollector]
  /\ UNCHANGED <<arg, serves, domainVars>>

-----------------------------------------------------------------------------
(* stats_domain_thread *)

CollectorStep(t, from, to) ==
  /\ thread[t] = from
  /\ thread' = [thread EXCEPT ![t] = to]
  /\ UNCHANGED <<serves, domainVars, callerVars>>

\* Reads the flag under the lock: collect once more, or leave the loop.
CollectorCheck(t) ==
  CollectorStep(t, "check", IF running[serves[t]] THEN "update" ELSE "exited")

\* stats_domain_update_metrics returns; StatsZones models what it does.
CollectorUpdate(t) == CollectorStep(t, "update", "sleep")

\* usleep(interval_ms * 1000) returns; nothing wakes it early.
CollectorWake(t) == CollectorStep(t, "sleep", "check")

-----------------------------------------------------------------------------
Begin(c) ==
  /\ MayBegin(c)
  /\ \E d \in Domain : StartLocked(c, d) \/ StopLocked(c, d)

Continue(c)   == StartCreate(c) \/ StopJoin(c) \/ StopJoined(c)
Collecting(t) == CollectorCheck(t) \/ CollectorUpdate(t) \/ CollectorWake(t)

Next ==
  \/ \E c \in Caller : Begin(c) \/ Continue(c)
  \/ \E t \in Collector : Collecting(t)

\* Threads keep running: a caller inside start or stop, and a collector, take
\* their next step when nothing blocks it.  Nobody has to begin a call.
Fairness ==
  /\ \A c \in Caller : WF_vars(Continue(c))
  /\ \A t \in Collector : WF_vars(Collecting(t))

Spec     == Init /\ [][Next]_vars
FairSpec == Spec /\ Fairness

-----------------------------------------------------------------------------
(* Safety *)

\* A domain is polled by one thread at a time: stats_domain_start must not add
\* a collector while one is alive, be it one that was told to stop.
OneCollector ==
  \A t, u \in Collector :
    Alive(t) /\ Alive(u) /\ serves[t] = serves[u] => t = u

\* Whenever no start or stop is in progress for a domain, the flag
\* domain->thread.running tells the truth: a collector that will go on is
\* alive if and only if it is up.
FlagTellsTruth ==
  \A d \in Domain :
    (\A c \in Caller : InProgress(c) => arg[c] # d)
      => (running[d] <=> \E t \in Collectors(d) : thread[t] # "exited")

\* stats_domain_stop waits for a thread of the domain it stops, and enters
\* pthread_join only with a handle pthread_join is defined for.
JoinsOwnCollector ==
  \A c \in Caller :
    /\ pc[c] # "undefined"
    /\ pc[c] = "joining" => target[c] \in Collectors(arg[c])

\* The wait in stats_domain_stop is bounded by what is left of the current
\* cycle: a thread that is being joined does not start another update.
JoinedCollectorStartsNoUpdate ==
  [][\A c \in Caller :
       pc[c] = "joining" /\ thread[target[c]] = "check"
         => thread'[target[c]] # "update"]_vars

\* The inductive strengthening of the three invariants above, for callers that
\* take turns: whoever is in progress is alone; the handle of a domain names its
\* only thread; and a thread whose flag is down is being waited for.
Owns(d) ==
  /\ handle[d] \in Collector
  /\ Alive(handle[d])
  /\ serves[handle[d]] = d

SerialInv ==
  /\ TypeOK
  /\ \A c, o \in Caller : InProgress(c) /\ InProgress(o) => c = o
  /\ \A t \in Collector : Alive(t) => handle[serves[t]] = t
  /\ \A t \in Collector : thread[t] = "exited" => ~running[serves[t]]
  /\ \A d \in Domain :
       running[d] => Owns(d) \/ \E c \in Caller : pc[c] = "create" /\ arg[c] = d
  /\ \A d \in Domain :
       ~running[d] /\ Owns(d)
         => \E c \in Caller : pc[c] \in {"join", "joining"} /\ arg[c] = d
  /\ \A c \in Caller : pc[c] = "create" => running[arg[c]] /\ ~Owns(arg[c])
  /\ \A c \in Caller :
       pc[c] \in {"join", "joining"} => ~running[arg[c]] /\ Owns(arg[c])
  /\ \A c \in Caller : pc[c] = "joining" => target[c] = handle[arg[c]]
  /\ \A c \in Caller : pc[c] # "undefined"

\* Who will make a thread of domain d, and who will take one away.
Creating(d) == {c \in Caller : pc[c] = "create" /\ arg[c] = d}
Stopping(d) == {c \in Caller : pc[c] \in {"join", "joining", "undefined"} /\ arg[c] = d}

\* Every stats_domain_start that raises the flag creates one thread and every
\* stats_domain_stop that lowers it joins one.
StartsAndStopsPair ==
  \A d \in Domain :
    Cardinality(Creating(d)) + Cardinality(Collectors(d))
      = Cardinality(Stopping(d)) + (IF running[d] THEN 1 ELSE 0)

-----------------------------------------------------------------------------
(* Liveness *)

\* Once it waits in pthread_join, stats_domain_stop returns: "this join could,
\* at worst case, end up waiting update-time + sleep-time before the thread
\* notices and properly terminates itself" (stats.c).
StopReturns ==
  \A c \in Caller : pc[c] = "joining" ~> pc[c] = "idle"

=============================================================================
