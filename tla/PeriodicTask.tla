--------------------------- MODULE PeriodicTask ----------------------------
(***************************************************************************)
(* What stats_domain_start and stats_domain_stop promise their callers,    *)
(* whatever thread does the work: a domain is off, on or draining.  While  *)
(* it is on it is sampled, never twice at a time; a domain told to stop    *)
(* begins no further sample, finishes the one it is in and only then is    *)
(* off.                                                                    *)
(***************************************************************************)
CONSTANT Task

VARIABLES
  phase,   \* phase[d] \in {"off", "on", "draining"}
  busy     \* busy[d]: is a sample being taken?

vars == <<phase, busy>>

Init ==
  /\ phase = [d \in Task |-> "off"]
  /\ busy  = [d \in Task |-> FALSE]

SwitchOn(d) ==
  /\ phase[d] = "off"
  /\ phase' = [phase EXCEPT ![d] = "on"]
  /\ UNCHANGED busy

SwitchOff(d) ==
  /\ phase[d] = "on"
  /\ phase' = [phase EXCEPT ![d] = "draining"]
  /\ UNCHANGED busy

Off(d) ==
  /\ phase[d] = "draining"
  /\ ~busy[d]
  /\ phase' = [phase EXCEPT ![d] = "off"]
  /\ UNCHANGED busy

BeginSample(d) ==
  /\ phase[d] = "on"
  /\ ~busy[d]
  /\ busy' = [busy EXCEPT ![d] = TRUE]
  /\ UNCHANGED phase

EndSample(d) ==
  /\ busy[d]
  /\ busy' = [busy EXCEPT ![d] = FALSE]
  /\ UNCHANGED phase

Next ==
  \E d \in Task :
    SwitchOn(d) \/ SwitchOff(d) \/ Off(d) \/ BeginSample(d) \/ EndSample(d)

\* A task that is told to stop does stop, and a sample that was begun ends.
Fairness ==
  \A d \in Task : WF_vars(Off(d)) /\ WF_vars(EndSample(d))

Spec     == Init /\ [][Next]_vars
FairSpec == Spec /\ Fairness
=============================================================================
