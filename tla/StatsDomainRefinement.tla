----------------------- MODULE StatsDomainRefinement -----------------------
(***************************************************************************)
(* The collector threads of StatsDomain implement PeriodicTask, as long as *)
(* starts and stops do not overlap.                                        *)
(***************************************************************************)
EXTENDS StatsDomain

\* A domain is off once its last thread has been joined (or was never made),
\* draining from the moment stop lowers the flag.
phase ==
  [d \in Domain |->
     IF running[d] THEN "on"
     ELSE IF Collectors(d) = {} THEN "off" ELSE "draining"]

busy == [d \in Domain |-> \E t \in Collectors(d) : thread[t] = "update"]

Abstract == INSTANCE PeriodicTask WITH Task <- Domain

\* stats_domain_start and stats_domain_stop behave as switching a periodic
\* task on and off; with fair threads, a task switched off does end.
ImplementsPeriodicTask == Abstract!FairSpec
=============================================================================
