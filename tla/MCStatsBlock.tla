---------------------------- MODULE MCStatsBlock ----------------------------
(* Instances of StatsBlock for TLC. *)
EXTENDS StatsBlock, TLC
CONSTANTS collector, rpc
=============================================================================
