--------------------------- MODULE MCStatsDomain ---------------------------
(* Instances of StatsDomain for TLC. *)
EXTENDS StatsDomainRefinement, TLC
CONSTANTS d1, d2, c1, c2, t1, t2, t3
=============================================================================
