-------------------------- MODULE MCServerControl --------------------------
(* Instances of ServerControl for TLC. *)
EXTENDS ServerControl, TLC
CONSTANTS v1, v2, counters, modules, ports, debugStats, main, w1, t1, t2
DomainOf == Device \X DomainFlag
Symmetry == Permutations({v1, v2}) \cup Permutations({t1, t2})
=============================================================================
