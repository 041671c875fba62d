---------------------------- MODULE MCHostConfig ----------------------------
(* Requests for the queues of two hosts with a PF and two VFs, small enough   *)
(* for TLC.                                                                  *)
EXTENDS HostConfig

CONSTANTS w1

Fn(t, n, base, num) == [ftype |-> t, index |-> n, base |-> base, num |-> num]
Pf(base, num)    == Fn("PHYSICAL", 0, base, num)
Vf(n, base, num) == Fn("VIRTUAL", n, base, num)
Set(host, reset, functions) ==
  [kind |-> "host", host |-> host, has |-> {"dma"}, reset |-> reset,
   functions |-> functions, threshold |-> 0]
Limit(host, t) ==
  [kind |-> "host", host |-> host, has |-> {"flow_control"}, reset |-> FALSE,
   functions |-> <<>>, threshold |-> t]
Both(host, functions, t) ==
  [Set(host, TRUE, functions) EXCEPT !.has = {"dma", "flow_control"}, !.threshold = t]

Defaults == [kind |-> "defaults"]

\* Full tables, more queues than entries, functions that there are not, one that
\* wraps round to the PF; refused first, last and in between; one, all and no host.
Requests ==
  {Set(0, TRUE, <<Pf(0, 1), Vf(0, 1, 3)>>), Set(-1, TRUE, <<Pf(2, 4)>>),
   Set(1, FALSE, <<Vf(1, 5, 2), Vf(0, 3, 2)>>), Set(0, FALSE, <<Vf(0, 6, 0)>>),
   Set(0, FALSE, <<Vf(0, 4, 5), Pf(3, 1)>>), Set(-1, FALSE, <<Pf(1, 2), Vf(2, 0, 1)>>),
   Set(0, FALSE, <<Vf(Wrap - 1, 2, 1)>>), Set(2, TRUE, <<Pf(0, 1)>>),
   Set(0, TRUE, <<>>),
   Limit(0, 3), Limit(-1, -1), Both(1, <<Fn("PHYSICAL", 1, 0, 1)>>, 2),
   Both(0, <<Pf(0, 2)>>, 4), Defaults}
=============================================================================
