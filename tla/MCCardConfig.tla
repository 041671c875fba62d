---------------------------- MODULE MCCardConfig ----------------------------
(* Requests on a card with two ports, small enough for TLC. *)
EXTENDS CardConfig

CONSTANTS w1, r1

In(p, i, d)  == [index |-> p, intf |-> i, dest |-> d]
Out(p, i)    == [index |-> p, intf |-> i]
Sw(i, e, b)  == [kind |-> "switch", ingress |-> i, egress |-> e, bypass |-> b]
Po(p, s, f, l, t) ==
  [kind |-> "port", port |-> p, state |-> s, fec |-> f, loopback |-> l, limited |-> t]

\* Both ports, every interface and destination, indices and values that are
\* refused first, last and in between; defaults with a good and a bad profile.
Requests ==
  {Sw(<<In(0, i, d)>>, <<>>, "unknown") : i \in Interface, d \in Destination}
    \cup {Sw(<<In(0, "TEST", "APP"), In(0, "PHYSICAL", "APP")>>, <<Out(1, "TEST")>>, "SWAP"),
          Sw(<<In(1, "TEST", "APP"), In(2, "TEST", "DROP")>>, <<Out(0, "TEST")>>, "SWAP"),
          Sw(<<>>, <<Out(1, "PHYSICAL"), Out(0, "TEST"), Out(0, "unknown")>>, "STRAIGHT"),
          Sw(<<>>, <<Out(0, "PHYSICAL")>>, "other")}
    \cup {Po(-1, "on", "on", "unknown", "off"), Po(-2, "off", "other", "on", "on"),
          Po(1, "unknown", "off", "off", "on"),
          Po(2, "on", "unknown", "unknown", "on")}
    \cup {[kind |-> "defaults", profile |-> p] : p \in {"one_to_one", "unknown"}}
=============================================================================
