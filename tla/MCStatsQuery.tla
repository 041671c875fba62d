----------------------------- MODULE MCStatsQuery -----------------------------
(* Two devices, of which one has an array metric over two words. *)
EXTENDS StatsQuery, TLC

CONSTANTS w1, w2

Single(zone, block, name, type, never, labels) ==
  [domain |-> "counters", zone |-> zone, block |-> block, name |-> name, type |-> type,
   array |-> FALSE, never_clear |-> never, labels |-> <<labels>>]

Rx == Single("host0", "host0", "rx_bytes", "COUNTER", FALSE, {<<"dir", "in">>})
Up == Single("port0", "port0", "up", "GAUGE", TRUE, {})
Tx == [domain |-> "counters", zone |-> "port0", block |-> "port0", name |-> "tx_bytes",
       type |-> "COUNTER", array |-> TRUE, never_clear |-> FALSE,
       labels |-> <<{<<"dir", "out">>, <<"lane", "in">>}, {<<"dir", "in">>}, {}>>]

MetricsOf == << <<Rx, Tx, Up>>, <<Rx>> >>

UnitsOf ==
  [i \in {"stats", "host_stats", "port_stats", "device_info"} |->
     CASE i = "stats"       -> << <<{"host0", "port0"}>>, <<{"host0", "port0"}>> >>
       [] i = "host_stats"  -> << <<{"host0"}>>, <<{"host0"}>> >>
       [] i = "port_stats"  -> << <<{"port0"}, {}>>, <<{}>> >>
       [] i = "device_info" -> << <<{}>>, <<{}>> >>]

\* Names.
Exact(s)    == [method |-> "exact", value |-> s]
Pattern(S)  == [method |-> "pattern", names |-> S]
AnyName     == [method |-> "none"]
Split(any, part) ==
  [method |-> "split", any |-> any, part |-> part,
   parts |-> [rx_bytes |-> <<"rx", "bytes">>, tx_bytes |-> <<"tx", "bytes">>, up |-> <<"up">>]]
Part(s)      == [term |-> "value", value |-> Exact(s), negated |-> FALSE]
IndexPart(i) == [term |-> "index", index |-> i, negated |-> FALSE]
Parts(term, members, negated) == [term |-> term, members |-> members, negated |-> negated]

\* Matches.
By(attr, match)  == [attr |-> attr, string |-> match]
Type(t)          == [attr |-> "type", type |-> t]
Slices(S)        == [attr |-> "indices", slices |-> S]
Label(k, v)      == [attr |-> "label", key |-> k, value |-> v]
Range3(s, e, st) == [start |-> s, end |-> e, step |-> st]

\* Filters.
Is(m)       == [term |-> "match", match |-> m, negated |-> FALSE]
Not(m)      == [term |-> "match", match |-> m, negated |-> TRUE]
AnyOf(ms)   == [term |-> "any", members |-> ms, negated |-> FALSE]
AllOf(ms)   == [term |-> "all", members |-> ms, negated |-> FALSE]
NoneOf(ms)  == [term |-> "any", members |-> ms, negated |-> TRUE]
Everything  == [term |-> "none", negated |-> FALSE]

Dir(v) == Label(Exact("dir"), Exact(v))

Filters ==
  {Everything, [Everything EXCEPT !.negated = TRUE],
   Is(Type("GAUGE")), Not(Type("COUNTER")), Is([attr |-> "none"]),
   Is(By("name", Pattern({"rx_bytes", "tx_bytes"}))), Not(By("zone", Exact("host0"))),
   Is(By("name", Split(TRUE, Part("up")))),
   Is(By("name", Split(FALSE, Parts("any", <<Part("bytes"), IndexPart(0)>>, FALSE)))),
   Is(By("name", Split(FALSE, Parts("all", <<Part("tx"), IndexPart(0)>>, TRUE)))),
   Is(Slices({})), Not(Slices({})),
   Is(Slices({Range3(0, -1, 0)})), Is(Slices({Range3(0, 5, 2)})),
   Is(Slices({Range3(-1, -1, 1), Range3(-9, 0, 1)})), Not(Slices({Range3(1, 1, IntMax - 1)})),
   Is(Slices({Range3(2, 1, 1), Range3(3, 4, 1), Range3(0, -4, 1)})),
   Is(Dir("in")), Not(Dir("out")), Is(Label(AnyName, Exact("in"))),
   Is(Label(Exact("lane"), AnyName)),
   AnyOf(<<>>), AllOf(<<>>), NoneOf(<<>>),
   AnyOf(<<Is(Dir("in")), Is(Slices({Range3(2, 2, 1)})), Is(Type("GAUGE"))>>),
   AllOf(<<Not(Dir("out")), Is(Slices({Range3(0, 1, 1)})), Is(Type("COUNTER"))>>),
   NoneOf(<<Is(Slices({Range3(0, 0, 1)})), AllOf(<<Is(Type("COUNTER")), Not(Dir("in"))>>)>>)}

Req(item, op, dev, unit, metric, non_zero) ==
  [item |-> item, op |-> op, dev |-> dev, unit |-> unit,
   filters |-> [metric |-> metric, non_zero |-> non_zero]]

\* One worker serves any request, the other those that meet it.
Served == [w \in Worker |->
  IF w = w1
  THEN {Req("stats", op, 0, -1, {f}, nz) :
          op \in {"GET", "CLEAR"}, f \in Filters, nz \in BOOLEAN}
       \cup {Req(item, op, d, u, {}, FALSE) :
               item \in DOMAIN UnitsOf, op \in {"GET", "CLEAR"}, d \in -1 .. 2, u \in -1 .. 1}
       \cup {Req("none", "GET", 0, -1, {}, FALSE), Req("stats", "SET", -1, -1, {}, TRUE)}
  ELSE {Req("port_stats", "CLEAR", 0, 0, {Is(Slices({Range3(0, 1, 1)}))}, FALSE)}]
=============================================================================
