----------------------------- MODULE MCTableRules -----------------------------
(* Pipelines with a masked and an exact table, small enough for TLC. *)
EXTENDS TableRulesRefinement

CONSTANTS w1, w2

Field(type, bits) == [type |-> type, bits |-> bits]

TwoActions == [fwd |-> <<1, 2>>, drop |-> <<>>]

\* The tables of the P4 program ...
Tables ==
  [acl   |-> [fields |-> <<Field("prefix", 2), Field("unused", 1), Field("ternary", 1),
                           Field("range", 2)>>,
              key_bits |-> 6, mode |-> "STCAM", num_entries |-> 2, actions |-> TwoActions],
   exact |-> [fields |-> <<Field("bitfield", 1), Field("constant", 2)>>,
              key_bits |-> 3, mode |-> "BCAM", num_entries |-> 1, actions |-> TwoActions]]
InOrder == <<"acl", "exact">>
Devices == <<1, 2>>

\* ... as its compiler writes them into the configuration of the driver.
Letter(type) == CHOOSE l \in DOMAIN MatchTypes : MatchTypes[l] = type

Format(fields) ==
  [i \in DOMAIN fields |->
     LET f == fields[Len(fields) + 1 - i] IN <<f.bits, Letter(f.type)>>]

Compiled(t) ==
  [name |-> t, mode |-> Tables[t].mode, endian |-> "LITTLE",
   num_entries |-> Tables[t].num_entries, num_masks |-> 2,
   key_bits |-> Tables[t].key_bits, format |-> Format(Tables[t].fields),
   actions |-> [i \in 1 .. 2 |-> LET a == <<"fwd", "drop">>[i]
                                 IN  [name |-> a, params |-> TwoActions[a]]]]

Loaded == TablesOf([name |-> "p4", tables |-> [i \in 1 .. 2 |-> Compiled(InOrder[i])],
                    counters |-> <<>>, aliases |-> <<>>])

\* Matches.
KeyOnly(k)      == [format |-> "key_only", key |-> <<k>>, mask |-> <<>>]
KeyMask(k, m)   == [format |-> "key_mask", key |-> <<k>>, mask |-> <<m>>]
Prefix(k, len)  == [format |-> "prefix", key |-> <<k>>, mask |-> len]
Between(lo, up) == [format |-> "range", key |-> lo, mask |-> up]
Unused          == [format |-> "unused", key |-> <<>>, mask |-> <<>>]
Unread          == [format |-> "key_only", key |-> <<>>, mask |-> <<>>]

Rule1(t, ms, a, ps, replace) ==
  [table |-> t, matches |-> ms, action |-> a, params |-> ps, replace |-> replace]

Narrow == <<Prefix(2, 1), KeyOnly(1), KeyMask(1, 1), Between(1, 2)>>
Wide   == <<Unused, Unused, KeyOnly(0), KeyOnly(2)>>
Exact  == <<KeyOnly(1), KeyMask(2, 3)>>

\* The same to a table without masks; and fields left out of either table.
Masked == <<KeyMask(1, 0), KeyOnly(2)>>
Sparse == <<Unused, KeyOnly(2)>>
Gaps   == <<Prefix(0, 0), Unused, KeyMask(0, 0), Unused>>

Fwd(t, ms)     == Rule1(t, ms, "fwd", << <<1>>, <<2>> >>, FALSE)
DropTo(t, ms)  == Rule1(t, ms, "drop", <<>>, FALSE)
Instead(t, ms) == Rule1(t, ms, "fwd", << <<0>>, <<3>> >>, TRUE)

\* Rules that one of the checks refuses.
Bad == {Fwd("none", Narrow), Fwd("acl", Exact), Fwd("exact", Narrow),
        Fwd("exact", <<KeyOnly(1), Unread>>),
        Fwd("exact", <<KeyOnly(2), KeyOnly(0)>>),
        Fwd("exact", <<KeyOnly(0), KeyMask(1, 2)>>),
        Fwd("acl", <<KeyMask(0, 1), Unused, Unused, Between(0, 3)>>),
        Fwd("acl", <<Prefix(0, 3), Unused, Unused, Between(0, 3)>>),
        Fwd("acl", <<Prefix(0, 2), Unused, Unused, Between(3, 0)>>),
        Fwd("acl", <<Prefix(0, 2), KeyMask(0, 1), Unused, Between(0, 3)>>),
        Fwd("acl", <<Prefix(0, 2), Unused, KeyMask(0, 2), Between(3, 4)>>),
        Fwd("acl", <<Prefix(0, UINT16_MAX + 1), Unused, Unused, Between(0, 3)>>),
        Fwd("acl", <<Unused, Unused, Unused, Between(UINT16_MAX + 1, 0)>>)}

BadInsert == {Rule1("acl", Narrow, "none", <<>>, FALSE),
              Rule1("acl", Narrow, "fwd", << <<1>> >>, FALSE),
              Rule1("acl", Narrow, "drop", << <<1>> >>, FALSE),
              Rule1("acl", Narrow, "fwd", << <<>>, <<1>> >>, FALSE),
              Rule1("acl", Narrow, "fwd", << <<2>>, <<1>> >>, FALSE)}

Req(op, dev, pipe, table, rules) ==
  [op |-> op, dev |-> dev, pipe |-> pipe, table |-> table, rules |-> rules]

Inserts ==
  {Req("insert", -1, -1, "", <<Fwd("acl", Narrow), DropTo("acl", Wide)>>),
   Req("insert", 0, 0, "", <<Fwd("exact", Exact), Fwd("none", Narrow), Fwd("acl", Narrow)>>),
   Req("insert", 0, -1, "", <<Instead("acl", Narrow), Instead("exact", Masked)>>),
   Req("insert", 1, 1, "", <<>>)}

OneDelete == Req("delete", 0, 0, "", <<Fwd("acl", Narrow)>>)

Deletes == {OneDelete, Req("delete", 0, 0, "", <<Fwd("acl", Wide), Fwd("acl", Narrow)>>)}

Clears ==
  {Req("clear", 0, 0, "", <<>>), Req("clear", -1, 1, "exact", <<>>),
   Req("clear", 2, 0, "", <<>>), Req("clear", 0, -1, "none", <<>>)}

Infos == {Req("info", 0, 0, "", <<>>), Req("info", -1, 1, "", <<>>)}

\* One worker gets any request, the other one that meets it.
Served == [w \in Worker |->
  IF w = w1
  THEN Inserts \cup Deletes \cup Clears
         \cup {Req("insert", 0, 0, "", <<DropTo("exact", Sparse), DropTo("acl", Gaps)>>)}
         \cup {Req("insert", 0, 0, "", <<b>>) : b \in Bad \cup BadInsert}
         \cup {Req("delete", 0, 0, "", <<b>>) : b \in Bad}
  ELSE {Req("insert", 0, 0, "", <<Fwd("acl", Narrow)>>),
        Req("insert", -1, 0, "", <<Fwd("exact", Exact)>>),
        Req("delete", -1, 0, "", <<Fwd("acl", Narrow)>>),
        Req("clear", 0, 0, "", <<>>)} \cup Infos]

\* A request, any other that meets it, and a delete that meets both.
Meeting == <<Inserts \cup Served[w2],
             UNION {Served[w] : w \in Worker},
             {OneDelete}>>

\* A field that a rule leaves out, as the client's "." does.
LeftOut == [w \in Worker |->
  {Req("insert", 0, 0, "", <<DropTo("acl", <<Unused, Unused, Unused, Unused>>)>>)}]

Twice == <<LeftOut[w1], LeftOut[w1]>>
=============================================================================
