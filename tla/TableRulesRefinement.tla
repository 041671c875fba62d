------------------------- MODULE TableRulesRefinement -------------------------
(***************************************************************************)
(* What the entries of the drivers' tables mean, by the values that the    *)
(* card compares, and what TableRules promises in these terms: it is a     *)
(* RuleStore.                                                              *)
(***************************************************************************)
EXTENDS TableRules

CONSTANT Program    \* the tables as the P4 program and its users know them, by name

\* The parts of a packed number, for the widths of the parts, from the last on.
Parts(packed, widths) ==
  LET left[i \in 0 .. Len(widths)] ==
        IF i = Len(widths) THEN packed ELSE left[i + 1] \div 2^widths[i + 1]
  IN  [i \in DOMAIN widths |-> left[i] % 2^widths[i]]

\* The values of a field that the card lets pass, for each key and mask of it.
Values(field) == 0 .. 2^field.bits - 1

Shown == [field \in UNION {ToSet(Program[t].fields) : t \in DOMAIN Program} |->
  [key, mask \in Values(field) |->
     {v \in Values(field) :
        IF field.type = "range" THEN key <= v /\ v <= mask
        ELSE \A i \in 0 .. field.bits - 1 : Bit(mask, i) = 1 => Bit(v, i) = Bit(key, i)}]]

\* The same for all fields of an entry of a table.
ShownBy(t, entry) ==
  LET fields == Program[t].fields
      widths == [i \in DOMAIN fields |-> fields[i].bits]
      keys   == Parts(entry[1], widths)
      masks  == IF Program[t].mode \in NoMask THEN [i \in DOMAIN fields |-> Ones(widths[i])]
                ELSE Parts(entry[2], widths)
  IN  [i \in DOMAIN fields |-> Shown[fields[i]][keys[i], masks[i]]]

\* An entry of a table in these terms, and the entries of all tables.
Meaning(t, entry, given) ==
  LET widths == Program[t].actions[given[1]]
  IN  [wanted |-> ShownBy(t, entry), action |-> given[1],
       params |-> Parts(given[2], widths)]

MeaningOf(content) ==
  [t \in DOMAIN content |->
     {Meaning(t, k, content[t][k]) : k \in DOMAIN content[t]}]

Store == INSTANCE RuleStore
           WITH store     <- [p \in Pipe |-> MeaningOf(tables[p])],
                serving   <- req,
                TableInfo <- Program

(***************************************************************************)
(* Every change of a table is what one rule of a request in service says   *)
(* of the values of its fields, at a pipeline that the request names: the  *)
(* packing puts each field and parameter where the card looks for it, by   *)
(* insert, replace and delete alike (snp4_table.c, table.cpp:305-542).     *)
(* Store and serving are functions of tables and req, so this is StoreSpec *)
(* with fewer steps to look at.                                            *)
(***************************************************************************)
ImplementsRuleStore ==
  Store!Init /\ [][<<tables, req>>' # <<tables, req>> => Store!Next]_<<tables, req>>

-----------------------------------------------------------------------------
(* The first n rules or tables of a request, done one after the other.     *)

DoRule(op, rule, content) ==
  [content EXCEPT ![rule.table] =
     Store!Without(@, rule) \cup IF op = "delete" THEN {} ELSE {Store!EntryOf(rule)}]

Replay(r, n, content) ==
  LET steps == IF r.op = "clear" THEN ToClear(r) ELSE r.rules
      made[i \in 0 .. n] ==
        IF i = 0 THEN content
        ELSE IF r.op = "clear" THEN [made[i - 1] EXCEPT ![steps[i]] = {}]
        ELSE DoRule(r.op, steps[i], made[i - 1])
  IN  made[n]

Steps(r) == IF r.op = "clear" THEN Len(ToClear(r)) ELSE Len(r.rules)

\* What no driver would take, whatever is in the tables.
Refusable(r, i) ==
  IF r.op = "clear" THEN ToClear(r)[i] \notin DOMAIN TableInfo
  ELSE \/ LoadStatus(r.op, r.rules[i]) # "OK"
       \/ PackStatus(r.op, r.rules[i]) # "OK"

(***************************************************************************)
(* When a pass over a pipeline answers and nobody else changed its tables, *)
(* they are what they were with the first rules of the request done, all   *)
(* of them if and only if the code is EC_OK: nothing after the rule that   *)
(* failed is done and nothing before it is undone (table.cpp:340-542).     *)
(***************************************************************************)
AnswersForAPrefix ==
  \A w \in Worker : pc[w] = "respond" /\ quiet[w] =>
    LET r == req[w]
        done(n) == MeaningOf(tables[Here(w)]) = Replay(r, n, MeaningOf(entered[w]))
    IN  IF err[w] = "OK"
        THEN /\ \A i \in 1 .. Steps(r) : ~ Refusable(r, i)
             /\ done(Steps(r))
        ELSE \E n \in 0 .. Steps(r) - 1 :
               /\ \A i \in 1 .. n : ~ Refusable(r, i)
               /\ done(n)

(***************************************************************************)
(* When a request ends, each pipeline it names has had one response, in    *)
(* the order of devices and pipelines, after errors as well, and a device  *)
(* without the pipeline has had one too (table.cpp:287-343, 535-539).      *)
(***************************************************************************)
OneAnswerEach ==
  \A w \in Worker : pc[w] = "loop" /\ todo[w] = <<>> =>
    LET given == {i \in DOMAIN answers[w] : answers[w][i].pipe # -1}
        place(i) == <<answers[w][i].dev, answers[w][i].pipe>>
    IN  /\ {place(i) : i \in given} = Store!Named(req[w])
        /\ \A i, j \in given : i < j =>
             \/ place(i)[1] < place(j)[1]
             \/ place(i)[1] = place(j)[1] /\ place(i)[2] < place(j)[2]
        /\ \A d \in 0 .. Len(NPipelines) - 1 :
             (req[w].dev < 0 \/ req[w].dev = d) /\ req[w].pipe >= NPipelines[d + 1] =>
               \E i \in DOMAIN answers[w] :
                 answers[w][i].dev = d /\ answers[w][i].code = "INVALID_PIPELINE_ID"

(***************************************************************************)
(* Whatever other workers do to a table while it is dumped and whichever   *)
(* calls of the driver fail, each line of a dump is an entry, with the     *)
(* action and the parameters it had at one time of the walk: the key comes *)
(* from one call of the driver and what it does from a later one, when the *)
(* entry may be gone or be another (snp4_api.c:450-468, 524-529).  When    *)
(* nobody else changed the tables, no entry is repeated, and a dump that   *)
(* no error of the driver cut short shows all of the table: the walk by    *)
(* actions misses none (snp4_api.c:386-560, pipeline.cpp:340-353).         *)
(***************************************************************************)
DumpsShowTheTables ==
  \A w \in Worker :
    /\ Walking(w) => ToSet(dump[w][OfInfo(w)]) \subseteq past[w]
    /\ pc[w] = "respond" /\ quiet[w] =>
         \A t \in DOMAIN dump[w] :
           /\ IsInjective(dump[w][t])
           /\ ToSet(dump[w][t]) \subseteq Pairs(tables[Here(w)][t])
           /\ t \notin cut[w] => Pairs(tables[Here(w)][t]) \subseteq ToSet(dump[w][t])

(***************************************************************************)
(* No array of a pack is freed twice and none outlives its rule.  The two  *)
(* packers free arrays without forgetting them and their caller clears     *)
(* the pack again (snp4_table.c:277-279, 370-371, 536-538): it is safe     *)
(* only because fields that fit make a whole that fits.                    *)
(***************************************************************************)
ArraysFreedOnce ==
  \A w \in Worker : \A a \in DOMAIN pack[w] :
    /\ pack[w][a] # "freed_twice"
    /\ pack[w][a] = "live" => pc[w] = "driver"

(***************************************************************************)
(* A field that a rule leaves unused lets every value pass: "No key or     *)
(* mask provided, field should be ignored/disabled" (snp4_table.c:63).     *)
(***************************************************************************)
UnusedFieldsAreIgnored ==
  \A w \in Worker : pc[w] = "driver" =>
    LET rule   == Rule(w)
        fields == Program[rule.table].fields
    IN  \A i \in DOMAIN fields : rule.matches[i].format = "unused" =>
          ShownBy(rule.table, DriverKey(rule))[i] = Values(fields[i])
=============================================================================
