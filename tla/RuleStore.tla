------------------------------ MODULE RuleStore ------------------------------
(***************************************************************************)
(* What the table requests of sn-p4 promise, without packing, buffers or   *)
(* the order of the loops: each table of each pipeline holds rules, known  *)
(* by the values that each of their fields accepts, and changes only by    *)
(* what one rule of a request that is being served says.                   *)
(***************************************************************************)
EXTENDS Integers, Sequences, SequencesExt

CONSTANTS Worker, Pipe, TableInfo, Request, Idle,
          NoMask    \* the modes of tables that have no masks

VARIABLES store,     \* [Pipe -> [table -> set of entries]]
          serving    \* [Worker -> Request or Idle]

svars == <<store, serving>>

\* The top bits of a value.
Upper(v, bits, len) == v \div 2^(bits - len)

\* The values of a field that a match asks for, in a table that has masks.  A range that
\* is left out asks for 0, though it should not (TableRulesRefinement).
Wanted(m, field) ==
  {v \in 0 .. 2^field.bits - 1 :
     CASE m.format = "unused"   -> field.type = "range" => v = 0
       [] m.format = "key_only" -> field.type = "unused" \/ v = m.key[1]
       [] m.format = "prefix"   -> Upper(v, field.bits, m.mask)
                                     = Upper(m.key[1], field.bits, m.mask)
       [] m.format = "range"    -> m.key <= v /\ v <= m.mask
       [] m.format = "key_mask" ->
            \A i \in 0 .. field.bits - 1 :
               (m.mask[1] \div 2^i) % 2 = 1
                 => (v \div 2^i) % 2 = (m.key[1] \div 2^i) % 2}

\* In one that has none, a field has the value of the key, or 0 if it is left out.
KeyWanted(m) == {IF m.format = "unused" THEN 0 ELSE m.key[1]}

WantedOf(rule) ==
  LET info == TableInfo[rule.table]
  IN  [i \in DOMAIN rule.matches |->
         IF info.mode \in NoMask THEN KeyWanted(rule.matches[i])
         ELSE Wanted(rule.matches[i], info.fields[i])]

EntryOf(rule) ==
  [wanted |-> WantedOf(rule), action |-> rule.action,
   params |-> [i \in DOMAIN rule.params |-> rule.params[i][1]]]

\* The entries of a table without the one that a rule is for.
Without(entries, rule) == {e \in entries : e.wanted # WantedOf(rule)}

\* A rule whose matches and parameters can be read at all as those of its table.
Readable(rule) ==
  /\ rule.table \in DOMAIN TableInfo
  /\ DOMAIN rule.matches = DOMAIN TableInfo[rule.table].fields
  /\ \A i \in DOMAIN rule.matches :
       LET m == rule.matches[i]
       IN  /\ m.format \in {"key_only", "key_mask", "prefix"} => m.key # <<>>
           /\ m.format = "key_mask" => m.mask # <<>>
           /\ m.format = "prefix" => m.mask <= TableInfo[rule.table].fields[i].bits
  /\ \A i \in DOMAIN rule.params : rule.params[i] # <<>>

Init == /\ store = [p \in Pipe |-> [t \in DOMAIN TableInfo |-> {}]]
        /\ serving = [w \in Worker |-> Idle]

Open(w) == /\ serving[w] = Idle
           /\ \E r \in Request[w] : serving' = [serving EXCEPT ![w] = r]
           /\ UNCHANGED store

Close(w) == /\ serving[w] # Idle
            /\ serving' = [serving EXCEPT ![w] = Idle]
            /\ UNCHANGED store

\* The devices and pipelines that a request names, a negative number standing for all.
Named(r) == {p \in Pipe : /\ r.dev < 0 \/ r.dev = p[1]
                          /\ r.pipe < 0 \/ r.pipe = p[2]}

\* A rule that is inserted is new, or replaces one that is there.
Insert(w, p, rule) ==
  LET entries == store[p][rule.table]
      others  == Without(entries, rule)
  IN  /\ serving[w].op = "insert"
      /\ rule.replace <=> others # entries
      /\ store' = [store EXCEPT ![p][rule.table] = others \cup {EntryOf(rule)}]

Delete(w, p, rule) ==
  LET entries == store[p][rule.table]
      others  == Without(entries, rule)
  IN  /\ serving[w].op = "delete"
      /\ others # entries
      /\ store' = [store EXCEPT ![p][rule.table] = others]

Clear(w, p, t) ==
  /\ serving[w].op = "clear"
  /\ serving[w].table \in {"", t}
  /\ store' = [store EXCEPT ![p][t] = {}]

Perform(w) ==
  /\ serving[w] # Idle
  /\ UNCHANGED serving
  /\ \E p \in Named(serving[w]) :
        \/ \E rule \in ToSet(serving[w].rules) :
             Readable(rule) /\ (Insert(w, p, rule) \/ Delete(w, p, rule))
        \/ \E t \in DOMAIN TableInfo : Clear(w, p, t)

Next == \E w \in Worker : Open(w) \/ Close(w) \/ Perform(w)

StoreSpec == Init /\ [][Next]_svars
=============================================================================
