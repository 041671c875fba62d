----------------------------- MODULE MCAgentLife -----------------------------
(* Two pipelines with two zones between them, or a card with two monitors. *)
EXTENDS AgentLife
CONSTANTS w1, w2, main, coll, dom

Table(name, mode) ==
  [name |-> name, mode |-> mode, endian |-> "BIG", num_entries |-> 2, num_masks |-> 1,
   key_bits |-> 1, format |-> << <<1, "b">> >>, actions |-> <<>>]

Counter(name, type, n) == [name |-> name, type |-> type, num_counters |-> n]

\* The zones differ in all that a zone can, and the second pipeline has but one.
TwoPipelines ==
  << [name |-> "p4_0", tables |-> <<Table("wide", "DCAM")>>,
      counters |-> <<Counter("seen", "PACKETS_AND_BYTES", 2), Counter("hit", "FLAG", 1)>>,
      aliases |-> [seen |-> <<"a">>]],
     [name |-> "p4_1", tables |-> <<Table("acl", "STCAM"), Table("wide", "DCAM")>>,
      counters |-> <<>>, aliases |-> [seen |-> <<>>]] >>
=============================================================================
