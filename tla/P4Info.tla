-------------------------------- MODULE P4Info --------------------------------
(***************************************************************************)
(* What snp4_info_get_pipeline (src/libsnp4/src/snp4_info_hw.c) makes of   *)
(* the configuration of a pipeline that comes with its P4 program: the     *)
(* tables, actions and counters that sn-p4 knows of it.                    *)
(*                                                                         *)
(* A configuration is a record [name, tables, counters, aliases] of        *)
(* sequences; the compiler that writes it is external.  The format of the  *)
(* key of a table is the sequence of the texts between the colons, from    *)
(* the low bits of the key up: <<bits, letter>>, or <<>> for a text that   *)
(* is not a number followed by a letter.                                   *)
(***************************************************************************)
EXTENDS Integers, Sequences, SequencesExt

SNP4_MAX_PIPELINE_TABLES == 64
SNP4_MAX_PIPELINE_COUNTER_BLOCKS == 64
SNP4_MAX_TABLE_MATCHES == 64
SNP4_MAX_TABLE_ACTIONS == 64
SNP4_MAX_ACTION_PARAMS == 64

Modes == {"BCAM", "STCAM", "TCAM", "DCAM", "TINY_BCAM", "TINY_TCAM"}

CounterTypes == {"PACKETS", "BYTES", "PACKETS_AND_BYTES", "FLAG"}

MatchTypes ==
  [b |-> "bitfield", c |-> "constant", p |-> "prefix", r |-> "range",
   t |-> "ternary", u |-> "unused"]

\* The match that a text of the format stands for.
MatchOf(text) ==
  IF text = <<>> \/ text[2] \notin DOMAIN MatchTypes THEN [type |-> "invalid", bits |-> 0]
  ELSE [type |-> MatchTypes[text[2]], bits |-> text[1]]

\* Fault: the matches are left in the order of the hardware.
GetMatches_Unreversed(format) == [i \in DOMAIN format |-> MatchOf(format[i])]

\* snp4_info_get_matches: from the high bits of the key down, as the P4 program
\* and its users write them.
GetMatches(format) == [i \in DOMAIN format |-> MatchOf(format[Len(format) + 1 - i])]

PriorityRequired(format) ==
  \E i \in DOMAIN format : MatchOf(format[i]).type \in {"prefix", "range", "ternary"}

\* snp4_info_get_actions and snp4_info_get_params; param_bits is a uint16_t.
GetAction(action) ==
  [name |-> action.name, params |-> action.params,
   param_bits |-> FoldSeq(LAMBDA a, b : a + b, 0, action.params) % 65536]

ActionsStatus(actions) ==
  IF Len(actions) > SNP4_MAX_TABLE_ACTIONS THEN "INFO_TOO_MANY_ACTIONS"
  ELSE IF \E i \in DOMAIN actions : Len(actions[i].params) > SNP4_MAX_ACTION_PARAMS
    THEN "INFO_TOO_MANY_PARAMS"
  ELSE "OK"

\* The first complaint about a table ...
TableStatus(table) ==
  IF table.endian \notin {"LITTLE", "BIG"} THEN "INFO_INVALID_ENDIAN"
  ELSE IF table.mode \notin Modes THEN "INFO_INVALID_MODE"
  ELSE IF Len(table.format) > SNP4_MAX_TABLE_MATCHES THEN "INFO_TOO_MANY_MATCHES"
  ELSE ActionsStatus(table.actions)

CounterStatus(counter) ==
  IF counter.type \notin CounterTypes THEN "INFO_INVALID_COUNTER_TYPE" ELSE "OK"

\* ... or about any of a sequence.
FirstComplaint(verdicts) ==
  LET bad == {i \in DOMAIN verdicts : verdicts[i] # "OK"}
  IN  IF bad = {} THEN "OK" ELSE verdicts[CHOOSE i \in bad : \A j \in bad : i <= j]

\* snp4_info_get_tables
TablesStatus(tables) ==
  IF Len(tables) > SNP4_MAX_PIPELINE_TABLES THEN "INFO_TOO_MANY_TABLES"
  ELSE FirstComplaint([i \in DOMAIN tables |-> TableStatus(tables[i])])

GetTable(table) ==
  [name |-> table.name, num_entries |-> table.num_entries, mode |-> table.mode,
   num_masks |-> IF table.mode = "STCAM" THEN table.num_masks ELSE 0,
   key_bits |-> table.key_bits, matches |-> GetMatches(table.format),
   priority_required |-> PriorityRequired(table.format),
   actions |-> [i \in DOMAIN table.actions |-> GetAction(table.actions[i])]]

\* snp4_info_get_counter_blocks: with the aliases that the metadata has for it.
CountersStatus(counters) ==
  IF Len(counters) > SNP4_MAX_PIPELINE_COUNTER_BLOCKS THEN "INFO_TOO_MANY_COUNTER_BLOCKS"
  ELSE FirstComplaint([i \in DOMAIN counters |-> CounterStatus(counters[i])])

GetCounterBlock(counter, aliases) ==
  [name |-> counter.name, type |-> counter.type, num_counters |-> counter.num_counters,
   aliases |-> IF counter.name \in DOMAIN aliases THEN aliases[counter.name] ELSE <<>>]

\* snp4_info_get_pipeline
InfoStatus(config) ==
  LET tables == TablesStatus(config.tables)
  IN  IF tables # "OK" THEN tables ELSE CountersStatus(config.counters)

GetPipeline(config) ==
  [name |-> config.name,
   tables |-> [i \in DOMAIN config.tables |-> GetTable(config.tables[i])],
   counter_blocks |-> [i \in DOMAIN config.counters |->
                         GetCounterBlock(config.counters[i], config.aliases)]]

\* pipeline_get_table_info, pipeline_get_table_action_info: the first of that name.
Named(seq, name) ==
  seq[CHOOSE i \in DOMAIN seq : seq[i].name = name /\ \A j \in 1 .. i - 1 : seq[j].name # name]

Names(seq) == {seq[i].name : i \in DOMAIN seq}
=============================================================================
