---------------------------- MODULE PipelineStats ----------------------------
(***************************************************************************)
(* The statistics that sn-p4 keeps of a pipeline (counters.cpp and         *)
(* table-ecc.cpp): a zone with a block for each block of counters of the   *)
(* P4 program, and one with a block for each table whose memory counts its *)
(* errors.  A block is latched with one call of snp4_api.c, and each of    *)
(* its metrics then reads its part of what was latched.                    *)
(*                                                                         *)
(* The card is external.  A value it keeps is known by what it counts, the *)
(* triple of block, units and index; a zero that the code itself writes is *)
(* Zero.                                                                   *)
(***************************************************************************)
EXTENDS P4Info

Zero == <<>>

-----------------------------------------------------------------------------
(* Blocks of counters.                                                     *)

\* The units of the metrics of a block, in the order of their places in it.
Units(type) ==
  CASE type = "PACKETS_AND_BYTES" -> <<"packets", "bytes">>
    [] type = "PACKETS"           -> <<"packets">>
    [] type = "BYTES"             -> <<"bytes">>
    [] type = "FLAG"              -> <<"flag">>

\* counter_block_label_value_alias, for an index from 0.
Alias(info, idx) == IF idx < Len(info.aliases) THEN info.aliases[idx + 1] ELSE ""

\* Fault: the parts of a block are taken to be one value long.
CounterMetric_Offset(info, idx) ==
  LET units == Units(info.type)[idx + 1]
  IN  [name |-> <<info.name, units>>, units |-> units,
       nelements |-> info.num_counters, offset |-> idx,
       aliases |-> [e \in 1 .. info.num_counters |-> Alias(info, e - 1)]]

\* init_counters_block_metric: only a block with two metrics has a suffix in
\* their names; each element has a label of its own.
CounterMetric(info, idx) ==
  LET units == Units(info.type)[idx + 1]
  IN  [name |-> IF Len(Units(info.type)) = 2 THEN <<info.name, units>> ELSE <<info.name>>,
       units |-> units,
       nelements |-> info.num_counters, offset |-> idx * info.num_counters,
       aliases |-> [e \in 1 .. info.num_counters |-> Alias(info, e - 1)]]

CounterBlock(info) ==
  [info |-> info,
   metrics |-> [m \in DOMAIN Units(info.type) |-> CounterMetric(info, m - 1)]]

\* snp4_counter_block_simple_read and _combo_read: as many as the block has, zeros
\* for the rest of what is asked for.
BlockRead(info, units, ncounts) ==
  [i \in 1 .. ncounts |-> IF i <= info.num_counters THEN <<info.name, units, i>> ELSE Zero]

\* counters_latch_metrics: the bytes after the packets, or the only unit there is.
CounterLatch(block) ==
  LET info == block.info
      Read(units) == BlockRead(info, units, info.num_counters)
  IN  IF info.type = "PACKETS_AND_BYTES" THEN Read("packets") \o Read("bytes")
      ELSE Read(Units(info.type)[1])

-----------------------------------------------------------------------------
(* Tables.                                                                 *)

EccUnits == <<"corrected_single_bit_errors", "detected_double_bit_errors">>

\* is_table_ecc_supported
EccSupported(mode) == mode \in Modes \ {"DCAM"}

\* init_table_ecc_metric
EccMetric(cid) ==
  [name |-> <<EccUnits[cid + 1]>>, units |-> EccUnits[cid + 1], nelements |-> 1,
   offset |-> cid, aliases |-> <<"">>]

EccBlock(info) ==
  [info |-> info, metrics |-> [m \in DOMAIN EccUnits |-> EccMetric(m - 1)]]

\* table_ecc_latch_metrics and snp4_table_ecc_counters_read: zeros when the driver
\* does not support it after all.
EccLatches(block) ==
  {[m \in DOMAIN EccUnits |-> <<block.info.name, EccUnits[m], 1>>],
   [m \in DOMAIN EccUnits |-> Zero]}

-----------------------------------------------------------------------------
(* The zones and what an update of one puts into its metrics.              *)

\* init_counters and init_table_ecc; a zone without blocks is not made.
CounterBlocks(pipeline) ==
  [b \in DOMAIN pipeline.counter_blocks |-> CounterBlock(pipeline.counter_blocks[b])]

EccBlocks(pipeline) ==
  LET counted == SelectSeq(pipeline.tables, LAMBDA t : EccSupported(t.mode))
  IN  [b \in DOMAIN counted |-> EccBlock(counted[b])]

Blocks(kind, pipeline) ==
  IF kind = "counters" THEN CounterBlocks(pipeline) ELSE EccBlocks(pipeline)

Latches(kind, block) ==
  IF kind = "counters" THEN {CounterLatch(block)} ELSE EccLatches(block)

Invalid == <<>>

\* counters_read_metric and table_ecc_read_metric: zeros after a call that failed.
ReadMetric(metric, latch) ==
  [e \in 1 .. metric.nelements |->
     IF latch = Invalid THEN Zero ELSE latch[metric.offset + e]]

\* The metrics of all blocks after an update, for each way in which the calls end.
Readings(kind, pipeline) ==
  LET blocks == Blocks(kind, pipeline)
      ends   == [b \in DOMAIN blocks |-> Latches(kind, blocks[b]) \cup {Invalid}]
  IN  {[b \in DOMAIN blocks |->
          [m \in DOMAIN blocks[b].metrics |->
             ReadMetric(blocks[b].metrics[m], latched[b])]] :
         latched \in {l \in [DOMAIN blocks -> UNION {ends[b] : b \in DOMAIN blocks}] :
                        \A b \in DOMAIN blocks : l[b] \in ends[b]}}

\* No reading of a pipeline shows one counter in the place of another.
Truthful(kind, pipeline, reading) ==
  LET blocks == Blocks(kind, pipeline)
  IN  \A b \in DOMAIN blocks :
        \A m \in DOMAIN blocks[b].metrics :
          LET metric == blocks[b].metrics[m]
          IN  \A e \in 1 .. metric.nelements :
                reading[b][m][e] \in {Zero, <<blocks[b].info.name, metric.units, e>>}
=============================================================================
