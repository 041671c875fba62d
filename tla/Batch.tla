-------------------------------- MODULE Batch --------------------------------
(***************************************************************************)
(* What the Batch RPC of the two agents does with each item it reads from  *)
(* its stream (batch.cpp of sn-cfg and of sn-p4): the operations that each *)
(* item has, and what is answered when it has not.                         *)
(***************************************************************************)

\* sn-cfg's items and their operations.
CfgItems ==
  [defaults      |-> {"SET"},
   device_info   |-> {"GET"},        device_status |-> {"GET"},
   host_config   |-> {"GET", "SET"}, host_stats    |-> {"GET", "CLEAR"},
   module_gpio   |-> {"GET", "SET"}, module_info   |-> {"GET"},
   module_mem    |-> {"GET", "SET"}, module_status |-> {"GET"},
   port_config   |-> {"GET", "SET"}, port_status   |-> {"GET"},
   port_stats    |-> {"GET", "CLEAR"},
   switch_config |-> {"GET", "SET"}, switch_stats  |-> {"GET", "CLEAR"},
   stats         |-> {"GET", "CLEAR"},
   server_status |-> {"GET"},        server_config |-> {"GET", "SET"}]

\* sn-p4's.
P4Items ==
  [device_info    |-> {"GET"},
   pipeline_info  |-> {"GET"},       pipeline_stats |-> {"GET", "CLEAR"},
   table          |-> {"CLEAR"},     table_rule     |-> {"INSERT", "DELETE"},
   stats          |-> {"GET", "CLEAR"},
   server_status  |-> {"GET"},       server_config  |-> {"GET", "SET"}]

\* The error code of the response around the item's own.
Verdict(items, item, op) ==
  IF item \notin DOMAIN items THEN "EC_UNKNOWN_BATCH_REQUEST"
  ELSE IF op \notin items[item] THEN "EC_UNKNOWN_BATCH_OP"
  ELSE "EC_OK"
=============================================================================
