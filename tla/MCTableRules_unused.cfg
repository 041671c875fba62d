SPECIFICATION Spec
CHECK_DEADLOCK FALSE
CONSTANTS
  w1 = w1
  w2 = w2
  Worker = {w1}
  Idle = Idle
  NPipelines <- Devices
  Program <- Tables
  TableInfo <- Loaded
  TableList <- InOrder
  Request <- LeftOut
  Coming <- Twice
INVARIANT UnusedFieldsAreIgnored
