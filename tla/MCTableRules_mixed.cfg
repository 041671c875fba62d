SPECIFICATION Spec
\* No more requests arrive than are Coming.
CHECK_DEADLOCK FALSE
CONSTANTS
  w1 = w1
  w2 = w2
  Worker = {w1, w2}
  Idle = Idle
  NPipelines <- Devices
  Program <- Tables
  TableInfo <- Loaded
  TableList <- InOrder
  Request <- Served
  Coming <- Meeting
INVARIANTS AnswersForAPrefix OneAnswerEach ArraysFreedOnce DumpsShowTheTables
PROPERTY ImplementsRuleStore
