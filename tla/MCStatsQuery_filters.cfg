\* Every filter on the first device, and every unit of every item without one; a
\* Clear of some values of a port meets them, and the collectors find one change.
SPECIFICATION Spec
CHECK_DEADLOCK FALSE
CONSTANTS
  WordBits = 2
  IntMax = 7
  w1 = w1
  w2 = w2
  Worker = {w1, w2}
  Idle = Idle
  Device = {1, 2}
  Metrics <- MetricsOf
  Items <- CfgItems
  Units <- UnitsOf
  Whole = {"stats", "device_info"}
  Request <- Served
  MaxValue = 1
  MaxRequests = 1
  MaxChanges = 1
INVARIANTS
  ClearsWhatTheFilterMeans
  AnswersEachUnit
PROPERTY
  ShowsWhatTheFilterMeans
