\* One Set request at a time.
SPECIFICATION Spec
CONSTANTS
  w1 = w1
  NHosts = 2
  NFunctions = 3
  TableSize = 4
  Wrap = 16
  Writer = {w1}
  Request <- Requests
  Serialized = TRUE
INVARIANT EvenlySpread
PROPERTY RequestTakesEffect
