\* The collector and a Clear RPC; a latched counter, a free-running pair of
\* registers and a gauge that is never cleared.
CONSTANTS
  NMetrics = 3
  Counter = {1, 2}
  Flag = {}
  ClearOnRead = {1}
  NeverClear = {3}
  Updater = {collector, rpc}
  Clearer = {rpc}
  Half = 2
  MaxEvents = 2
  NoUpdater = NoUpdater
  collector = collector
  rpc = rpc
SPECIFICATION FairSpec
INVARIANTS
  CountsEveryEventOnce
PROPERTIES
  CountersGoBackOnlyWhenCleared
  AllEventsShow
