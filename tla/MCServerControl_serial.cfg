\* Requests one at a time; two devices, one flag of each kind, two flags listed.
CONSTANTS
  Device = {v1, v2}
  DomainFlag = {counters}
  Domain <- DomainOf
  ZoneFlag = {ports}
  DebugFlag = {debugStats}
  BadFlag = BadFlag
  Caller = {main, w1}
  Main = main
  Collector = {t1, t2}
  NoCollector = NoCollector
  Serialized = TRUE
  MaxFlags = 2
  v1 = v1
  v2 = v2
  counters = counters
  modules = modules
  ports = ports
  debugStats = debugStats
  main = main
  w1 = w1
  t1 = t1
  t2 = t2
SPECIFICATION FairServerSpec
INVARIANTS
  ConfigIsInForce
  FlagTellsTruth
  JoinsOwnCollector
PROPERTIES
  ResponseIsHonest
  UsesStatsDomain
  ImplementsPeriodicTask
  RequestsAreAnswered
