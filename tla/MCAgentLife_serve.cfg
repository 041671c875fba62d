\* Both agents, from the constructor to the destructor; the collector, two RPCs and
\* the Prometheus daemon.
CONSTANTS
  Zone = {1, 2}
  NoZone = 0
  Rpc = {w1, w2}
  Main = main
  Collector = coll
  Dom = dom
  w1 = w1
  w2 = w2
  main = main
  coll = coll
  dom = dom
  Agents = {"sn-cfg", "sn-p4"}
  Pipelines <- TwoPipelines
SPECIFICATION FairLifeSpec
INVARIANTS
  NoUseAfterFree
  RefsAccount
  FreedWithTheDomain
  WalksAreComplete
  CallsFindTheirDriver
  ScrapesFindTheirMetrics
  MetricsShowTheirCounters
PROPERTY
  AgentEnds
CHECK_DEADLOCK FALSE
