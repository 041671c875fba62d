\* Two gRPC workers, one domain: stats_domain_stop against its own comment.
CONSTANTS
  Domain = {d1}
  Caller = {c1, c2}
  Collector = {t1, t2, t3}
  NoCollector = NoCollector
  Serialized = FALSE
  d1 = d1
  d2 = d2
  c1 = c1
  c2 = c2
  t1 = t1
  t2 = t2
  t3 = t3
SPECIFICATION FairSpec
PROPERTY
  StopReturns
CHECK_DEADLOCK FALSE
