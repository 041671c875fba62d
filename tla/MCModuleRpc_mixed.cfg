SPECIFICATION Spec
\* Each thread serves one request.
CHECK_DEADLOCK FALSE
CONSTANTS
  t1 = t1
  t2 = t2
  Thread = {t1, t2}
  NoThread = NoThread
  NModules = 2
  Page = {0, 1}
  PageSize = 3
  Load <- Mixed
INVARIANTS AnswersTheBytesAsked WritesFromTheFront
PROPERTY NoLineIsInvented
