\* Two threads with two calls in all, two attempts each; firmware that is slow,
\* fails or is stuck, and an agent that dies and starts again at any point.
SPECIFICATION Spec
CONSTANTS
  t1 = t1
  t2 = t2
  Thread = {t1, t2}
  NoThread = NoThread
  Value = {0, 1}
  Read = Read
  Nothing = Nothing
  MaxAttempts = 2
  MaxCalls = 2
INVARIANTS VerdictIsOwn SuccessIsInForce WorksForTheLiving
PROPERTIES PerformedInOrder MutexIsGivenBack
