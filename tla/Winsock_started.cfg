SPECIFICATION Spec
CONSTANTS
  Threads = {t1, t2, t3}
  NoThread = NoThread
  InitLockFirst = TRUE
  MaxCalls = 2
INVARIANTS LockExclusive LoadsBalanced ReadyAfterLock
PROPERTIES CallReturns
\* after the last call nothing is left to do: a stop, not a deadlock
CHECK_DEADLOCK FALSE
