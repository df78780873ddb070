SPECIFICATION SafeSpec
CONSTANTS
  Threads = {t1, t2}
  NoThread = NoThread
  InitLockFirst = TRUE
  MaxCalls = 2
INVARIANTS NonNullIsInitialized
\* after the last call nothing is left to do: a stop, not a deadlock
CHECK_DEADLOCK FALSE
