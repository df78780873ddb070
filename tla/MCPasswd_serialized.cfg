SPECIFICATION Spec
CONSTANTS
  Threads = {t1, t2}
  NoThread = NoThread
  InitLockFirst = TRUE
  Blocks = {b1, b2, b3, b4}
  NULL = NULL
  Functions <- MCAllFunctions
  Serialized = TRUE
  MaxCalls = 2
SYMMETRY MCSymmetry
INVARIANTS NoFault RecordOwnsStrings OnlyTheseAreLost HandleMeansRecord
\* after the last call, or after a fault, nothing is left to do
CHECK_DEADLOCK FALSE
