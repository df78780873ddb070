\* Two descriptors, of all kinds between them, and one handle per wait.
SPECIFICATION Spec
CONSTANTS
  N = 2
  Arrays <- MCArrays
  EventSets <- MCEventSets
  Timeouts <- MCTimeouts
  MaxHandles = 1
INVARIANTS
  CountMatches
  ReadyAtCallIsReported
  WaitsBounded
  SocketsAnswerInTheEnd
PROPERTY Returns
\* A poll without a timeout may wait for ever.
CHECK_DEADLOCK FALSE
