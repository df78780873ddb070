\* One call, with vectors of up to three elements of up to two bytes.
SPECIFICATION Spec
CONSTANTS
  MaxCount = 3
  MaxLength = 2
INVARIANTS BytesInOrder CountsWhatMoved Released
\* the call ends
CHECK_DEADLOCK FALSE
