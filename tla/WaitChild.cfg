SPECIFICATION Spec
CONSTANTS
  N = 4
  MAXIMUM_WAIT_OBJECTS = 3
INVARIANTS ReportsExited NoHelperLeft HandlesInOrder NothingOnlyWhenFull
PROPERTIES Returns
\* after the one call nothing is left to do
CHECK_DEADLOCK FALSE
