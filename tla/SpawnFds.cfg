SPECIFICATION Spec
CONSTANTS
  Fds = {0, 1, 2}
  StartFds = {0, 1}
  NoInherit = {1}
  Handles = {1, 2, 3, 4, 5, 6, 7, 8, 9, 10}
  MaxActions = 3
INVARIANTS ChildHasActionsDone ParentResetOnce NothingLeft
\* after the one call nothing is left to do
CHECK_DEADLOCK FALSE
