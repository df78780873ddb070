SPECIFICATION Spec
CONSTANTS
  cb1 = cb1
  cb2 = cb2
  cb3 = cb3
  fd1 = fd1
  fd2 = fd2
  fd3 = fd3
  Cbs = {cb2}
  Fds = {fd2}
  FdOf <- MCPrivateFdOf
  OpOf <- MCOpOf
  OffsetOf <- MCOffsetOf
  NBytesOf <- MCNBytesOf
  HomeOf <- MCHomeOf
  Cancellable = {cb2}
  MaxSubmits = 2
INVARIANTS NoThreadAfterReturn ReturnMatchesTransfer
PROPERTIES RequestEnds SuspendReturns
\* the application may make no further call: a stop, not a deadlock
CHECK_DEADLOCK FALSE
