SPECIFICATION ListSpec
CONSTANTS
  cb2 = cb2
  cb3 = cb3
  fd2 = fd2
  fd3 = fd3
  Cbs = {cb2, cb3}
  Fds = {fd2, fd3}
  FdOf <- MCFdOf
  OpOf <- MCOpOf
  OffsetOf <- MCOffsetOf
  NBytesOf <- MCNBytesOf
  HomeOf <- MCHomeOf
  Cancellable = {cb2}
  MaxSubmits = 1
  Lists <- MCLists
  Null = Null
  Other = Other
PROPERTIES WaitMeansEnded ListReturns
\* the application may make no further call: a stop, not a deadlock
CHECK_DEADLOCK FALSE
