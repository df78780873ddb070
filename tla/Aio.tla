-------------------------------- MODULE Aio --------------------------------
(***************************************************************************)
(* Asynchronous I/O: aio_read, aio_write, aio_fsync, aio_error, aio_return, *)
(* aio_cancel and aio_suspend.  Every request runs in a thread of its own   *)
(* that uses the descriptor's one file offset (save, seek, transfer,        *)
(* restore) and reports through plain fields of the struct aiocb, read by   *)
(* the application's threads without a lock.                                *)
(*                                                                         *)
(* Threads of the model, for every control block cb:                        *)
(*   - the owner, which queues the request and collects it with aio_return; *)
(*   - the worker, the thread pthread_create starts for the request;        *)
(*   - the canceller, an application thread in aio_cancel (cb \in           *)
(*     Cancellable);                                                        *)
(* and one application thread that calls aio_suspend.                       *)
(*                                                                         *)
(* The fields of a struct aiocb are not atomic and -O2 may exchange stores  *)
(* to different ones: the stores between two calls are kept in a set and    *)
(* reach memory in any order.                                               *)
(***************************************************************************)
EXTENDS Integers

CONSTANTS
  Cbs,          \* the control blocks (struct aiocb)
  Fds,          \* the open file descriptors
  FdOf,         \* aio_fildes of every control block, when it is not negative
  OpOf,         \* the call that queues it: "read", "write" or "fsync"
  OffsetOf,     \* aio_offset
  NBytesOf,     \* aio_nbytes
  HomeOf,       \* the application's own file offset of every descriptor
  Cancellable,  \* the control blocks the application may pass to aio_cancel
  MaxSubmits    \* bound: how often one control block is queued

Ops == {"read", "write", "fsync"}

ASSUME ConstantsAssumption ==
  /\ FdOf \in [Cbs -> Fds]
  /\ OpOf \in [Cbs -> Ops]
  /\ OffsetOf \in [Cbs -> Nat]
  /\ NBytesOf \in [Cbs -> Nat]
  /\ HomeOf \in [Fds -> Nat]
  /\ Cancellable \subseteq Cbs
  /\ MaxSubmits \in Nat

VARIABLES
  state,      \* _aio_state: 0 pending, 1 done, 2 error
  error,      \* _aio_error
  return,     \* _aio_return
  pos,        \* the file offset of every descriptor, kept by the C library
  thread,     \* where the worker of a control block is
  oldOffset,  \* old_offset, a local of the worker
  result,     \* result, a local of the worker; Failed is -1
  stores,     \* the worker's stores to the control block still on the way
  owner,      \* where the owner of a control block is
  got,        \* what the last aio_return of a control block returned
  canceller,  \* where the canceller of a control block is
  cstores,    \* the canceller's stores still on the way
  cancelled,  \* pthread_cancel has succeeded on the worker
  suspender,  \* where the thread in aio_suspend is
  list,       \* the list that thread waits for
  submits,    \* history: how often a control block was queued
  at          \* history: the file offset the request transferred at

workerVars == <<thread, oldOffset, result, stores>>
cancelVars == <<canceller, cstores, cancelled>>
suspendVars == <<suspender, list>>
vars == <<state, error, return, pos, workerVars, owner, got, cancelVars,
          suspendVars, submits, at>>

Failed   == -1            \* result == -1
Nowhere  == -1            \* no transfer was made
Errors   == {"0", "EINPROGRESS", "ECANCELED", "EIO"}   \* EIO: any other errno
Fields   == {"return", "error", "state"}

\* What aio_return hands back: the transfer's count, or -1 with this errno.
Count(n)   == [ok |-> TRUE, n |-> n, errno |-> "0"]
Errno(e)   == [ok |-> FALSE, n |-> Failed, errno |-> e]
NotCalled  == Errno("0")
Returns    == [ok: BOOLEAN, n: Int, errno: Errors]

ThreadStates == {"none", "begin", "seek", "transfer", "restore", "publish",
                 "ended"}

\* The worker is between its creation and its last use of the descriptor.
UsesFd(cb) == thread[cb] \in {"begin", "seek", "transfer", "restore"}

\* The application has queued cb and not yet collected it.
Outstanding(cb) == owner[cb] # "idle"

TypeOK ==
  /\ state \in [Cbs -> 0..2]
  /\ error \in [Cbs -> Errors]
  /\ return \in [Cbs -> Int]
  /\ pos \in [Fds -> Nat]
  /\ thread \in [Cbs -> ThreadStates]
  /\ oldOffset \in [Cbs -> Nat]
  /\ result \in [Cbs -> Int]
  /\ stores \in [Cbs -> SUBSET Fields]
  /\ owner \in [Cbs -> {"idle", "submitted", "joining", "joined"}]
  /\ got \in [Cbs -> Returns]
  /\ canceller \in [Cbs -> {"idle", "cancel", "mark"}]
  /\ cstores \in [Cbs -> SUBSET {"error", "state"}]
  /\ cancelled \in [Cbs -> BOOLEAN]
  /\ suspender \in {"idle", "scan", "clock"}
  /\ list \in SUBSET Cbs
  /\ submits \in [Cbs -> 0..MaxSubmits]
  /\ at \in [Cbs -> Nat \cup {Nowhere}]

Init ==
  /\ state = [cb \in Cbs |-> 0]
  /\ error = [cb \in Cbs |-> "0"]
  /\ return = [cb \in Cbs |-> 0]
  /\ pos = HomeOf
  /\ thread = [cb \in Cbs |-> "none"]
  /\ oldOffset = [cb \in Cbs |-> 0]
  /\ result = [cb \in Cbs |-> Failed]
  /\ stores = [cb \in Cbs |-> {}]
  /\ owner = [cb \in Cbs |-> "idle"]
  /\ got = [cb \in Cbs |-> NotCalled]
  /\ canceller = [cb \in Cbs |-> "idle"]
  /\ cstores = [cb \in Cbs |-> {}]
  /\ cancelled = [cb \in Cbs |-> FALSE]
  /\ suspender = "idle"
  /\ list = {}
  /\ submits = [cb \in Cbs |-> 0]
  /\ at = [cb \in Cbs |-> Nowhere]

-----------------------------------------------------------------------------
(* Queueing a request.                                                     *)

\* pthread_create started the worker.
StartThread(cb) ==
  /\ state' = [state EXCEPT ![cb] = 0]
  /\ error' = [error EXCEPT ![cb] = "EINPROGRESS"]
  /\ thread' = [thread EXCEPT ![cb] = "begin"]
  /\ owner' = [owner EXCEPT ![cb] = "submitted"]

\* pthread_create failed.  It returns its error and leaves errno alone, so
\* _aio_error takes whatever errno held before.
NoThread(cb) ==
  /\ state' = [state EXCEPT ![cb] = 2]
  /\ \E e \in {"0", "EIO"} : error' = [error EXCEPT ![cb] = e]
  /\ UNCHANGED <<thread, owner>>

\* The body aio_read, aio_write and aio_fsync share.  The application queues
\* a control block again only after it collected it, and not while another
\* of its threads still uses it.
Queue(cb) ==
  /\ owner[cb] = "idle" /\ canceller[cb] = "idle" /\ cb \notin list
  /\ submits[cb] < MaxSubmits
  /\ submits' = [submits EXCEPT ![cb] = @ + 1]
  /\ result' = [result EXCEPT ![cb] = Failed]
  /\ at' = [at EXCEPT ![cb] = Nowhere]
  /\ got' = [got EXCEPT ![cb] = NotCalled]
  /\ cancelled' = [cancelled EXCEPT ![cb] = FALSE]
  /\ StartThread(cb) \/ NoThread(cb)
  /\ UNCHANGED <<return, pos, oldOffset, stores, canceller, cstores,
                 suspendVars>>

\* aio_fildes is negative: -1 with EINVAL before anything is stored.  The
\* caller learns it from the call, so the control block stays the
\* application's, whatever its _aio_state says.
Refuse(cb) ==
  /\ owner[cb] = "idle" /\ canceller[cb] = "idle" /\ cb \notin list
  /\ UNCHANGED vars

aio_read(cb)  == OpOf[cb] = "read" /\ (Queue(cb) \/ Refuse(cb))
aio_write(cb) == OpOf[cb] = "write" /\ (Queue(cb) \/ Refuse(cb))
aio_fsync(cb) == OpOf[cb] = "fsync" /\ (Queue(cb) \/ Refuse(cb))

-----------------------------------------------------------------------------
(* The worker: aio_read_thread, aio_write_thread, aio_fsync_thread.        *)

\* The worker knows its outcome and starts to write it to the control block.
Report(cb, n) ==
  /\ result' = [result EXCEPT ![cb] = n]
  /\ stores' = [stores EXCEPT
                  ![cb] = IF n = Failed THEN {"error", "state"} ELSE Fields]
  /\ thread' = [thread EXCEPT ![cb] = "publish"]

\* old_offset = lseek (fd, 0, SEEK_CUR)
SaveOffset(cb) ==
  /\ thread[cb] = "begin"
  /\ \/ /\ oldOffset' = [oldOffset EXCEPT ![cb] = pos[FdOf[cb]]]
        /\ thread' = [thread EXCEPT ![cb] = "seek"]
        /\ UNCHANGED <<result, stores>>
     \/ /\ Report(cb, Failed)
        /\ UNCHANGED oldOffset
  /\ UNCHANGED <<pos, at>>

\* Mutant of SeekTo: the transfer goes on after a seek that failed.
SeekToUnchecked(cb) ==
  /\ thread[cb] = "seek"
  /\ thread' = [thread EXCEPT ![cb] = "transfer"]
  /\ pos' \in {pos, [pos EXCEPT ![FdOf[cb]] = OffsetOf[cb]]}
  /\ UNCHANGED <<oldOffset, at, result, stores>>

\* lseek (fd, aio_offset, SEEK_SET)
SeekTo(cb) ==
  /\ thread[cb] = "seek"
  /\ \/ /\ pos' = [pos EXCEPT ![FdOf[cb]] = OffsetOf[cb]]
        /\ thread' = [thread EXCEPT ![cb] = "transfer"]
        /\ UNCHANGED <<result, stores>>
     \/ /\ Report(cb, Failed)
        /\ UNCHANGED pos
  /\ UNCHANGED <<oldOffset, at>>

\* Mutant of Transfer: a failed transfer is reported at once, like the
\* failures before it, and the offset stays where the seek put it.
TransferFailsAtOnce(cb) ==
  /\ thread[cb] = "transfer"
  /\ \/ \E n \in 0..NBytesOf[cb] :
          /\ pos' = [pos EXCEPT ![FdOf[cb]] = @ + n]
          /\ result' = [result EXCEPT ![cb] = n]
          /\ at' = [at EXCEPT ![cb] = pos[FdOf[cb]]]
          /\ thread' = [thread EXCEPT ![cb] = "restore"]
          /\ UNCHANGED stores
     \/ Report(cb, Failed) /\ UNCHANGED <<pos, at>>
  /\ UNCHANGED oldOffset

\* result = read or write (fd, aio_buf, aio_nbytes), from the offset on; the
\* count may be short
Transfer(cb) ==
  /\ thread[cb] = "transfer"
  /\ thread' = [thread EXCEPT ![cb] = "restore"]
  /\ \/ \E n \in 0..NBytesOf[cb] :
          /\ pos' = [pos EXCEPT ![FdOf[cb]] = @ + n]
          /\ result' = [result EXCEPT ![cb] = n]
          /\ at' = [at EXCEPT ![cb] = pos[FdOf[cb]]]
     \/ /\ result' = [result EXCEPT ![cb] = Failed]
        /\ UNCHANGED <<pos, at>>
  /\ UNCHANGED <<oldOffset, stores>>

\* lseek (fd, old_offset, SEEK_SET), its result ignored
RestoreOffset(cb) ==
  /\ thread[cb] = "restore"
  /\ pos' = [pos EXCEPT ![FdOf[cb]] = oldOffset[cb]]
  /\ Report(cb, result[cb])
  /\ UNCHANGED <<oldOffset, at>>

\* result = _commit (fd)
Commit(cb) ==
  /\ thread[cb] = "begin"
  /\ \E n \in {0, Failed} : Report(cb, n)
  /\ UNCHANGED <<pos, oldOffset, at>>

\* Mutant of Store: every request is reported as done.
StoreDone(cb) ==
  /\ thread[cb] = "publish"
  /\ \E f \in stores[cb] :
       /\ stores' = [stores EXCEPT ![cb] = @ \ {f}]
       /\ state' = IF f = "state" THEN [state EXCEPT ![cb] = 1] ELSE state
       /\ return' = IF f = "return" THEN [return EXCEPT ![cb] = result[cb]]
                    ELSE return
       /\ error' = IF f = "error" THEN [error EXCEPT ![cb] = "0"] ELSE error
  /\ UNCHANGED <<thread, pos, oldOffset, result, at>>

\* One of the stores of the outcome reaches the control block.
Store(cb) ==
  /\ thread[cb] = "publish"
  /\ \/ /\ "return" \in stores[cb]
        /\ stores' = [stores EXCEPT ![cb] = @ \ {"return"}]
        /\ return' = [return EXCEPT ![cb] = result[cb]]
        /\ UNCHANGED <<state, error>>
     \/ /\ "error" \in stores[cb]
        /\ stores' = [stores EXCEPT ![cb] = @ \ {"error"}]
        /\ error' = [error EXCEPT
                       ![cb] = IF result[cb] = Failed THEN "EIO" ELSE "0"]
        /\ UNCHANGED <<state, return>>
     \/ /\ "state" \in stores[cb]
        /\ stores' = [stores EXCEPT ![cb] = @ \ {"state"}]
        /\ state' = [state EXCEPT ![cb] = IF result[cb] = Failed THEN 2 ELSE 1]
        /\ UNCHANGED <<error, return>>
  /\ UNCHANGED <<thread, pos, oldOffset, result, at>>

\* return NULL: the thread can be joined
ThreadReturn(cb) ==
  /\ thread[cb] = "publish" /\ stores[cb] = {}
  /\ thread' = [thread EXCEPT ![cb] = "ended"]
  /\ UNCHANGED <<state, error, return, pos, oldOffset, result, stores, at>>

\* A cancelled thread may end in the call that blocks, a cancellation point,
\* or never notice.
Killed(cb) ==
  /\ cancelled[cb]
  /\ IF OpOf[cb] = "fsync" THEN thread[cb] = "begin"
                           ELSE thread[cb] = "transfer"
  /\ thread' = [thread EXCEPT ![cb] = "ended"]
  /\ UNCHANGED <<state, error, return, pos, oldOffset, result, stores, at>>

TransferThread(cb) ==
  \/ /\ SaveOffset(cb) \/ SeekTo(cb) \/ Transfer(cb) \/ RestoreOffset(cb)
     /\ UNCHANGED <<state, error, return>>
  \/ Store(cb)
  \/ ThreadReturn(cb)

aio_read_thread(cb)  == OpOf[cb] = "read" /\ TransferThread(cb)
aio_write_thread(cb) == OpOf[cb] = "write" /\ TransferThread(cb)
aio_fsync_thread(cb) ==
  /\ OpOf[cb] = "fsync"
  /\ \/ Commit(cb) /\ UNCHANGED <<state, error, return>>
     \/ Store(cb)
     \/ ThreadReturn(cb)

Worker(cb) ==
  /\ aio_read_thread(cb) \/ aio_write_thread(cb) \/ aio_fsync_thread(cb)
  /\ UNCHANGED <<owner, got, cancelVars, suspendVars, submits>>

WorkerKilled(cb) ==
  /\ Killed(cb)
  /\ UNCHANGED <<owner, got, cancelVars, suspendVars, submits>>

-----------------------------------------------------------------------------
(* aio_return, in the owner's thread.                                      *)

Returned(cb, r) ==
  /\ got' = [got EXCEPT ![cb] = r]
  /\ UNCHANGED <<state, error, return, pos, workerVars, cancelVars,
                 suspendVars, submits, at>>

\* _aio_state is 0: -1 with EINPROGRESS, the request stays outstanding
ReturnPending(cb) ==
  /\ owner[cb] = "submitted" /\ state[cb] = 0
  /\ Returned(cb, Errno("EINPROGRESS"))
  /\ UNCHANGED owner

ReturnStarts(cb) ==
  /\ owner[cb] = "submitted" /\ state[cb] # 0
  /\ owner' = [owner EXCEPT ![cb] = "joining"]
  /\ Returned(cb, got[cb])

\* Mutant of Join: no pthread_join, the state alone says it is over.
JoinSkipped(cb) ==
  /\ owner[cb] = "joining"
  /\ owner' = [owner EXCEPT ![cb] = "joined"]
  /\ UNCHANGED <<state, error, return, pos, workerVars, got, cancelVars,
                 suspendVars, submits, at>>

\* pthread_join blocks until the worker has ended
Join(cb) ==
  /\ owner[cb] = "joining" /\ thread[cb] = "ended"
  /\ owner' = [owner EXCEPT ![cb] = "joined"]
  /\ thread' = [thread EXCEPT ![cb] = "none"]
  /\ UNCHANGED <<state, error, return, pos, oldOffset, result, stores, got,
                 cancelVars, suspendVars, submits, at>>

\* _aio_state is read again after the join
ReturnResult(cb) ==
  /\ owner[cb] = "joined"
  /\ owner' = [owner EXCEPT ![cb] = "idle"]
  /\ Returned(cb, IF state[cb] = 2 THEN Errno(error[cb])
                                   ELSE Count(return[cb]))

aio_return(cb) ==
  ReturnPending(cb) \/ ReturnStarts(cb) \/ Join(cb) \/ ReturnResult(cb)

-----------------------------------------------------------------------------
(* aio_cancel of one control block, in a thread of the application.        *)

CancelStep(cb) ==
  UNCHANGED <<return, pos, workerVars, owner, got, suspendVars, submits, at>>

\* _aio_state is 1: AIO_ALLDONE, nothing changes.  Otherwise the call goes on
\* to pthread_cancel, on a state read before it.
CancelChecks(cb) ==
  /\ canceller[cb] = "idle" /\ Outstanding(cb) /\ ~cancelled[cb]
  /\ state[cb] # 1
  /\ canceller' = [canceller EXCEPT ![cb] = "cancel"]
  /\ CancelStep(cb)
  /\ UNCHANGED <<state, error, cstores, cancelled>>

\* Mutant of CancelThread: the control block of a cancelled thread is not
\* marked.
CancelThreadUnmarked(cb) ==
  /\ canceller[cb] = "cancel" /\ thread[cb] # "none"
  /\ canceller' = [canceller EXCEPT ![cb] = "mark"]
  /\ cancelled' = [cancelled EXCEPT ![cb] = TRUE]
  /\ CancelStep(cb)
  /\ UNCHANGED <<state, error, cstores>>

\* pthread_cancel returns 0
CancelThread(cb) ==
  /\ canceller[cb] = "cancel" /\ thread[cb] # "none"
  /\ canceller' = [canceller EXCEPT ![cb] = "mark"]
  /\ cstores' = [cstores EXCEPT ![cb] = {"error", "state"}]
  /\ cancelled' = [cancelled EXCEPT ![cb] = TRUE]
  /\ CancelStep(cb)
  /\ UNCHANGED <<state, error>>

\* pthread_cancel finds no such thread: AIO_NOTCANCELED
CancelMisses(cb) ==
  /\ canceller[cb] = "cancel" /\ thread[cb] \in {"ended", "none"}
  /\ canceller' = [canceller EXCEPT ![cb] = "idle"]
  /\ CancelStep(cb)
  /\ UNCHANGED <<state, error, cstores, cancelled>>

\* _aio_state = 2 and _aio_error = ECANCELED
CancelMarks(cb) ==
  /\ canceller[cb] = "mark"
  /\ \/ /\ "state" \in cstores[cb]
        /\ cstores' = [cstores EXCEPT ![cb] = @ \ {"state"}]
        /\ state' = [state EXCEPT ![cb] = 2]
        /\ UNCHANGED error
     \/ /\ "error" \in cstores[cb]
        /\ cstores' = [cstores EXCEPT ![cb] = @ \ {"error"}]
        /\ error' = [error EXCEPT ![cb] = "ECANCELED"]
        /\ UNCHANGED state
  /\ CancelStep(cb)
  /\ UNCHANGED <<canceller, cancelled>>

\* return AIO_CANCELED
CancelReturns(cb) ==
  /\ canceller[cb] = "mark" /\ cstores[cb] = {}
  /\ canceller' = [canceller EXCEPT ![cb] = "idle"]
  /\ CancelStep(cb)
  /\ UNCHANGED <<state, error, cstores, cancelled>>

aio_cancel(cb) ==
  \/ CancelChecks(cb)
  \/ CancelThread(cb)
  \/ CancelMisses(cb)
  \/ CancelMarks(cb)
  \/ CancelReturns(cb)

-----------------------------------------------------------------------------
(* aio_suspend (list, nent, timeout), in one thread of the application,    *)
(* on requests that are outstanding when it is called.                     *)

Suspend(from, to) ==
  /\ suspender = from /\ suspender' = to
  /\ UNCHANGED <<state, error, return, pos, workerVars, owner, got,
                 cancelVars, submits, at>>

\* Mutant of SomeReady: only a request that succeeded counts.
SomeDone == \E cb \in list : state[cb] = 1

SomeReady == \E cb \in list : state[cb] # 0

SuspendCall(cbs) ==
  /\ cbs # {} /\ \A cb \in cbs : Outstanding(cb)
  /\ list' = cbs
  /\ Suspend("idle", "scan")

\* A request of the list has ended: return 0
SuspendReady ==
  SomeReady /\ list' = {} /\ Suspend("scan", "idle")

\* None has: with a timeout, look at the clock
SuspendLooksAtClock ==
  ~SomeReady /\ UNCHANGED list /\ Suspend("scan", "clock")

\* The timeout is over: -1 with EAGAIN
SuspendTimesOut ==
  list' = {} /\ Suspend("clock", "idle")

\* It is not: usleep, and scan again
SuspendSleeps ==
  UNCHANGED list /\ Suspend("clock", "scan")

aio_suspend ==
  \/ \E cbs \in SUBSET Cbs : SuspendCall(cbs)
  \/ SuspendReady
  \/ SuspendLooksAtClock
  \/ SuspendTimesOut
  \/ SuspendSleeps

-----------------------------------------------------------------------------
(* The specification.                                                      *)

Next ==
  \/ \E cb \in Cbs :
       \/ aio_read(cb)
       \/ aio_write(cb)
       \/ aio_fsync(cb)
       \/ Worker(cb)
       \/ WorkerKilled(cb)
       \/ aio_return(cb)
  \/ \E cb \in Cancellable : aio_cancel(cb)
  \/ aio_suspend

SafeSpec == Init /\ [][Next]_vars

(***************************************************************************)
(* Fairness.  Every thread that can take a step takes one in the end: the   *)
(* worker (its calls on a file return), an owner inside aio_return, a        *)
(* canceller that has cancelled its thread, the thread in aio_suspend.  No   *)
(* thread must call anything, and none must be killed.                      *)
(***************************************************************************)
Fairness ==
  /\ \A cb \in Cbs :
       /\ WF_vars(Worker(cb))
       /\ WF_vars(Join(cb) \/ ReturnResult(cb))
       /\ WF_vars(CancelMarks(cb) \/ CancelReturns(cb))
  /\ WF_vars(SuspendReady \/ SuspendLooksAtClock \/ SuspendTimesOut
                          \/ SuspendSleeps)

Spec == SafeSpec /\ Fairness

-----------------------------------------------------------------------------
(* Properties.                                                             *)

\* No two requests use the same descriptor.
PrivateFds == \A a, b \in Cbs : FdOf[a] = FdOf[b] => a = b

\* A transfer is made at aio_offset, although read and write use the offset
\* of the descriptor that lseek has set a call before (aio_read_thread and
\* aio_write_thread).
TransferAtOffset == \A cb \in Cbs : at[cb] \in {Nowhere, OffsetOf[cb]}

\* Between requests the application finds the file offset where it left it:
\* the workers put it back on every path, the failing ones too.
OffsetPreserved ==
  \A fd \in Fds :
    (\A cb \in Cbs : FdOf[cb] = fd => ~UsesFd(cb)) => pos[fd] = HomeOf[fd]

\* Once aio_return has delivered a result no thread writes to the control
\* block any more: the application may free it.
NoThreadAfterReturn ==
  \A cb \in Cbs : ~Outstanding(cb) => thread[cb] = "none" /\ stores[cb] = {}

\* A count aio_return delivers is the one its own transfer made, whatever the
\* order in which the fields were written and with an aio_cancel under way.
ReturnMatchesTransfer ==
  \A cb \in Cbs :
    ~Outstanding(cb) /\ got[cb].ok =>
      /\ got[cb].n = result[cb]
      /\ OpOf[cb] = "fsync" \/ at[cb] # Nowhere

\* Every request that got a thread ends, cancelled or not.
RequestEnds == \A cb \in Cbs : thread[cb] = "begin" ~> state[cb] # 0

\* aio_return returns once it has found the request ended.
ReturnTerminates == \A cb \in Cbs : owner[cb] = "joining" ~> owner[cb] = "idle"

\* aio_suspend returns, with or without a timeout.
SuspendReturns == suspender # "idle" ~> suspender = "idle"

\* The parts of a request an application sees.
Status == [cb \in Cbs |-> IF ~Outstanding(cb) THEN "idle"
                          ELSE IF state[cb] = 0 THEN "pending" ELSE "ended"]
Outcome == [cb \in Cbs |-> IF Status[cb] = "ended" THEN result[cb] ELSE Failed]
Collected == [cb \in Cbs |-> IF Outstanding(cb) THEN Failed ELSE got[cb].n]

Request == INSTANCE AioRequest
             WITH status <- Status, outcome <- Outcome, report <- Collected

\* Without aio_cancel, every request is pending, ends once with one outcome
\* that stays, and is collected with that outcome.
RequestSpec == Request!Spec
=============================================================================
