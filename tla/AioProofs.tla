----------------------------- MODULE AioProofs -----------------------------
(***************************************************************************)
(* Proofs about Aio, for any control blocks, descriptors and offsets: its  *)
(* invariants, and that it implements AioRequest; and about AioListio, the *)
(* same with lio_listio, for any lists.                                    *)
(***************************************************************************)
EXTENDS AioListio, TLAPS

\* What a step of a worker leaves alone.
WorkerFrame == UNCHANGED <<owner, got, cancelVars, suspendVars, submits>>

\* What a step of a worker that is not yet reporting leaves alone, too.
QuietFrame == WorkerFrame /\ UNCHANGED <<state, error, return>>

\* The steps of Next one by one, named for the cases of the proofs.
BlockStep(cb) ==
  \/ Queue(cb)
  \/ SaveOffset(cb) /\ QuietFrame
  \/ SeekTo(cb) /\ QuietFrame
  \/ Transfer(cb) /\ QuietFrame
  \/ RestoreOffset(cb) /\ QuietFrame
  \/ OpOf[cb] = "fsync" /\ Commit(cb) /\ QuietFrame
  \/ Store(cb) /\ WorkerFrame
  \/ ThreadReturn(cb) /\ WorkerFrame
  \/ Killed(cb) /\ WorkerFrame
  \/ ReturnPending(cb)
  \/ ReturnStarts(cb)
  \/ Join(cb)
  \/ ReturnResult(cb)
  \/ cb \in Cancellable /\ CancelChecks(cb)
  \/ cb \in Cancellable /\ CancelThread(cb)
  \/ cb \in Cancellable /\ CancelMisses(cb)
  \/ cb \in Cancellable /\ CancelMarks(cb)
  \/ cb \in Cancellable /\ CancelReturns(cb)

\* Every step of the specification is one of those, a step of the thread in
\* aio_suspend, or a stutter.
LEMMA StepCases ==
  ASSUME [Next]_vars
  PROVE  \/ \E cb \in Cbs : BlockStep(cb)
         \/ aio_suspend
         \/ UNCHANGED vars
<1>1. CASE UNCHANGED vars
  BY <1>1
<1>2. CASE aio_suspend
  BY <1>2
<1>3. ASSUME NEW cb \in Cancellable, aio_cancel(cb)
      PROVE  \E c \in Cbs : BlockStep(c)
  BY <1>3, ConstantsAssumption DEF aio_cancel, BlockStep
<1>4. ASSUME NEW cb \in Cbs, aio_read(cb) \/ aio_write(cb) \/ aio_fsync(cb)
      PROVE  (\E c \in Cbs : BlockStep(c)) \/ UNCHANGED vars
  BY <1>4 DEF aio_read, aio_write, aio_fsync, Refuse, BlockStep
<1>5. ASSUME NEW cb \in Cbs, Worker(cb)
      PROVE  \E c \in Cbs : BlockStep(c)
  BY <1>5 DEF Worker, aio_read_thread, aio_write_thread, aio_fsync_thread,
              TransferThread, BlockStep, QuietFrame, WorkerFrame
<1>6. ASSUME NEW cb \in Cbs, WorkerKilled(cb) \/ aio_return(cb)
      PROVE  \E c \in Cbs : BlockStep(c)
  BY <1>6 DEF WorkerKilled, aio_return, BlockStep, WorkerFrame
<1> QED
  BY <1>1, <1>2, <1>3, <1>4, <1>5, <1>6 DEF Next

-----------------------------------------------------------------------------
(* Type correctness.                                                       *)

\* aio_suspend only moves its own thread.
LEMMA SuspendFrame ==
  ASSUME aio_suspend
  PROVE  /\ UNCHANGED <<state, error, return, pos, workerVars, owner, got,
                        cancelVars, submits, at>>
         /\ suspender' \in {"idle", "scan", "clock"}
         /\ list' \in SUBSET Cbs \/ list' = list
BY DEF aio_suspend, SuspendCall, SuspendReady, SuspendLooksAtClock,
       SuspendTimesOut, SuspendSleeps, Suspend

\* What aio_return may hand back has the type Returns.
LEMMA ReturnsType ==
  /\ \A e \in Errors : Errno(e) \in Returns
  /\ \A n \in Int : Count(n) \in Returns
BY DEF Returns, Errno, Count, Failed, Errors

LEMMA TypeOKStep ==
  ASSUME TypeOK, [Next]_vars
  PROVE  TypeOK'
<1> USE ConstantsAssumption DEF TypeOK, Failed, Nowhere, Fields
<1>1. ASSUME NEW cb \in Cbs, Queue(cb)
      PROVE  TypeOK'
  <2>1. NotCalled \in Returns
    BY ReturnsType DEF NotCalled, Errors
  <2>2. submits' \in [Cbs -> 0..MaxSubmits]
    BY <1>1 DEF Queue
  <2>3. /\ got' \in [Cbs -> Returns]
        /\ cancelled' \in [Cbs -> BOOLEAN]
        /\ result' \in [Cbs -> Int]
        /\ at' \in [Cbs -> Nat \cup {Nowhere}]
    BY <1>1, <2>1 DEF Queue
  <2>4. state' \in [Cbs -> 0..2] /\ error' \in [Cbs -> Errors]
    BY <1>1 DEF Queue, StartThread, NoThread, Errors
  <2>5. thread' \in [Cbs -> ThreadStates]
    BY <1>1 DEF Queue, StartThread, NoThread, ThreadStates
  <2>6. owner' \in [Cbs -> {"idle", "submitted", "joining", "joined"}]
    BY <1>1 DEF Queue, StartThread, NoThread
  <2> QED
    BY <1>1, <2>2, <2>3, <2>4, <2>5, <2>6 DEF Queue, suspendVars
<1>2. ASSUME NEW cb \in Cbs, QuietFrame,
             SaveOffset(cb) \/ SeekTo(cb) \/ RestoreOffset(cb) \/ Commit(cb)
      PROVE  TypeOK'
  BY <1>2 DEF QuietFrame, WorkerFrame, SaveOffset, SeekTo, RestoreOffset,
              Commit, Report, ThreadStates, cancelVars, suspendVars
<1>3. ASSUME NEW cb \in Cbs, Transfer(cb), QuietFrame
      PROVE  TypeOK'
  BY <1>3 DEF QuietFrame, WorkerFrame, Transfer, ThreadStates, cancelVars,
              suspendVars
<1>4. ASSUME NEW cb \in Cbs, Store(cb), WorkerFrame
      PROVE  TypeOK'
  <2>1. /\ state' \in [Cbs -> 0..2]
        /\ error' \in [Cbs -> Errors]
        /\ return' \in [Cbs -> Int]
        /\ stores' \in [Cbs -> SUBSET Fields]
    BY <1>4 DEF Store, Errors
  <2> QED
    BY <1>4, <2>1 DEF WorkerFrame, Store, cancelVars, suspendVars
<1>5. ASSUME NEW cb \in Cbs, WorkerFrame, ThreadReturn(cb) \/ Killed(cb)
      PROVE  TypeOK'
  BY <1>5 DEF WorkerFrame, ThreadReturn, Killed, ThreadStates, cancelVars,
              suspendVars
<1>6. ASSUME NEW cb \in Cbs,
             \/ ReturnPending(cb) \/ ReturnStarts(cb) \/ ReturnResult(cb)
      PROVE  TypeOK'
  <2>1. PICK r \in Returns : Returned(cb, r)
    BY <1>6, ReturnsType
       DEF ReturnPending, ReturnStarts, ReturnResult, Errors
  <2>2. owner' \in [Cbs -> {"idle", "submitted", "joining", "joined"}]
    BY <1>6 DEF ReturnPending, ReturnStarts, ReturnResult
  <2> QED
    BY <2>1, <2>2 DEF Returned, workerVars, cancelVars, suspendVars
<1>7. ASSUME NEW cb \in Cbs, Join(cb)
      PROVE  TypeOK'
  BY <1>7 DEF Join, ThreadStates, cancelVars, suspendVars
<1>8. ASSUME NEW cb \in Cbs,
             \/ CancelChecks(cb) \/ CancelThread(cb) \/ CancelMisses(cb)
             \/ CancelReturns(cb)
      PROVE  TypeOK'
  <2>1. cstores' \in [Cbs -> SUBSET {"error", "state"}]
    BY <1>8 DEF CancelChecks, CancelThread, CancelMisses, CancelReturns
  <2>2. cancelled' \in [Cbs -> BOOLEAN]
    <3>1. cancelled' = [cancelled EXCEPT ![cb] = TRUE] \/ UNCHANGED cancelled
      BY <1>8 DEF CancelChecks, CancelThread, CancelMisses, CancelReturns
    <3> QED
      BY <3>1
  <2>3. canceller' \in [Cbs -> {"idle", "cancel", "mark"}]
    BY <1>8 DEF CancelChecks, CancelThread, CancelMisses, CancelReturns
  <2>4. UNCHANGED <<state, error>> /\ CancelStep(cb)
    BY <1>8 DEF CancelChecks, CancelThread, CancelMisses, CancelReturns
  <2> QED
    BY <2>1, <2>2, <2>3, <2>4 DEF CancelStep, workerVars, suspendVars
<1>9. ASSUME NEW cb \in Cbs, CancelMarks(cb)
      PROVE  TypeOK'
  <2>1. state' \in [Cbs -> 0..2] /\ error' \in [Cbs -> Errors]
    BY <1>9 DEF CancelMarks, Errors
  <2>2. cstores' \in [Cbs -> SUBSET {"error", "state"}]
    BY <1>9 DEF CancelMarks
  <2> QED
    BY <1>9, <2>1, <2>2 DEF CancelMarks, CancelStep, workerVars, suspendVars
<1>10. CASE aio_suspend
  BY <1>10, SuspendFrame DEF workerVars, cancelVars
<1>11. CASE UNCHANGED vars
  BY <1>11 DEF vars, workerVars, cancelVars, suspendVars
<1> QED
  BY StepCases, <1>1, <1>2, <1>3, <1>4, <1>5, <1>6, <1>7, <1>8, <1>9, <1>10,
     <1>11 DEF BlockStep

\* Every variable keeps its type in every reachable state.
THEOREM TypeCorrect == SafeSpec => []TypeOK
<1>1. Init => TypeOK
  BY ConstantsAssumption
     DEF Init, TypeOK, Errors, ThreadStates, Returns, NotCalled, Errno,
         Failed, Nowhere, Fields
<1>2. TypeOK /\ [Next]_vars => TypeOK'
  BY TypeOKStep
<1> QED
  BY <1>1, <1>2, PTL DEF SafeSpec

-----------------------------------------------------------------------------
(* Who is still using a control block.                                     *)

\* The step does nothing to c.
Untouched(c) ==
  /\ state'[c] = state[c] /\ return'[c] = return[c]
  /\ thread'[c] = thread[c] /\ result'[c] = result[c]
  /\ oldOffset'[c] = oldOffset[c] /\ stores'[c] = stores[c]
  /\ owner'[c] = owner[c] /\ got'[c] = got[c] /\ at'[c] = at[c]

\* A step for one control block leaves every other one alone.
LEMMA OtherBlocks ==
  ASSUME TypeOK, NEW cb \in Cbs, BlockStep(cb), NEW c \in Cbs, c # cb
  PROVE  Untouched(c)
<1> USE DEF TypeOK, Untouched
<1>1. CASE Queue(cb)
  BY <1>1 DEF Queue, StartThread, NoThread
<1>2. ASSUME QuietFrame, \/ SaveOffset(cb) \/ SeekTo(cb) \/ Transfer(cb)
                         \/ RestoreOffset(cb) \/ Commit(cb)
      PROVE  Untouched(c)
  BY <1>2 DEF QuietFrame, WorkerFrame, SaveOffset, SeekTo, Transfer,
              RestoreOffset, Commit, Report
<1>3. ASSUME WorkerFrame, Store(cb) \/ ThreadReturn(cb) \/ Killed(cb)
      PROVE  Untouched(c)
  BY <1>3 DEF WorkerFrame, Store, ThreadReturn, Killed
<1>4. CASE ReturnPending(cb) \/ ReturnStarts(cb) \/ Join(cb)
           \/ ReturnResult(cb)
  BY <1>4 DEF ReturnPending, ReturnStarts, Join, ReturnResult, Returned,
              workerVars
<1>5. CASE \/ CancelChecks(cb) \/ CancelThread(cb) \/ CancelMisses(cb)
           \/ CancelMarks(cb) \/ CancelReturns(cb)
  BY <1>5 DEF CancelChecks, CancelThread, CancelMisses, CancelMarks,
              CancelReturns, CancelStep, workerVars
<1> QED
  BY <1>1, <1>2, <1>3, <1>4, <1>5 DEF BlockStep

\* The owner's place and the worker's: exactly while the request is
\* submitted or its collector waits, there is a thread to join.
Own(cb) ==
  /\ owner[cb] \in {"idle", "joined"} <=> thread[cb] = "none"
  /\ thread[cb] # "publish" => stores[cb] = {}

OwnInv == \A cb \in Cbs : Own(cb)

LEMMA OwnInvStep ==
  ASSUME TypeOK, OwnInv, [Next]_vars
  PROVE  OwnInv'
<1> USE DEF OwnInv, Own
<1>1. ASSUME NEW cb \in Cbs, BlockStep(cb)
      PROVE  OwnInv'
  <2>1. SUFFICES Own(cb)'
    BY <1>1, OtherBlocks DEF Untouched
  <2> USE DEF TypeOK, Fields
  <2>2. CASE Queue(cb)
    BY <2>2 DEF Queue, StartThread, NoThread
  <2>3. ASSUME QuietFrame, \/ SaveOffset(cb) \/ SeekTo(cb) \/ Transfer(cb)
                           \/ RestoreOffset(cb) \/ Commit(cb)
        PROVE  Own(cb)'
    BY <2>3 DEF QuietFrame, WorkerFrame, SaveOffset, SeekTo, Transfer,
                RestoreOffset, Commit, Report
  <2>4. ASSUME WorkerFrame, Store(cb) \/ ThreadReturn(cb) \/ Killed(cb)
        PROVE  Own(cb)'
    BY <2>4 DEF WorkerFrame, Store, ThreadReturn, Killed
  <2>5. CASE ReturnPending(cb) \/ ReturnStarts(cb) \/ Join(cb)
             \/ ReturnResult(cb)
    BY <2>5 DEF ReturnPending, ReturnStarts, Join, ReturnResult, Returned,
                workerVars
  <2>6. CASE \/ CancelChecks(cb) \/ CancelThread(cb) \/ CancelMisses(cb)
             \/ CancelMarks(cb) \/ CancelReturns(cb)
    BY <2>6 DEF CancelChecks, CancelThread, CancelMisses, CancelMarks,
                CancelReturns, CancelStep, workerVars
  <2> QED
    BY <1>1, <2>2, <2>3, <2>4, <2>5, <2>6 DEF BlockStep
<1>2. CASE aio_suspend
  BY <1>2, SuspendFrame DEF workerVars
<1>3. CASE UNCHANGED vars
  BY <1>3 DEF vars, workerVars
<1> QED
  BY StepCases, <1>1, <1>2, <1>3

LEMMA OwnInvariant == SafeSpec => []OwnInv
<1>1. Init => OwnInv
  BY DEF Init, OwnInv, Own
<1> QED
  BY <1>1, TypeCorrect, OwnInvStep, PTL DEF SafeSpec

\* After aio_return has delivered a result, no worker is left that could
\* write to the control block: freeing it is safe.
THEOREM ReturnFreesBlock == SafeSpec => []NoThreadAfterReturn
<1>1. TypeOK /\ OwnInv => NoThreadAfterReturn
  BY DEF TypeOK, OwnInv, Own, NoThreadAfterReturn, Outstanding
<1> QED
  BY <1>1, TypeCorrect, OwnInvariant, PTL

-----------------------------------------------------------------------------
(* What aio_return delivers.                                               *)

\* The worker's local result, the fields it is reported in, and what
\* aio_return made of them.
Res(cb) ==
  /\ Outstanding(cb) /\ state[cb] = 1 => result[cb] # Failed
  /\ thread[cb] \in {"begin", "seek", "transfer"} => result[cb] = Failed
  /\ owner[cb] \in {"joining", "joined"} => state[cb] # 0
  /\ /\ thread[cb] \in {"none", "publish", "ended"}
     /\ Outstanding(cb) /\ result[cb] # Failed /\ "return" \notin stores[cb]
     => return[cb] = result[cb]
  /\ result[cb] # Failed => OpOf[cb] = "fsync" \/ at[cb] # Nowhere
  /\ ~Outstanding(cb) /\ got[cb].ok =>
       got[cb].n = result[cb] /\ result[cb] # Failed

ResInv == \A cb \in Cbs : Res(cb)

LEMMA ResInvStep ==
  ASSUME TypeOK, OwnInv, ResInv, [Next]_vars
  PROVE  ResInv'
<1> USE DEF ResInv, Res, Outstanding
<1>1. ASSUME NEW cb \in Cbs, BlockStep(cb)
      PROVE  ResInv'
  <2>1. SUFFICES Res(cb)'
    BY <1>1, OtherBlocks DEF Untouched
  <2> USE ConstantsAssumption DEF TypeOK, Fields, Failed, Nowhere
  <2>2. CASE Queue(cb)
    BY <2>2 DEF Queue, StartThread, NoThread, NotCalled, Errno
  <2>3. ASSUME QuietFrame, SaveOffset(cb) \/ SeekTo(cb)
        PROVE  Res(cb)'
    BY <2>3 DEF QuietFrame, WorkerFrame, SaveOffset, SeekTo, Report, OwnInv,
                Own
  <2>4. ASSUME QuietFrame, Transfer(cb)
        PROVE  Res(cb)'
    BY <2>4 DEF QuietFrame, WorkerFrame, Transfer, OwnInv, Own
  <2>5. ASSUME QuietFrame, RestoreOffset(cb)
        PROVE  Res(cb)'
    BY <2>5 DEF QuietFrame, WorkerFrame, RestoreOffset, Report, OwnInv, Own
  <2>6. ASSUME QuietFrame, OpOf[cb] = "fsync", Commit(cb)
        PROVE  Res(cb)'
    BY <2>6 DEF QuietFrame, WorkerFrame, Commit, Report, OwnInv, Own
  <2>7. ASSUME WorkerFrame, Store(cb)
        PROVE  Res(cb)'
    BY <2>7 DEF WorkerFrame, Store, OwnInv, Own
  <2>8. ASSUME WorkerFrame, ThreadReturn(cb) \/ Killed(cb)
        PROVE  Res(cb)'
    BY <2>8 DEF WorkerFrame, ThreadReturn, Killed, OwnInv, Own
  <2>9. CASE ReturnPending(cb) \/ ReturnStarts(cb) \/ Join(cb)
    BY <2>9 DEF ReturnPending, ReturnStarts, Join, Returned, workerVars
  <2>10. CASE ReturnResult(cb)
    BY <2>10 DEF ReturnResult, Returned, Count, Errno, workerVars, OwnInv, Own
  <2>11. CASE \/ CancelChecks(cb) \/ CancelThread(cb) \/ CancelMisses(cb)
              \/ CancelMarks(cb) \/ CancelReturns(cb)
    BY <2>11 DEF CancelChecks, CancelThread, CancelMisses, CancelMarks,
                 CancelReturns, CancelStep, workerVars
  <2> QED
    BY <1>1, <2>2, <2>3, <2>4, <2>5, <2>6, <2>7, <2>8, <2>9, <2>10, <2>11
       DEF BlockStep
<1>2. CASE aio_suspend
  BY <1>2, SuspendFrame DEF workerVars
<1>3. CASE UNCHANGED vars
  BY <1>3 DEF vars, workerVars
<1> QED
  BY StepCases, <1>1, <1>2, <1>3

LEMMA ResInvariant == SafeSpec => []ResInv
<1>1. ASSUME Init, NEW cb \in Cbs
      PROVE  Res(cb)
  <2>1. ~got[cb].ok
    BY <1>1 DEF Init, NotCalled, Errno
  <2>2. /\ owner[cb] = "idle" /\ thread[cb] = "none" /\ result[cb] = Failed
    BY <1>1 DEF Init
  <2> QED
    BY <2>1, <2>2 DEF Res, Outstanding
<1>2. Init => ResInv
  BY <1>1 DEF ResInv
<1>3. TypeOK /\ OwnInv /\ ResInv /\ [Next]_vars => ResInv'
  BY ResInvStep
<1> QED
  BY <1>2, <1>3, TypeCorrect, OwnInvariant, PTL DEF SafeSpec

\* A count aio_return delivers is the one the request's own transfer made,
\* with any interleaving of the worker's stores and of aio_cancel's.
THEOREM ReturnDeliversTransfer == SafeSpec => []ReturnMatchesTransfer
<1>1. ResInv => ReturnMatchesTransfer
  BY DEF ResInv, Res, ReturnMatchesTransfer
<1> QED
  BY <1>1, ResInvariant, PTL

-----------------------------------------------------------------------------
(* The file offset, when every request has a descriptor of its own.        *)

\* With private descriptors a step for one control block leaves the offset
\* of every other one's descriptor alone, and of descriptors not in use.
LEMMA OtherFds ==
  ASSUME PrivateFds, TypeOK, NEW cb \in Cbs, BlockStep(cb),
         NEW fd \in Fds, fd # FdOf[cb]
  PROVE  pos'[fd] = pos[fd]
<1> USE DEF TypeOK
<1>1. ASSUME QuietFrame, \/ SaveOffset(cb) \/ SeekTo(cb) \/ Transfer(cb)
                         \/ RestoreOffset(cb) \/ Commit(cb)
      PROVE  pos'[fd] = pos[fd]
  BY <1>1 DEF SaveOffset, SeekTo, Transfer, RestoreOffset, Commit
<1>2. CASE \/ Queue(cb) \/ Store(cb) \/ ThreadReturn(cb) \/ Killed(cb)
           \/ Join(cb)
  BY <1>2 DEF Queue, Store, ThreadReturn, Killed, Join
<1>3. CASE ReturnPending(cb) \/ ReturnStarts(cb) \/ ReturnResult(cb)
  BY <1>3 DEF ReturnPending, ReturnStarts, ReturnResult, Returned
<1>4. CASE \/ CancelChecks(cb) \/ CancelThread(cb) \/ CancelMisses(cb)
           \/ CancelMarks(cb) \/ CancelReturns(cb)
  BY <1>4 DEF CancelChecks, CancelThread, CancelMisses, CancelMarks,
              CancelReturns, CancelStep
<1> QED
  BY <1>1, <1>2, <1>3, <1>4 DEF BlockStep

\* The offset the worker's seek has set is still there at its transfer.
Seeked(cb) ==
  /\ thread[cb] = "transfer" => pos[FdOf[cb]] = OffsetOf[cb]
  /\ at[cb] \in {Nowhere, OffsetOf[cb]}

SeekInv == \A cb \in Cbs : Seeked(cb)

LEMMA SeekInvStep ==
  ASSUME PrivateFds, TypeOK, SeekInv, [Next]_vars
  PROVE  SeekInv'
<1> USE ConstantsAssumption DEF SeekInv, Seeked
<1>1. ASSUME NEW cb \in Cbs, BlockStep(cb)
      PROVE  SeekInv'
  <2>1. ASSUME NEW c \in Cbs, c # cb
        PROVE  Seeked(c)'
    <3>1. FdOf[c] \in Fds /\ FdOf[c] # FdOf[cb]
      BY <2>1 DEF PrivateFds
    <3> QED
      BY <1>1, <2>1, <3>1, OtherBlocks, OtherFds DEF Untouched
  <2>2. Seeked(cb)'
    <3> USE DEF TypeOK, Failed, Nowhere
    <3>1. ASSUME QuietFrame, \/ SaveOffset(cb) \/ RestoreOffset(cb)
                             \/ Commit(cb)
          PROVE  Seeked(cb)'
      BY <3>1 DEF SaveOffset, RestoreOffset, Commit, Report
    <3>2. ASSUME QuietFrame, SeekTo(cb) \/ Transfer(cb)
          PROVE  Seeked(cb)'
      BY <3>2 DEF SeekTo, Transfer, Report
    <3>3. CASE \/ Queue(cb) \/ Store(cb) \/ ThreadReturn(cb) \/ Killed(cb)
               \/ Join(cb)
      BY <3>3 DEF Queue, StartThread, NoThread, Store, ThreadReturn, Killed,
                  Join
    <3>4. CASE \/ ReturnPending(cb) \/ ReturnStarts(cb) \/ ReturnResult(cb)
      BY <3>4 DEF ReturnPending, ReturnStarts, ReturnResult, Returned,
                  workerVars
    <3>5. CASE \/ CancelChecks(cb) \/ CancelThread(cb) \/ CancelMisses(cb)
               \/ CancelMarks(cb) \/ CancelReturns(cb)
      BY <3>5 DEF CancelChecks, CancelThread, CancelMisses, CancelMarks,
                  CancelReturns, CancelStep, workerVars
    <3> QED
      BY <1>1, <3>1, <3>2, <3>3, <3>4, <3>5 DEF BlockStep
  <2> QED
    BY <2>1, <2>2
<1>2. CASE aio_suspend
  BY <1>2, SuspendFrame DEF workerVars
<1>3. CASE UNCHANGED vars
  BY <1>3 DEF vars, workerVars
<1> QED
  BY StepCases, <1>1, <1>2, <1>3

\* If no two requests share a descriptor, every transfer is made at the
\* request's aio_offset, whatever is cancelled.
THEOREM PrivateFdsSuffice ==
  ASSUME PrivateFds
  PROVE  SafeSpec => []TransferAtOffset
<1>1. Init => SeekInv
  BY DEF Init, SeekInv, Seeked
<1>2. TypeOK /\ SeekInv /\ [Next]_vars => SeekInv'
  BY PrivateFds, SeekInvStep
<1>3. SeekInv => TransferAtOffset
  BY DEF SeekInv, Seeked, TransferAtOffset
<1> QED
  BY <1>1, <1>2, <1>3, TypeCorrect, PTL DEF SafeSpec

\* No thread is ever cancelled when the application cancels nothing.
NoneCancelled == \A cb \in Cbs : ~cancelled[cb] /\ canceller[cb] = "idle"

LEMMA NoneCancelledInvariant ==
  ASSUME Cancellable = {}
  PROVE  SafeSpec => []NoneCancelled
<1> USE DEF NoneCancelled
<1>1. Init => NoneCancelled
  BY DEF Init
<1>2. ASSUME TypeOK, NoneCancelled, [Next]_vars
      PROVE  NoneCancelled'
  <2> USE <1>2 DEF TypeOK
  <2>1. ASSUME NEW cb \in Cbs, BlockStep(cb)
        PROVE  NoneCancelled'
    <3>1. Queue(cb) => NoneCancelled'
      BY DEF Queue
    <3>2. ~Queue(cb) => UNCHANGED <<cancelled, canceller>>
      BY <2>1, Cancellable = {}
         DEF BlockStep, QuietFrame, WorkerFrame, cancelVars, ReturnPending,
             ReturnStarts, Join, ReturnResult, Returned
    <3> QED
      BY <3>1, <3>2
  <2>2. CASE aio_suspend
    BY <2>2, SuspendFrame DEF cancelVars
  <2>3. CASE UNCHANGED vars
    BY <2>3 DEF vars, cancelVars
  <2> QED
    BY StepCases, <2>1, <2>2, <2>3
<1> QED
  BY <1>1, <1>2, TypeCorrect, PTL DEF SafeSpec

\* A descriptor is away from home only between a worker's seek and its
\* restoring lseek, and that worker remembers where home is.
Home(fd) ==
  (\A cb \in Cbs : FdOf[cb] = fd => thread[cb] \notin {"transfer", "restore"})
    => pos[fd] = HomeOf[fd]

Remembers(cb) ==
  thread[cb] \in {"seek", "transfer", "restore"}
    => oldOffset[cb] = HomeOf[FdOf[cb]]

HomeInv == (\A fd \in Fds : Home(fd)) /\ (\A cb \in Cbs : Remembers(cb))

LEMMA HomeInvStep ==
  ASSUME PrivateFds, TypeOK, OwnInv, NoneCancelled, HomeInv, [Next]_vars
  PROVE  HomeInv'
<1> USE ConstantsAssumption DEF HomeInv
<1>1. ASSUME NEW cb \in Cbs, BlockStep(cb)
      PROVE  HomeInv'
  <2>1. ASSUME NEW c \in Cbs, c # cb
        PROVE  Remembers(c)'
    BY <1>1, <2>1, OtherBlocks DEF Untouched, Remembers
  <2>2. ASSUME NEW fd \in Fds, fd # FdOf[cb]
        PROVE  Home(fd)'
    <3>1. \A c \in Cbs : FdOf[c] = fd => thread'[c] = thread[c]
      BY <1>1, <2>2, OtherBlocks DEF Untouched
    <3>2. pos'[fd] = pos[fd]
      BY <1>1, <2>2, OtherFds
    <3> QED
      BY <3>1, <3>2 DEF Home
  <2> DEFINE fd == FdOf[cb]
             Away == thread[cb] \in {"transfer", "restore"}
  <2>3. /\ Away \/ pos[fd] = HomeOf[fd]
        /\ Away' \/ pos'[fd] = HomeOf[fd]
           => Home(fd)'
    BY DEF PrivateFds, Home
  <2>4. (Away' \/ pos'[fd] = HomeOf[fd]) /\ Remembers(cb)'
    <3> HIDE DEF HomeInv
    <3> USE DEF TypeOK
    <3>0. Remembers(cb)
      BY DEF HomeInv
    <3>1. ASSUME QuietFrame, SaveOffset(cb) \/ SeekTo(cb)
          PROVE  (Away' \/ pos'[fd] = HomeOf[fd]) /\ Remembers(cb)'
      BY <3>0, <3>1, <2>3 DEF SaveOffset, SeekTo, Report, Remembers
    <3>2. ASSUME QuietFrame, Transfer(cb)
          PROVE  (Away' \/ pos'[fd] = HomeOf[fd]) /\ Remembers(cb)'
      BY <3>0, <3>2 DEF Transfer, Remembers
    <3>3. ASSUME QuietFrame, RestoreOffset(cb) \/ Commit(cb)
          PROVE  (Away' \/ pos'[fd] = HomeOf[fd]) /\ Remembers(cb)'
      BY <3>0, <3>3, <2>3 DEF RestoreOffset, Commit, Report, Remembers
    <3>4. CASE \/ Queue(cb) \/ Store(cb) \/ ThreadReturn(cb) \/ Join(cb)
      BY <3>0, <3>4, <2>3
         DEF Queue, StartThread, NoThread, Store, ThreadReturn, Join, Remembers,
             OwnInv, Own
    <3>5. CASE \/ ReturnPending(cb) \/ ReturnStarts(cb) \/ ReturnResult(cb)
      BY <3>0, <3>5, <2>3
         DEF ReturnPending, ReturnStarts, ReturnResult, Returned, workerVars,
             Remembers
    <3>6. CASE \/ CancelChecks(cb) \/ CancelThread(cb) \/ CancelMisses(cb)
               \/ CancelMarks(cb) \/ CancelReturns(cb)
      BY <3>0, <3>6, <2>3
         DEF CancelChecks, CancelThread, CancelMisses, CancelMarks,
             CancelReturns, CancelStep, workerVars, Remembers
    <3>7. ~Killed(cb)
      BY DEF Killed, NoneCancelled
    <3> QED
      BY <1>1, <3>1, <3>2, <3>3, <3>4, <3>5, <3>6, <3>7 DEF BlockStep
  <2> QED
    BY <2>1, <2>2, <2>3, <2>4
<1>2. CASE aio_suspend
  BY <1>2, SuspendFrame DEF workerVars, Home, Remembers
<1>3. CASE UNCHANGED vars
  BY <1>3 DEF vars, workerVars, Home, Remembers
<1> QED
  BY StepCases, <1>1, <1>2, <1>3

\* With a descriptor per request and no aio_cancel the application finds the
\* offset of every descriptor unmoved whenever no worker is using it.
THEOREM OffsetsComeBack ==
  ASSUME PrivateFds, Cancellable = {}
  PROVE  SafeSpec => []OffsetPreserved
<1>1. Init => HomeInv
  BY DEF Init, HomeInv, Home, Remembers
<1>2. TypeOK /\ OwnInv /\ NoneCancelled /\ HomeInv /\ [Next]_vars => HomeInv'
  BY PrivateFds, HomeInvStep
<1>3. HomeInv => OffsetPreserved
  BY DEF HomeInv, Home, OffsetPreserved, UsesFd
<1>4. SafeSpec => []NoneCancelled
  BY Cancellable = {}, NoneCancelledInvariant
<1> QED
  BY <1>1, <1>2, <1>3, <1>4, TypeCorrect, OwnInvariant, PTL DEF SafeSpec

-----------------------------------------------------------------------------
(* Without aio_cancel, Aio implements the safety part of AioRequest under  *)
(* the refinement mapping (Status, Outcome, Collected), for any requests,  *)
(* with shared descriptors or private ones.                                *)

\* Until its state is stored, a request is pending; from then on the state
\* tells whether the transfer failed.
Told(cb) ==
  /\ thread[cb] \in {"begin", "seek", "transfer", "restore"} => state[cb] = 0
  /\ "state" \in stores[cb] => state[cb] = 0
  /\ Outstanding(cb) /\ state[cb] # 0 => (state[cb] = 2 <=> result[cb] = Failed)
  /\ result[cb] \in 0..NBytesOf[cb] \cup {Failed}

ToldInv == \A cb \in Cbs : Told(cb)

LEMMA ToldInvStep ==
  ASSUME TypeOK, OwnInv, NoneCancelled, ToldInv, [Next]_vars
  PROVE  ToldInv'
<1> USE DEF ToldInv, Told, Outstanding
<1>1. ASSUME NEW cb \in Cbs, BlockStep(cb)
      PROVE  ToldInv'
  <2>1. SUFFICES Told(cb)'
    BY <1>1, OtherBlocks DEF Untouched
  <2> USE ConstantsAssumption DEF TypeOK, Fields, Failed
  <2>2. CASE Queue(cb)
    BY <2>2 DEF Queue, StartThread, NoThread, OwnInv, Own
  <2>3. ASSUME QuietFrame, SaveOffset(cb) \/ SeekTo(cb)
        PROVE  Told(cb)'
    BY <2>3 DEF QuietFrame, WorkerFrame, SaveOffset, SeekTo, Report
  <2>4. ASSUME QuietFrame, Transfer(cb) \/ RestoreOffset(cb) \/ Commit(cb)
        PROVE  Told(cb)'
    BY <2>4 DEF QuietFrame, WorkerFrame, Transfer, RestoreOffset, Commit,
                Report, OwnInv, Own
  <2>5. ASSUME WorkerFrame, Store(cb)
        PROVE  Told(cb)'
    BY <2>5 DEF WorkerFrame, Store
  <2>6. ASSUME WorkerFrame, ThreadReturn(cb) \/ Killed(cb)
        PROVE  Told(cb)'
    BY <2>6 DEF WorkerFrame, ThreadReturn, Killed
  <2>7. CASE \/ ReturnPending(cb) \/ ReturnStarts(cb) \/ Join(cb)
             \/ ReturnResult(cb)
    BY <2>7 DEF ReturnPending, ReturnStarts, Join, ReturnResult, Returned,
                workerVars
  <2>8. CASE CancelMisses(cb)
    BY <2>8 DEF CancelMisses, CancelStep, workerVars
  <2>9. CASE CancelChecks(cb)
    BY <2>9 DEF CancelChecks, CancelStep, workerVars
  <2>10. ~CancelThread(cb) /\ ~CancelMarks(cb) /\ ~CancelReturns(cb)
    BY DEF CancelThread, CancelMarks, CancelReturns, NoneCancelled
  <2> QED
    BY <1>1, <2>2, <2>3, <2>4, <2>5, <2>6, <2>7, <2>8, <2>9, <2>10 DEF BlockStep
<1>2. CASE aio_suspend
  BY <1>2, SuspendFrame DEF workerVars
<1>3. CASE UNCHANGED vars
  BY <1>3 DEF vars, workerVars
<1> QED
  BY StepCases, <1>1, <1>2, <1>3

-----------------------------------------------------------------------------
(* The refinement mapping, step by step.                                   *)

\* What an application sees of one control block.
StatusOf(cb)    == IF ~Outstanding(cb) THEN "idle"
                   ELSE IF state[cb] = 0 THEN "pending" ELSE "ended"
OutcomeOf(cb)   == IF StatusOf(cb) = "ended" THEN result[cb] ELSE Failed
CollectedOf(cb) == IF Outstanding(cb) THEN Failed ELSE got[cb].n

LEMMA Mapping ==
  /\ Status = [cb \in Cbs |-> StatusOf(cb)]
  /\ Outcome = [cb \in Cbs |-> OutcomeOf(cb)]
  /\ Collected = [cb \in Cbs |-> CollectedOf(cb)]
BY DEF Status, Outcome, Collected, StatusOf, OutcomeOf, CollectedOf

\* A step for cb changes the mapped state at cb only.
LEMMA MappingStep ==
  ASSUME TypeOK, NEW cb \in Cbs, BlockStep(cb)
  PROVE  /\ Status' = [Status EXCEPT ![cb] = StatusOf(cb)']
         /\ Outcome' = [Outcome EXCEPT ![cb] = OutcomeOf(cb)']
         /\ Collected' = [Collected EXCEPT ![cb] = CollectedOf(cb)']
<1>1. ASSUME NEW c \in Cbs, c # cb
      PROVE  /\ StatusOf(c)' = StatusOf(c)
             /\ OutcomeOf(c)' = OutcomeOf(c)
             /\ CollectedOf(c)' = CollectedOf(c)
  BY <1>1, OtherBlocks
     DEF Untouched, StatusOf, OutcomeOf, CollectedOf, Outstanding
<1>2. /\ Status' = [c \in Cbs |-> StatusOf(c)']
      /\ Outcome' = [c \in Cbs |-> OutcomeOf(c)']
      /\ Collected' = [c \in Cbs |-> CollectedOf(c)']
  BY DEF Status, Outcome, Collected, StatusOf, OutcomeOf, CollectedOf
<1>3. Status' = [Status EXCEPT ![cb] = StatusOf(cb)']
  <2>1. \A c \in Cbs : c # cb => StatusOf(c)' = StatusOf(c)
    BY <1>1
  <2> QED
    BY <2>1, <1>2, Mapping
<1>4. Outcome' = [Outcome EXCEPT ![cb] = OutcomeOf(cb)']
  <2>1. \A c \in Cbs : c # cb => OutcomeOf(c)' = OutcomeOf(c)
    BY <1>1
  <2> QED
    BY <2>1, <1>2, Mapping
<1>5. Collected' = [Collected EXCEPT ![cb] = CollectedOf(cb)']
  <2>1. \A c \in Cbs : c # cb => CollectedOf(c)' = CollectedOf(c)
    BY <1>1
  <2> QED
    BY <2>1, <1>2, Mapping
<1> QED
  BY <1>3, <1>4, <1>5

\* Every step maps to a step of AioRequest, or to a stutter.
LEMMA RequestStep ==
  ASSUME TypeOK, OwnInv, ResInv, NoneCancelled, ToldInv, [Next]_vars
  PROVE  [Request!Next]_(Request!vars)
<1>1. ASSUME NEW cb \in Cbs, BlockStep(cb)
      PROVE  [Request!Next]_(Request!vars)
  <2> DEFINE Same == /\ StatusOf(cb)' = StatusOf(cb)
                     /\ OutcomeOf(cb)' = OutcomeOf(cb)
                     /\ CollectedOf(cb)' = CollectedOf(cb)
  <2>1. ASSUME Same
        PROVE  UNCHANGED Request!vars
    BY <1>1, <2>1, MappingStep, Mapping DEF Request!vars
  <2>2. /\ Status[cb] = StatusOf(cb)
        /\ Outcome[cb] = OutcomeOf(cb)
        /\ Collected[cb] = CollectedOf(cb)
    BY Mapping
  <2> USE DEF TypeOK, StatusOf, OutcomeOf, CollectedOf, Outstanding
  <2>3. ASSUME Queue(cb)
        PROVE  Request!Queue(cb)
    <3>1. /\ StatusOf(cb) = "idle" /\ StatusOf(cb)' \in {"idle", "pending"}
          /\ OutcomeOf(cb)' = OutcomeOf(cb)
      BY <2>3 DEF Queue, StartThread, NoThread
    <3>2. CollectedOf(cb)' = Failed
      BY <2>3 DEF Queue, NotCalled, Errno
    <3> QED
      BY <1>1, <2>2, <3>1, <3>2, MappingStep, Mapping
         DEF Request!Queue, Request!Failed, Failed
  <2>4. ASSUME QuietFrame, \/ SaveOffset(cb) \/ SeekTo(cb) \/ Transfer(cb)
                           \/ RestoreOffset(cb) \/ Commit(cb)
        PROVE  Same
    BY <2>4 DEF QuietFrame, WorkerFrame, SaveOffset, SeekTo, Transfer,
                RestoreOffset, Commit, Report, ToldInv, Told
  <2>5. ASSUME WorkerFrame, Store(cb)
        PROVE  Same \/ Request!End(cb)
    <3>1. CASE state'[cb] = state[cb]
      BY <2>5, <3>1 DEF WorkerFrame, Store
    <3>2. CASE state'[cb] # state[cb]
      <4>1. /\ state[cb] = 0 /\ state'[cb] # 0 /\ Outstanding(cb)
            /\ UNCHANGED <<owner, got, result>>
        BY <2>5, <3>2 DEF WorkerFrame, Store, ToldInv, Told, OwnInv, Own
      <4>2. result[cb] \in 0..NBytesOf[cb] \cup {Failed}
        BY DEF ToldInv, Told
      <4>3. /\ StatusOf(cb) = "pending" /\ StatusOf(cb)' = "ended"
            /\ OutcomeOf(cb)' = result[cb]
            /\ CollectedOf(cb)' = CollectedOf(cb)
        BY <4>1
      <4> QED
        BY <1>1, <2>2, <4>2, <4>3, MappingStep, Mapping
           DEF Request!End, Request!Failed, Failed
    <3> QED
      BY <3>1, <3>2
  <2>6. ASSUME WorkerFrame, ThreadReturn(cb) \/ Killed(cb)
        PROVE  Same
    BY <2>6 DEF WorkerFrame, ThreadReturn, Killed
  <2>7. ASSUME ReturnPending(cb) \/ ReturnStarts(cb) \/ Join(cb)
        PROVE  Same
    BY <2>7 DEF ReturnPending, ReturnStarts, Join, Returned, workerVars
  <2>8. ASSUME ReturnResult(cb)
        PROVE  Request!Collect(cb)
    <3>1. /\ StatusOf(cb) = "ended" /\ StatusOf(cb)' = "idle"
          /\ OutcomeOf(cb) = result[cb] /\ OutcomeOf(cb)' = Failed
      BY <2>8 DEF ReturnResult, ResInv, Res
    <3>2. CollectedOf(cb)' = result[cb]
      <4>1. state[cb] = 2 <=> result[cb] = Failed
        BY <2>8 DEF ReturnResult, ResInv, Res, ToldInv, Told
      <4>2. state[cb] # 2 => return[cb] = result[cb]
        BY <2>8, <4>1 DEF ReturnResult, ResInv, Res, OwnInv, Own
      <4> QED
        BY <2>8, <4>1, <4>2
           DEF ReturnResult, Returned, Count, Errno
    <3> QED
      BY <1>1, <2>2, <3>1, <3>2, MappingStep, Mapping
         DEF Request!Collect, Request!Failed, Failed
  <2>9. ASSUME CancelChecks(cb) \/ CancelMisses(cb)
        PROVE  Same
    BY <2>9 DEF CancelChecks, CancelMisses, CancelStep, workerVars
  <2>10. ~CancelThread(cb) /\ ~CancelMarks(cb) /\ ~CancelReturns(cb)
    BY DEF CancelThread, CancelMarks, CancelReturns, NoneCancelled
  <2>11. Same \/ Request!Queue(cb) \/ Request!End(cb) \/ Request!Collect(cb)
    BY <1>1, <2>3, <2>4, <2>5, <2>6, <2>7, <2>8, <2>9, <2>10 DEF BlockStep
  <2> QED
    BY <2>1, <2>11 DEF Request!Next
<1>2. CASE UNCHANGED vars \/ aio_suspend
  <2>1. UNCHANGED <<state, owner, got, result>>
    BY <1>2, SuspendFrame DEF vars, workerVars
  <2>2. UNCHANGED <<Status, Outcome, Collected>>
    BY <2>1 DEF Status, Outcome, Collected, Outstanding
  <2> QED
    BY <2>2 DEF Request!vars
<1> QED
  BY StepCases, <1>1, <1>2

\* Without aio_cancel every request an application queues is pending until
\* it ends once, and aio_return delivers the outcome it ended with.
THEOREM AioImplementsRequest ==
  ASSUME Cancellable = {}
  PROVE  SafeSpec => Request!SafeSpec
<1>1. Init => ToldInv
  BY ConstantsAssumption DEF Init, ToldInv, Told, Outstanding, Failed
<1>2. TypeOK /\ OwnInv /\ NoneCancelled /\ ToldInv /\ [Next]_vars => ToldInv'
  BY ToldInvStep
<1>3. SafeSpec => []NoneCancelled
  BY Cancellable = {}, NoneCancelledInvariant
<1>4. Init => Request!Init
  BY Mapping DEF Init, StatusOf, OutcomeOf, CollectedOf, Outstanding,
                 NotCalled, Errno, Failed, Request!Init, Request!Failed
<1>5. TypeOK /\ OwnInv /\ ResInv /\ NoneCancelled /\ ToldInv /\ [Next]_vars
        => [Request!Next]_(Request!vars)
  BY RequestStep
<1> QED
  BY <1>1, <1>2, <1>3, <1>4, <1>5, TypeCorrect, OwnInvariant, ResInvariant,
     PTL DEF SafeSpec, Request!SafeSpec

-----------------------------------------------------------------------------
(* lio_listio.  Its thread joins workers that aio_return will join again,  *)
(* so that OwnInv does not hold beside it.  What does: a control block     *)
(* that nobody has queued, or that was joined, has no worker; and of one   *)
(* that is outstanding the state was stored when its worker is gone, or    *)
(* whoever killed the worker is about to store it; unless its last use was  *)
(* refused, which leaves it without a worker and its state as it was.      *)

\* The state of a request that has ended, or the canceller will store it.
Marked(cb) == state[cb] # 0 \/ (canceller[cb] = "mark" /\ "state" \in cstores[cb])

Alone(cb) ==
  /\ owner[cb] \in {"idle", "joined"} => thread[cb] = "none"
  /\ thread[cb] # "publish" => stores[cb] = {}
  /\ thread[cb] = "publish" => "state" \in stores[cb] \/ state[cb] # 0
  /\ Outstanding(cb) /\ (cancelled[cb] \/ thread[cb] \in {"ended", "none"})
       => Marked(cb) \/ cb \in refused
  /\ cb \in refused => thread[cb] = "none"

AloneInv == \A cb \in Cbs : Alone(cb)

\* Entries of the list that the thread in lio_listio has queued, or made done.
Usable(e) == Queues(e) \/ e.op = "LIO_NOP"

\* An entry that it has yet to come to: nobody else uses the control block.
Ahead(k) ==
  lio[k] # Null /\ lio[k].cb # Other =>
    /\ owner[lio[k].cb] = "idle" /\ canceller[lio[k].cb] = "idle"
    /\ ~Refused(lio[k]) => submits[lio[k].cb] < MaxSubmits

\* An entry that it has queued.  With LIO_WAIT nobody collects it, and what it
\* has joined, or what never had a thread, stays without one.
Passed(k) ==
  lio[k] # Null =>
    /\ Usable(lio[k]) /\ lio[k].cb \in Cbs
    /\ mode = "LIO_WAIT" =>
         /\ owner[lio[k].cb] = "submitted"
         /\ ~Queues(lio[k]) \/ (lister = "wait" /\ k < i) => thread[lio[k].cb] = "none"
         /\ lio[k].cb \in refused => Refused(lio[k])

PlaceInv ==
  /\ lister # "idle" => lio \in Lists
  /\ lister = "queue" => /\ \A k \in DOMAIN lio : k >= i => Ahead(k)
                         /\ \A k \in DOMAIN lio : k < i => Passed(k)
  /\ lister = "wait" => mode = "LIO_WAIT" /\ \A k \in DOMAIN lio : Passed(k)

\* What the entries of a list are.
LEMMA EntriesAre ==
  ASSUME NEW l \in Lists
  PROVE  /\ Len(l) \in Nat /\ Len(l) > 0 /\ DOMAIN l = 1..Len(l)
         /\ \A k \in DOMAIN l :
              l[k] # Null =>
                /\ l[k].cb \in Cbs \cup {Other}
                /\ l[k].op # "unknown" => l[k].cb # Other
         /\ \A j, k \in DOMAIN l :
              l[j] # Null /\ l[k] # Null /\ j # k => l[j].cb # l[k].cb
<1>1. l \in Seq(Entries) /\ l # <<>>
  BY ListsAssumption
<1>2. Len(l) \in Nat /\ DOMAIN l = 1..Len(l) /\ \A k \in DOMAIN l : l[k] \in Entries
  BY <1>1
<1>3. Len(l) > 0
  BY <1>1, <1>2
<1> QED
  BY <1>2, <1>3, ListsAssumption DEF Entries

LEMMA QueuesAre ==
  ASSUME NEW e, Queues(e)
  PROVE  e # Null /\ e.op \in {"LIO_READ", "LIO_WRITE"}
BY DEF Queues, Opcodes

-----------------------------------------------------------------------------
(* The steps beside lio_listio.                                            *)

\* The steps for one control block of everybody but lio_listio.
BesideStep(cb) ==
  \/ QuietFrame /\ \/ SaveOffset(cb) \/ SeekTo(cb) \/ Transfer(cb)
                   \/ RestoreOffset(cb) \/ Commit(cb)
  \/ WorkerFrame /\ (Store(cb) \/ ThreadReturn(cb) \/ Killed(cb))
  \/ aio_cancel(cb)
  \/ ~Listed(cb) /\ (aio_return(cb) \/ JoinAgain(cb) \/ Abandon(cb))

LEMMA ListStepCases ==
  ASSUME [ListNext]_listVars
  PROVE  \/ \E l \in Lists, n \in {"LIO_WAIT", "LIO_NOWAIT"} : ListCall(l, n)
         \/ lio_listio
         \/ \E cb \in Cbs : /\ BesideStep(cb) /\ UNCHANGED lioVars
                            /\ Next \/ JoinAgain(cb) \/ Abandon(cb)
         \/ UNCHANGED listVars
<1>1. ASSUME NEW cb \in Cbs, Worker(cb) \/ WorkerKilled(cb)
      PROVE  BesideStep(cb) /\ Next
  BY <1>1 DEF Next, Worker, aio_read_thread, aio_write_thread, aio_fsync_thread,
              TransferThread, WorkerKilled, BesideStep, QuietFrame, WorkerFrame
<1>2. ASSUME NEW cb \in Cancellable, aio_cancel(cb)
      PROVE  cb \in Cbs /\ BesideStep(cb) /\ Next
  BY <1>2, ConstantsAssumption DEF Next, BesideStep
<1>3. ASSUME NEW cb \in Cbs, ~Listed(cb),
             aio_return(cb) \/ JoinAgain(cb) \/ Abandon(cb)
      PROVE  BesideStep(cb) /\ (Next \/ JoinAgain(cb) \/ Abandon(cb))
  BY <1>3 DEF Next, BesideStep
<1> QED
  BY <1>1, <1>2, <1>3 DEF ListNext

\* The step does nothing to c.
Apart(c) ==
  /\ state'[c] = state[c] /\ thread'[c] = thread[c] /\ stores'[c] = stores[c]
  /\ owner'[c] = owner[c] /\ submits'[c] = submits[c]
  /\ canceller'[c] = canceller[c] /\ cstores'[c] = cstores[c]
  /\ cancelled'[c] = cancelled[c]
  /\ c \in refused' <=> c \in refused

LEMMA BesideOthers ==
  ASSUME TypeOK, NEW cb \in Cbs, BesideStep(cb), UNCHANGED refused, NEW c \in Cbs, c # cb
  PROVE  Apart(c)
<1> USE DEF TypeOK, Apart, cancelVars
<1>1. ASSUME QuietFrame, \/ SaveOffset(cb) \/ SeekTo(cb) \/ Transfer(cb)
                         \/ RestoreOffset(cb) \/ Commit(cb)
      PROVE  Apart(c)
  BY <1>1 DEF QuietFrame, WorkerFrame, SaveOffset, SeekTo, Transfer,
              RestoreOffset, Commit, Report
<1>2. ASSUME WorkerFrame, Store(cb) \/ ThreadReturn(cb) \/ Killed(cb)
      PROVE  Apart(c)
  BY <1>2 DEF WorkerFrame, Store, ThreadReturn, Killed
<1>3. CASE aio_cancel(cb)
  BY <1>3 DEF aio_cancel, CancelChecks, CancelThread, CancelMisses,
              CancelMarks, CancelReturns, CancelStep, workerVars
<1>4. CASE aio_return(cb) \/ JoinAgain(cb) \/ Abandon(cb)
  BY <1>4 DEF aio_return, ReturnPending, ReturnStarts, Join, ReturnResult,
              Returned, JoinAgain, Abandon, workerVars
<1> QED
  BY <1>1, <1>2, <1>3, <1>4 DEF BesideStep

LEMMA BesideAlone ==
  ASSUME TypeOK, AloneInv, NEW cb \in Cbs, BesideStep(cb), UNCHANGED refused
  PROVE  AloneInv'
<1>1. SUFFICES Alone(cb)'
  BY BesideOthers DEF AloneInv, Alone, Marked, Outstanding, Apart
<1> USE DEF TypeOK, AloneInv, Alone, Marked, Outstanding, cancelVars
<1>2. ASSUME QuietFrame, \/ SaveOffset(cb) \/ SeekTo(cb) \/ Transfer(cb)
                         \/ RestoreOffset(cb) \/ Commit(cb)
      PROVE  Alone(cb)'
  BY <1>2 DEF QuietFrame, WorkerFrame, SaveOffset, SeekTo, Transfer,
              RestoreOffset, Commit, Report, Fields
<1>3. ASSUME WorkerFrame, Store(cb)
      PROVE  Alone(cb)'
  BY <1>3 DEF WorkerFrame, Store
<1>4. ASSUME WorkerFrame, ThreadReturn(cb) \/ Killed(cb)
      PROVE  Alone(cb)'
  BY <1>4 DEF WorkerFrame, ThreadReturn, Killed
<1>5. CASE CancelChecks(cb) \/ CancelThread(cb) \/ CancelMisses(cb)
  BY <1>5 DEF CancelChecks, CancelThread, CancelMisses, CancelStep, workerVars
<1>6. CASE CancelMarks(cb) \/ CancelReturns(cb)
  BY <1>6 DEF CancelMarks, CancelReturns, CancelStep, workerVars
<1>7. CASE ReturnPending(cb) \/ ReturnStarts(cb) \/ ReturnResult(cb)
  BY <1>7 DEF ReturnPending, ReturnStarts, ReturnResult, Returned, workerVars
<1>8. CASE Join(cb) \/ JoinAgain(cb) \/ Abandon(cb)
  BY <1>8 DEF Join, JoinAgain, Abandon, workerVars
<1> QED
  BY <1>2, <1>3, <1>4, <1>5, <1>6, <1>7, <1>8
     DEF BesideStep, aio_cancel, aio_return

\* A control block without a worker gets none from these steps, and one that
\* nobody uses is not touched by them at all.
LEMMA BesideIdle ==
  ASSUME TypeOK, AloneInv, NEW cb \in Cbs, BesideStep(cb)
  PROVE  /\ thread[cb] = "none" => thread'[cb] = "none"
         /\ ~(owner[cb] = "idle" /\ canceller[cb] = "idle")
         /\ Listed(cb) => owner'[cb] = owner[cb]
<1> USE DEF TypeOK, AloneInv, Alone, Outstanding
<1>1. ASSUME QuietFrame, \/ SaveOffset(cb) \/ SeekTo(cb) \/ Transfer(cb)
                         \/ RestoreOffset(cb) \/ Commit(cb)
      PROVE  thread[cb] # "none" /\ UNCHANGED owner
  BY <1>1 DEF QuietFrame, WorkerFrame, SaveOffset, SeekTo, Transfer,
              RestoreOffset, Commit
<1>2. ASSUME WorkerFrame, Store(cb) \/ ThreadReturn(cb) \/ Killed(cb)
      PROVE  thread[cb] # "none" /\ UNCHANGED owner
  BY <1>2 DEF WorkerFrame, Store, ThreadReturn, Killed
<1>3. CASE aio_cancel(cb)
  BY <1>3 DEF aio_cancel, CancelChecks, CancelThread, CancelMisses,
              CancelMarks, CancelReturns, CancelStep, workerVars
<1>4. CASE ~Listed(cb) /\ (aio_return(cb) \/ JoinAgain(cb) \/ Abandon(cb))
  BY <1>4 DEF aio_return, ReturnPending, ReturnStarts, Join, ReturnResult,
              Returned, JoinAgain, Abandon, workerVars
<1> QED
  BY <1>1, <1>2, <1>3, <1>4 DEF BesideStep

LEMMA BesideTypes ==
  ASSUME TypeOK, NEW cb \in Cbs, Next \/ JoinAgain(cb) \/ Abandon(cb)
  PROVE  TypeOK'
<1>1. CASE JoinAgain(cb) \/ Abandon(cb)
  BY <1>1 DEF JoinAgain, Abandon, TypeOK, workerVars, cancelVars, suspendVars
<1> QED
  BY <1>1, TypeOKStep

LEMMA BesidePlace ==
  ASSUME ListTypeOK, AloneInv, PlaceInv, NEW cb \in Cbs, BesideStep(cb),
         UNCHANGED lioVars
  PROVE  PlaceInv'
<1>1. TypeOK
  BY DEF ListTypeOK
<1>2. UNCHANGED <<lister, lio, mode, i, refused>>
  BY DEF lioVars
<1>3. ASSUME NEW k \in DOMAIN lio, lister # "idle", Ahead(k)
      PROVE  Ahead(k)'
  <2> SUFFICES ASSUME lio[k] # Null, lio[k].cb # Other PROVE Ahead(k)'
    BY <1>2 DEF Ahead
  <2>1. lio[k].cb \in Cbs
    BY <1>3, EntriesAre DEF PlaceInv
  <2>2. lio[k].cb # cb
    BY <1>1, <1>3, BesideIdle DEF Ahead
  <2>3. Apart(lio[k].cb)
    BY <1>1, <1>2, <2>1, <2>2, BesideOthers
  <2> QED
    BY <1>2, <1>3, <2>3 DEF Ahead, Apart
<1>4. ASSUME NEW k \in DOMAIN lio, lister # "idle", Passed(k)
      PROVE  Passed(k)'
  <2> SUFFICES ASSUME lio[k] # Null PROVE Passed(k)'
    BY <1>2 DEF Passed
  <2>1. CASE lio[k].cb # cb
    <3>1. Apart(lio[k].cb)
      BY <1>1, <1>2, <1>4, <2>1, BesideOthers DEF Passed
    <3> QED
      BY <1>2, <1>4, <3>1 DEF Passed, Apart, Usable, Queues, Refused
  <2>2. CASE lio[k].cb = cb
    <3>1. mode = "LIO_WAIT" => Listed(cb)
      BY <1>4, <2>2 DEF Listed
    <3>2. /\ mode = "LIO_WAIT" => owner'[cb] = owner[cb]
          /\ thread[cb] = "none" => thread'[cb] = "none"
      BY <1>1, <3>1, BesideIdle
    <3> QED
      BY <1>2, <1>4, <2>2, <3>2 DEF Passed, Usable, Queues, Refused
  <2> QED
    BY <2>1, <2>2
<1> QED
  BY <1>2, <1>3, <1>4 DEF PlaceInv

-----------------------------------------------------------------------------
(* The steps of lio_listio.                                                *)

LEMMA CallTypes ==
  ASSUME ListTypeOK, PlaceInv, NEW l \in Lists,
         NEW n \in {"LIO_WAIT", "LIO_NOWAIT"}, ListCall(l, n)
  PROVE  ListTypeOK'
<1>1. 1 \in 1..Len(l) + 1
  BY EntriesAre
<1>2. TypeOK'
  BY DEF ListCall, ListTypeOK, vars, workerVars, cancelVars, suspendVars, TypeOK
<1> QED
  BY <1>1, <1>2 DEF ListCall, ListTypeOK

LEMMA ListioTypes ==
  ASSUME ListTypeOK, AloneInv, PlaceInv, lio_listio
  PROVE  ListTypeOK'
<1>1. TypeOK /\ lio \in Lists /\ Len(lio) \in Nat /\ DOMAIN lio = 1..Len(lio)
  BY EntriesAre DEF ListTypeOK, PlaceInv, lio_listio, ListSubmit, ListRefused,
     ListNop, ListSkip, ListUnknown, ListQueued, ListJoin, ListJoined
<1>2. i \in 1..Len(lio) + 1 /\ i \in Nat
  BY <1>1 DEF ListTypeOK
<1>3. Len(<<>>) = 0 /\ 1 \in 1..0 + 1 /\ 1 \in 1..Len(lio) + 1
  BY <1>1
<1>4. i <= Len(lio) => i + 1 \in 1..Len(lio) + 1
  BY <1>1, <1>2
<1>5. CASE ListSubmit
  <2>1. lio[i].cb \in Cbs /\ submits[lio[i].cb] < MaxSubmits
    BY <1>1, <1>2, <1>5, EntriesAre, QueuesAre DEF ListSubmit, PlaceInv, Ahead
  <2> DEFINE cb == lio[i].cb
  <2>2. submits' \in [Cbs -> 0..MaxSubmits]
    BY <1>1, <1>5, <2>1, ConstantsAssumption DEF ListSubmit, Afresh, TypeOK
  <2>3. /\ result' = [result EXCEPT ![cb] = Failed]
        /\ at' = [at EXCEPT ![cb] = Nowhere]
        /\ got' = [got EXCEPT ![cb] = NotCalled]
        /\ cancelled' = [cancelled EXCEPT ![cb] = FALSE]
        /\ refused' = refused \ {cb}
        /\ UNCHANGED <<return, pos, oldOffset, stores, canceller, cstores, suspendVars>>
    BY <1>5 DEF ListSubmit, Afresh
  <2>4. /\ state' \in [Cbs -> 0..2] /\ error' \in [Cbs -> Errors]
        /\ thread' \in [Cbs -> ThreadStates]
        /\ owner' \in [Cbs -> {"idle", "submitted", "joining", "joined"}]
        /\ errorCount' \in BOOLEAN
    <3>1. CASE StartThread(cb) /\ UNCHANGED errorCount
      BY <1>1, <2>1, <3>1 DEF StartThread, TypeOK, Errors, ThreadStates, ListTypeOK
    <3>2. CASE ~(StartThread(cb) /\ UNCHANGED errorCount)
      <4>1. /\ state' = [state EXCEPT ![cb] = 2]
            /\ \E e \in {"0", "EIO"} : error' = [error EXCEPT ![cb] = e]
            /\ owner' = [owner EXCEPT ![cb] = "submitted"]
            /\ errorCount' = TRUE
            /\ UNCHANGED thread
        BY <1>5, <3>2 DEF ListSubmit
      <4>2. errorCount' \in BOOLEAN
        BY <4>1
      <4> QED
        BY <1>1, <2>1, <4>1, <4>2 DEF TypeOK, Errors
    <3> QED
      BY <3>1, <3>2
  <2>5. TypeOK'
    <3>1. NotCalled \in Returns /\ Failed \in Int
      BY ReturnsType DEF NotCalled, Errors, Failed
    <3> QED
      BY <1>1, <2>2, <2>3, <2>4, <3>1 DEF TypeOK, suspendVars
  <2> QED
    BY <1>1, <1>4, <1>5, <2>3, <2>4, <2>5 DEF ListSubmit, Step, ListTypeOK
<1>6. CASE ListNop
  <2>1. lio[i].cb \in Cbs /\ submits[lio[i].cb] < MaxSubmits
    BY <1>1, <1>2, <1>6, EntriesAre
       DEF ListNop, PlaceInv, Ahead, Refused, Queues, Opcodes
  <2> DEFINE cb == lio[i].cb
  <2>2. submits' \in [Cbs -> 0..MaxSubmits]
    <3>1. submits' = [submits EXCEPT ![cb] = @ + 1]
      BY <1>6 DEF ListNop, Afresh
    <3> QED
      BY <1>1, <2>1, <3>1, ConstantsAssumption DEF TypeOK
  <2>3. /\ result' = [result EXCEPT ![cb] = 0]
        /\ at' = [at EXCEPT ![cb] = Nowhere]
        /\ got' = [got EXCEPT ![cb] = NotCalled]
        /\ cancelled' = [cancelled EXCEPT ![cb] = FALSE]
        /\ refused' = refused \ {cb}
        /\ UNCHANGED <<pos, oldOffset, stores, canceller, cstores, suspendVars>>
    BY <1>6 DEF ListNop, Afresh
  <2>4. /\ state' \in [Cbs -> 0..2] /\ error' \in [Cbs -> Errors]
        /\ return' \in [Cbs -> Int]
        /\ owner' \in [Cbs -> {"idle", "submitted", "joining", "joined"}]
        /\ UNCHANGED <<thread, errorCount>>
    BY <1>1, <1>6, <2>1 DEF ListNop, TypeOK, Errors
  <2>5. TypeOK'
    <3>1. NotCalled \in Returns
      BY ReturnsType DEF NotCalled, Errors
    <3>2. /\ got' \in [Cbs -> Returns] /\ cancelled' \in [Cbs -> BOOLEAN]
          /\ result' \in [Cbs -> Int] /\ at' \in [Cbs -> Nat \cup {Nowhere}]
      <4>1. got' \in [Cbs -> Returns] /\ cancelled' \in [Cbs -> BOOLEAN]
        BY <1>1, <2>3, <3>1 DEF TypeOK
      <4> QED
        BY <1>1, <2>3, <4>1 DEF TypeOK, Nowhere
    <3> QED
      BY <1>1, <2>2, <2>3, <2>4, <3>2 DEF TypeOK, suspendVars
  <2> QED
    BY <1>1, <1>4, <1>6, <2>3, <2>4, <2>5 DEF ListNop, Step, ListTypeOK
<1>9. CASE ListRefused
  <2> DEFINE cb == lio[i].cb
  <2>1. cb \in Cbs
    BY <1>1, <1>2, <1>9, EntriesAre, QueuesAre DEF ListRefused, Refused
  <2>2. /\ owner' = [owner EXCEPT ![cb] = "submitted"]
        /\ cancelled' = [cancelled EXCEPT ![cb] = FALSE]
        /\ refused' = refused \cup {cb} /\ errorCount' = TRUE
        /\ UNCHANGED <<state, error, return, pos, workerVars, got, canceller,
                       cstores, suspendVars, submits, at>>
    BY <1>9 DEF ListRefused
  <2> HIDE DEF cb
  <2>3. TypeOK'
    BY <1>1, <2>1, <2>2 DEF TypeOK, workerVars, suspendVars
  <2> QED
    BY <1>1, <1>4, <1>9, <2>1, <2>2, <2>3 DEF ListRefused, Step, ListTypeOK
<1>7. CASE ListJoin
  <2>1. TypeOK'
    <3>1. thread' \in [Cbs -> ThreadStates]
      BY <1>1, <1>7 DEF ListJoin, TypeOK, ThreadStates
    <3>2. UNCHANGED <<state, error, return, pos, oldOffset, result, stores,
                      owner, got, cancelVars, suspendVars, submits, at>>
      BY <1>7 DEF ListJoin
    <3> QED
      BY <1>1, <3>1, <3>2 DEF TypeOK, cancelVars, suspendVars
  <2> QED
    BY <1>1, <1>4, <1>7, <2>1 DEF ListJoin, Step, ListTypeOK
<1>8. CASE ListSkip \/ ListUnknown \/ ListQueued \/ ListJoined
  <2>1. UNCHANGED vars
    BY <1>8 DEF ListSkip, ListUnknown, ListQueued, ListJoined
  <2>2. TypeOK'
    BY <1>1, <2>1 DEF TypeOK, vars, workerVars, cancelVars, suspendVars
  <2>3. CASE ListSkip
    BY <1>1, <1>4, <2>2, <2>3 DEF ListSkip, Step, ListTypeOK
  <2>4. CASE ListUnknown \/ ListQueued \/ ListJoined
    <3>1. /\ lister' \in {"idle", "queue", "wait"} /\ lio' \in Lists \cup {<<>>}
          /\ i' \in 1..Len(lio') + 1 /\ UNCHANGED <<mode, errorCount, refused>>
          /\ lioReturn' \in {0, -1}
      BY <1>1, <1>3, <2>4
         DEF ListUnknown, ListQueued, ListJoined, ListReturn, Total, ListTypeOK
    <3> QED
      BY <2>2, <3>1 DEF ListTypeOK
  <2> QED
    BY <1>8, <2>3, <2>4
<1> QED
  BY <1>5, <1>6, <1>7, <1>8, <1>9 DEF lio_listio

\* A step of the loops that comes to an entry goes on to the next, and does
\* something to its control block only.
EntryStep(cb) ==
  /\ i \in DOMAIN lio /\ lio[i] # Null /\ lio[i].cb = cb
  /\ i' = i + 1 /\ UNCHANGED <<lister, lio, mode>>
  /\ stores'[cb] = stores[cb] /\ canceller'[cb] = canceller[cb]
  /\ \A c \in Cbs : c # cb => Apart(c)

\* In the first loop it makes the control block a request that was not used.
FirstUse(cb) ==
  /\ cb \in Cbs
  /\ owner[cb] = "idle" /\ canceller[cb] = "idle"
  /\ owner'[cb] = "submitted" /\ cancelled'[cb] = FALSE

LEMMA ListioIsTyped ==
  ASSUME ListTypeOK, PlaceInv, lio_listio
  PROVE  /\ TypeOK /\ lio \in Lists /\ Len(lio) \in Nat /\ DOMAIN lio = 1..Len(lio)
         /\ i \in 1..Len(lio) + 1 /\ i \in Nat
<1>1. TypeOK /\ lio \in Lists /\ i \in 1..Len(lio) + 1
  BY DEF ListTypeOK, PlaceInv, lio_listio, ListSubmit, ListRefused, ListNop,
         ListSkip, ListUnknown, ListQueued, ListJoin, ListJoined
<1> QED
  BY <1>1, EntriesAre

LEMMA SubmitIs ==
  ASSUME ListTypeOK, PlaceInv, ListSubmit
  PROVE  \E cb \in Cbs :
           /\ EntryStep(cb) /\ FirstUse(cb) /\ lister = "queue" /\ Queues(lio[i])
           /\ cb \notin refused'
           /\ \/ thread'[cb] = "begin"
              \/ thread'[cb] = thread[cb] /\ state'[cb] = 2
<1> DEFINE cb == lio[i].cb
<1>1. /\ TypeOK /\ lio \in Lists /\ Len(lio) \in Nat /\ DOMAIN lio = 1..Len(lio)
      /\ i \in 1..Len(lio) + 1 /\ i \in Nat
  BY ListioIsTyped DEF lio_listio
<1>2. /\ lister = "queue" /\ i <= Len(lio) /\ Queues(lio[i])
      /\ Afresh(cb, Failed) /\ Step
  BY DEF ListSubmit
<1>3. i \in DOMAIN lio /\ lio[i] # Null /\ cb \in Cbs /\ Ahead(i)
  BY <1>1, <1>2, EntriesAre, QueuesAre DEF PlaceInv
<1>4. owner[cb] = "idle" /\ canceller[cb] = "idle"
  BY <1>3, ListsAssumption DEF Ahead
<1>5. \/ StartThread(cb)
      \/ /\ state' = [state EXCEPT ![cb] = 2] /\ UNCHANGED thread
         /\ owner' = [owner EXCEPT ![cb] = "submitted"]
  BY DEF ListSubmit
<1> HIDE DEF cb
<1>6. /\ owner' = [owner EXCEPT ![cb] = "submitted"]
      /\ state' = [state EXCEPT ![cb] = state'[cb]]
      /\ thread' = [thread EXCEPT ![cb] = thread'[cb]]
      /\ \/ thread'[cb] = "begin"
         \/ thread'[cb] = thread[cb] /\ state'[cb] = 2
  BY <1>1, <1>3, <1>5 DEF StartThread, TypeOK
<1>7. FirstUse(cb)
  BY <1>1, <1>2, <1>3, <1>4, <1>6 DEF FirstUse, Afresh, TypeOK
<1>8. \A c \in Cbs : c # cb => Apart(c)
  BY <1>1, <1>2, <1>3, <1>6 DEF Apart, Afresh, TypeOK
<1>9. EntryStep(cb)
  BY <1>2, <1>3, <1>8 DEF EntryStep, Step, Afresh, cb
<1>10. cb \notin refused'
  BY <1>2 DEF Afresh
<1> QED
  BY <1>2, <1>3, <1>6, <1>7, <1>9, <1>10

LEMMA RefusedIs ==
  ASSUME ListTypeOK, PlaceInv, ListRefused
  PROVE  \E cb \in Cbs :
           /\ EntryStep(cb) /\ FirstUse(cb) /\ lister = "queue"
           /\ Refused(lio[i]) /\ Queues(lio[i])
           /\ thread'[cb] = thread[cb] /\ cb \in refused'
<1> DEFINE cb == lio[i].cb
<1>1. /\ TypeOK /\ lio \in Lists /\ Len(lio) \in Nat /\ DOMAIN lio = 1..Len(lio)
      /\ i \in 1..Len(lio) + 1 /\ i \in Nat
  BY ListioIsTyped DEF lio_listio
<1>2. /\ lister = "queue" /\ i <= Len(lio) /\ Refused(lio[i]) /\ Queues(lio[i])
      /\ owner' = [owner EXCEPT ![cb] = "submitted"]
      /\ cancelled' = [cancelled EXCEPT ![cb] = FALSE]
      /\ refused' = refused \cup {cb} /\ Step
      /\ UNCHANGED <<state, thread, stores, canceller, cstores, submits>>
  BY DEF ListRefused, Refused, workerVars
<1>3. i \in DOMAIN lio /\ lio[i] # Null /\ cb \in Cbs /\ Ahead(i)
  BY <1>1, <1>2, EntriesAre, QueuesAre DEF PlaceInv
<1>4. owner[cb] = "idle" /\ canceller[cb] = "idle"
  BY <1>3, ListsAssumption DEF Ahead
<1> HIDE DEF cb
<1>5. FirstUse(cb)
  BY <1>1, <1>2, <1>3, <1>4 DEF FirstUse, TypeOK
<1>6. \A c \in Cbs : c # cb => Apart(c)
  BY <1>1, <1>2, <1>3 DEF Apart, TypeOK
<1>7. EntryStep(cb)
  BY <1>2, <1>3, <1>6 DEF EntryStep, Step, cb
<1> QED
  BY <1>2, <1>3, <1>5, <1>7

LEMMA NopIs ==
  ASSUME ListTypeOK, PlaceInv, ListNop
  PROVE  \E cb \in Cbs :
           /\ EntryStep(cb) /\ FirstUse(cb) /\ lister = "queue" /\ lio[i].op = "LIO_NOP"
           /\ thread'[cb] = thread[cb] /\ state'[cb] = 1 /\ cb \notin refused'
<1> DEFINE cb == lio[i].cb
<1>1. /\ TypeOK /\ lio \in Lists /\ Len(lio) \in Nat /\ DOMAIN lio = 1..Len(lio)
      /\ i \in 1..Len(lio) + 1 /\ i \in Nat
  BY ListioIsTyped DEF lio_listio
<1>2. /\ lister = "queue" /\ i <= Len(lio) /\ lio[i] # Null /\ lio[i].op = "LIO_NOP"
      /\ Afresh(cb, 0) /\ Step
  BY DEF ListNop
<1>3. i \in DOMAIN lio /\ cb \in Cbs /\ Ahead(i)
  BY <1>1, <1>2, EntriesAre DEF PlaceInv
<1>4. owner[cb] = "idle" /\ canceller[cb] = "idle"
  BY <1>2, <1>3, ListsAssumption DEF Ahead
<1>5. /\ state' = [state EXCEPT ![cb] = 1] /\ UNCHANGED thread
      /\ owner' = [owner EXCEPT ![cb] = "submitted"]
  BY DEF ListNop
<1> HIDE DEF cb
<1>7. FirstUse(cb)
  BY <1>1, <1>2, <1>3, <1>4, <1>5 DEF FirstUse, Afresh, TypeOK
<1>8. \A c \in Cbs : c # cb => Apart(c)
  BY <1>1, <1>2, <1>3, <1>5 DEF Apart, Afresh, TypeOK
<1>9. EntryStep(cb)
  BY <1>2, <1>3, <1>8 DEF EntryStep, Step, Afresh, cb
<1>10. cb \notin refused'
  BY <1>2 DEF Afresh
<1> QED
  BY <1>1, <1>2, <1>3, <1>5, <1>7, <1>9, <1>10 DEF TypeOK

LEMMA JoinIs ==
  ASSUME ListTypeOK, PlaceInv, ListJoin, Queues(lio[i])
  PROVE  \E cb \in Cbs :
           /\ EntryStep(cb) /\ lister = "wait"
           /\ thread[cb] \in {"ended", "none"} /\ thread'[cb] = "none"
           /\ state'[cb] = state[cb] /\ owner'[cb] = owner[cb]
           /\ cstores'[cb] = cstores[cb] /\ cancelled'[cb] = cancelled[cb]
           /\ refused' = refused
<1> DEFINE cb == lio[i].cb
<1>1. /\ TypeOK /\ lio \in Lists /\ Len(lio) \in Nat /\ DOMAIN lio = 1..Len(lio)
      /\ i \in 1..Len(lio) + 1 /\ i \in Nat
  BY ListioIsTyped DEF lio_listio
<1>2. /\ lister = "wait" /\ i <= Len(lio) /\ Step /\ Gone(cb)
      /\ thread' = [thread EXCEPT ![cb] = "none"]
      /\ UNCHANGED <<state, stores, owner, cancelVars, submits, refused>>
  BY DEF ListJoin
<1>3. i \in DOMAIN lio /\ lio[i] # Null /\ cb \in Cbs
  BY <1>1, <1>2, EntriesAre, QueuesAre
<1> HIDE DEF cb
<1>8. \A c \in Cbs : c # cb => Apart(c)
  BY <1>1, <1>2, <1>3 DEF Apart, TypeOK, cancelVars
<1>9. EntryStep(cb)
  BY <1>2, <1>3, <1>8 DEF EntryStep, Step, cb, cancelVars
<1> QED
  BY <1>1, <1>2, <1>3, <1>9 DEF TypeOK, Gone, cancelVars

\* The other steps of lio_listio.
LEMMA QuietIs ==
  ASSUME \/ ListSkip \/ ListUnknown \/ ListQueued \/ ListJoined
         \/ ListJoin /\ ~Queues(lio[i])
  PROVE  UNCHANGED <<state, thread, stores, owner, submits, cancelVars, refused>>
BY DEF ListReturn, ListSkip, ListUnknown, ListQueued, ListJoined, ListJoin, vars,
       workerVars, cancelVars

LEMMA ListioAlone ==
  ASSUME ListTypeOK, AloneInv, PlaceInv, lio_listio
  PROVE  AloneInv'
<1>1. TypeOK
  BY DEF ListTypeOK
<1>2. CASE ListSubmit
  <2>1. PICK cb \in Cbs :
           /\ EntryStep(cb) /\ FirstUse(cb) /\ lister = "queue" /\ Queues(lio[i])
           /\ cb \notin refused'
           /\ \/ thread'[cb] = "begin"
              \/ thread'[cb] = thread[cb] /\ state'[cb] = 2
    BY <1>2, SubmitIs
  <2>2. Alone(cb)'
    BY <2>1 DEF EntryStep, FirstUse, AloneInv, Alone, Marked, Outstanding
  <2> QED
    BY <2>1, <2>2 DEF EntryStep, Apart, AloneInv, Alone, Marked, Outstanding
<1>3. CASE ListNop
  <2>1. PICK cb \in Cbs :
           /\ EntryStep(cb) /\ FirstUse(cb)
           /\ thread'[cb] = thread[cb] /\ state'[cb] = 1 /\ cb \notin refused'
    BY <1>3, NopIs
  <2>2. Alone(cb)'
    BY <2>1 DEF EntryStep, FirstUse, AloneInv, Alone, Marked, Outstanding
  <2> QED
    BY <2>1, <2>2 DEF EntryStep, Apart, AloneInv, Alone, Marked, Outstanding
<1>4. CASE ListJoin /\ Queues(lio[i])
  <2>1. PICK cb \in Cbs :
           /\ EntryStep(cb)
           /\ thread[cb] \in {"ended", "none"} /\ thread'[cb] = "none"
           /\ state'[cb] = state[cb] /\ owner'[cb] = owner[cb]
           /\ cstores'[cb] = cstores[cb] /\ cancelled'[cb] = cancelled[cb]
           /\ refused' = refused
    BY <1>4, JoinIs
  <2>2. Alone(cb)'
    BY <2>1 DEF EntryStep, AloneInv, Alone, Marked, Outstanding
  <2> QED
    BY <2>1, <2>2 DEF EntryStep, Apart, AloneInv, Alone, Marked, Outstanding
<1>5. CASE \/ ListSkip \/ ListUnknown \/ ListQueued \/ ListJoined
           \/ ListJoin /\ ~Queues(lio[i])
  BY <1>5, QuietIs DEF AloneInv, Alone, Marked, Outstanding, cancelVars
<1>6. CASE ListRefused
  <2>1. PICK cb \in Cbs :
           /\ EntryStep(cb) /\ FirstUse(cb)
           /\ thread'[cb] = thread[cb] /\ cb \in refused'
    BY <1>6, RefusedIs
  <2>2. Alone(cb)'
    BY <2>1 DEF EntryStep, FirstUse, AloneInv, Alone, Marked, Outstanding
  <2> QED
    BY <2>1, <2>2 DEF EntryStep, Apart, AloneInv, Alone, Marked, Outstanding
<1> QED
  BY <1>2, <1>3, <1>4, <1>5, <1>6 DEF lio_listio

\* After such a step for cb, the other entries are what they were.
LEMMA EntriesElsewhere ==
  ASSUME TypeOK, lio \in Lists, NEW cb \in Cbs, EntryStep(cb),
         NEW k \in DOMAIN lio, k # i, i \in Nat
  PROVE  /\ k \in Nat
         /\ Ahead(k) /\ k > i => Ahead(k)'
         /\ Passed(k) /\ (k < i \/ lister = "wait") => Passed(k)'
<1>1. i \in DOMAIN lio /\ lio[i] # Null /\ lio[i].cb = cb
      /\ i' = i + 1 /\ UNCHANGED <<lister, lio, mode>>
  BY DEF EntryStep
<1>2. k \in Nat /\ (lio[k] # Null => lio[k].cb # cb /\ lio[k].cb \in Cbs \cup {Other})
  BY <1>1, EntriesAre
<1>3. ASSUME lio[k] # Null, lio[k].cb \in Cbs
      PROVE  Apart(lio[k].cb)
  BY <1>2, <1>3 DEF EntryStep
<1>4. Ahead(k) => Ahead(k)'
  BY <1>1, <1>2, <1>3 DEF Ahead, Apart, Refused, Queues
<1>5. Passed(k) /\ (k < i \/ lister = "wait") => Passed(k)'
  <2> SUFFICES ASSUME Passed(k), k < i \/ lister = "wait", lio[k] # Null
               PROVE  Passed(k)'
    BY <1>1 DEF Passed
  <2>1. Apart(lio[k].cb) /\ (k < i' => k < i)
    BY <1>1, <1>2, <1>3 DEF Passed
  <2> QED
    BY <1>1, <2>1 DEF Passed, Apart, Usable, Queues, Refused
<1> QED
  BY <1>2, <1>4, <1>5

LEMMA ListioPlace ==
  ASSUME ListTypeOK, AloneInv, PlaceInv, lio_listio
  PROVE  PlaceInv'
<1>1. /\ TypeOK /\ lio \in Lists /\ Len(lio) \in Nat /\ DOMAIN lio = 1..Len(lio)
      /\ i \in 1..Len(lio) + 1 /\ i \in Nat /\ mode \in {"LIO_WAIT", "LIO_NOWAIT"}
  BY ListioIsTyped DEF ListTypeOK
<1>2. ASSUME NEW cb \in Cbs, EntryStep(cb), lister = "queue", FirstUse(cb),
             Usable(lio[i]), ~Queues(lio[i]) => thread'[cb] = "none",
             cb \in refused' => Refused(lio[i])
      PROVE  PlaceInv'
  <2>1. /\ UNCHANGED <<lister, lio, mode>> /\ i' = i + 1
        /\ lio[i] # Null /\ lio[i].cb = cb
    BY <1>2 DEF EntryStep
  <2> PICK j \in DOMAIN lio : j = i
    BY <1>2 DEF EntryStep
  <2>2. Passed(j)'
    BY <1>1, <1>2, <2>1 DEF Passed, FirstUse, Usable, Queues, Refused
  <2>3. ASSUME NEW k \in DOMAIN lio, k >= i'
        PROVE  Ahead(k)'
    <3>1. k \in Nat /\ k > i
      BY <1>1, <2>1, <2>3
    <3> QED
      BY <1>1, <1>2, <3>1, EntriesElsewhere DEF PlaceInv
  <2>4. ASSUME NEW k \in DOMAIN lio, k < i'
        PROVE  Passed(k)'
    <3>1. k \in Nat /\ (k = j \/ k < i)
      BY <1>1, <2>1, <2>4
    <3> QED
      BY <1>1, <1>2, <2>2, <3>1, EntriesElsewhere DEF PlaceInv
  <2> QED
    BY <1>1, <1>2, <2>1, <2>3, <2>4 DEF PlaceInv
<1>3. CASE ListSubmit
  <2>1. PICK cb \in Cbs :
          /\ EntryStep(cb) /\ FirstUse(cb) /\ lister = "queue" /\ Queues(lio[i])
          /\ cb \notin refused'
    BY <1>3, SubmitIs
  <2> QED
    BY <1>2, <2>1 DEF Usable
<1>7. CASE ListRefused
  <2>1. PICK cb \in Cbs :
          /\ EntryStep(cb) /\ FirstUse(cb) /\ lister = "queue"
          /\ Refused(lio[i]) /\ Queues(lio[i])
    BY <1>7, RefusedIs
  <2> QED
    BY <1>2, <2>1 DEF Usable
<1>4. CASE ListNop
  <2>1. PICK cb \in Cbs :
          /\ EntryStep(cb) /\ FirstUse(cb) /\ lister = "queue"
          /\ lio[i].op = "LIO_NOP" /\ thread'[cb] = thread[cb]
          /\ cb \notin refused'
    BY <1>4, NopIs
  <2>2. thread[cb] = "none"
    BY <2>1 DEF FirstUse, AloneInv, Alone
  <2> QED
    BY <1>2, <2>1, <2>2 DEF Usable
<1>5. CASE ListJoin /\ Queues(lio[i])
  <2>1. PICK cb \in Cbs :
          /\ EntryStep(cb) /\ lister = "wait" /\ thread'[cb] = "none"
          /\ owner'[cb] = owner[cb] /\ refused' = refused
    BY <1>5, JoinIs
  <2>2. /\ UNCHANGED <<lister, lio, mode>> /\ i' = i + 1 /\ i \in DOMAIN lio
        /\ lio[i] # Null /\ lio[i].cb = cb
    BY <2>1 DEF EntryStep
  <2> PICK j \in DOMAIN lio : j = i
    BY <2>2
  <2>3. Passed(j)'
    BY <1>1, <2>1, <2>2 DEF PlaceInv, Passed, Usable, Queues, Refused
  <2>4. ASSUME NEW k \in DOMAIN lio
        PROVE  Passed(k)'
    BY <1>1, <2>1, <2>3, EntriesElsewhere DEF PlaceInv
  <2> QED
    BY <2>1, <2>2, <2>4, <1>1 DEF PlaceInv
<1>6. ASSUME \/ ListSkip \/ ListUnknown \/ ListQueued \/ ListJoined
             \/ ListJoin /\ ~Queues(lio[i])
      PROVE  PlaceInv'
  <2>1. UNCHANGED <<state, thread, stores, owner, submits, canceller, refused>>
    BY <1>6, QuietIs DEF cancelVars
  <2>2. CASE lister' = "idle"
    BY <2>2 DEF PlaceInv
  <2>3. ASSUME lister' # "idle"
        PROVE  UNCHANGED <<lio, mode>>
    BY <1>6, <2>3 DEF ListSkip, ListUnknown, ListQueued, ListJoined, ListJoin,
                      ListReturn, Step
  <2>4. CASE ListSkip
    <3>1. lister = "queue" /\ lister' = "queue" /\ i' = i + 1 /\ lio[i] = Null
          /\ UNCHANGED <<lio, mode>>
      BY <2>4 DEF ListSkip, Step
    <3>2. ASSUME NEW k \in DOMAIN lio, k >= i'
          PROVE  Ahead(k)'
      BY <1>1, <2>1, <3>1, <3>2 DEF PlaceInv, Ahead
    <3>3. ASSUME NEW k \in DOMAIN lio, k < i'
          PROVE  Passed(k)'
      <4>1. k = i \/ k < i
        BY <1>1, <3>1, <3>3
      <4> QED
        BY <1>1, <2>1, <3>1, <4>1 DEF PlaceInv, Passed
    <3> QED
      BY <1>1, <3>1, <3>2, <3>3 DEF PlaceInv
  <2>5. CASE ListQueued /\ lister' # "idle"
    <3>1. lister = "queue" /\ i = Len(lio) + 1 /\ mode = "LIO_WAIT"
          /\ lister' = "wait" /\ i' = 1 /\ UNCHANGED <<lio, mode>>
      BY <2>5 DEF ListQueued, ListReturn
    <3>2. ASSUME NEW k \in DOMAIN lio
          PROVE  Passed(k)'
      <4>1. k < i /\ ~(k < 1)
        BY <1>1, <3>1
      <4> QED
        BY <2>1, <3>1, <4>1 DEF PlaceInv, Passed
    <3> QED
      BY <1>1, <3>1, <3>2 DEF PlaceInv
  <2>6. CASE ListJoin /\ ~Queues(lio[i])
    <3>1. lister = "wait" /\ lister' = "wait" /\ i' = i + 1 /\ i <= Len(lio)
          /\ UNCHANGED <<lio, mode>>
      BY <2>6 DEF ListJoin, Step
    <3>2. ASSUME NEW k \in DOMAIN lio
          PROVE  Passed(k)'
      <4>1. k < i' => k < i \/ k = i
        BY <1>1, <3>1
      <4> QED
        BY <2>1, <2>6, <3>1, <4>1 DEF PlaceInv, Passed
    <3> QED
      BY <1>1, <3>1, <3>2 DEF PlaceInv
  <2>7. ListUnknown \/ ListJoined => lister' = "idle"
    BY DEF ListUnknown, ListJoined, ListReturn
  <2> QED
    BY <1>6, <2>2, <2>4, <2>5, <2>6, <2>7
<1> QED
  BY <1>3, <1>4, <1>5, <1>6, <1>7 DEF lio_listio

LEMMA CallPlace ==
  ASSUME NEW l \in Lists, NEW n \in {"LIO_WAIT", "LIO_NOWAIT"}, ListCall(l, n)
  PROVE  PlaceInv'
<1>1. /\ lister' = "queue" /\ lio' = l /\ i' = 1 /\ UNCHANGED vars
      /\ \A cb \in Blocks(l) : owner[cb] = "idle" /\ canceller[cb] = "idle"
      /\ \A k \in DOMAIN l :
           l[k] # Null /\ l[k].cb # Other /\ ~Refused(l[k]) =>
             submits[l[k].cb] < MaxSubmits
  BY DEF ListCall
<1>2. ASSUME NEW k \in DOMAIN l
      PROVE  Ahead(k)' /\ ~(k < 1)
  <2>1. l[k] # Null /\ l[k].cb # Other => l[k].cb \in Blocks(l)
    BY DEF Blocks
  <2>2. ~(k < 1)
    BY EntriesAre
  <2> QED
    BY <1>1, <2>1, <2>2 DEF Ahead, Refused, Queues, vars, cancelVars
<1> QED
  BY <1>1, <1>2 DEF PlaceInv

-----------------------------------------------------------------------------
(* The theorems about lio_listio.                                          *)

ListInv == ListTypeOK /\ AloneInv /\ PlaceInv

LEMMA ListInvStep ==
  ASSUME ListInv, [ListNext]_listVars
  PROVE  ListInv'
<1>1. ListTypeOK /\ TypeOK /\ AloneInv /\ PlaceInv
  BY DEF ListInv, ListTypeOK
<1>2. ASSUME NEW l \in Lists, NEW n \in {"LIO_WAIT", "LIO_NOWAIT"}, ListCall(l, n)
      PROVE  ListInv'
  <2>1. AloneInv'
    BY <1>1, <1>2 DEF ListCall, vars, workerVars, cancelVars, AloneInv, Alone,
                      Marked, Outstanding
  <2> QED
    BY <1>1, <1>2, <2>1, CallTypes, CallPlace DEF ListInv
<1>3. CASE lio_listio
  BY <1>1, <1>3, ListioTypes, ListioAlone, ListioPlace DEF ListInv
<1>4. ASSUME NEW cb \in Cbs, BesideStep(cb), UNCHANGED lioVars,
             Next \/ JoinAgain(cb) \/ Abandon(cb)
      PROVE  ListInv'
  <2>1. ListTypeOK'
    BY <1>1, <1>4, BesideTypes DEF ListTypeOK, lioVars
  <2> QED
    BY <1>1, <1>4, <2>1, BesideAlone, BesidePlace DEF ListInv, lioVars
<1>5. CASE UNCHANGED listVars
  BY <1>1, <1>5
     DEF listVars, lioVars, vars, workerVars, cancelVars, suspendVars, ListInv,
         ListTypeOK, TypeOK, AloneInv, Alone, Marked, Outstanding, PlaceInv,
         Ahead, Passed
<1> QED
  BY <1>2, <1>3, <1>4, <1>5, ListStepCases

LEMMA ListInvariant == ListSpec => []ListInv
<1>1. Init => TypeOK
  BY ConstantsAssumption
     DEF Init, TypeOK, Errors, ThreadStates, Returns, NotCalled, Errno,
         Failed, Nowhere, Fields
<1>2. ListInit => ListInv
  <2> SUFFICES ASSUME ListInit PROVE ListInv
    OBVIOUS
  <2>1. ListTypeOK
    BY <1>1, Len(<<>>) = 0, 1 \in 1..0 + 1 DEF ListInit, ListTypeOK
  <2>2. AloneInv
    BY DEF ListInit, Init, AloneInv, Alone, Marked, Outstanding
  <2>3. PlaceInv
    BY DEF ListInit, PlaceInv
  <2> QED
    BY <2>1, <2>2, <2>3 DEF ListInv
<1>3. ListInv /\ [ListNext]_listVars => ListInv'
  BY ListInvStep
<1> QED
  BY <1>2, <1>3, PTL DEF ListSpec

\* Beside lio_listio, too, every variable keeps its type, and what is said of the
\* control blocks above holds: for any lists and any number of threads in
\* aio_cancel.
THEOREM ListTypeCorrect == ListSpec => []ListTypeOK
<1>1. ListInv => ListTypeOK
  BY DEF ListInv
<1> QED
  BY <1>1, ListInvariant, PTL

\* When LIO_WAIT comes to the end of its list no worker of it is left, and the
\* state of every request that was accepted tells that it has ended or whoever
\* killed its worker is about to store that, for any list of any length, some of
\* whose requests may have got no thread and some of whose entries were refused.
THEOREM WaitEndsAll == ListSpec => WaitMeansEnded
<1>1. ASSUME ListInv, WaitReturns, [ListNext]_listVars
      PROVE  \A k \in DOMAIN lio : lio[k] # Null =>
               LET cb == lio[k].cb
               IN /\ thread[cb] = "none" /\ stores[cb] = {}
                  /\ ~Refused(lio[k]) => state[cb] # 0 \/ canceller[cb] = "mark"
  <2>1. ListJoined
    <3>1. lio_listio
      BY <1>1, ListStepCases DEF ListCall, lioVars, listVars, WaitReturns
    <3>2. Len(lio) \in Nat
      BY <1>1, EntriesAre DEF ListInv, PlaceInv, WaitReturns
    <3> QED
      BY <1>1, <3>1, <3>2
         DEF lio_listio, ListSubmit, ListRefused, ListNop, ListSkip, ListUnknown,
             ListQueued, ListJoin, Step, WaitReturns
  <2>2. lister = "wait" /\ lio \in Lists
    BY <1>1, <2>1 DEF ListJoined, ListInv, PlaceInv
  <2>3. ASSUME NEW k \in DOMAIN lio, lio[k] # Null
        PROVE  /\ thread[lio[k].cb] = "none" /\ stores[lio[k].cb] = {}
               /\ ~Refused(lio[k]) => \/ state[lio[k].cb] # 0
                                      \/ canceller[lio[k].cb] = "mark"
    <3>1. k < i
      BY <1>1, <2>2, EntriesAre DEF WaitReturns
    <3>2. Passed(k)
      BY <1>1, <2>2 DEF ListInv, PlaceInv
    <3>3. /\ lio[k].cb \in Cbs /\ owner[lio[k].cb] = "submitted"
          /\ thread[lio[k].cb] = "none"
          /\ lio[k].cb \in refused => Refused(lio[k])
      BY <1>1, <2>2, <2>3, <3>1, <3>2 DEF Passed, WaitReturns
    <3> QED
      BY <1>1, <3>3 DEF ListInv, AloneInv, Alone, Marked, Outstanding
  <2> QED
    BY <2>3
<1>2. ListInv /\ [ListNext]_listVars =>
        [WaitReturns =>
           \A k \in DOMAIN lio : lio[k] # Null =>
             LET cb == lio[k].cb
             IN /\ thread[cb] = "none" /\ stores[cb] = {}
                /\ ~Refused(lio[k]) => state[cb] # 0 \/ canceller[cb] = "mark"
        ]_listVars
  BY <1>1
<1> QED
  BY <1>2, ListInvariant, PTL DEF ListSpec, WaitMeansEnded
=============================================================================
