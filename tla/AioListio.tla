----------------------------- MODULE AioListio -----------------------------
(***************************************************************************)
(* lio_listio: a list of requests queued by one call, in one thread of the *)
(* application, beside the workers, aio_return and aio_cancel of Aio.  All *)
(* requests are queued by lists, and aio_suspend, which changes no control *)
(* block, is left out.  With LIO_WAIT the call joins the workers itself,   *)
(* so that the aio_return that collects such a request joins a thread that *)
(* is gone.                                                                *)
(*                                                                         *)
(* The application leaves a control block to the call that queues it: no   *)
(* other thread queues it, and none collects it while LIO_WAIT has it.     *)
(* They may cancel it.                                                     *)
(*                                                                         *)
(* An entry whose aio_fildes is negative is refused: the call counts a     *)
(* failure and leaves the control block as it was, the thread id and the   *)
(* state that an earlier use, or none, left in it.                         *)
(***************************************************************************)
EXTENDS Aio, Sequences

CONSTANTS
  Lists,   \* the lists the application passes: sequences of entries
  Null,    \* a NULL entry
  Other    \* a control block that no request is ever queued with

\* An entry is a control block with the aio_lio_opcode and the aio_fildes it
\* has at the call: FdOf[cb], or a negative number.
Opcodes == [LIO_READ |-> "read", LIO_WRITE |-> "write"]
Entries == {Null} \cup
  [cb: Cbs \cup {Other}, op: DOMAIN Opcodes \cup {"LIO_NOP", "unknown"},
   fildes: {"FdOf", "negative"}]
Queues(e) == e # Null /\ e.op \in DOMAIN Opcodes
Refused(e) == Queues(e) /\ e.fildes = "negative"
Blocks(l) == {l[k].cb : k \in {k \in DOMAIN l : l[k] # Null}} \ {Other}

ASSUME ListsAssumption ==
  /\ Other \notin Cbs
  /\ Lists \subseteq Seq(Entries) \ {<<>>}
  /\ \A l \in Lists : \A k \in DOMAIN l :
       /\ l[k] # Null /\ l[k].cb = Other => l[k].op = "unknown"
       /\ Queues(l[k]) => OpOf[l[k].cb] = Opcodes[l[k].op]
       /\ \A j \in DOMAIN l :
            l[j] # Null /\ l[k] # Null /\ l[j].cb = l[k].cb => j = k

VARIABLES
  lister,       \* where the thread in lio_listio is
  lio,          \* its list
  mode,         \* LIO_WAIT or LIO_NOWAIT
  i,            \* the index of the loop it is in
  errorCount,   \* whether error_count > 0
  lioReturn,    \* what the last call returned
  refused       \* history: control blocks whose last entry was refused

lioVars == <<lister, lio, mode, i, errorCount, lioReturn, refused>>
listVars == <<vars, lioVars>>

ListTypeOK ==
  /\ TypeOK
  /\ lister \in {"idle", "queue", "wait"}
  /\ lio \in Lists \cup {<<>>}
  /\ mode \in {"LIO_WAIT", "LIO_NOWAIT"}
  /\ i \in 1..Len(lio) + 1
  /\ errorCount \in BOOLEAN
  /\ lioReturn \in {0, -1}
  /\ refused \in SUBSET Cbs

ListInit ==
  /\ Init
  /\ lister = "idle"
  /\ lio = <<>>
  /\ mode = "LIO_NOWAIT"
  /\ i = 1
  /\ errorCount = FALSE
  /\ lioReturn = 0
  /\ refused = {}

-----------------------------------------------------------------------------
(* lio_listio (mode, list, nent, sig)                                      *)

\* The arguments are valid; otherwise the call changes nothing.
ListCall(l, m) ==
  /\ lister = "idle"
  /\ \A cb \in Blocks(l) :
       owner[cb] = "idle" /\ canceller[cb] = "idle" /\ cb \notin list
  /\ \A k \in DOMAIN l :
       l[k] # Null /\ l[k].cb # Other /\ ~Refused(l[k]) =>
         submits[l[k].cb] < MaxSubmits
  /\ lister' = "queue"
  /\ lio' = l /\ mode' = m /\ i' = 1 /\ errorCount' = FALSE
  /\ UNCHANGED <<lioReturn, refused, vars>>

\* The call returns n.
ListReturn(n) ==
  /\ lister' = "idle" /\ lio' = <<>> /\ i' = 1
  /\ lioReturn' = n
  /\ UNCHANGED <<mode, errorCount, refused>>

Step ==
  /\ i' = i + 1
  /\ UNCHANGED <<lister, lio, mode, lioReturn>>

\* A control block is used for a new request, whose outcome so far is n.
Afresh(cb, n) ==
  /\ submits' = [submits EXCEPT ![cb] = @ + 1]
  /\ result' = [result EXCEPT ![cb] = n]
  /\ at' = [at EXCEPT ![cb] = Nowhere]
  /\ got' = [got EXCEPT ![cb] = NotCalled]
  /\ cancelled' = [cancelled EXCEPT ![cb] = FALSE]
  /\ refused' = refused \ {cb}
  /\ UNCHANGED <<pos, oldOffset, stores, canceller, cstores, suspendVars>>

\* aio_read or aio_write of an entry.  From the list's result the application
\* learns only that some request failed: it collects a control block that got
\* no thread, too.
ListSubmit ==
  /\ lister = "queue" /\ i <= Len(lio)
  /\ Queues(lio[i]) /\ ~Refused(lio[i])
  /\ LET cb == lio[i].cb
     IN /\ Afresh(cb, Failed)
        /\ \/ StartThread(cb) /\ UNCHANGED errorCount
           \/ /\ state' = [state EXCEPT ![cb] = 2]
              /\ \E e \in {"0", "EIO"} : error' = [error EXCEPT ![cb] = e]
              /\ owner' = [owner EXCEPT ![cb] = "submitted"]
              /\ errorCount' = TRUE
              /\ UNCHANGED thread
  /\ Step
  /\ UNCHANGED return

\* aio_read or aio_write of an entry whose aio_fildes is negative: -1 with
\* EINVAL, and nothing is stored in the control block
ListRefused ==
  /\ lister = "queue" /\ i <= Len(lio) /\ Refused(lio[i])
  /\ LET cb == lio[i].cb
     IN /\ owner' = [owner EXCEPT ![cb] = "submitted"]
        /\ cancelled' = [cancelled EXCEPT ![cb] = FALSE]
        /\ refused' = refused \cup {cb}
  /\ errorCount' = TRUE
  /\ Step
  /\ UNCHANGED <<state, error, return, pos, workerVars, got, canceller,
                 cstores, suspendVars, submits, at>>

\* LIO_NOP: the control block becomes a request that is done
ListNop ==
  /\ lister = "queue" /\ i <= Len(lio) /\ lio[i] # Null
  /\ lio[i].op = "LIO_NOP"
  /\ LET cb == lio[i].cb
     IN /\ Afresh(cb, 0)
        /\ state' = [state EXCEPT ![cb] = 1]
        /\ error' = [error EXCEPT ![cb] = "0"]
        /\ return' = [return EXCEPT ![cb] = 0]
        /\ owner' = [owner EXCEPT ![cb] = "submitted"]
  /\ Step
  /\ UNCHANGED <<thread, errorCount>>

\* if (!list[i]) continue
ListSkip ==
  /\ lister = "queue" /\ i <= Len(lio) /\ lio[i] = Null
  /\ Step
  /\ UNCHANGED <<errorCount, refused, vars>>

\* An unknown opcode ends the call, LIO_WAIT or not: requests queued before
\* it go on, those after it were never queued.
ListUnknown ==
  /\ lister = "queue" /\ i <= Len(lio) /\ lio[i] # Null
  /\ lio[i].op = "unknown"
  /\ ListReturn(-1)
  /\ UNCHANGED vars

Total == IF errorCount THEN -1 ELSE 0

\* Mutant of ListQueued: the call returns when a request failed.
ListQueuedGivesUp ==
  /\ lister = "queue" /\ i = Len(lio) + 1
  /\ IF mode = "LIO_WAIT" /\ ~errorCount
     THEN /\ lister' = "wait" /\ i' = 1
          /\ UNCHANGED <<lio, mode, errorCount, lioReturn, refused>>
     ELSE ListReturn(Total)
  /\ UNCHANGED vars

\* The end of the first loop
ListQueued ==
  /\ lister = "queue" /\ i = Len(lio) + 1
  /\ IF mode = "LIO_WAIT"
     THEN /\ lister' = "wait" /\ i' = 1
          /\ UNCHANGED <<lio, mode, errorCount, lioReturn, refused>>
     ELSE ListReturn(Total)
  /\ UNCHANGED vars

\* Mutant of Gone: only a thread that still can be joined is.
GoneOnce(cb) == thread[cb] = "ended"

\* pthread_join returns: the worker has ended, or the id names no thread
Gone(cb) == thread[cb] \in {"ended", "none"}

\* One round of the second loop
ListJoin ==
  /\ lister = "wait" /\ i <= Len(lio)
  /\ IF Queues(lio[i])
     THEN /\ Gone(lio[i].cb)
          /\ thread' = [thread EXCEPT ![lio[i].cb] = "none"]
     ELSE UNCHANGED thread
  /\ Step
  /\ UNCHANGED <<errorCount, refused, state, error, return, pos, oldOffset,
                 result, stores, owner, got, cancelVars, suspendVars,
                 submits, at>>

ListJoined ==
  /\ lister = "wait" /\ i = Len(lio) + 1
  /\ ListReturn(Total)
  /\ UNCHANGED vars

lio_listio ==
  \/ ListSubmit \/ ListRefused \/ ListNop \/ ListSkip
  \/ ListUnknown \/ ListQueued \/ ListJoin \/ ListJoined

-----------------------------------------------------------------------------
(* The application, on control blocks that lio_listio leaves to it.        *)

Listed(cb) ==
  /\ lister # "idle"
  /\ \E k \in DOMAIN lio :
       lio[k] # Null /\ lio[k].cb = cb /\ (mode = "LIO_WAIT" \/ i <= k)

\* pthread_join in the aio_return of a request that LIO_WAIT has joined, or
\* of one that got no thread: it returns at once.
JoinAgain(cb) ==
  /\ owner[cb] = "joining" /\ thread[cb] = "none"
  /\ owner' = [owner EXCEPT ![cb] = "joined"]
  /\ UNCHANGED <<state, error, return, pos, workerVars, got, cancelVars,
                 suspendVars, submits, at>>

\* The application knows that it passed a negative aio_fildes, and takes the
\* control block back without an aio_return, or before one has succeeded.
Abandon(cb) ==
  /\ cb \in refused /\ owner[cb] = "submitted"
  /\ owner' = [owner EXCEPT ![cb] = "idle"]
  /\ UNCHANGED <<state, error, return, pos, workerVars, got, cancelVars,
                 suspendVars, submits, at>>

ListNext ==
  \/ \E l \in Lists, m \in {"LIO_WAIT", "LIO_NOWAIT"} : ListCall(l, m)
  \/ lio_listio
  \/ /\ \/ \E cb \in Cbs :
             ~Listed(cb) /\ (aio_return(cb) \/ JoinAgain(cb) \/ Abandon(cb))
        \/ \E cb \in Cbs : Worker(cb)
        \/ \E cb \in Cbs : WorkerKilled(cb)
        \/ \E cb \in Cancellable : aio_cancel(cb)
     /\ UNCHANGED lioVars

\* The thread in lio_listio goes on, and so does everybody of Aio.
ListSpec ==
  /\ ListInit /\ [][ListNext]_listVars
  /\ Fairness
  /\ \A cb \in Cbs : WF_listVars(JoinAgain(cb) /\ UNCHANGED lioVars)
  /\ WF_listVars(lio_listio)

-----------------------------------------------------------------------------
(* Properties.                                                             *)

\* lio_listio with LIO_WAIT returns from the end of its list.
WaitReturns ==
  /\ lister # "idle" /\ lister' = "idle"
  /\ mode = "LIO_WAIT" /\ i = Len(lio) + 1

\* When lio_listio with LIO_WAIT returns from the end of its list, no worker of
\* the list is left, and every request that aio_read or aio_write accepted has
\* ended, those queued beside one that failed or was refused, too: the
\* application finds none of them pending, unless a thread in aio_cancel is
\* about to mark a worker it has killed.  Of a refused entry nothing but the
\* missing worker is said: its control block still holds what it held before.
WaitMeansEnded ==
  [][ WaitReturns =>
        \A k \in DOMAIN lio : lio[k] # Null =>
          LET cb == lio[k].cb
          IN /\ thread[cb] = "none" /\ stores[cb] = {}
             /\ ~Refused(lio[k]) => state[cb] # 0 \/ canceller[cb] = "mark"
    ]_listVars

\* When lio_listio with LIO_WAIT returns from the end of its list, no control
\* block of it is pending.  The code breaks this: aio_read and aio_write refuse
\* a negative aio_fildes before they store a state, and a control block that
\* was zeroed goes on to say 0, pending, with no request behind it.
WaitLeavesNonePending ==
  [][ WaitReturns =>
        \A cb \in Blocks(lio) :
          state[cb] # 0 \/ canceller[cb] = "mark" ]_listVars

\* lio_listio returns, with requests that got no thread, entries that are
\* refused and requests that are cancelled in its list, and so does the
\* aio_return that joins a worker the list has joined before.
ListReturns == (lister # "idle" ~> lister = "idle") /\ ReturnTerminates
=============================================================================
