----------------------------- MODULE WaitChild -----------------------------
(***************************************************************************)
(* wait, waitpid and waitid: a process waits for one of its children.       *)
(*                                                                         *)
(* WaitForMultipleObjects takes MAXIMUM_WAIT_OBJECTS handles.  waitid walks  *)
(* a snapshot of the processes and opens its children; with the handles all *)
(* but one in use it starts a thread that goes on with the same snapshot in *)
(* the same way, and waits for its children and for that thread.  A thread  *)
(* tells its creator what it found in a struct on the creator's stack.      *)
(*                                                                         *)
(* One call is modelled: the functions keep nothing between calls.          *)
(***************************************************************************)
EXTENDS Integers, FiniteSets

CONSTANTS
  N,                     \* how many children the snapshot has, 1 to N in its
                         \* order; what it has besides plays no part
  MAXIMUM_WAIT_OBJECTS   \* of one WaitForMultipleObjects

ASSUME WaitAssumption == N \in Nat /\ MAXIMUM_WAIT_OBJECTS \in Nat \ {0, 1}

Children == 1..N
Functions == {"wait", "waitpid", "waitid_P_PID", "waitid_P_ALL", "waitid"}
ForOne    == {"waitpid", "waitid_P_PID"}

\* Thread 0 is in the function, the others run WaitForProcesses.  Each thread
\* that creates another has opened MAXIMUM_WAIT_OBJECTS - 1 more children.
Main    == 0
Threads == 0..(N \div (MAXIMUM_WAIT_OBJECTS - 1))
NoThread == -1

VARIABLES
  exited,     \* the children that have exited
  function,   \* the function called, waitid for an idtype it does not know
  WNOHANG,    \* whether __options has it
  WUNTRACED,  \* whether __options has it
  pid,        \* the child of waitpid and of waitid with P_PID, or 0
  pc,         \* where every thread is
  next,       \* the entry Process32Next returns next
  snapshots,  \* the snapshots that are open: "processes", "threads"
  handles,    \* hHandles of every thread: the children in it
  helper,     \* hThread, the last element of hHandles, or NoThread
  creator,    \* the thread a thread was created by; NoThread for Main
  info,       \* wfpsCopy of every thread; info[NoThread] is wfps of waitid
  result,     \* what the function returned
  failed,     \* history: the Windows calls that have failed
  opened      \* history: how many children were opened to be waited for

callVars  == <<function, WNOHANG, WUNTRACED, pid>>
snapVars  == <<next, snapshots>>
childVars == <<handles, helper, creator, info>>
vars == <<exited, callVars, pc, snapVars, childVars, result, failed, opened>>

\* struct WaitForProcessesStruct
Infos   == [done: BOOLEAN, processID: Children \cup {0}]
NotDone == [done |-> FALSE, processID |-> 0]
Found(c) == [done |-> TRUE, processID |-> c]

\* What the caller learns: a child that exited, one that is stopped, nothing
\* (0, with siginfo_t untouched), or -1.
Results == {"running", "child", "stopped", "nothing", "error"}
Returned(kind, c) == [kind |-> kind, pid |-> c]
Nothing == Returned("nothing", 0)
Error   == Returned("error", 0)

Calls == {"CreateToolhelp32Snapshot", "Process32First", "Thread32First",
          "CreateThread", "wait", "_cwait"}

TypeOK ==
  /\ exited \subseteq Children
  /\ function \in Functions /\ WNOHANG \in BOOLEAN /\ WUNTRACED \in BOOLEAN
  /\ pid \in Children \cup {0}
  /\ pc \in [Threads -> {"none", "call", "stopped", "first", "open", "open_one",
                         "wait_one", "scan", "create", "wait", "join", "close",
                         "last", "last_wait", "ended"}]
  /\ next \in 1..N + 1
  /\ snapshots \subseteq {"processes", "threads"}
  /\ handles \in [Threads -> SUBSET Children]
  /\ helper \in [Threads -> Threads \cup {NoThread}]
  /\ creator \in [Threads -> Threads \cup {NoThread}]
  /\ info \in [Threads \cup {NoThread} -> Infos]
  /\ result \in [kind: Results, pid: Children \cup {0}]
  /\ failed \subseteq Calls
  /\ opened \in 0..N

Init ==
  /\ exited = {}
  /\ function \in Functions /\ WNOHANG \in BOOLEAN /\ WUNTRACED \in BOOLEAN
  /\ pid \in IF function \in ForOne THEN Children ELSE {0}
  /\ pc = [t \in Threads |-> IF t = Main THEN "call" ELSE "none"]
  /\ next = 1 /\ snapshots = {}
  /\ handles = [t \in Threads |-> {}]
  /\ helper = [t \in Threads |-> NoThread]
  /\ creator = [t \in Threads |-> NoThread]
  /\ info = [t \in Threads \cup {NoThread} |-> NotDone]
  /\ result = Returned("running", 0)
  /\ failed = {} /\ opened = 0

Goto(t, p) == pc' = [pc EXCEPT ![t] = p]

\* The function returns; what is still open stays open.
Return(r) == Goto(Main, "ended") /\ result' = r

Fails(call) == failed' = failed \cup {call}

Exit(c) ==
  /\ c \notin exited
  /\ exited' = exited \cup {c}
  /\ UNCHANGED <<callVars, pc, snapVars, childVars, result, failed, opened>>

-----------------------------------------------------------------------------
(* Before the children are looked at.                                      *)

SetupStep == UNCHANGED <<exited, callVars, childVars, opened>>

\* An idtype waitid does not know: 0
Unknown ==
  /\ pc[Main] = "call" /\ function = "waitid"
  /\ Return(Nothing)
  /\ SetupStep /\ UNCHANGED <<snapVars, failed>>

\* CreateToolhelp32Snapshot (TH32CS_SNAPPROCESS, 0)
Snapshot ==
  /\ pc[Main] = "call" /\ function \in {"waitid_P_ALL", "wait"}
  /\ \/ /\ snapshots' = {"processes"}
        /\ Goto(Main, IF WUNTRACED /\ function # "wait" THEN "stopped"
                                                        ELSE "first")
        /\ UNCHANGED <<result, failed>>
     \/ /\ Return(Error) /\ Fails("CreateToolhelp32Snapshot")
        /\ UNCHANGED snapshots
  /\ SetupStep /\ UNCHANGED next

\* The children whose threads are all suspended: the first ends waitid.  A
\* child whose threads cannot be listed is passed over; if the first of them
\* is not to be had the snapshot of the threads stays open.
Stopped ==
  /\ pc[Main] = "stopped"
  /\ \/ \E c \in Children :
          /\ Return(Returned("stopped", c))
          /\ \/ snapshots' = {} /\ UNCHANGED failed
             \/ snapshots' = {"threads"} /\ Fails("Thread32First")
     \/ /\ Goto(Main, "first") /\ UNCHANGED result
        /\ \/ UNCHANGED <<snapshots, failed>>
           \/ snapshots' = snapshots \cup {"threads"} /\ Fails("Thread32First")
  /\ SetupStep /\ UNCHANGED next

\* Process32First; when it fails waitid returns 0 and wait -1, and only wait
\* closes the snapshot
First ==
  /\ pc[Main] = "first"
  /\ \/ /\ Goto(Main, IF WNOHANG \/ function = "wait" THEN "open" ELSE "scan")
        /\ UNCHANGED <<snapshots, result, failed>>
     \/ /\ Fails("Process32First")
        /\ IF function = "wait"
           THEN Return(Error) /\ snapshots' = snapshots \ {"processes"}
           ELSE Return(Nothing) /\ UNCHANGED snapshots
  /\ SetupStep /\ UNCHANGED next

\* waitpid and P_PID: the threads of the one child are looked at
StoppedOne ==
  /\ pc[Main] = "call" /\ function \in ForOne
  /\ \/ ~WUNTRACED /\ Goto(Main, "open_one") /\ UNCHANGED <<result, failed>>
     \/ /\ WUNTRACED
        /\ \/ Goto(Main, "open_one") /\ UNCHANGED <<result, failed>>
           \/ Return(Returned("stopped", pid)) /\ UNCHANGED failed
           \/ \E call \in {"CreateToolhelp32Snapshot", "Thread32First"} :
                Return(Error) /\ Fails(call)
  /\ SetupStep /\ UNCHANGED snapVars

-----------------------------------------------------------------------------
(* Waiting for one child.                                                  *)

OneStep == UNCHANGED <<exited, callVars, helper, creator, info, opened>>

\* OpenProcess of __pid fails: -1 with ECHILD
OpenOne ==
  /\ pc[Main] = "open_one"
  /\ \/ /\ handles' = [handles EXCEPT ![Main] = {pid}]
        /\ Goto(Main, "wait_one") /\ UNCHANGED result
     \/ Return(Error) /\ UNCHANGED handles
  /\ OneStep /\ UNCHANGED <<snapVars, failed>>

\* wait, and waitid with WNOHANG, look for the first child they can open.
OpenFirst ==
  /\ pc[Main] = "open"
  /\ IF next > N
     THEN /\ snapshots' = snapshots \ {"processes"}
          /\ Return(IF function = "wait" THEN Error ELSE Nothing)
          /\ UNCHANGED <<next, handles>>
     ELSE /\ next' = next + 1
          /\ \/ /\ handles' = [handles EXCEPT ![Main] = {next}]
                /\ Goto(Main, "wait_one")
             \/ UNCHANGED <<handles, pc>>
          /\ UNCHANGED <<snapshots, result>>
  /\ OneStep /\ UNCHANGED failed

\* The handle is closed, and by waitid the snapshot.
CloseOne ==
  /\ handles' = [handles EXCEPT ![Main] = {}]
  /\ snapshots' = IF function = "wait" THEN snapshots
                   ELSE snapshots \ {"processes"}

\* WaitForSingleObject and GetExitCodeProcess, or _cwait
WaitOne ==
  /\ pc[Main] = "wait_one"
  /\ \E c \in handles[Main] :
       \/ c \in exited /\ Return(Returned("child", c))
       \/ c \notin exited /\ WNOHANG /\ function # "wait" /\ Return(Nothing)
  /\ CloseOne
  /\ OneStep /\ UNCHANGED <<next, failed>>

\* One of the two fails: -1.  wait does not look at the result of _cwait.
WaitOneFails ==
  /\ pc[Main] = "wait_one"
  /\ IF function = "wait"
     THEN /\ \E c \in handles[Main] : Return(Returned("child", c))
          /\ Fails("_cwait")
     ELSE Return(Error) /\ Fails("wait")
  /\ CloseOne
  /\ OneStep /\ UNCHANGED next

-----------------------------------------------------------------------------
(* Waiting for any child: the code of waitid and, the same but for its end, *)
(* of WaitForProcesses.                                                    *)

AnyStep == UNCHANGED <<exited, callVars>>

\* !wfps->done && Process32Next, and OpenProcess of the child it returned
Scan(t) ==
  /\ pc[t] = "scan"
  /\ IF info[creator[t]].done \/ next > N
     THEN Goto(t, "last") /\ UNCHANGED <<next, handles, opened>>
     ELSE /\ next' = next + 1
          /\ \/ /\ handles' = [handles EXCEPT ![t] = @ \cup {next}]
                /\ opened' = opened + 1
                /\ Goto(t, IF Cardinality(handles[t]) = MAXIMUM_WAIT_OBJECTS - 2
                           THEN "create" ELSE "scan")
             \/ UNCHANGED <<handles, opened, pc>>
  /\ AnyStep
  /\ UNCHANGED <<snapshots, helper, creator, info, result, failed>>

\* Mutant of Create: WaitForProcesses returns at once too.
CreateFailsReturns(t) ==
  /\ pc[t] = "create"
  /\ info' = [info EXCEPT ![t] = info[creator[t]]]
  /\ \/ \E u \in Threads :
          /\ u = Cardinality({s \in Threads : pc[s] # "none"})
          /\ helper' = [helper EXCEPT ![t] = u]
          /\ creator' = [creator EXCEPT ![u] = t]
          /\ pc' = [pc EXCEPT ![t] = "wait", ![u] = "scan"]
          /\ UNCHANGED <<result, failed>>
     \/ /\ Fails("CreateThread") /\ Goto(t, "ended")
        /\ result' = IF t = Main THEN Error ELSE result
        /\ UNCHANGED <<helper, creator>>
  /\ AnyStep /\ UNCHANGED <<snapVars, handles, opened>>

\* wfpsCopy = *wfps, and CreateThread; when it fails waitid returns -1 at once
\* and WaitForProcesses makes do with the children it has
Create(t) ==
  /\ pc[t] = "create"
  /\ info' = [info EXCEPT ![t] = info[creator[t]]]
  /\ \/ \E u \in Threads :
          /\ u = Cardinality({s \in Threads : pc[s] # "none"})
          /\ helper' = [helper EXCEPT ![t] = u]
          /\ creator' = [creator EXCEPT ![u] = t]
          /\ pc' = [pc EXCEPT ![t] = "wait", ![u] = "scan"]
          /\ UNCHANGED <<result, failed>>
     \/ /\ Fails("CreateThread")
        /\ IF t = Main THEN Return(Error) ELSE Goto(t, "last") /\ UNCHANGED result
        /\ UNCHANGED <<helper, creator>>
  /\ AnyStep /\ UNCHANGED <<snapVars, handles, opened>>

\* Mutant of Signalled: WAIT_OBJECT_0 is taken for the first handle.
SignalledFirst(t, c) ==
  /\ handles[t] \cap exited # {}
  /\ c \in handles[t] /\ \A d \in handles[t] : c <= d

\* The child WaitForMultipleObjects returns, the first that has exited
Signalled(t, c) ==
  /\ c \in handles[t] \cap exited
  /\ \A d \in handles[t] \cap exited : c <= d

\* Mutant of Wait: what the thread found is not copied.
WaitForgetsCopy(t) ==
  /\ pc[t] = "wait"
  /\ \/ \E c \in Children :
          /\ Signalled(t, c)
          /\ info' = [info EXCEPT ![creator[t]] = Found(c), ![t].done = TRUE]
          /\ Goto(t, "join")
     \/ /\ handles[t] \cap exited = {} /\ pc[helper[t]] = "ended"
        /\ Goto(t, "close") /\ UNCHANGED info
  /\ AnyStep
  /\ UNCHANGED <<snapVars, handles, helper, creator, result, failed, opened>>

\* Mutant of Wait: the thread is not among the handles waited for.
WaitForgetsHelper(t) ==
  /\ pc[t] = "wait"
  /\ \E c \in Children :
       /\ Signalled(t, c)
       /\ info' = [info EXCEPT ![creator[t]] = Found(c), ![t].done = TRUE]
       /\ Goto(t, "join")
  /\ AnyStep
  /\ UNCHANGED <<snapVars, handles, helper, creator, result, failed, opened>>

\* A child has exited: *wfps has it and wfpsCopy.done asks the thread to end.
\* The thread has ended: *wfps = wfpsCopy.
Wait(t) ==
  /\ pc[t] = "wait"
  /\ \/ \E c \in Children :
          /\ Signalled(t, c)
          /\ info' = [info EXCEPT ![creator[t]] = Found(c), ![t].done = TRUE]
          /\ Goto(t, "join")
     \/ /\ handles[t] \cap exited = {} /\ pc[helper[t]] = "ended"
        /\ info' = [info EXCEPT ![creator[t]] = info[t]]
        /\ Goto(t, "close")
  /\ AnyStep
  /\ UNCHANGED <<snapVars, handles, helper, creator, result, failed, opened>>

\* The wait, or GetExitCodeProcess, fails: the children are forgotten, and
\* the thread is left to itself.
WaitFails(t) ==
  /\ pc[t] = "wait" /\ Goto(t, "close") /\ Fails("wait")
  /\ AnyStep /\ UNCHANGED <<snapVars, childVars, result, opened>>

\* Mutant of Join: the thread is only asked to end.
JoinSkipped(t) ==
  /\ pc[t] = "join"
  /\ Goto(t, "close")
  /\ AnyStep /\ UNCHANGED <<snapVars, childVars, result, failed, opened>>

\* WaitForSingleObject (hThread, INFINITE)
Join(t) ==
  /\ pc[t] = "join" /\ pc[helper[t]] = "ended"
  /\ Goto(t, "close")
  /\ AnyStep /\ UNCHANGED <<snapVars, childVars, result, failed, opened>>

\* for (; i; i--) CloseHandle, and on with the snapshot
Close(t) ==
  /\ pc[t] = "close"
  /\ handles' = [handles EXCEPT ![t] = {}]
  /\ helper' = [helper EXCEPT ![t] = NoThread]
  /\ Goto(t, "scan")
  /\ AnyStep /\ UNCHANGED <<snapVars, creator, info, result, failed, opened>>

\* Close what is left
Finish(t) ==
  /\ handles' = [handles EXCEPT ![t] = {}]
  /\ Goto(t, "ended")

\* waitid closes the snapshot too and returns 0, with a child or without
ReturnFound(t, found) ==
  IF t = Main
  THEN /\ snapshots' = snapshots \ {"processes"}
       /\ result' = IF found.done THEN Returned("child", found.processID)
                    ELSE Nothing
  ELSE UNCHANGED <<snapshots, result>>

\* !wfps->done && i, read once before the last wait
Last(t) ==
  /\ pc[t] = "last"
  /\ IF info[creator[t]].done \/ handles[t] = {}
     THEN Finish(t) /\ ReturnFound(t, info[creator[t]])
     ELSE Goto(t, "last_wait") /\ UNCHANGED <<handles, snapshots, result>>
  /\ AnyStep /\ UNCHANGED <<next, helper, creator, info, failed, opened>>

LastWait(t) ==
  /\ pc[t] = "last_wait"
  /\ \E c \in Children :
       /\ Signalled(t, c)
       /\ info' = [info EXCEPT ![creator[t]] = Found(c)]
       /\ ReturnFound(t, Found(c))
  /\ Finish(t)
  /\ AnyStep /\ UNCHANGED <<next, helper, creator, failed, opened>>

LastWaitFails(t) ==
  /\ pc[t] = "last_wait" /\ Fails("wait")
  /\ ReturnFound(t, info[creator[t]]) /\ Finish(t)
  /\ AnyStep /\ UNCHANGED <<next, helper, creator, info, opened>>

-----------------------------------------------------------------------------

wait    == function = "wait" /\ (Snapshot \/ First \/ OpenFirst \/ WaitOne)
waitpid == function = "waitpid" /\ (StoppedOne \/ OpenOne \/ WaitOne)
waitid  ==
  \/ Unknown
  \/ function = "waitid_P_PID" /\ (StoppedOne \/ OpenOne \/ WaitOne)
  \/ /\ function = "waitid_P_ALL"
     /\ Snapshot \/ Stopped \/ First \/ OpenFirst \/ WaitOne

Any(t) ==
  Scan(t) \/ Create(t) \/ Wait(t) \/ Join(t) \/ Close(t) \/ Last(t) \/ LastWait(t)

WaitForProcesses(t) == Any(t) \/ WaitFails(t) \/ LastWaitFails(t)

Next ==
  \/ wait \/ waitpid \/ waitid \/ WaitOneFails
  \/ \E t \in Threads : WaitForProcesses(t)
  \/ \E c \in Children : Exit(c)

SafeSpec == Init /\ [][Next]_vars

(***************************************************************************)
(* Fairness.  Every thread that can go on does.  No child has to exit and   *)
(* no wait has to fail.                                                    *)
(***************************************************************************)
Spec ==
  /\ SafeSpec
  /\ WF_vars(wait \/ waitpid \/ waitid)
  /\ \A t \in Threads : WF_vars(Any(t))

-----------------------------------------------------------------------------
(* Properties.                                                             *)

Over == pc[Main] = "ended"

\* The child a function reports has exited, whichever thread found it and
\* through however many structs the news came, unless a wait failed: wait does
\* not look at what _cwait returns, and a thread that was left to itself may
\* spoil the struct its creator uses again.
ReportsExited ==
  result.kind = "child" /\ failed \cap {"_cwait", "wait"} = {} =>
    result.pid \in exited

\* The snapshot has one position and no lock: two threads never walk it at
\* once, and none does when it is closed, unless a wait failed.
OneWalker ==
  "wait" \notin failed =>
    /\ \A s, t \in Threads : pc[s] = "scan" /\ pc[t] = "scan" => s = t
    /\ \A t \in Threads : pc[t] = "scan" => "processes" \in snapshots

\* A thread points into its creator's stack: none is left when waitid returns,
\* unless a wait failed.
NoHelperLeft ==
  Over /\ "wait" \notin failed =>
    \A t \in Threads \ {Main} : pc[t] \in {"none", "ended"}

\* hHandles has room for MAXIMUM_WAIT_OBJECTS, of which one is kept for the
\* thread.
HandlesFit ==
  \A t \in Threads :
    Cardinality(handles[t]) + (IF helper[t] = NoThread THEN 0 ELSE 1)
      <= MAXIMUM_WAIT_OBJECTS

\* Every thread closes what it opens, whatever fails.  waitid and waitpid do
\* too, unless CreateThread, Process32First or Thread32First failed.
HandlesClosed ==
  /\ \A t \in Threads \ {Main} : pc[t] = "ended" => handles[t] = {}
  /\ /\ Over /\ function # "wait"
     /\ failed \cap {"CreateThread", "Process32First", "Thread32First"} = {}
     => snapshots = {} /\ handles[Main] = {}

\* Handles are neither too many nor left open.
HandlesInOrder == HandlesFit /\ HandlesClosed

\* waitid without WNOHANG returns 0 without a child only if it could open
\* none, or exactly as many as fill the waits of all threads: then the last
\* thread has none to wait for.
NothingOnlyWhenFull ==
  /\ result = Nothing /\ function = "waitid_P_ALL" /\ ~WNOHANG
  /\ failed \cap {"wait", "Process32First"} = {}
  => opened % (MAXIMUM_WAIT_OBJECTS - 1) = 0

\* A child the last thread waits for has exited: the news goes from creator
\* to creator and waitid returns, unless a wait failed.  (For another thread's
\* child this does not hold: its thread waits for the ones it created.)
Returns ==
  \A t \in Threads :
    pc[t] = "last_wait" /\ handles[t] \cap exited # {}
      ~> Over \/ "wait" \in failed
=============================================================================
