------------------------------ MODULE Winsock ------------------------------
(***************************************************************************)
(* The socket functions load ws2_32.dll and start Winsock when the first of *)
(* them is called.  Each contains the same double-checked sequence: look at *)
(* ws2_32_handle, take the lock, look again, dlopen, WSAStartup, unlock;    *)
(* then it looks up the Winsock function of its name and calls it.  What    *)
(* that function does with sockets is not modelled.                         *)
(***************************************************************************)
EXTENDS GlobalLock

CONSTANT MaxCalls  \* bound: how many calls a thread makes

ASSUME MaxCallsAssumption == MaxCalls \in Nat

VARIABLES
  ws2_32_handle,  \* "NULL" or "ws2_32"
  loads,          \* how often the library is loaded: dlopens without dlclose
  startups,       \* how often WSAStartup has succeeded
  pc,             \* where each thread is in its socket call
  fast,           \* whether its first look found the handle set
  calls           \* history: how many calls a thread has made

loadVars == <<ws2_32_handle, loads, startups>>
callVars == <<pc, fast, calls>>
vars == <<lockVars, loadVars, callVars>>

\* Between lock and unlock.
Loading == {"open", "startup", "close", "clear", "fail", "unlock"}

TypeOK ==
  /\ LockTypeOK
  /\ ws2_32_handle \in {"NULL", "ws2_32"}
  /\ loads \in Nat
  /\ startups \in Nat
  /\ pc \in [Threads -> {"idle", "check", "lock", "symbol", "call", "crashed"}
                        \cup Loading]
  /\ fast \in [Threads -> BOOLEAN]
  /\ calls \in [Threads -> 0..MaxCalls]

Init ==
  /\ LockInit
  /\ ws2_32_handle = "NULL" /\ loads = 0 /\ startups = 0
  /\ pc = [t \in Threads |-> "idle"]
  /\ fast = [t \in Threads |-> FALSE]
  /\ calls = [t \in Threads |-> 0]

Goto(t, from, to) == pc[t] = from /\ pc' = [pc EXCEPT ![t] = to]

-----------------------------------------------------------------------------
(* The sequence every socket function starts with.                         *)

Begin(t) ==
  /\ main = "calls" /\ calls[t] < MaxCalls
  /\ Goto(t, "idle", "check")
  /\ calls' = [calls EXCEPT ![t] = @ + 1]
  /\ UNCHANGED <<lockVars, loadVars, fast>>

\* if (!ws2_32_handle), without the lock
Check(t) ==
  /\ Goto(t, "check", IF ws2_32_handle = "NULL" THEN "lock" ELSE "symbol")
  /\ fast' = [fast EXCEPT ![t] = ws2_32_handle # "NULL"]
  /\ UNCHANGED <<lockVars, loadVars, calls>>

Lock(t) ==
  /\ pc[t] = "lock" /\ lock(t)
  /\ UNCHANGED <<loadVars, callVars>>

\* Re-check after acquiring lock
Recheck(t) ==
  /\ at[t] = "in"
  /\ Goto(t, "lock", IF ws2_32_handle = "NULL" THEN "open" ELSE "unlock")
  /\ UNCHANGED <<lockVars, loadVars, fast, calls>>

\* ws2_32_handle = dlopen ("ws2_32.dll"), published before WSAStartup
Open(t) ==
  /\ \/ /\ Goto(t, "open", "startup")
        /\ ws2_32_handle' = "ws2_32"
        /\ loads' = loads + 1
     \/ /\ Goto(t, "open", "fail")
        /\ ws2_32_handle' = "NULL"
        /\ UNCHANGED loads
  /\ UNCHANGED <<lockVars, startups, fast, calls>>

Startup(t) ==
  /\ \/ Goto(t, "startup", "unlock") /\ startups' = startups + 1
     \/ Goto(t, "startup", "close") /\ UNCHANGED startups
  /\ UNCHANGED <<lockVars, ws2_32_handle, loads, fast, calls>>

\* Mutant of Close: the library stays loaded after a failed WSAStartup.
CloseMissing(t) ==
  /\ Goto(t, "close", "clear")
  /\ UNCHANGED <<lockVars, loadVars, fast, calls>>

\* WSAStartup failed: dlclose (ws2_32_handle)
Close(t) ==
  /\ Goto(t, "close", "clear")
  /\ loads' = loads - 1
  /\ UNCHANGED <<lockVars, ws2_32_handle, startups, fast, calls>>

\* Mutant of Clear: the handle of the unloaded library stays published.
ClearMissing(t) ==
  /\ Goto(t, "clear", "fail")
  /\ UNCHANGED <<lockVars, loadVars, fast, calls>>

\* ws2_32_handle = NULL
Clear(t) ==
  /\ Goto(t, "clear", "fail")
  /\ ws2_32_handle' = "NULL"
  /\ UNCHANGED <<lockVars, loads, startups, fast, calls>>

\* Mutant of Fail: the failing path returns without unlock.
FailLocked(t) ==
  /\ Goto(t, "fail", "idle")
  /\ UNCHANGED <<lockVars, loadVars, fast, calls>>

\* unlock () and return -1
Fail(t) ==
  /\ Goto(t, "fail", "idle") /\ unlock(t)
  /\ UNCHANGED <<loadVars, fast, calls>>

Unlock(t) ==
  /\ Goto(t, "unlock", "symbol") /\ unlock(t)
  /\ UNCHANGED <<loadVars, fast, calls>>

\* dlsym (ws2_32_handle, ...).  Nothing orders this read after the first one
\* when the lock was not taken: the compiler may use the value it has.  dlsym
\* reads the headers of the library, so a NULL handle or a library that is
\* no longer loaded ends in an access violation.  The library may not export
\* the function: -1.
Symbol(t) ==
  /\ \E handle \in {ws2_32_handle} \cup (IF fast[t] THEN {"ws2_32"} ELSE {}) :
       IF handle = "NULL" \/ loads = 0
       THEN Goto(t, "symbol", "crashed")
       ELSE Goto(t, "symbol", "call") \/ Goto(t, "symbol", "idle")
  /\ UNCHANGED <<lockVars, loadVars, fast, calls>>

\* The Winsock function returns
Call(t) ==
  /\ Goto(t, "call", "idle")
  /\ UNCHANGED <<lockVars, loadVars, fast, calls>>

\* What a thread does inside a socket function.
Inside(t) ==
  \/ Check(t) \/ Lock(t) \/ Recheck(t) \/ Open(t) \/ Startup(t) \/ Close(t)
  \/ Clear(t) \/ Fail(t) \/ Unlock(t) \/ Symbol(t) \/ Call(t)

SocketCall(t) == Begin(t) \/ Inside(t)

\* The socket functions differ in the Winsock functions they look up and call.
socket(t)      == SocketCall(t)
accept(t)      == SocketCall(t)
bind(t)        == SocketCall(t)
connect(t)     == SocketCall(t)
listen(t)      == SocketCall(t)
getpeername(t) == SocketCall(t)
getsockname(t) == SocketCall(t)
getsockopt(t)  == SocketCall(t)
setsockopt(t)  == SocketCall(t)
shutdown(t)    == SocketCall(t)
send(t)        == SocketCall(t)
recv(t)        == SocketCall(t)
sendto(t)      == SocketCall(t)
recvfrom(t)    == SocketCall(t)
sendmsg(t)     == SocketCall(t)
recvmsg(t)     == SocketCall(t)
socketpair(t)  == SocketCall(t)

\* The main thread cleans up when no thread is in a call any more.
Cleanup ==
  /\ delete_lock /\ \A t \in Threads : pc[t] = "idle"
  /\ UNCHANGED <<loadVars, callVars>>

Next ==
  \/ init_lock /\ UNCHANGED <<loadVars, callVars>>
  \/ Cleanup
  \/ \E t \in Threads :
       \/ socket(t) \/ accept(t) \/ bind(t) \/ connect(t) \/ listen(t)
       \/ getpeername(t) \/ getsockname(t) \/ getsockopt(t) \/ setsockopt(t)
       \/ shutdown(t) \/ send(t) \/ recv(t) \/ sendto(t) \/ recvfrom(t) \/ sendmsg(t)
       \/ recvmsg(t) \/ socketpair(t)

SafeSpec == Init /\ [][Next]_vars

(***************************************************************************)
(* Fairness.  A thread that is inside a socket function goes on; one that    *)
(* waits for the critical section gets it in the end, because the threads   *)
(* that could keep it away make only MaxCalls calls each.                   *)
(***************************************************************************)
Fairness == \A t \in Threads : WF_vars(Inside(t))

Spec == SafeSpec /\ Fairness

-----------------------------------------------------------------------------
(* Properties.                                                             *)

\* However many threads make the first socket call at once, and however often
\* it fails, Winsock is started at most once.
StartedOnce == startups <= 1

\* When no thread is loading, the library is loaded once if the handle is set
\* and not at all if it is not: no path leaks a dlopen or closes twice.
LoadsBalanced ==
  (\A t \in Threads : pc[t] \notin Loading) =>
    loads = IF ws2_32_handle = "NULL" THEN 0 ELSE 1

\* A thread that went through the lock calls into a Winsock that is loaded and
\* started, even if the thread before it failed to start it.
ReadyAfterLock ==
  \A t \in Threads : pc[t] \in {"symbol", "call"} /\ ~fast[t] =>
    ws2_32_handle = "ws2_32" /\ loads = 1 /\ startups = 1

\* Once Winsock was started, no thread withdraws the handle.
HandleStays == [][startups > 0 => UNCHANGED <<ws2_32_handle, loads>>]_vars

\* A socket function returns: every path gives the lock back.
CallReturns ==
  \A t \in Threads : pc[t] = "check" ~> pc[t] \in {"idle", "crashed"}

\* "Non-NULL: pointer value is loaded and initialized", says the header: a
\* thread that found the handle set calls into a Winsock that was started.
NonNullIsInitialized ==
  \A t \in Threads : pc[t] \in {"call", "crashed"} => loads > 0 /\ startups > 0
=============================================================================
