-------------------------------- MODULE Poll --------------------------------
(***************************************************************************)
(* poll: pipes, sockets and other files in one array.  A first pass asks   *)
(* every descriptor once; then the pipes are waited for, then the sockets, *)
(* then nothing at all, each time for the whole timeout.                   *)
(*                                                                         *)
(* Beside the caller there are the peers (bytes arrive, the other end is   *)
(* closed), other threads of the program, which may read the bytes or      *)
(* close a descriptor during the call, and the clock.                      *)
(*                                                                         *)
(* POLLRDNORM and POLLWRNORM are taken for POLLIN and POLLOUT.             *)
(***************************************************************************)
EXTENDS Integers, Sequences, FiniteSets

CONSTANTS
  N,          \* nfds
  Arrays,     \* the arrays of descriptors: what each of them is
  EventSets,  \* what may be asked of one
  Timeouts,   \* the timeouts of the call; negative: wait for ever
  MaxHandles  \* MAXIMUM_WAIT_OBJECTS

\* "negative": fd < 0; "source" and "sink": the two ends of a pipe.
AllKinds == {"negative", "invalid", "file", "source", "sink", "socket"}
Events == {"IN", "OUT", "PRI"}
Replies == Events \cup {"ERR", "HUP", "NVAL"}

ASSUME ConstantsAssumption ==
  /\ N \in Nat
  /\ Arrays \subseteq [1..N -> AllKinds]
  /\ EventSets \subseteq SUBSET Events
  /\ Timeouts \subseteq Int
  /\ MaxHandles \in Nat \ {0}

VARIABLES
  kind, events, timeout,  \* the arguments
  data,         \* bytes wait to be read
  hup,          \* the peer has closed its end
  open,         \* the descriptor is still open
  now,          \* the time since the call
  pc,           \* where the caller is
  next,         \* the loop variable of the first pass
  revents,      \* fds[i].revents
  ready,        \* ready_count
  isSocket,     \* is_socket_cache, as the set of the sockets
  handles,      \* handles with handle_map: the indices to wait for
  initialized,  \* the static flag of load_winsock_functions
  helper,       \* CreateThread gave a thread to wait in
  deadline,     \* when the wait under way is over; Never without a limit
  readfds, writefds, exceptfds,  \* the sets select has left
  early,        \* history: ready_count after the first pass
  untouched,    \* history: had bytes when poll was called, has them still
  failed        \* history: select or a wait failed

env  == <<data, hup, open, untouched>>
args == <<kind, events, timeout>>
sets == <<readfds, writefds, exceptfds>>
vars == <<args, env, now, pc, next, revents, ready, isSocket, handles,
          initialized, helper, deadline, sets, early, failed>>

Index == 1..N
Never == -1
Waiting == {"wait", "select", "sleep"}

TypeOK ==
  /\ data \in [Index -> BOOLEAN] /\ hup \in [Index -> BOOLEAN]
  /\ open \in [Index -> BOOLEAN]
  /\ now \in Nat /\ deadline \in Nat \cup {Never}
  /\ pc \in Waiting \cup {"scan", "sets", "collect", "returned"}
  /\ next \in 1..N + 1
  /\ revents \in [Index -> SUBSET Replies]
  /\ ready \in 0..N /\ early \in 0..N
  /\ isSocket \subseteq Index
  /\ handles \in Seq(Index) /\ Len(handles) <= MaxHandles
  /\ {initialized, helper, failed} \subseteq BOOLEAN
  /\ readfds \cup writefds \cup exceptfds \subseteq isSocket
  /\ untouched \subseteq Index

Init ==
  /\ kind \in Arrays
  /\ events \in [Index -> EventSets]
  /\ timeout \in Timeouts
  /\ data \in [Index -> BOOLEAN]
  /\ \A i \in Index : data[i] => kind[i] \in {"source", "socket"}
  /\ hup = [i \in Index |-> FALSE]
  /\ open = [i \in Index |-> kind[i] \notin {"negative", "invalid"}]
  /\ untouched = {i \in Index : data[i]}
  /\ now = 0
  /\ pc = "scan" /\ next = 1
  /\ revents = [i \in Index |-> {}]
  /\ ready = 0 /\ early = 0
  /\ isSocket = {}
  /\ handles = <<>>
  /\ initialized = FALSE
  /\ helper = FALSE /\ failed = FALSE
  /\ deadline = 0
  /\ readfds = {} /\ writefds = {} /\ exceptfds = {}

Asks(i, e) == e \in events[i]

\* PeekNamedPipe.  A pipe whose writer is gone still gives its bytes; the
\* writing end, a socket and a closed descriptor are an error.
Peek(i) ==
  IF ~open[i] \/ kind[i] # "source" THEN {"ERR"}
  ELSE IF data[i] THEN {"IN"}
  ELSE IF hup[i] THEN {"HUP"} ELSE {}

\* What a pipe answers; its writing side always counts as ready.
PipeReply(i) ==
  (IF Asks(i, "IN") THEN Peek(i) ELSE {}) \cup (events[i] \cap {"OUT"})

Count(reply) == IF reply = {} THEN 0 ELSE 1

-----------------------------------------------------------------------------
(* The first pass.                                                         *)

\* is_socket: getsockopt, after the load of ws2_32.dll, which may fail and
\* is tried again with the next descriptor.
IsSocket(i) == initialized' = TRUE /\ kind[i] = "socket" /\ open[i]
IsNoSocket(i) ==
  \/ initialized' = TRUE /\ ~(kind[i] = "socket" /\ open[i])
  \/ ~initialized /\ UNCHANGED initialized

\* fds[i].revents is set, and counted if it is not empty
Answer(i, reply) ==
  /\ revents' = [revents EXCEPT ![i] = reply]
  /\ ready' = ready + Count(reply)

ScanNegative(i) ==
  /\ kind[i] = "negative"
  /\ Answer(i, {})
  /\ UNCHANGED <<isSocket, handles, initialized>>

ScanSocket(i) ==
  /\ kind[i] # "negative" /\ IsSocket(i)
  /\ isSocket' = isSocket \cup {i}
  /\ UNCHANGED <<revents, ready, handles>>

\* Mutant of ScanInvalid: the loop goes on to the next descriptor before it
\* has counted this one.
ScanInvalidUncounted(i) ==
  /\ kind[i] # "negative" /\ ~open[i] /\ IsNoSocket(i)
  /\ revents' = [revents EXCEPT ![i] = {"NVAL"}]
  /\ UNCHANGED <<ready, isSocket, handles>>

ScanInvalid(i) ==
  /\ kind[i] # "negative" /\ ~open[i] /\ IsNoSocket(i)
  /\ Answer(i, {"NVAL"})
  /\ UNCHANGED <<isSocket, handles>>

\* A pipe, or a socket when ws2_32.dll could not be loaded.  The first 64
\* that are not ready are waited for.
ScanPipe(i) ==
  /\ open[i] /\ kind[i] \in {"source", "sink", "socket"} /\ IsNoSocket(i)
  /\ LET reply == PipeReply(i) IN
       /\ Answer(i, reply)
       /\ handles' = IF reply = {} /\ Len(handles) < MaxHandles
                     THEN Append(handles, i) ELSE handles
  /\ UNCHANGED isSocket

\* Any other file is ready for what was asked.
ScanFile(i) ==
  /\ open[i] /\ kind[i] = "file" /\ IsNoSocket(i)
  /\ Answer(i, events[i])
  /\ UNCHANGED <<isSocket, handles>>

Scan ==
  /\ pc = "scan" /\ next <= N
  /\ next' = next + 1
  /\ \/ ScanNegative(next) \/ ScanSocket(next) \/ ScanInvalid(next)
     \/ ScanPipe(next) \/ ScanFile(next)
  /\ UNCHANGED <<args, env, now, pc, helper, deadline, sets, early, failed>>

-----------------------------------------------------------------------------
(* The waits.                                                              *)

\* Mutant of Until: a timeout of zero is taken for none.
UntilPositive(t) == IF t <= 0 THEN Never ELSE now + t

\* When a wait that starts now with this timeout is over.
Until(t) == IF t < 0 THEN Never ELSE now + t
Expired == deadline # Never /\ now >= deadline

\* ready_count is final: sleep if it is zero, or return
Finish(count) ==
  IF count = 0 /\ timeout > 0
  THEN pc' = "sleep" /\ deadline' = Until(timeout)
  ELSE pc' = "returned" /\ UNCHANGED deadline

\* Mutant of AfterPipes: the sockets are asked only when nothing else is
\* ready.
AfterPipesShort(count) ==
  IF isSocket # {} /\ count = 0
  THEN pc' = "sets" /\ UNCHANGED deadline ELSE Finish(count)

\* After the pipes: the sockets, if there are any
AfterPipes(count) ==
  IF isSocket # {} THEN pc' = "sets" /\ UNCHANGED deadline ELSE Finish(count)

\* The pass is over: wait for the pipes, in a thread if one can be created
WaitStarts ==
  /\ pc = "scan" /\ next > N
  /\ early' = ready
  /\ IF handles # <<>> /\ ready = 0
     THEN /\ pc' = "wait" /\ deadline' = Until(timeout)
          /\ helper' \in BOOLEAN
     ELSE AfterPipes(ready) /\ UNCHANGED helper
  /\ UNCHANGED <<args, env, now, next, revents, ready, isSocket, handles,
                 initialized, sets, failed>>

WaitFrame ==
  UNCHANGED <<args, env, now, next, isSocket, handles, initialized, helper,
              sets, early>>

\* WaitForMultipleObjects names a handle.  The state of a pipe's handle says
\* little: it may be signalled with no byte there.  In its thread the caller
\* asks the pipe again; without one it believes the handle.
WaitSignalled ==
  /\ pc = "wait"
  /\ \E k \in DOMAIN handles :
       LET i == handles[k]
           reply == IF helper THEN PipeReply(i)
                    ELSE events[i] \cap {"IN", "OUT"}
       IN Answer(i, reply) /\ AfterPipes(ready + Count(reply))
  /\ UNCHANGED failed /\ WaitFrame

WaitTimesOut ==
  /\ pc = "wait" /\ Expired
  /\ AfterPipes(ready)
  /\ UNCHANGED <<revents, ready, failed>> /\ WaitFrame

\* The wait fails at once, with one handle twice in the list for instance;
\* the result stays WAIT_TIMEOUT
WaitFails ==
  /\ pc = "wait"
  /\ failed' = TRUE
  /\ AfterPipes(ready)
  /\ UNCHANGED <<revents, ready>> /\ WaitFrame

\* The sockets that go into the sets: those without an answer.
Selected == {i \in isSocket : revents[i] = {}}

\* Mutant of SelectTimeout: sockets are waited for whatever is ready.
SelectTimeoutAlways(count) == timeout

\* ptv: zero when something is ready, NULL for a negative timeout
SelectTimeout(count) == IF count > 0 THEN 0 ELSE timeout

\* FD_ZERO and FD_SET; a socket closed meanwhile is POLLNVAL
BuildSets ==
  /\ pc = "sets"
  /\ LET gone == {i \in Selected : ~open[i]}
         live == Selected \ gone
     IN /\ revents' = [i \in Index |-> IF i \in gone THEN {"NVAL"}
                                       ELSE revents[i]]
        /\ ready' = ready + Cardinality(gone)
        /\ readfds' = {i \in live : Asks(i, "IN")}
        /\ writefds' = {i \in live : Asks(i, "OUT")}
        /\ exceptfds' = {i \in live : Asks(i, "PRI")}
        /\ deadline' = Until(SelectTimeout(ready + Cardinality(gone)))
  /\ pc' = "select"
  /\ UNCHANGED <<args, env, now, next, isSocket, handles, initialized, helper,
                 early, failed>>

\* A socket can be read when it has bytes or its peer has gone.
Readable == {i \in readfds : data[i] \/ hup[i]}

SelectFrame ==
  UNCHANGED <<args, env, now, next, revents, ready, isSocket, handles,
              initialized, helper, early>>

\* select returns the sockets that are ready: some, or none when the time is
\* over.  Whether one can be written to or has urgent bytes is up to it.
SelectReturns ==
  /\ pc = "select"
  /\ readfds \cup writefds \cup exceptfds # {}
  /\ readfds' = Readable
  /\ writefds' \in SUBSET writefds
  /\ exceptfds' \in SUBSET exceptfds
  /\ Expired \/ readfds' \cup writefds' \cup exceptfds' # {}
  /\ pc' = "collect"
  /\ UNCHANGED <<deadline, failed>> /\ SelectFrame

\* select fails: only errno tells
SelectError ==
  /\ pc = "select"
  /\ failed' = TRUE
  /\ Finish(ready)
  /\ UNCHANGED sets /\ SelectFrame

\* ... as it must with three empty sets (WSAEINVAL)
SelectRefuses == readfds \cup writefds \cup exceptfds = {} /\ SelectError
SelectFails == readfds \cup writefds \cup exceptfds # {} /\ SelectError

\* Mutant of SocketReply: no answer for a socket without bytes.
SocketReplyBytes(i) ==
  (IF i \in readfds /\ data[i] THEN {"IN"} ELSE {})
  \cup (IF i \in writefds THEN {"OUT"} ELSE {})
  \cup (IF i \in exceptfds THEN {"PRI"} ELSE {})

\* FIONREAD is asked after select: without bytes it is POLLHUP
SocketReply(i) ==
  (IF i \in readfds THEN (IF data[i] THEN {"IN"} ELSE {"HUP"}) ELSE {})
  \cup (IF i \in writefds THEN {"OUT"} ELSE {})
  \cup (IF i \in exceptfds THEN {"PRI"} ELSE {})

Collect ==
  /\ pc = "collect"
  /\ LET live == {i \in Selected : open[i]}
         found == {i \in live : SocketReply(i) # {}}
     IN /\ revents' = [i \in Index |-> IF i \in live THEN SocketReply(i)
                                       ELSE revents[i]]
        /\ ready' = ready + Cardinality(found)
        /\ Finish(ready + Cardinality(found))
  /\ UNCHANGED <<args, env, now, next, isSocket, handles, initialized, helper,
                 sets, early, failed>>

\* Sleep (timeout) is over
Wake ==
  /\ pc = "sleep" /\ Expired
  /\ pc' = "returned"
  /\ UNCHANGED <<args, env, now, next, revents, ready, isSocket, handles,
                 initialized, helper, deadline, sets, early, failed>>

\* What the caller does when nothing fails and no pipe is signalled.
poll ==
  \/ Scan \/ WaitStarts \/ WaitTimesOut \/ BuildSets
  \/ SelectReturns \/ SelectRefuses \/ Collect \/ Wake

-----------------------------------------------------------------------------
(* The surroundings, while poll runs.                                      *)

caller == <<now, pc, next, revents, ready, isSocket, handles, initialized,
            helper, deadline, sets, early, failed>>

Arrive(i) ==
  /\ kind[i] \in {"source", "socket"} /\ ~hup[i] /\ ~data[i]
  /\ data' = [data EXCEPT ![i] = TRUE]
  /\ UNCHANGED <<hup, open, untouched>>

HangUp(i) ==
  /\ kind[i] \in {"source", "socket"} /\ ~hup[i]
  /\ hup' = [hup EXCEPT ![i] = TRUE]
  /\ UNCHANGED <<data, open, untouched>>

\* Another thread reads the bytes.
Take(i) ==
  /\ data[i] /\ open[i]
  /\ data' = [data EXCEPT ![i] = FALSE]
  /\ untouched' = untouched \ {i}
  /\ UNCHANGED <<hup, open>>

\* Another thread closes the descriptor.
Close(i) ==
  /\ open[i]
  /\ open' = [open EXCEPT ![i] = FALSE]
  /\ untouched' = untouched \ {i}
  /\ UNCHANGED <<data, hup>>

Surroundings ==
  /\ pc # "returned"
  /\ \E i \in Index : Arrive(i) \/ HangUp(i) \/ Take(i) \/ Close(i)
  /\ UNCHANGED <<args, caller>>

\* Time passes in the waits only, and no wait is late.
Tick ==
  /\ pc \in Waiting /\ deadline # Never /\ now < deadline
  /\ now' = now + 1
  /\ UNCHANGED <<args, env, pc, next, revents, ready, isSocket, handles,
                 initialized, helper, deadline, sets, early, failed>>

Next ==
  \/ poll \/ WaitSignalled \/ WaitFails \/ SelectFails
  \/ Surroundings
  \/ Tick

\* The caller goes on when it can, and time passes.  No pipe must be
\* signalled, no call must fail, and no peer must send.
Spec == Init /\ [][Next]_vars /\ WF_vars(poll) /\ WF_vars(Tick)

-----------------------------------------------------------------------------
(* Properties.                                                             *)

\* poll returns the number of descriptors with an answer, whatever was
\* closed or read between its passes: none is counted in two of them, and
\* none is left out.
CountMatches ==
  pc = "returned" => ready = Cardinality({i \in Index : revents[i] # {}})

\* Bytes that were there when poll was called, and still are when it
\* returns, are reported, also when another descriptor was ready first.
ReadyAtCallIsReported ==
  pc = "returned" /\ ~failed =>
    \A i \in untouched :
      Asks(i, "IN") => revents[i] \cap {"IN", "ERR"} # {}

\* How long poll may take: no time if the first pass found something, else
\* one timeout each for the pipes and the sockets, and one more for the
\* sleep if nothing came.
WaitsBounded ==
  timeout >= 0 =>
    now <= timeout * (IF early > 0 THEN 0
                      ELSE (IF handles # <<>> THEN 1 ELSE 0)
                           + (IF isSocket # {} THEN 1 ELSE 0)
                           + (IF pc \in {"sleep", "returned"} /\ ready = 0
                              THEN 1 ELSE 0))

\* A poll without a timeout that has sockets to wait for comes back with an
\* answer, unless select failed or one of them was closed under it.  (Without
\* sockets it may return 0, on a pipe that was signalled for nothing.)
SocketsAnswerInTheEnd ==
  pc = "returned" /\ timeout < 0 /\ ready = 0 /\ ~failed =>
    isSocket = {} \/ \E i \in isSocket : ~open[i]

\* With a timeout poll returns.
Returns == timeout >= 0 ~> pc = "returned"
=============================================================================
