---------------------------- MODULE PollProofs ----------------------------
(***************************************************************************)
(* What poll promises about its answers and its time, for any number of    *)
(* descriptors, any timeout and any length of the list of handles.         *)
(*                                                                         *)
(* Four passes set revents and add to ready_count.  What makes the sum     *)
(* right is that a pass only answers a descriptor without an answer: the   *)
(* first pass has not come to it, the wait is entered with no answer at    *)
(* all, and the passes over the sockets leave out those with one.          *)
(***************************************************************************)
EXTENDS Poll, FiniteSetTheorems, TLAPS

Answered == {i \in Index : revents[i] # {}}

CountInv ==
  /\ events \in [Index -> SUBSET Events]
  /\ revents \in [Index -> SUBSET Replies]
  /\ isSocket \subseteq Index
  /\ handles \in Seq(Index)
  /\ next \in 1..N + 1
  /\ ready = Cardinality(Answered)
  /\ pc = "scan" => \A i \in next..N : revents[i] = {}
  /\ pc = "wait" => ready = 0

LEMMA AnsweredFinite ==
  IsFiniteSet(Index) /\ IsFiniteSet(Answered) /\ Cardinality(Answered) \in Nat
<1>1. IsFiniteSet(Index)
  BY ConstantsAssumption, FS_Interval DEF Index
<1>2. IsFiniteSet(Answered)
  BY <1>1, FS_Subset DEF Answered
<1> QED BY <1>1, <1>2, FS_CardinalityType

\* A descriptor that had no answer gets one, perhaps an empty one.
LEMMA AnswerCounts ==
  ASSUME CountInv, NEW i \in Index, revents[i] = {},
         NEW reply \in SUBSET Replies, Answer(i, reply)
  PROVE  /\ revents' \in [Index -> SUBSET Replies]
         /\ ready' = Cardinality(Answered')
         /\ \A j \in Index \ {i} : revents'[j] = revents[j]
<1>1. /\ revents' \in [Index -> SUBSET Replies]
      /\ revents'[i] = reply
      /\ \A j \in Index \ {i} : revents'[j] = revents[j]
  BY DEF CountInv, Answer
<1>2. i \notin Answered
  BY DEF Answered
<1>3. CASE reply = {}
  <2>1. Answered' = Answered
    BY <1>1, <1>3 DEF Answered
  <2>2. ready' = ready
    BY <1>3, AnsweredFinite DEF Answer, Count, CountInv
  <2> QED BY <1>1, <2>1, <2>2 DEF CountInv
<1>4. CASE reply # {}
  <2>1. Answered' = Answered \cup {i}
    BY <1>1, <1>4 DEF Answered
  <2>2. ready' = ready + 1
    BY <1>4 DEF Answer, Count
  <2>3. Cardinality(Answered \cup {i}) = Cardinality(Answered) + 1
    BY <1>2, AnsweredFinite, FS_AddElement
  <2> QED BY <1>1, <2>1, <2>2, <2>3 DEF CountInv
<1> QED BY <1>3, <1>4

\* Some descriptors that had no answer get one each.
LEMMA AnswersCount ==
  ASSUME CountInv, NEW S \in SUBSET Index, \A i \in S : revents[i] = {},
         Answered' = Answered \cup S, ready' = ready + Cardinality(S)
  PROVE  ready' = Cardinality(Answered')
<1>1. IsFiniteSet(S) /\ Cardinality(S) \in Nat
  BY AnsweredFinite, FS_Subset, FS_CardinalityType
<1>2. Answered \cap S = {}
  BY DEF Answered
<1>3. Cardinality(Answered \cup S) = Cardinality(Answered) + Cardinality(S)
  BY <1>1, <1>2, AnsweredFinite, FS_Union, FS_EmptySet
<1> QED BY <1>3 DEF CountInv

LEMMA RepliesTyped ==
  ASSUME CountInv, NEW i \in Index
  PROVE  /\ PipeReply(i) \in SUBSET Replies
         /\ SocketReply(i) \in SUBSET Replies
         /\ events[i] \in SUBSET Replies
         /\ events[i] \cap {"IN", "OUT"} \in SUBSET Replies
<1>1. events[i] \subseteq Replies
  BY DEF CountInv, Replies
<1>2. Peek(i) \subseteq Replies
  BY DEF Peek, Replies, Events
<1>3. PipeReply(i) \subseteq Replies
  BY <1>1, <1>2 DEF PipeReply, Replies, Events
<1>4. SocketReply(i) \subseteq Replies
  BY DEF SocketReply, Replies, Events
<1> QED BY <1>1, <1>3, <1>4

LEMMA CountInit == Init => CountInv
<1> SUFFICES ASSUME Init PROVE CountInv
  OBVIOUS
<1>1. events \in [Index -> SUBSET Events]
  BY ConstantsAssumption DEF Init
<1>2. revents \in [Index -> SUBSET Replies] /\ Answered = {}
  BY DEF Init, Answered
<1>3. ready = Cardinality(Answered)
  BY <1>2, FS_EmptySet DEF Init
<1> QED
  BY <1>1, <1>2, <1>3, ConstantsAssumption DEF Init, CountInv, Index

\* The other steps change neither revents nor ready_count.
LEMMA CountKept ==
  ASSUME CountInv,
         UNCHANGED <<events, revents, isSocket, handles, next, ready>>,
         pc' = "scan" => pc = "scan", pc' = "wait" => ready = 0
  PROVE  CountInv'
BY DEF CountInv, Answered

LEMMA ScanStep == CountInv /\ Scan => CountInv'
<1> SUFFICES ASSUME CountInv, Scan PROVE CountInv'
  OBVIOUS
<1>1. /\ next \in Index /\ pc' = pc /\ next' = next + 1 /\ events' = events
      /\ next' \in 1..N + 1 /\ pc = "scan" /\ revents[next] = {}
      /\ next'..N \subseteq next..N /\ next \notin next'..N
      /\ next'..N \subseteq Index
  BY ConstantsAssumption DEF Scan, CountInv, Index, args
<1>2. ASSUME NEW reply \in SUBSET Replies, Answer(next, reply),
             isSocket' \subseteq Index, handles' \in Seq(Index)
      PROVE  CountInv'
  <2>1. /\ revents' \in [Index -> SUBSET Replies]
        /\ ready' = Cardinality(Answered')
        /\ \A j \in Index \ {next} : revents'[j] = revents[j]
    BY <1>1, <1>2, AnswerCounts
  <2>2. \A i \in next'..N : revents'[i] = {}
    BY <1>1, <2>1 DEF CountInv
  <2> QED BY <1>1, <1>2, <2>1, <2>2 DEF CountInv
<1>3. CASE ScanNegative(next)
  BY <1>1, <1>2, <1>3 DEF ScanNegative, CountInv
<1>4. CASE ScanSocket(next)
  <2>1. Answered' = Answered
    BY <1>4 DEF ScanSocket, Answered
  <2> QED BY <1>1, <1>4, <2>1 DEF ScanSocket, CountInv
<1>5. CASE ScanInvalid(next)
  BY <1>1, <1>2, <1>5 DEF ScanInvalid, CountInv, Replies
<1>6. CASE ScanPipe(next)
  <2>1. handles' \in Seq(Index)
    BY <1>1, <1>6 DEF ScanPipe, CountInv
  <2> QED BY <1>1, <1>2, <1>6, <2>1, RepliesTyped DEF ScanPipe, CountInv
<1>7. CASE ScanFile(next)
  BY <1>1, <1>2, <1>7, RepliesTyped DEF ScanFile, CountInv
<1> QED BY <1>3, <1>4, <1>5, <1>6, <1>7 DEF Scan

LEMMA NoWait ==
  ASSUME NEW n, AfterPipes(n) \/ Finish(n)
  PROVE  pc' \in {"sets", "sleep", "returned"}
BY DEF AfterPipes, Finish

LEMMA WaitSignalledStep == CountInv /\ WaitSignalled => CountInv'
<1> SUFFICES ASSUME CountInv, WaitSignalled PROVE CountInv'
  OBVIOUS
<1>1. Answered = {}
  <2>1. Cardinality(Answered) = 0
    BY DEF CountInv, WaitSignalled
  <2> QED BY <2>1, AnsweredFinite, FS_EmptySet
<1>2. PICK i \in Index, reply \in SUBSET Replies :
        Answer(i, reply) /\ AfterPipes(ready + Count(reply))
  <2>1. PICK k \in DOMAIN handles :
          LET i == handles[k]
              reply == IF helper THEN PipeReply(i)
                       ELSE events[i] \cap {"IN", "OUT"}
          IN Answer(i, reply) /\ AfterPipes(ready + Count(reply))
    BY DEF WaitSignalled
  <2>2. handles[k] \in Index
    BY <2>1 DEF CountInv
  <2> QED BY <2>1, <2>2, RepliesTyped
<1>3. revents[i] = {}
  BY <1>1, <1>2 DEF Answered
<1>4. /\ revents' \in [Index -> SUBSET Replies]
      /\ ready' = Cardinality(Answered')
  BY <1>2, <1>3, AnswerCounts
<1>5. pc' \notin {"scan", "wait"}
  BY <1>2, NoWait
<1> QED
  BY <1>4, <1>5 DEF CountInv, WaitSignalled, WaitFrame, args

LEMMA BuildSetsStep == CountInv /\ BuildSets => CountInv'
<1> SUFFICES ASSUME CountInv, BuildSets PROVE CountInv'
  OBVIOUS
<1> DEFINE gone == {i \in Selected : ~open[i]}
<1>1. gone \in SUBSET Index /\ \A i \in gone : revents[i] = {}
  BY DEF Selected, CountInv
<1>2. /\ revents' = [i \in Index |-> IF i \in gone THEN {"NVAL"} ELSE revents[i]]
      /\ ready' = ready + Cardinality(gone)
  BY DEF BuildSets
<1>3. revents' \in [Index -> SUBSET Replies]
  BY <1>2 DEF CountInv, Replies
<1>4. Answered' = Answered \cup gone
  BY <1>1, <1>2 DEF Answered
<1>5. ready' = Cardinality(Answered')
  BY <1>1, <1>2, <1>4, AnswersCount
<1> QED BY <1>3, <1>5 DEF BuildSets, CountInv, args

LEMMA CollectStep == CountInv /\ Collect => CountInv'
<1> SUFFICES ASSUME CountInv, Collect PROVE CountInv'
  OBVIOUS
<1> DEFINE live == {i \in Selected : open[i]}
           found == {i \in live : SocketReply(i) # {}}
<1>1. live \in SUBSET Index /\ \A i \in live : revents[i] = {}
  BY DEF Selected, CountInv
<1>2. /\ revents' = [i \in Index |-> IF i \in live THEN SocketReply(i)
                                     ELSE revents[i]]
      /\ ready' = ready + Cardinality(found)
      /\ Finish(ready + Cardinality(found))
  BY DEF Collect
<1>3. revents' \in [Index -> SUBSET Replies]
  <2> HIDE DEF live
  <2> QED BY <1>1, <1>2, RepliesTyped DEF CountInv
<1>4. Answered' = Answered \cup found
  <2>1. \A i \in Index : revents'[i] = IF i \in live THEN SocketReply(i)
                                       ELSE revents[i]
    BY <1>2
  <2>2. \A i \in live : revents[i] = {} /\ i \in Index
    BY <1>1
  <2> HIDE DEF live
  <2> QED BY <2>1, <2>2 DEF Answered
<1>5. found \in SUBSET Index /\ \A i \in found : revents[i] = {}
  BY <1>1
<1>6. ready' = Cardinality(Answered')
  BY <1>2, <1>4, <1>5, AnswersCount
<1>7. pc' \notin {"scan", "wait"}
  BY <1>2, NoWait
<1> QED BY <1>3, <1>6, <1>7 DEF Collect, CountInv, args

LEMMA CountStep == CountInv /\ [Next]_vars => CountInv'
<1> SUFFICES ASSUME CountInv, [Next]_vars PROVE CountInv'
  OBVIOUS
<1>1. CASE Scan
  BY <1>1, ScanStep
<1>2. CASE WaitStarts
  BY <1>2, CountKept, NoWait DEF WaitStarts, args
<1>3. CASE WaitSignalled
  BY <1>3, WaitSignalledStep
<1>4. CASE WaitTimesOut
  BY <1>4, CountKept, NoWait DEF WaitTimesOut, WaitFrame, args
<1>5. CASE WaitFails
  BY <1>5, CountKept, NoWait DEF WaitFails, WaitFrame, args
<1>6. CASE BuildSets
  BY <1>6, BuildSetsStep
<1>7. CASE SelectReturns
  BY <1>7, CountKept DEF SelectReturns, SelectFrame, args
<1>8. CASE SelectRefuses \/ SelectFails
  BY <1>8, CountKept, NoWait
     DEF SelectRefuses, SelectFails, SelectError, SelectFrame, args
<1>9. CASE Collect
  BY <1>9, CollectStep
<1>10. CASE Wake
  BY <1>10, CountKept DEF Wake, args
<1>11. CASE Surroundings \/ Tick
  <2>1. UNCHANGED <<events, revents, isSocket, handles, next, ready, pc>>
    BY <1>11 DEF Surroundings, Tick, caller, args
  <2> QED BY <2>1, CountKept DEF CountInv
<1>12. CASE UNCHANGED vars
  <2>1. UNCHANGED <<events, revents, isSocket, handles, next, ready, pc>>
    BY <1>12 DEF vars, args
  <2> QED BY <2>1, CountKept DEF CountInv
<1> QED
  BY <1>1, <1>2, <1>3, <1>4, <1>5, <1>6, <1>7, <1>8, <1>9, <1>10, <1>11,
     <1>12 DEF Next, poll

\* poll returns the number of descriptors whose revents is not empty, for any
\* array of descriptors, any timeout and any length of the list of handles,
\* whatever other threads read and close between its passes.
THEOREM CountIsRight == Spec => []CountMatches
<1>1. CountInv => CountMatches
  BY DEF CountInv, CountMatches, Answered
<1> QED BY <1>1, CountInit, CountStep, PTL DEF Spec

-----------------------------------------------------------------------------
(* How long poll takes.  The budget is spent in order: one timeout for the *)
(* pipes, one for the sockets, one for the sleep.  A wait that begins adds *)
(* at most the timeout to the time that is over, and after an answer of    *)
(* the first pass the only wait left is a select that does not wait.       *)

PipeTime == IF early > 0 \/ handles = <<>> THEN 0 ELSE timeout
SocketTime == IF early > 0 \/ isSocket = {} THEN 0 ELSE timeout

TimeSpent ==
  /\ pc = "scan" => now = 0
  /\ pc = "wait" => /\ early = 0 /\ handles # <<>>
                    /\ deadline = timeout /\ now <= deadline
  /\ pc = "sets" => isSocket # {} /\ now <= PipeTime
  /\ pc = "select" => /\ deadline \in Nat /\ now <= deadline
                      /\ deadline <= PipeTime + SocketTime
  /\ pc = "collect" => now <= PipeTime + SocketTime
  /\ pc = "sleep" => /\ deadline \in Nat /\ now <= deadline
                     /\ ready = 0
                     /\ deadline <= PipeTime + SocketTime + timeout
  /\ pc = "returned" =>
       now <= PipeTime + SocketTime + (IF ready = 0 THEN timeout ELSE 0)

TimeInv ==
  /\ timeout \in Int /\ now \in Nat /\ early \in Nat
  /\ pc \in Waiting \cup {"scan", "sets", "collect", "returned"}
  /\ pc = "scan" => early = 0
  /\ pc # "scan" => early <= ready
  /\ timeout >= 0 => TimeSpent

\* ready_count is never taken back.
LEMMA ReadyGrows ==
  ASSUME CountInv, [Next]_vars
  PROVE  ready \in Nat /\ ready' \in Nat /\ ready <= ready'
<1>1. ready \in Nat
  BY AnsweredFinite DEF CountInv
<1>2. ASSUME NEW i, NEW reply, Answer(i, reply)
      PROVE  ready' \in Nat /\ ready <= ready'
  BY <1>1, <1>2 DEF Answer, Count
<1>3. ASSUME NEW S \in SUBSET Index, ready' = ready + Cardinality(S)
      PROVE  ready' \in Nat /\ ready <= ready'
  <2>1. Cardinality(S) \in Nat
    BY AnsweredFinite, FS_Subset, FS_CardinalityType
  <2> QED BY <1>1, <1>3, <2>1
<1>4. CASE Scan
  BY <1>1, <1>2, <1>4
     DEF Scan, ScanNegative, ScanSocket, ScanInvalid, ScanPipe, ScanFile
<1>5. CASE WaitSignalled
  <2>1. PICK k, reply : k \in DOMAIN handles /\ Answer(handles[k], reply)
    BY <1>5 DEF WaitSignalled
  <2> QED BY <1>1, <1>2, <2>1
<1>6. CASE BuildSets
  <2> DEFINE gone == {i \in Selected : ~open[i]}
  <2>1. gone \in SUBSET Index
    BY DEF Selected, CountInv
  <2>2. ready' = ready + Cardinality(gone)
    BY <1>6 DEF BuildSets
  <2> HIDE DEF gone
  <2> QED BY <1>1, <1>3, <2>1, <2>2
<1>7. CASE Collect
  <2> DEFINE found == {i \in {j \in Selected : open[j]} : SocketReply(i) # {}}
  <2>1. found \in SUBSET Index
    BY DEF Selected, CountInv
  <2>2. ready' = ready + Cardinality(found)
    BY <1>7 DEF Collect
  <2> HIDE DEF found
  <2> QED BY <1>1, <1>3, <2>1, <2>2
<1>8. CASE \/ WaitStarts \/ WaitTimesOut \/ WaitFails \/ SelectReturns
           \/ SelectRefuses \/ SelectFails \/ Wake \/ Surroundings \/ Tick
           \/ UNCHANGED vars
  BY <1>1, <1>8
     DEF WaitStarts, WaitTimesOut, WaitFails, WaitFrame, SelectReturns,
         SelectRefuses, SelectFails, SelectError, SelectFrame, Wake,
         Surroundings, caller, Tick, vars
<1> QED
  BY <1>4, <1>5, <1>6, <1>7, <1>8 DEF Next, poll

LEMMA TimeInit == Init => TimeInv
BY ConstantsAssumption DEF Init, TimeInv, TimeSpent, Waiting

\* The other steps of the caller: nothing the budget is made of changes.
LEMMA TimeStep == CountInv /\ TimeInv /\ [Next]_vars => TimeInv'
<1> SUFFICES ASSUME CountInv, TimeInv, [Next]_vars PROVE TimeInv'
  OBVIOUS
<1>1. ready \in Nat /\ ready' \in Nat /\ ready <= ready'
  BY ReadyGrows
<1>2. timeout \in Int /\ now \in Nat /\ early \in Nat
  BY DEF TimeInv
<1>3. (pc = "wait" => ready = 0) /\ (pc = "scan" => early = 0)
  BY DEF CountInv, TimeInv
<1> USE <1>1, <1>2, <1>3 DEF Waiting
<1>4. CASE Scan
  BY <1>4 DEF Scan, TimeInv, TimeSpent, args
<1>5. CASE WaitStarts
  BY <1>5
     DEF WaitStarts, AfterPipes, Finish, Until, Never, TimeInv, TimeSpent,
         PipeTime, SocketTime, args
<1>6. CASE WaitSignalled
  <2>1. PICK k, reply :
          /\ k \in DOMAIN handles /\ Answer(handles[k], reply)
          /\ AfterPipes(ready + Count(reply))
    BY <1>6 DEF WaitSignalled
  <2>2. AfterPipes(ready')
    BY <2>1 DEF Answer
  <2> QED
    BY <1>6, <2>2
       DEF WaitSignalled, WaitFrame, AfterPipes, Finish, Until, Never,
           TimeInv, TimeSpent, PipeTime, SocketTime, args
<1>7. CASE WaitTimesOut \/ WaitFails
  <2>1. /\ AfterPipes(ready') /\ ready' = ready /\ pc = "wait"
        /\ UNCHANGED <<timeout, now, isSocket, handles, early>>
    BY <1>7 DEF WaitTimesOut, WaitFails, WaitFrame, args
  <2> QED
    BY <2>1
       DEF AfterPipes, Finish, Until, Never, TimeInv, TimeSpent, PipeTime,
           SocketTime
<1>8. CASE BuildSets
  <2>1. /\ deadline' = Until(SelectTimeout(ready'))
        /\ pc = "sets" /\ pc' = "select"
        /\ UNCHANGED <<timeout, now, isSocket, handles, early>>
    BY <1>8 DEF BuildSets, args
  <2> QED
    BY <2>1
       DEF Until, Never, SelectTimeout, TimeInv, TimeSpent, PipeTime,
           SocketTime
<1>9. CASE SelectReturns
  BY <1>9
     DEF SelectReturns, SelectFrame, TimeInv, TimeSpent, PipeTime,
         SocketTime, args
<1>10. CASE SelectRefuses \/ SelectFails
  BY <1>10
     DEF SelectRefuses, SelectFails, SelectError, SelectFrame, Finish, Until,
         Never, TimeInv, TimeSpent, PipeTime, SocketTime, args
<1>11. CASE Collect
  <2>1. /\ Finish(ready') /\ pc = "collect"
        /\ UNCHANGED <<timeout, now, isSocket, handles, early>>
    BY <1>11 DEF Collect, args
  <2> QED
    BY <2>1
       DEF Finish, Until, Never, TimeInv, TimeSpent, PipeTime, SocketTime
<1>12. CASE Wake
  BY <1>12 DEF Wake, TimeInv, TimeSpent, PipeTime, SocketTime, args
<1>13. CASE Tick
  BY <1>13
     DEF Tick, Waiting, Never, TimeInv, TimeSpent, PipeTime, SocketTime, args
<1>14. CASE Surroundings \/ UNCHANGED vars
  BY <1>14
     DEF Surroundings, caller, vars, TimeInv, TimeSpent, PipeTime,
         SocketTime, args
<1> QED
  BY <1>4, <1>5, <1>6, <1>7, <1>8, <1>9, <1>10, <1>11, <1>12, <1>13, <1>14
     DEF Next, poll

\* With a timeout poll takes no time if the first pass found something, else
\* at most one timeout each for the pipes and the sockets it has, and one more
\* for the sleep if nothing came, for any timeout and any array.
THEOREM WaitsAreBounded == Spec => []WaitsBounded
<1>1. CountInv /\ TimeInv => WaitsBounded
  <2> SUFFICES ASSUME CountInv, TimeInv, timeout >= 0
               PROVE  WaitsBounded
    BY DEF WaitsBounded
  <2>1. ready \in Nat /\ early \in Nat /\ timeout \in Nat /\ now \in Nat
    BY AnsweredFinite DEF CountInv, TimeInv
  <2>2. CASE early > 0
    <3>1. now <= 0
      BY <2>1, <2>2
         DEF TimeInv, TimeSpent, PipeTime, SocketTime, Waiting
    <3> QED BY <2>1, <2>2, <3>1 DEF WaitsBounded
  <2>3. CASE early = 0
    <3> DEFINE h == IF handles # <<>> THEN 1 ELSE 0
               s == IF isSocket # {} THEN 1 ELSE 0
               z == IF pc \in {"sleep", "returned"} /\ ready = 0 THEN 1 ELSE 0
    <3>1. /\ PipeTime = (IF h = 1 THEN timeout ELSE 0)
          /\ SocketTime = (IF s = 1 THEN timeout ELSE 0)
      BY <2>3 DEF PipeTime, SocketTime
    <3>2. now <= PipeTime + SocketTime + (IF z = 1 THEN timeout ELSE 0)
      BY <2>1, <2>3, <3>1 DEF TimeInv, TimeSpent, Waiting
    <3>3. h \in {0, 1} /\ s \in {0, 1} /\ z \in {0, 1}
      OBVIOUS
    <3>4. WaitsBounded <=> now <= timeout * (h + s + z)
      BY <2>1, <2>3 DEF WaitsBounded
    <3> HIDE DEF h, s, z
    <3>5. \/ timeout * (h + s + z) = timeout * 0 /\ h = 0 /\ s = 0 /\ z = 0
          \/ timeout * (h + s + z) = timeout * 1 /\ h + s + z = 1
          \/ timeout * (h + s + z) = timeout * 2 /\ h + s + z = 2
          \/ timeout * (h + s + z) = timeout * 3 /\ h + s + z = 3
      BY <3>3
    <3> QED BY <2>1, <3>1, <3>2, <3>3, <3>4, <3>5
  <2> QED BY <2>1, <2>2, <2>3
<1>2. CountInv /\ TimeInv /\ [Next]_vars => (CountInv /\ TimeInv)'
  BY CountStep, TimeStep
<1> QED BY <1>1, <1>2, CountInit, TimeInit, PTL DEF Spec

-----------------------------------------------------------------------------
(* What was there at the call.  A descriptor whose bytes nobody has taken  *)
(* is answered by the first pass, or it is a socket of the cache without   *)
(* an answer: then it goes into the sets, select leaves it there, and the  *)
(* last pass finds its bytes.                                              *)

Reported(i) == revents[i] \cap {"IN", "ERR"} # {}
Pending(i) == i \in isSocket /\ revents[i] = {}

SurroundingsInv ==
  /\ data \in [Index -> BOOLEAN] /\ open \in [Index -> BOOLEAN]
  /\ \A i \in Index : data[i] => kind[i] \in {"source", "socket"}
  /\ untouched \subseteq {i \in Index : data[i] /\ open[i]}

\* The pipes that are waited for are not in the cache of the sockets.
ApartInv ==
  /\ \A i \in isSocket : pc = "scan" => i < next
  /\ \A k \in DOMAIN handles :
       handles[k] \notin isSocket /\ (pc = "scan" => handles[k] < next)

ReportedSoFar(i) ==
  /\ pc = "scan" /\ i < next => Reported(i) \/ Pending(i)
  /\ pc \in {"wait", "sets"} => Reported(i) \/ Pending(i)
  /\ pc \in {"select", "collect"} =>
       Reported(i) \/ (Pending(i) /\ i \in readfds)
  /\ pc \in {"sleep", "returned"} /\ ~failed => Reported(i)

ReportInv ==
  /\ SurroundingsInv
  /\ ApartInv
  /\ \A i \in untouched : Asks(i, "IN") => ReportedSoFar(i)

LEMMA ReportInit == Init => ReportInv
<1> SUFFICES ASSUME Init PROVE ReportInv
  OBVIOUS
<1>1. SurroundingsInv
  BY DEF Init, SurroundingsInv
<1>2. ApartInv
  BY DEF Init, ApartInv
<1>3. \A i \in untouched : i \in 1..N /\ ~(i < next) /\ pc = "scan"
  BY ConstantsAssumption DEF Init, Index
<1> QED BY <1>1, <1>2, <1>3 DEF ReportInv, ReportedSoFar

\* What the peers and the other threads do takes bytes away from the ones
\* that were there only together with the history of them.
LEMMA SurroundingsStep ==
  ASSUME CountInv, SurroundingsInv, [Next]_vars
  PROVE  SurroundingsInv' /\ untouched' \subseteq untouched
<1>1. CASE UNCHANGED <<args, env>>
  BY <1>1 DEF SurroundingsInv, args, env
<1>2. CASE Surroundings
  <2>1. PICK i \in Index : Arrive(i) \/ HangUp(i) \/ Take(i) \/ Close(i)
    BY <1>2 DEF Surroundings
  <2>2. kind' = kind
    BY <1>2 DEF Surroundings, args
  <2> QED
    BY <2>1, <2>2 DEF Arrive, HangUp, Take, Close, SurroundingsInv
<1>3. CASE poll \/ WaitSignalled \/ WaitFails \/ SelectFails \/ Tick
  BY <1>1, <1>3
     DEF poll, Scan, WaitStarts, WaitSignalled, WaitTimesOut, WaitFails,
         WaitFrame, BuildSets, SelectReturns, SelectRefuses, SelectFails,
         SelectError, SelectFrame, Collect, Wake, Tick
<1> QED
  BY <1>1, <1>2, <1>3 DEF Next, vars

LEMMA ApartStep ==
  ASSUME CountInv, ApartInv, [Next]_vars
  PROVE  ApartInv'
<1>1. CASE Scan
  <2>1. /\ next \in Nat /\ next' = next + 1 /\ pc = "scan" /\ pc' = "scan"
        /\ isSocket \subseteq Index /\ handles \in Seq(Index)
        /\ \A i \in Index : i \in Nat
        /\ next \in Index
    BY <1>1, ConstantsAssumption DEF Scan, CountInv, Index
  <2> DEFINE old == /\ \A i \in isSocket : i \in Nat /\ i < next
                    /\ \A k \in DOMAIN handles :
                         /\ handles[k] \notin isSocket
                         /\ handles[k] \in Nat /\ handles[k] < next
  <2>4. old
    <3>1. \A i \in isSocket : i \in Nat /\ i < next
      BY <2>1 DEF ApartInv
    <3>2. \A k \in DOMAIN handles : handles[k] \in Index
      BY <2>1
    <3>3. \A k \in DOMAIN handles :
            handles[k] \notin isSocket /\ handles[k] < next
      BY <2>1 DEF ApartInv
    <3> QED BY <2>1, <3>1, <3>2, <3>3
  <2>5. /\ next < next'
        /\ \A j \in Nat : j < next => j < next' /\ j # next
    BY <2>1
  <2>2. CASE handles' = handles
             /\ (isSocket' = isSocket \/ isSocket' = isSocket \cup {next})
    <3>1. \A i \in isSocket' : i < next'
      BY <2>2, <2>4, <2>5
    <3>2. \A k \in DOMAIN handles' :
            handles'[k] \notin isSocket' /\ handles'[k] < next'
      BY <2>2, <2>4, <2>5
    <3> QED BY <3>1, <3>2 DEF ApartInv
  <2>3. CASE handles' = Append(handles, next) /\ isSocket' = isSocket
    <3>1. \A k \in DOMAIN handles' :
            handles'[k] = next \/ (k \in DOMAIN handles
                                   /\ handles'[k] = handles[k])
      BY <2>1, <2>3
    <3> QED BY <2>1, <2>3, <2>4, <2>5, <3>1 DEF ApartInv
  <2> QED
    BY <1>1, <2>2, <2>3
       DEF Scan, ScanNegative, ScanSocket, ScanInvalid, ScanPipe, ScanFile
<1>2. CASE UNCHANGED <<handles, isSocket, next>>
           /\ (pc' = "scan" => pc = "scan")
  BY <1>2 DEF ApartInv
<1>3. CASE \/ WaitStarts \/ WaitSignalled \/ WaitTimesOut \/ WaitFails
           \/ BuildSets \/ SelectReturns \/ SelectRefuses \/ SelectFails
           \/ Collect \/ Wake \/ Surroundings \/ Tick \/ UNCHANGED vars
  BY <1>2, <1>3, NoWait
     DEF WaitStarts, WaitSignalled, WaitTimesOut, WaitFails, WaitFrame,
         BuildSets, SelectReturns, SelectRefuses, SelectFails, SelectError,
         SelectFrame, Collect, Wake, Surroundings, caller, Tick, vars
<1> QED BY <1>1, <1>3 DEF Next, poll

\* An array entry whose bytes are still there after the first pass has come
\* to it has been reported, or it is in the cache of the sockets.
LEMMA ScanReports ==
  ASSUME CountInv, ReportInv, Scan, NEW i \in untouched, Asks(i, "IN")
  PROVE  ReportedSoFar(i)'
<1>1. /\ pc = "scan" /\ pc' = "scan" /\ next' = next + 1 /\ next \in Index
      /\ next \in Nat /\ revents[next] = {} /\ i \in Index /\ i \in Nat
      /\ revents \in [Index -> SUBSET Replies]
    BY ConstantsAssumption
       DEF Scan, CountInv, Index, ReportInv, SurroundingsInv
<1>2. data[i] /\ open[i] /\ kind[i] \in {"source", "socket"}
  BY DEF ReportInv, SurroundingsInv
<1>3. CASE i # next
  <2>1. revents'[i] = revents[i] /\ isSocket \subseteq isSocket'
    BY <1>1, <1>3
       DEF Scan, ScanNegative, ScanSocket, ScanInvalid, ScanPipe, ScanFile,
           Answer
  <2> QED
    BY <1>1, <1>3, <2>1
       DEF ReportInv, ReportedSoFar, Reported, Pending
<1>4. CASE i = next
  <2>1. CASE ScanSocket(next)
    BY <1>1, <1>4, <2>1 DEF ScanSocket, ReportedSoFar, Pending
  <2>2. CASE ScanPipe(next)
    <3>1. revents'[i] = PipeReply(i)
      BY <1>1, <1>4, <2>2 DEF ScanPipe, Answer
    <3>2. PipeReply(i) \cap {"IN", "ERR"} # {}
      BY <1>2 DEF PipeReply, Peek
    <3> QED BY <1>1, <3>1, <3>2 DEF ReportedSoFar, Reported
  <2> QED
    BY <1>2, <1>4, <2>1, <2>2
       DEF Scan, ScanNegative, ScanInvalid, ScanFile
<1> QED BY <1>3, <1>4

LEMMA WaitReports ==
  ASSUME CountInv, ReportInv, WaitSignalled, NEW i \in untouched,
         Asks(i, "IN")
  PROVE  ReportedSoFar(i)'
<1>1. PICK k, reply :
        /\ k \in DOMAIN handles /\ Answer(handles[k], reply)
        /\ AfterPipes(ready + Count(reply))
  BY DEF WaitSignalled
<1>2. /\ pc = "wait" /\ isSocket' = isSocket /\ i \in Index
      /\ revents \in [Index -> SUBSET Replies]
  BY DEF WaitSignalled, WaitFrame, ReportInv, SurroundingsInv, CountInv
<1>3. Answered = {}
  BY <1>2, AnsweredFinite, FS_EmptySet DEF CountInv
<1>4. i \in isSocket /\ revents[i] = {}
  BY <1>2, <1>3 DEF ReportInv, ReportedSoFar, Reported, Pending, Answered
<1>5. handles[k] # i
  BY <1>1, <1>4 DEF ReportInv, ApartInv
<1>6. revents'[i] = {}
  BY <1>1, <1>2, <1>4, <1>5 DEF Answer
<1>7. pc' = "sets"
  BY <1>1, <1>4 DEF AfterPipes
<1> QED BY <1>2, <1>4, <1>6, <1>7 DEF ReportedSoFar, Pending

\* The other ends of the waits: the sockets come next, if there are any.
LEMMA AfterPipesReports ==
  ASSUME ReportInv, NEW n, AfterPipes(n),
         pc = "wait" \/ (pc = "scan" /\ next > N /\ next \in Nat),
         UNCHANGED <<revents, isSocket>>, NEW i \in untouched, Asks(i, "IN")
  PROVE  ReportedSoFar(i)'
<1>1. Reported(i) \/ Pending(i)
  <2>1. i \in 1..N
    BY DEF ReportInv, SurroundingsInv, Index
  <2>2. pc = "scan" => i < next
    BY <2>1, ConstantsAssumption
  <2> QED BY <2>2 DEF ReportInv, ReportedSoFar
<1>2. (Reported(i) \/ Pending(i))' /\ (isSocket' = {} => Reported(i)')
  BY <1>1 DEF Reported, Pending
<1>3. \/ pc' = "sets"
      \/ isSocket' = {} /\ pc' \in {"sleep", "returned"}
  BY DEF AfterPipes, Finish
<1> QED BY <1>2, <1>3 DEF ReportedSoFar

LEMMA BuildSetsReports ==
  ASSUME CountInv, ReportInv, BuildSets, NEW i \in untouched, Asks(i, "IN")
  PROVE  ReportedSoFar(i)'
<1>1. /\ pc = "sets" /\ pc' = "select" /\ isSocket' = isSocket
      /\ i \in Index /\ open[i]
  BY DEF BuildSets, ReportInv, SurroundingsInv
<1>2. revents'[i] = revents[i]
  BY <1>1 DEF BuildSets
<1>3. i \in Selected => i \in readfds'
  BY <1>1 DEF BuildSets
<1>4. Reported(i) \/ Pending(i)
  BY <1>1 DEF ReportInv, ReportedSoFar
<1> QED
  BY <1>1, <1>2, <1>3, <1>4 DEF ReportedSoFar, Reported, Pending, Selected

LEMMA CollectReports ==
  ASSUME CountInv, ReportInv, Collect, NEW i \in untouched, Asks(i, "IN")
  PROVE  ReportedSoFar(i)'
<1>1. /\ pc = "collect" /\ pc' \in {"sleep", "returned"}
      /\ i \in Index /\ open[i] /\ data[i]
  BY DEF Collect, Finish, ReportInv, SurroundingsInv
<1>2. Reported(i) \/ (Pending(i) /\ i \in readfds)
  BY <1>1 DEF ReportInv, ReportedSoFar
<1>3. CASE i \in Selected
  <2>1. revents'[i] = SocketReply(i)
    BY <1>1, <1>3 DEF Collect
  <2>2. "IN" \in SocketReply(i)
    BY <1>1, <1>2, <1>3 DEF SocketReply, Selected, Reported
  <2> QED BY <1>1, <2>1, <2>2 DEF ReportedSoFar, Reported
<1>4. CASE i \notin Selected
  <2>1. revents'[i] = revents[i]
    BY <1>1, <1>4 DEF Collect
  <2> QED
    BY <1>1, <1>2, <1>4, <2>1
       DEF ReportedSoFar, Reported, Selected, Pending
<1> QED BY <1>3, <1>4

LEMMA ReportStep == CountInv /\ ReportInv /\ [Next]_vars => ReportInv'
<1> SUFFICES ASSUME CountInv, ReportInv, [Next]_vars PROVE ReportInv'
  OBVIOUS
<1>1. /\ SurroundingsInv' /\ ApartInv' /\ untouched' \subseteq untouched
      /\ events' = events
  <2>1. events' = events
    BY DEF Next, poll, vars, Scan, WaitStarts, WaitSignalled, WaitTimesOut,
           WaitFails, WaitFrame, BuildSets, SelectReturns, SelectRefuses,
           SelectFails, SelectError, SelectFrame, Collect, Wake,
           Surroundings, Tick, args
  <2> QED BY <2>1, SurroundingsStep, ApartStep DEF ReportInv
<1> SUFFICES ASSUME NEW i \in untouched, Asks(i, "IN")
             PROVE  ReportedSoFar(i)'
  BY <1>1 DEF ReportInv, Asks
<1>2. ReportedSoFar(i)
  BY DEF ReportInv
<1>3. CASE Scan
  BY <1>3, ScanReports
<1>4. CASE WaitSignalled
  BY <1>4, WaitReports
<1>5. CASE WaitStarts
  <2>1. CASE AfterPipes(ready)
    BY <1>5, <2>1, AfterPipesReports, ConstantsAssumption
       DEF WaitStarts, CountInv
  <2>2. CASE pc' = "wait"
    <3>1. i < next /\ pc = "scan" /\ UNCHANGED <<revents, isSocket>>
      BY <1>5, ConstantsAssumption
         DEF WaitStarts, CountInv, ReportInv, SurroundingsInv, Index
    <3> QED BY <1>2, <2>2, <3>1 DEF ReportedSoFar, Reported, Pending
  <2> QED BY <1>5, <2>1, <2>2 DEF WaitStarts
<1>6. CASE WaitTimesOut \/ WaitFails
  BY <1>6, AfterPipesReports DEF WaitTimesOut, WaitFails, WaitFrame
<1>7. CASE BuildSets
  BY <1>7, BuildSetsReports
<1>8. CASE SelectReturns
  <2>1. i \in readfds => i \in readfds'
    BY <1>8 DEF SelectReturns, Readable, ReportInv, SurroundingsInv
  <2> QED
    BY <1>2, <1>8, <2>1
       DEF SelectReturns, SelectFrame, ReportedSoFar, Reported, Pending
<1>9. CASE SelectRefuses \/ SelectFails
  BY <1>9
     DEF SelectRefuses, SelectFails, SelectError, Finish, ReportedSoFar
<1>10. CASE Collect
  BY <1>10, CollectReports
<1>11. CASE Wake
  BY <1>2, <1>11 DEF Wake, ReportedSoFar, Reported
<1>12. CASE Surroundings \/ Tick \/ UNCHANGED vars
  <2>1. UNCHANGED <<pc, next, revents, isSocket, readfds, failed>>
    BY <1>12 DEF Surroundings, caller, Tick, vars, sets
  <2> QED BY <1>2, <2>1 DEF ReportedSoFar, Reported, Pending
<1> QED
  BY <1>3, <1>4, <1>5, <1>6, <1>7, <1>8, <1>9, <1>10, <1>11, <1>12
     DEF Next, poll

\* Bytes that were there when poll was called, and that nobody has read or
\* closed when it returns, are reported if they were asked for, whatever
\* else became ready first; unless select or a wait failed.
THEOREM NothingAtCallIsMissed == Spec => []ReadyAtCallIsReported
<1>1. ReportInv => ReadyAtCallIsReported
  BY DEF ReportInv, ReportedSoFar, Reported, ReadyAtCallIsReported
<1>2. CountInv /\ ReportInv /\ [Next]_vars => (CountInv /\ ReportInv)'
  BY CountStep, ReportStep
<1> QED BY <1>1, <1>2, CountInit, ReportInit, PTL DEF Spec

-----------------------------------------------------------------------------
(* A poll without a timeout.  As long as nothing is ready its select has   *)
(* no time limit, so it leaves a socket in the sets, and the last pass has *)
(* an answer for that one unless it was closed.                            *)

InSets(i) == i \in readfds \cup writefds \cup exceptfds
Closed == \E i \in isSocket : ~open[i]

AnswerInv ==
  /\ timeout \in Int
  /\ readfds \cup writefds \cup exceptfds \subseteq isSocket
  /\ pc = "sleep" => timeout > 0
  /\ timeout < 0 /\ ready = 0 =>
       /\ pc = "select" => deadline = Never
       /\ pc = "collect" => Closed \/ \E i \in isSocket : InSets(i)
       /\ pc = "returned" /\ ~failed => isSocket = {} \/ Closed

LEMMA AnswerInit == Init => AnswerInv
BY ConstantsAssumption DEF Init, AnswerInv

\* A step that goes on with the sockets, or ends the call without any.
LEMMA AfterPipesAnswers ==
  ASSUME CountInv, AnswerInv, NEW n, AfterPipes(n), n = ready',
         UNCHANGED <<timeout, isSocket, readfds, writefds, exceptfds>>
  PROVE  AnswerInv'
BY DEF AfterPipes, Finish, AnswerInv

\* Nothing is ready after the last pass: a socket the sets still held was
\* closed.
LEMMA CollectAnswers ==
  ASSUME CountInv, AnswerInv, CountInv', Collect, timeout < 0, ready' = 0,
         ready = 0
  PROVE  Closed
<1>1. revents' = [i \in Index |-> IF i \in Selected /\ open[i]
                                  THEN SocketReply(i) ELSE revents[i]]
  BY DEF Collect
<1>2. Answered' = {} /\ Answered = {}
  <2>1. Cardinality(Answered') = 0 /\ Cardinality(Answered) = 0
    BY DEF CountInv
  <2>2. IsFiniteSet(Answered) /\ IsFiniteSet(Answered')
    BY AnsweredFinite, FS_Subset DEF Answered
  <2> QED BY <2>1, <2>2, FS_EmptySet
<1>3. CASE Closed
  BY <1>3
<1>4. CASE \E i \in isSocket : InSets(i)
  <2>1. PICK i \in isSocket : InSets(i)
    BY <1>4
  <2>2. i \in Index /\ revents[i] = {} /\ revents'[i] = {}
    BY <1>2 DEF Answered, CountInv
  <2>3. SocketReply(i) # {}
    BY <2>1 DEF InSets, SocketReply
  <2>4. i \in Selected
    BY <2>2 DEF Selected
  <2>5. ~open[i]
    BY <1>1, <2>2, <2>3, <2>4
  <2> QED BY <2>5 DEF Closed
<1> QED BY <1>3, <1>4 DEF AnswerInv, Collect

LEMMA AnswerStep ==
  CountInv /\ SurroundingsInv /\ AnswerInv /\ [Next]_vars => AnswerInv'
<1> SUFFICES ASSUME CountInv, SurroundingsInv, AnswerInv, [Next]_vars
             PROVE  AnswerInv'
  OBVIOUS
<1>1. /\ ready \in Nat /\ ready' \in Nat /\ ready <= ready'
      /\ CountInv' /\ timeout \in Int
  BY ReadyGrows, CountStep DEF AnswerInv
<1>2. CASE Scan
  <2>1. isSocket \subseteq isSocket'
    BY <1>2
       DEF Scan, ScanNegative, ScanSocket, ScanInvalid, ScanPipe, ScanFile
  <2> QED BY <1>2, <2>1 DEF Scan, args, sets, AnswerInv
<1>3. CASE WaitStarts
  <2>1. CASE AfterPipes(ready)
    BY <1>3, <2>1, AfterPipesAnswers DEF WaitStarts, args, sets
  <2> QED BY <1>3, <2>1 DEF WaitStarts, args, sets, AnswerInv
<1>4. CASE WaitSignalled
  <2>1. PICK k, reply :
          /\ k \in DOMAIN handles /\ Answer(handles[k], reply)
          /\ AfterPipes(ready + Count(reply))
    BY <1>4 DEF WaitSignalled
  <2> QED
    BY <1>4, <2>1, AfterPipesAnswers
       DEF WaitSignalled, WaitFrame, Answer, args, sets
<1>5. CASE WaitTimesOut \/ WaitFails
  BY <1>5, AfterPipesAnswers
     DEF WaitTimesOut, WaitFails, WaitFrame, args, sets
<1>6. CASE BuildSets
  <2>1. /\ readfds' \cup writefds' \cup exceptfds' \subseteq isSocket'
        /\ deadline' = Until(SelectTimeout(ready')) /\ pc' = "select"
        /\ timeout' = timeout
    BY <1>6 DEF BuildSets, Selected, args
  <2> QED BY <1>1, <2>1 DEF Until, SelectTimeout, AnswerInv
<1>7. CASE SelectReturns
  <2>1. /\ readfds' \cup writefds' \cup exceptfds' \subseteq isSocket'
        /\ UNCHANGED <<timeout, ready, isSocket>>
        /\ pc = "select" /\ pc' = "collect"
    BY <1>7 DEF SelectReturns, SelectFrame, Readable, AnswerInv, args
  <2>2. deadline = Never \/ ~(timeout < 0 /\ ready = 0)
    BY <2>1 DEF AnswerInv
  <2>3. timeout < 0 /\ ready = 0 => \E i \in isSocket' : InSets(i)'
    BY <1>7, <2>1, <2>2 DEF SelectReturns, Expired, InSets
  <2> QED BY <2>1, <2>3 DEF AnswerInv
<1>8. CASE SelectRefuses \/ SelectFails
  BY <1>8
     DEF SelectRefuses, SelectFails, SelectError, SelectFrame, Finish,
         AnswerInv, args, sets
<1>9. CASE Collect
  <2>1. /\ pc' \in {"sleep", "returned"} /\ Finish(ready')
        /\ UNCHANGED <<timeout, isSocket, open, sets>>
    BY <1>9 DEF Collect, Finish, args, env
  <2>2. timeout < 0 /\ ready' = 0 => Closed
    BY <1>1, <1>9, CollectAnswers
  <2> QED BY <1>1, <2>1, <2>2 DEF Finish, AnswerInv, Closed, sets
<1>10. CASE Wake
  BY <1>10 DEF Wake, AnswerInv, args, sets
<1>11. CASE Tick \/ UNCHANGED vars
  BY <1>11 DEF Tick, vars, args, env, sets, AnswerInv, Closed, InSets
<1>12. CASE Surroundings
  <2>1. UNCHANGED <<timeout, pc, ready, isSocket, deadline, failed, readfds,
                    writefds, exceptfds>>
    BY <1>12 DEF Surroundings, caller, args, sets
  <2>2. Closed => Closed'
    <3>1. PICK i \in Index : Arrive(i) \/ HangUp(i) \/ Take(i) \/ Close(i)
      BY <1>12 DEF Surroundings
    <3>2. \A j \in Index : ~open[j] => ~open'[j]
      BY <3>1 DEF Arrive, HangUp, Take, Close, SurroundingsInv
    <3> QED BY <2>1, <3>2 DEF Closed, CountInv
  <2> QED BY <2>1, <2>2 DEF AnswerInv, InSets
<1> QED
  BY <1>2, <1>3, <1>4, <1>5, <1>6, <1>7, <1>8, <1>9, <1>10, <1>11, <1>12
     DEF Next, poll

\* A poll without a timeout that has sockets in its cache does not come back
\* with 0, unless select or a wait failed or one of the sockets was closed
\* during the call.
THEOREM SocketsAnswer == Spec => []SocketsAnswerInTheEnd
<1>1. AnswerInv => SocketsAnswerInTheEnd
  BY DEF AnswerInv, Closed, SocketsAnswerInTheEnd
<1>2. SurroundingsInv /\ CountInv /\ [Next]_vars => SurroundingsInv'
  BY SurroundingsStep
<1>3. Init => SurroundingsInv
  BY ReportInit DEF ReportInv
<1> QED
  BY <1>1, <1>2, <1>3, CountInit, CountStep, AnswerInit, AnswerStep, PTL
     DEF Spec
=============================================================================
