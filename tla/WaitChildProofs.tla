-------------------------- MODULE WaitChildProofs --------------------------
(***************************************************************************)
(* Proofs about WaitChild for any number of children and of handles per     *)
(* wait: the threads waitid uses are a chain, of which only the last one    *)
(* walks the snapshot; what is told up the chain is true; the handles fit    *)
(* and are closed; and nothing is found only after waits that were full.     *)
(***************************************************************************)
EXTENDS WaitChild, FiniteSetTheorems, TLAPS

LEMMA DivIsNat ==
  ASSUME NEW n \in Nat, NEW d \in Nat, d > 0
  PROVE  n \div d \in Nat
BY SMT

\* Main is the first of finitely many threads.
LEMMA ThreadsAreNumbers ==
  /\ \A t \in Threads : t \in Nat /\ 0..t \subseteq Threads
  /\ Main \in Threads /\ NoThread \notin Threads
<1>1. N \div (MAXIMUM_WAIT_OBJECTS - 1) \in Nat
  <2>1. N \in Nat /\ MAXIMUM_WAIT_OBJECTS - 1 \in Nat /\ MAXIMUM_WAIT_OBJECTS - 1 > 0
    BY WaitAssumption
  <2> QED
    BY <2>1, DivIsNat
<1>2. PICK k \in Nat : Threads = 0..k
  BY <1>1 DEF Threads
<1> QED
  BY <1>2 DEF Main, NoThread

-----------------------------------------------------------------------------
(* The chain.                                                              *)

Places == {"none", "call", "stopped", "first", "open", "open_one", "wait_one",
           "scan", "create", "wait", "join", "close", "last", "last_wait",
           "ended"}
Waiting   == {"wait", "join"}
\* where waitid and a helper thread need the snapshot
Walking   == {"stopped", "first", "scan", "create", "wait", "join", "close",
              "last", "last_wait"}
Live(t)   == pc[t] \notin {"none", "ended"}

ChainTypes ==
  /\ pc \in [Threads -> Places]
  /\ helper \in [Threads -> Threads \cup {NoThread}]
  /\ creator \in [Threads -> Threads \cup {NoThread}]
  /\ creator[Main] = NoThread
  /\ \A t \in Threads : pc[t] \in Waiting => helper[t] \in Threads

\* Threads are created in the order of their numbers.
Created ==
  \E k \in Threads : \A t \in Threads : pc[t] # "none" <=> t <= k

\* The creator of a live thread waits for it.
HasCreator(u) ==
  /\ creator[u] \in Threads /\ creator[u] < u
  /\ pc[creator[u]] \in Waiting /\ helper[creator[u]] = u

\* Every live thread but the last one waits for a thread that lives, the one
\* it created, and the snapshot is open as long as one needs it.
Chain ==
  /\ \A u \in Threads : Live(u) => u = Main \/ Live(Main)
  /\ \A t, u \in Threads :
       t < u /\ Live(t) /\ Live(u) =>
         /\ pc[t] \in Waiting
         /\ helper[t] \in Threads /\ helper[t] <= u /\ Live(helper[t])
  /\ \A u \in Threads \ {Main} : Live(u) => HasCreator(u)
  /\ pc[Main] \in Walking => "processes" \in snapshots

ChainInv == ChainTypes /\ Created /\ ("wait" \notin failed => Chain)

\* The steps before the children are walked are Main's, without helpers.
Alone == {"call", "stopped", "first", "open", "open_one", "wait_one"}
AloneStep(p) ==
  /\ pc[Main] \in Alone /\ p \in Alone \cup {"scan", "ended"}
  /\ pc' = [pc EXCEPT ![Main] = p]
  /\ p \in Walking => "processes" \in snapshots' \/ "wait" \in failed
  /\ UNCHANGED <<helper, creator>>
  /\ failed \subseteq failed'

\* A thread goes to q, creates no thread and leaves the snapshot open unless it
\* is Main and ends.
WalkStep(t, q) ==
  /\ pc[t] \in Walking /\ q \in Walking \cup {"ended"}
  /\ pc' = [pc EXCEPT ![t] = q]
  /\ q \in Waiting => pc[t] \in Waiting
  /\ q \notin Waiting /\ pc[t] \in Waiting =>
       pc[helper[t]] = "ended" \/ "wait" \in failed'
  /\ (t = Main /\ q = "ended") \/ UNCHANGED snapshots
  /\ creator' = creator
  /\ \/ helper' = helper
     \/ pc[t] = "close" /\ helper' = [helper EXCEPT ![t] = NoThread]
  /\ failed \subseteq failed'

LEMMA AloneKeepsChain ==
  ASSUME ChainInv, NEW p, AloneStep(p)
  PROVE  ChainInv'
<1> USE ThreadsAreNumbers DEF ChainInv, AloneStep, Alone, Waiting, Walking, Live
<1>1. ChainTypes'
  BY DEF ChainTypes, Places
<1>2. Created'
  <2>1. PICK k \in Threads : \A t \in Threads : pc[t] # "none" <=> t <= k
    BY DEF Created
  <2>2. \A t \in Threads : pc'[t] # "none" <=> pc[t] # "none"
    BY DEF ChainTypes
  <2> QED
    BY <2>1, <2>2 DEF Created
<1>3. ASSUME "wait" \notin failed'
      PROVE  Chain'
  <2>1. Chain
    BY <1>3
  <2>2. \A u \in Threads : u # Main => u > Main
    BY DEF Main
  <2>3. \A u \in Threads \ {Main} : ~Live(u) /\ pc'[u] = pc[u]
    BY <2>1, <2>2 DEF Chain, ChainTypes
  <2>4. \A u \in Threads : Live(u)' => u = Main
    BY <2>3
  <2>5. (\A u \in Threads : Live(u) => u = Main \/ Live(Main))'
    BY <2>4
  <2>6. \A s, u \in Threads : s < u => ~(Live(s)' /\ Live(u)')
    BY <2>4 DEF Main
  <2>7. pc'[Main] \in Walking => "processes" \in snapshots'
    BY <1>3 DEF ChainTypes
  <2>8. \A u \in Threads \ {Main} : ~Live(u)'
    BY <2>4
  <2> QED
    BY <2>5, <2>6, <2>7, <2>8 DEF Chain
<1> QED
  BY <1>1, <1>2, <1>3

LEMMA WalkKeepsChain ==
  ASSUME ChainInv, NEW t \in Threads, NEW q, WalkStep(t, q)
  PROVE  ChainInv'
<1> USE ThreadsAreNumbers DEF ChainInv, WalkStep, Waiting, Walking, Live
<1>1. ChainTypes'
  BY DEF ChainTypes, Places
<1>2. Created'
  <2>1. PICK k \in Threads : \A s \in Threads : pc[s] # "none" <=> s <= k
    BY DEF Created
  <2>2. \A s \in Threads : pc'[s] # "none" <=> pc[s] # "none"
    BY DEF ChainTypes
  <2> QED
    BY <2>1, <2>2 DEF Created
<1>3. ASSUME "wait" \notin failed'
      PROVE  Chain'
  <2>1. Chain
    BY <1>3
  <2>2. /\ \A u \in Threads : u # t => pc'[u] = pc[u]
        /\ \A u \in Threads : u # t => helper'[u] = helper[u]
    BY DEF ChainTypes
  <2>3. CASE pc'[t] \in Waiting
    <3>1. pc[t] \in Waiting /\ helper' = helper /\ UNCHANGED snapshots
      BY <2>3 DEF ChainTypes
    <3>2. \A u \in Threads : pc'[u] \in Waiting <=> pc[u] \in Waiting
      BY <2>2, <2>3, <3>1
    <3>3. \A u \in Threads : (pc'[u] \notin {"none", "ended"}) <=> Live(u)
      BY <2>2, <2>3, <3>1
    <3>4. ASSUME NEW u \in Threads \ {Main}, Live(u)'
          PROVE  HasCreator(u)'
      <4>1. HasCreator(u)
        BY <2>1, <3>3, <3>4 DEF Chain
      <4> QED
        BY <3>1, <3>2, <4>1 DEF HasCreator
    <3> QED
      BY <2>1, <3>1, <3>2, <3>3, <3>4 DEF Chain, ChainTypes
  <2>4. CASE pc'[t] \notin Waiting
    <3>1. ASSUME NEW u \in Threads, t < u
          PROVE  ~Live(u)
      <4>1. pc'[t] = q /\ Live(t)
        BY DEF ChainTypes
      <4>2. pc[t] \in Waiting => ~Live(helper[t])
        BY <1>3, <2>4, <4>1
      <4> QED
        BY <2>1, <3>1, <4>1, <4>2 DEF Chain
    <3>2. t = Main => \A u \in Threads : u # Main => ~Live(u)
      BY <3>1 DEF Main
    <3>3. \A u \in Threads : Live(u)' => Live(u) /\ u <= t
      BY <2>2, <3>1
    <3>4. (\A u \in Threads : Live(u) => u = Main \/ Live(Main))'
      BY <2>1, <2>2, <3>2, <3>3 DEF Chain
    <3>5. ASSUME NEW s \in Threads, NEW u \in Threads, s < u, Live(s)', Live(u)'
          PROVE  /\ pc'[s] \in Waiting
                 /\ helper'[s] \in Threads /\ helper'[s] <= u /\ Live(helper[s])'
      <4>1. s # t /\ Live(s) /\ Live(u) /\ u <= t
        BY <3>3, <3>5
      <4>2. /\ pc[s] \in Waiting
            /\ helper[s] \in Threads /\ helper[s] <= u /\ Live(helper[s])
        BY <2>1, <3>5, <4>1 DEF Chain
      <4>3. helper[s] # t \/ u = t
        BY <4>1, <4>2
      <4>4. pc'[helper[s]] \notin {"none", "ended"}
        BY <2>2, <3>5, <4>2, <4>3
      <4>5. helper'[s] = helper[s] /\ pc'[s] = pc[s]
        BY <2>2, <4>1
      <4> QED
        BY <4>2, <4>4, <4>5
    <3>6. pc'[Main] \in Walking => "processes" \in snapshots'
      BY <2>1, <2>2, <3>2 DEF Chain, ChainTypes
    <3>7. ASSUME NEW u \in Threads \ {Main}, Live(u)'
          PROVE  HasCreator(u)'
      <4>1. HasCreator(u) /\ u <= t
        BY <2>1, <3>3, <3>7 DEF Chain
      <4>2. creator[u] # t
        BY <4>1 DEF HasCreator
      <4>3. creator[u] \in Threads /\ creator'[u] = creator[u]
        BY <4>1 DEF HasCreator
      <4>4. pc'[creator[u]] = pc[creator[u]] /\ helper'[creator[u]] = helper[creator[u]]
        BY <2>2, <4>2, <4>3
      <4> QED
        BY <4>1, <4>3, <4>4 DEF HasCreator
    <3> QED
      BY <3>4, <3>5, <3>6, <3>7 DEF Chain
  <2> QED
    BY <2>3, <2>4
<1> QED
  BY <1>1, <1>2, <1>3

\* The threads there are have the numbers below that of the next one.
LEMMA NewThread ==
  ASSUME Created, NEW u \in Threads,
         u = Cardinality({s \in Threads : pc[s] # "none"})
  PROVE  /\ u # 0 /\ pc[u] = "none"
         /\ \A s \in Threads : pc[s] # "none" <=> s < u
<1>1. PICK k \in Threads : \A s \in Threads : pc[s] # "none" <=> s <= k
  BY DEF Created
<1>2. u = k + 1
  <2>1. {s \in Threads : pc[s] # "none"} = 0..k
    <3>1. k \in Nat /\ 0..k \subseteq Threads
      BY <1>1, ThreadsAreNumbers
    <3>2. \A s \in Threads : s \in Nat
      BY ThreadsAreNumbers
    <3>3. ASSUME NEW s \in 0..k
          PROVE  s \in Threads /\ pc[s] # "none"
      BY <1>1, <3>1, <3>3
    <3>4. ASSUME NEW s \in Threads, pc[s] # "none"
          PROVE  s \in 0..k
      <4>1. s \in Nat /\ s <= k
        BY <1>1, <3>2, <3>4
      <4> QED
        BY <3>1, <4>1
    <3> QED
      BY <3>3, <3>4
  <2>2. Cardinality(0..k) = k + 1
    BY FS_Interval, ThreadsAreNumbers
  <2> QED
    BY <2>1, <2>2
<1>3. \A s \in Threads : s <= k <=> s < u
  BY <1>2, ThreadsAreNumbers
<1>4. u # 0 /\ ~(u < u)
  BY <1>2, ThreadsAreNumbers
<1> QED
  BY <1>1, <1>3, <1>4

\* A new helper is the last thread of the chain, and so was its creator.
LEMMA CreateKeepsChain ==
  ASSUME ChainInv, NEW t \in Threads, NEW u \in Threads,
         pc[t] = "create",
         u = Cardinality({s \in Threads : pc[s] # "none"}),
         pc' = [pc EXCEPT ![t] = "wait", ![u] = "scan"],
         helper' = [helper EXCEPT ![t] = u],
         creator' = [creator EXCEPT ![u] = t],
         UNCHANGED <<snapshots, failed>>
  PROVE  ChainInv'
<1> USE ThreadsAreNumbers
<1>1. u # 0 /\ pc[u] = "none" /\ \A s \in Threads : pc[s] # "none" <=> s < u
  BY NewThread DEF ChainInv
<1>2. t < u /\ t # u
  BY <1>1
<1>3. \A s \in Threads : s # t /\ s # u => pc'[s] = pc[s] /\ helper'[s] = helper[s]
  BY DEF ChainInv, ChainTypes
<1>4. pc'[t] = "wait" /\ pc'[u] = "scan" /\ helper'[t] = u
  BY <1>1, <1>2 DEF ChainInv, ChainTypes
<1>5. ChainTypes'
  <2>1. /\ pc' \in [Threads -> Places]
        /\ helper' \in [Threads -> Threads \cup {NoThread}]
        /\ creator' \in [Threads -> Threads \cup {NoThread}]
        /\ creator'[Main] = NoThread
    BY <1>1, <1>2 DEF Main, ChainInv, ChainTypes, Places
  <2>2. \A s \in Threads : pc'[s] \in Waiting => helper'[s] \in Threads
    BY <1>1, <1>2, <1>3, <1>4 DEF ChainInv, ChainTypes, Waiting
  <2> QED
    BY <2>1, <2>2 DEF ChainTypes
<1>6. Created'
  <2>1. ASSUME NEW s \in Threads
        PROVE  pc'[s] # "none" <=> s <= u
    <3>1. CASE s = t \/ s = u
      BY <1>1, <1>2, <1>4, <3>1
    <3>2. CASE s # t /\ s # u
      <4>1. (pc[s] # "none" <=> s < u) /\ pc'[s] = pc[s]
        BY <1>1, <1>3, <3>2
      <4> QED
        BY <3>2, <4>1
    <3> QED
      BY <3>1, <3>2
  <2> QED
    BY <2>1 DEF Created
<1>7. ASSUME "wait" \notin failed
      PROVE  Chain'
  <2> USE DEF Live, Waiting, Walking
  <2>1. Chain
    BY <1>7 DEF ChainInv
  <2>2. \A s \in Threads : Live(s) => s <= t
    BY <2>1 DEF Chain
  <2>3. \A s \in Threads : Live(s)' => s = u \/ Live(s)
    BY <1>1, <1>2, <1>3, <1>4
  <2>4. \A s \in Threads : Live(s) => Live(s)'
    BY <1>1, <1>2, <1>3, <1>4
  <2>5. (\A s \in Threads : Live(s) => s = Main \/ Live(Main))'
    BY <2>1, <2>3, <2>4 DEF Chain
  <2>6. ASSUME NEW r \in Threads, NEW s \in Threads, r < s, Live(r)', Live(s)'
        PROVE  /\ pc'[r] \in Waiting
               /\ helper'[r] \in Threads /\ helper'[r] <= s
               /\ pc'[helper'[r]] \notin {"none", "ended"}
    <3>0. r \in Nat /\ s \in Nat /\ t \in Nat /\ u \in Nat
      OBVIOUS
    <3>1. r # u /\ Live(r)
      <4>1. s <= u
        BY <1>1, <1>2, <2>2, <2>3, <2>6, <3>0
      <4> QED
        BY <2>3, <2>6, <3>0, <4>1
    <3>2. CASE r = t
      <4>1. s = u
        BY <2>2, <2>3, <2>6, <3>0, <3>2
      <4> QED
        BY <1>4, <3>0, <3>2, <4>1
    <3>3. CASE r # t
      <4>1. r < t
        BY <2>2, <3>1, <3>3
      <4>2. helper[r] \in Threads /\ helper[r] <= t /\ Live(helper[r]) /\ pc[r] \in Waiting
        BY <2>1, <3>1, <4>1 DEF Chain
      <4>3. pc'[helper[r]] \notin {"none", "ended"}
        BY <2>4, <4>2, <1>1, <1>2, <1>3, <1>4
      <4>4. s = u \/ Live(s)
        BY <2>3, <2>6
      <4>5. helper[r] <= s
        BY <1>1, <1>2, <2>1, <2>6, <3>1, <4>2, <4>4 DEF Chain
      <4> QED
        BY <1>3, <3>1, <3>3, <4>2, <4>3, <4>5
    <3> QED
      BY <3>2, <3>3
  <2>7. pc'[Main] \in Walking => "processes" \in snapshots'
    <3>1. Live(Main) /\ (Main = t \/ pc[Main] \in Waiting)
      BY <2>1, <2>2 DEF Chain, Main
    <3> QED
      BY <2>1, <3>1 DEF Chain
  <2>8. ASSUME NEW s \in Threads \ {Main}, Live(s)'
        PROVE  HasCreator(s)'
    <3>0. s \in Nat /\ t \in Nat /\ u \in Nat
      BY ThreadsAreNumbers
    <3>1. CASE s = u
      <4>1. creator'[u] = t
        BY DEF ChainInv, ChainTypes
      <4> QED
        BY <1>1, <1>2, <1>4, <3>1, <4>1 DEF HasCreator
    <3>2. CASE s # u
      <4>1. Live(s) /\ s <= t
        BY <2>2, <2>3, <2>8, <3>2
      <4>2. HasCreator(s)
        BY <2>1, <4>1 DEF Chain
      <4>3. creator[s] \in Threads /\ creator[s] \in Nat /\ creator[s] < s
        BY <4>2, ThreadsAreNumbers DEF HasCreator
      <4>4. creator[s] # t /\ creator[s] # u
        BY <1>1, <1>2, <3>0, <4>1, <4>3
      <4>5. creator'[s] = creator[s]
        BY <3>2 DEF ChainInv, ChainTypes
      <4> QED
        BY <1>3, <4>2, <4>3, <4>4, <4>5 DEF HasCreator
    <3> QED
      BY <3>1, <3>2
  <2> QED
    BY <2>5, <2>6, <2>7, <2>8 DEF Chain
<1> QED
  BY <1>5, <1>6, <1>7 DEF ChainInv

-----------------------------------------------------------------------------
(* Every step of the functions is one of the three.                        *)

\* Main takes the steps before the children are walked.
LEMMA AloneMoves ==
  ASSUME ChainInv,
         \/ Unknown \/ Snapshot \/ Stopped \/ First \/ StoppedOne
         \/ OpenOne \/ OpenFirst \/ WaitOne \/ WaitOneFails
  PROVE  \E p : AloneStep(p)
<1> USE DEF Goto, Return, Fails, callVars, snapVars, childVars, AloneStep, Alone, Walking
<1>1. Unknown => AloneStep("ended")
  BY DEF Unknown, SetupStep
<1>2. Snapshot => AloneStep("ended") \/ AloneStep("stopped") \/ AloneStep("first")
  BY DEF Snapshot, SetupStep
<1>3. First => AloneStep("ended") \/ AloneStep("open") \/ AloneStep("scan")
  BY DEF First, SetupStep, ChainInv, Chain
<1>4. Stopped => AloneStep("ended") \/ AloneStep("first")
  BY DEF Stopped, SetupStep, ChainInv, Chain
<1>5. StoppedOne => AloneStep("ended") \/ AloneStep("open_one")
  BY DEF StoppedOne, SetupStep
<1>6. OpenOne => AloneStep("ended") \/ AloneStep("wait_one")
  BY DEF OpenOne, OneStep
<1>7. OpenFirst => AloneStep("ended") \/ AloneStep("open") \/ AloneStep("wait_one")
  BY DEF OpenFirst, OneStep, ChainInv, ChainTypes
<1>8. WaitOne => AloneStep("ended")
  BY DEF WaitOne, OneStep
<1>9. WaitOneFails => AloneStep("ended")
  BY DEF WaitOneFails, OneStep
<1> HIDE DEF AloneStep, Alone, Walking
<1> QED
  BY <1>1, <1>2, <1>3, <1>4, <1>5, <1>6, <1>7, <1>8, <1>9

LEMMA AloneSteps ==
  ASSUME ChainInv,
         \/ Unknown \/ Snapshot \/ Stopped \/ First \/ StoppedOne
         \/ OpenOne \/ OpenFirst \/ WaitOne \/ WaitOneFails
  PROVE  ChainInv'
BY AloneMoves, AloneKeepsChain

LEMMA WalkSteps ==
  ASSUME ChainInv, NEW t \in Threads, WaitForProcesses(t)
  PROVE  ChainInv'
<1> USE DEF Goto, Return, Fails, callVars, snapVars, childVars, WalkStep, Walking,
            Waiting, AnyStep, Finish, ReturnFound
<1>1. Scan(t) => WalkStep(t, "scan") \/ WalkStep(t, "create") \/ WalkStep(t, "last")
  BY DEF Scan, ChainInv, ChainTypes
<1>2. Wait(t) => WalkStep(t, "join") \/ WalkStep(t, "close")
  BY DEF Wait
<1>3. WaitFails(t) => WalkStep(t, "close")
  BY DEF WaitFails
<1>4. Join(t) => WalkStep(t, "close")
  BY DEF Join
<1>5. Close(t) => WalkStep(t, "scan")
  BY DEF Close
<1>6. Last(t) => WalkStep(t, "ended") \/ WalkStep(t, "last_wait")
  BY DEF Last
<1>7. LastWait(t) => WalkStep(t, "ended")
  BY DEF LastWait
<1>8. LastWaitFails(t) => WalkStep(t, "ended")
  BY DEF LastWaitFails
<1> HIDE DEF WalkStep, Walking, Waiting
<1>9. ASSUME Create(t)
      PROVE  ChainInv'
  <2>1. CASE \E u \in Threads :
               /\ u = Cardinality({s \in Threads : pc[s] # "none"})
               /\ helper' = [helper EXCEPT ![t] = u]
               /\ creator' = [creator EXCEPT ![u] = t]
               /\ pc' = [pc EXCEPT ![t] = "wait", ![u] = "scan"]
               /\ UNCHANGED <<result, failed>>
    BY <1>9, <2>1, CreateKeepsChain DEF Create
  <2>2. CASE /\ Fails("CreateThread")
             /\ IF t = Main THEN Return(Error)
                ELSE Goto(t, "last") /\ UNCHANGED result
             /\ UNCHANGED <<helper, creator>>
    <3>1. WalkStep(t, "last") \/ WalkStep(t, "ended")
      <4> USE DEF WalkStep, Walking, Waiting
      <4>1. /\ pc[t] = "create" /\ UNCHANGED <<snapshots, helper, creator>>
            /\ \/ failed' = failed
               \/ failed' = failed \cup {"CreateThread"}
        BY <1>9, <2>2 DEF Create
      <4>2. pc' = [pc EXCEPT ![t] = "last"] \/ pc' = [pc EXCEPT ![t] = "ended"]
        BY <1>9, <2>2 DEF Create
      <4>3. CASE pc' = [pc EXCEPT ![t] = "last"]
        BY <4>1, <4>3
      <4>4. CASE pc' = [pc EXCEPT ![t] = "ended"]
        BY <4>1, <4>4
      <4> QED
        BY <4>2, <4>3, <4>4
    <3> QED
      BY <3>1, WalkKeepsChain
  <2> QED
    BY <1>9, <2>1, <2>2 DEF Create
<1> QED
  BY <1>1, <1>2, <1>3, <1>4, <1>5, <1>6, <1>7, <1>8, <1>9, WalkKeepsChain DEF WaitForProcesses, Any

LEMMA ChainStep ==
  ASSUME ChainInv, [Next]_vars
  PROVE  ChainInv'
<1>1. ASSUME NEW c \in Children, Exit(c)
      PROVE  ChainInv'
  BY <1>1 DEF Exit, snapVars, childVars, ChainInv, ChainTypes, Created, Chain, HasCreator, Live
<1>2. CASE UNCHANGED vars
  BY <1>2 DEF vars, snapVars, childVars, ChainInv, ChainTypes, Created, Chain, HasCreator, Live
<1> QED
  BY <1>1, <1>2, AloneSteps, WalkSteps DEF Next, wait, waitpid, waitid

LEMMA ChainHolds == SafeSpec => []ChainInv
<1>1. Init => ChainInv
  BY ThreadsAreNumbers
     DEF Init, ChainInv, ChainTypes, Places, Created, Chain, Live, Main, Walking, Waiting
<1> QED
  BY <1>1, ChainStep, PTL DEF SafeSpec

\* waitid and its helper threads never walk the snapshot two at a time, and
\* never after it was closed, unless a wait failed.
THEOREM SnapshotHasOneWalker == SafeSpec => []OneWalker
<1>1. ChainInv => OneWalker
  BY ThreadsAreNumbers DEF ChainInv, Chain, OneWalker, Live, Main, Walking, Waiting
<1> QED
  BY <1>1, ChainHolds, PTL

\* When a function has returned no helper thread is left that points into its
\* stack, unless a wait failed.
THEOREM HelpersAreGone == SafeSpec => []NoHelperLeft
<1>1. ChainInv => NoHelperLeft
  BY ThreadsAreNumbers DEF ChainInv, ChainTypes, Chain, NoHelperLeft, Over, Live, Main
<1> QED
  BY <1>1, ChainHolds, PTL

-----------------------------------------------------------------------------
(* The news of the child that was found.                                   *)

InfoTypes ==
  info \in [Threads \cup {NoThread} -> Infos]

True(x) == info[x].done => info[x].processID \in exited

\* The struct of a thread that waits for its helper tells the truth, unless it
\* was copied from one that only asks a helper to end: then a creator further
\* up has its news already and waits for that helper.
News ==
  /\ True(NoThread)
  /\ \A t \in Threads :
       pc[t] = "wait" => True(t) \/ \E s \in Threads : s < t /\ pc[s] = "join"

NoneFailed == failed \cap {"_cwait", "wait"} = {}

NewsInv ==
  /\ InfoTypes
  /\ NoneFailed => News
  /\ ReportsExited

\* A thread ends or goes on, and no struct changes.
QuietStep(t, q) ==
  /\ pc[t] \notin {"join"} /\ q # "wait"
  /\ pc' = [pc EXCEPT ![t] = q]
  /\ UNCHANGED <<info, exited>>
  /\ failed \subseteq failed'

LEMMA QuietKeepsNews ==
  ASSUME ChainTypes, News, NEW t \in Threads, NEW q, QuietStep(t, q)
  PROVE  News'
<1>1. pc'[t] = q /\ \A s \in Threads : s # t => pc'[s] = pc[s]
  BY DEF QuietStep, ChainTypes
<1>2. True(NoThread)'
  BY DEF QuietStep, News, True
<1>3. ASSUME NEW s \in Threads, pc'[s] = "wait"
      PROVE  True(s)' \/ \E r \in Threads : r < s /\ pc'[r] = "join"
  <2>1. pc[s] = "wait"
    BY <1>1, <1>3 DEF QuietStep
  <2>2. CASE True(s)
    BY <2>2 DEF True, QuietStep
  <2>3. CASE \E r \in Threads : r < s /\ pc[r] = "join"
    BY <1>1, <2>3 DEF QuietStep
  <2> QED
    BY <2>1, <2>2, <2>3 DEF News
<1> QED
  BY <1>2, <1>3 DEF News

LEMMA ReportKept ==
  ASSUME ReportsExited, exited \subseteq exited', failed \subseteq failed',
         \/ result' = result
         \/ result'.kind = "child" => result'.pid \in exited'
         \/ ~NoneFailed'
  PROVE  ReportsExited'
BY DEF ReportsExited, NoneFailed

LEMMA AloneKeepsNews ==
  ASSUME ChainInv, NewsInv,
         \/ Unknown \/ Snapshot \/ Stopped \/ First \/ StoppedOne
         \/ OpenOne \/ OpenFirst \/ WaitOne \/ WaitOneFails
  PROVE  NewsInv'
<1> USE DEF Goto, Return, Fails, callVars, snapVars, childVars, SetupStep, OneStep
<1>1. UNCHANGED <<info, exited>> /\ failed \subseteq failed'
  <2>1. Unknown \/ Snapshot \/ Stopped \/ First \/ StoppedOne =>
          UNCHANGED <<info, exited>> /\ failed \subseteq failed'
    BY DEF Unknown, Snapshot, Stopped, First, StoppedOne
  <2>2. OpenOne \/ OpenFirst \/ WaitOne \/ WaitOneFails =>
          UNCHANGED <<info, exited>> /\ failed \subseteq failed'
    BY DEF OpenOne, OpenFirst, WaitOne, WaitOneFails
  <2> QED
    BY <2>1, <2>2
<1>2. PICK q : q # "wait" /\ pc' = [pc EXCEPT ![Main] = q]
  <2>1. Unknown \/ OpenOne \/ WaitOne \/ WaitOneFails =>
          pc' = [pc EXCEPT ![Main] = "ended"] \/ pc' = [pc EXCEPT ![Main] = "wait_one"]
    BY DEF Unknown, OpenOne, WaitOne, WaitOneFails
  <2>2. StoppedOne =>
          pc' = [pc EXCEPT ![Main] = "ended"] \/ pc' = [pc EXCEPT ![Main] = "open_one"]
    BY DEF StoppedOne
  <2>3. Snapshot \/ Stopped =>
          \/ pc' = [pc EXCEPT ![Main] = "ended"]
          \/ pc' = [pc EXCEPT ![Main] = "stopped"]
          \/ pc' = [pc EXCEPT ![Main] = "first"]
    BY DEF Snapshot, Stopped
  <2>4. First =>
          \/ pc' = [pc EXCEPT ![Main] = "ended"]
          \/ pc' = [pc EXCEPT ![Main] = "open"]
          \/ pc' = [pc EXCEPT ![Main] = "scan"]
    BY DEF First
  <2>5. OpenFirst =>
          \/ pc' = [pc EXCEPT ![Main] = "ended"]
          \/ pc' = [pc EXCEPT ![Main] = "wait_one"]
          \/ pc' = pc /\ pc[Main] = "open"
    BY DEF OpenFirst
  <2>6. pc' = pc => pc' = [pc EXCEPT ![Main] = pc[Main]]
    BY ThreadsAreNumbers DEF ChainInv, ChainTypes
  <2> HIDE DEF Goto, Return
  <2> QED
    BY <2>1, <2>2, <2>3, <2>4, <2>5, <2>6
<1>3. pc[Main] # "join"
  BY DEF Unknown, Snapshot, Stopped, First, StoppedOne, OpenOne, OpenFirst,
         WaitOne, WaitOneFails
<1>4. \/ result' = result
      \/ result'.kind = "child" => result'.pid \in exited'
      \/ ~NoneFailed'
  <2> USE DEF Nothing, Error, Returned
  <2>1. Unknown \/ Snapshot \/ Stopped \/ First \/ StoppedOne \/ OpenOne \/ OpenFirst =>
          result' = result \/ result'.kind # "child"
    BY DEF Unknown, Snapshot, Stopped, First, StoppedOne, OpenOne, OpenFirst
  <2>2. WaitOne => (result'.kind = "child" => result'.pid \in exited')
    BY DEF WaitOne
  <2>3. WaitOneFails => ~NoneFailed'
    BY DEF WaitOneFails, NoneFailed
  <2> HIDE DEF Goto, Return, Fails
  <2> QED
    BY <2>1, <2>2, <2>3
<1> HIDE DEF Goto, Return, Fails, SetupStep, OneStep
<1>5. ReportsExited'
  BY <1>1, <1>4, ReportKept DEF NewsInv
<1>6. ASSUME NoneFailed'
      PROVE  News'
  <2>1. News
    BY <1>1, <1>6 DEF NewsInv, NoneFailed
  <2>2. QuietStep(Main, q)
    BY <1>1, <1>2, <1>3 DEF QuietStep
  <2> QED
    BY <2>1, <2>2, ThreadsAreNumbers, QuietKeepsNews DEF ChainInv
<1>7. InfoTypes'
  BY <1>1 DEF NewsInv, InfoTypes
<1> QED
  BY <1>5, <1>6, <1>7 DEF NewsInv, NoneFailed

\* The struct a thread reports to was copied by its creator.
LEMMA ReportsTo ==
  ASSUME ChainInv, NEW t \in Threads
  PROVE  creator[t] \in Threads \cup {NoThread} /\ creator[Main] = NoThread
BY DEF ChainInv, ChainTypes

LEMMA QuietSteps ==
  ASSUME ChainInv, NewsInv, NEW t \in Threads,
         \/ Scan(t) \/ Close(t) \/ Last(t) \/ LastWaitFails(t)
  PROVE  NewsInv'
<1> USE DEF Goto, callVars, snapVars, AnyStep, Finish
<1>1. UNCHANGED <<info, exited>> /\ failed \subseteq failed'
  <2>1. Scan(t) => UNCHANGED <<info, exited, failed>>
    BY DEF Scan
  <2>2. Close(t) \/ Last(t) => UNCHANGED <<info, exited, failed>>
    BY DEF Close, Last
  <2>3. LastWaitFails(t) => UNCHANGED <<info, exited>> /\ failed \subseteq failed'
    BY DEF LastWaitFails, Fails
  <2> QED
    BY <2>1, <2>2, <2>3
<1>2. PICK q : q # "wait" /\ pc' = [pc EXCEPT ![t] = q]
  <2>1. Scan(t) => \/ pc' = [pc EXCEPT ![t] = "last"]
                   \/ pc' = [pc EXCEPT ![t] = "create"]
                   \/ pc' = [pc EXCEPT ![t] = "scan"]
                   \/ pc' = pc /\ pc[t] = "scan"
    BY DEF Scan
  <2>2. pc' = pc => pc' = [pc EXCEPT ![t] = pc[t]]
    BY DEF ChainInv, ChainTypes
  <2>3. Close(t) => pc' = [pc EXCEPT ![t] = "scan"]
    BY DEF Close
  <2>4. Last(t) \/ LastWaitFails(t) =>
          pc' = [pc EXCEPT ![t] = "ended"] \/ pc' = [pc EXCEPT ![t] = "last_wait"]
    BY DEF Last, LastWaitFails
  <2> QED
    BY <2>1, <2>2, <2>3, <2>4
<1>3. pc[t] # "join"
  BY DEF Scan, Close, Last, LastWaitFails
<1>4. \/ result' = result
      \/ t = Main /\ result' = IF info[creator[t]].done
                               THEN Returned("child", info[creator[t]].processID)
                               ELSE Nothing
  <2>1. Scan(t) \/ Close(t) => result' = result
    BY DEF Scan, Close
  <2>2. Last(t) \/ LastWaitFails(t) =>
          result' = result \/ ReturnFound(t, info[creator[t]])
    BY DEF Last, LastWaitFails
  <2>3. ReturnFound(t, info[creator[t]]) =>
          \/ result' = result
          \/ t = Main /\ result' = IF info[creator[t]].done
                                   THEN Returned("child", info[creator[t]].processID)
                                   ELSE Nothing
    BY DEF ReturnFound
  <2> QED
    BY <2>1, <2>2, <2>3
<1> HIDE DEF Goto, AnyStep, Finish
<1>5. ReportsExited'
  <2>1. CASE result' = result \/ ~NoneFailed'
    BY <1>1, <2>1, ReportKept DEF NewsInv
  <2>2. CASE NoneFailed' /\ result' # result
    <3>1. True(NoThread) /\ creator[t] = NoThread
      BY <1>1, <1>4, <2>2, ReportsTo DEF NewsInv, News, NoneFailed
    <3>2. result'.kind = "child" => result'.pid \in exited'
      BY <1>1, <1>4, <2>2, <3>1 DEF True, Returned, Nothing
    <3> QED
      BY <1>1, <3>2, ReportKept DEF NewsInv
  <2> QED
    BY <2>1, <2>2
<1>6. ASSUME NoneFailed'
      PROVE  News'
  <2>1. News
    BY <1>1, <1>6 DEF NewsInv, NoneFailed
  <2>2. QuietStep(t, q)
    BY <1>1, <1>2, <1>3 DEF QuietStep
  <2> QED
    BY <2>1, <2>2, QuietKeepsNews DEF ChainInv
<1>7. InfoTypes'
  BY <1>1 DEF NewsInv, InfoTypes
<1> QED
  BY <1>5, <1>6, <1>7 DEF NewsInv

\* A thread that joins its helper is the last one alive afterwards, so no
\* struct was copied from its own any more.
LEMMA JoinKeepsNews ==
  ASSUME ChainInv, NewsInv, NEW t \in Threads, Join(t)
  PROVE  NewsInv'
<1>1. /\ UNCHANGED <<info, exited, failed, result>>
      /\ pc[t] = "join" /\ pc[helper[t]] = "ended"
      /\ pc' = [pc EXCEPT ![t] = "close"]
  BY DEF Join, AnyStep, Goto, childVars
<1>2. ASSUME NoneFailed
      PROVE  News'
  <2>1. News /\ Chain
    BY <1>2 DEF NewsInv, ChainInv, NoneFailed
  <2>2. pc'[t] = "close" /\ \A s \in Threads : s # t => pc'[s] = pc[s]
    BY <1>1 DEF ChainInv, ChainTypes
  <2>3. \A s \in Threads : t < s => ~Live(s)
    BY <1>1, <2>1 DEF Chain, Live
  <2>4. ASSUME NEW s \in Threads, pc'[s] = "wait"
        PROVE  True(s)' \/ \E r \in Threads : r < s /\ pc'[r] = "join"
    <3>1. pc[s] = "wait" /\ ~(t < s)
      BY <2>2, <2>3, <2>4 DEF Live
    <3>2. CASE True(s)
      BY <1>1, <3>2 DEF True
    <3>3. CASE \E r \in Threads : r < s /\ pc[r] = "join"
      BY <2>2, <3>1, <3>3
    <3> QED
      BY <2>1, <3>1, <3>2, <3>3 DEF News
  <2>5. True(NoThread)'
    BY <1>1, <2>1 DEF News, True
  <2> QED
    BY <2>4, <2>5 DEF News
<1>3. ReportsExited'
  BY <1>1, ReportKept DEF NewsInv
<1> QED
  BY <1>1, <1>2, <1>3 DEF NewsInv, InfoTypes, NoneFailed

\* A child is found: what is copied is true.
LEMMA FoundIsTrue ==
  ASSUME ChainInv, NewsInv, News, NEW t \in Threads, NEW c \in Children, c \in exited,
         NEW q, q # "wait", pc[t] # "join",
         pc' = [pc EXCEPT ![t] = q],
         NEW i \in Infos,
         \/ info' = [info EXCEPT ![creator[t]] = Found(c)]
         \/ info' = [info EXCEPT ![creator[t]] = Found(c), ![t] = i],
         UNCHANGED exited
  PROVE  News' /\ InfoTypes'
<1>1. Found(c) \in Infos
  BY DEF Found, Infos
<1>2. creator[t] \in Threads \cup {NoThread}
  BY ReportsTo
<1>3. InfoTypes'
  BY <1>1, <1>2 DEF NewsInv, InfoTypes
<1>4. \A x \in Threads \cup {NoThread} :
        x # t => info'[x] = info[x] \/ info'[x] = Found(c)
  BY <1>2 DEF NewsInv, InfoTypes
<1>5. \A s \in Threads : s # t => pc'[s] = pc[s]
  BY DEF ChainInv, ChainTypes
<1>6. \A x : info'[x] = Found(c) => True(x)'
  BY DEF True, Found
<1>7. True(NoThread)'
  BY <1>4, <1>6, ThreadsAreNumbers DEF True, News
<1>8. ASSUME NEW s \in Threads, pc'[s] = "wait"
      PROVE  True(s)' \/ \E r \in Threads : r < s /\ pc'[r] = "join"
  <2>1. s # t /\ pc[s] = "wait"
    BY <1>5, <1>8 DEF ChainInv, ChainTypes
  <2>2. CASE info'[s] = Found(c)
    BY <1>6, <2>2
  <2>3. CASE info'[s] = info[s]
    <3>1. CASE True(s)
      BY <2>3, <3>1 DEF True
    <3>2. CASE \E r \in Threads : r < s /\ pc[r] = "join"
      BY <1>5, <3>2
    <3> QED
      BY <2>1, <3>1, <3>2 DEF News
  <2> QED
    BY <1>4, <2>1, <2>2, <2>3
<1> QED
  BY <1>3, <1>7, <1>8 DEF News

LEMMA LastWaitKeepsNews ==
  ASSUME ChainInv, NewsInv, NEW t \in Threads, LastWait(t)
  PROVE  NewsInv'
<1>1. PICK c \in Children :
        /\ c \in exited
        /\ info' = [info EXCEPT ![creator[t]] = Found(c)]
        /\ ReturnFound(t, Found(c))
  BY DEF LastWait, Signalled
<1>2. /\ pc[t] = "last_wait" /\ pc' = [pc EXCEPT ![t] = "ended"]
      /\ UNCHANGED <<exited, failed>>
  BY DEF LastWait, Finish, Goto, AnyStep
<1>3. InfoTypes'
  <2>1. Found(c) \in Infos
    BY DEF Found, Infos
  <2> QED
    BY <1>1, <2>1, ReportsTo DEF NewsInv, InfoTypes
<1>4. ASSUME NoneFailed
      PROVE  News'
  <2>1. News
    BY <1>4 DEF NewsInv
  <2>2. Found(c) \in Infos
    BY DEF Found, Infos
  <2> QED
    BY <1>1, <1>2, <2>1, <2>2, FoundIsTrue
<1>5. result' = result \/ (result'.kind = "child" => result'.pid \in exited')
  BY <1>1, <1>2 DEF ReturnFound, Found, Returned
<1>6. ReportsExited'
  BY <1>2, <1>5, ReportKept DEF NewsInv
<1> QED
  BY <1>2, <1>3, <1>4, <1>6 DEF NewsInv, NoneFailed

\* The struct that a waiting thread copies is true: had its creator its news
\* from elsewhere, it would be joining this thread and not copy any further.
LEMMA WaitKeepsNews ==
  ASSUME ChainInv, NewsInv, NEW t \in Threads, Wait(t)
  PROVE  NewsInv'
<1>1. pc[t] = "wait" /\ UNCHANGED <<exited, failed, result>>
  BY DEF Wait, AnyStep
<1>2. CASE \E c \in Children :
             /\ Signalled(t, c)
             /\ info' = [info EXCEPT ![creator[t]] = Found(c), ![t].done = TRUE]
             /\ Goto(t, "join")
  <2>1. PICK c \in Children :
          /\ c \in exited
          /\ info' = [info EXCEPT ![creator[t]] = Found(c), ![t].done = TRUE]
          /\ pc' = [pc EXCEPT ![t] = "join"]
    BY <1>2 DEF Signalled, Goto
  <2>2. Found(c) \in Infos
    BY DEF Found, Infos
  <2> DEFINE i == [[info EXCEPT ![creator[t]] = Found(c)][t] EXCEPT !.done = TRUE]
  <2>3. i \in Infos /\ info' = [info EXCEPT ![creator[t]] = Found(c), ![t] = i]
    <3>1. [info EXCEPT ![creator[t]] = Found(c)][t] \in Infos
      BY <2>2, ReportsTo DEF NewsInv, InfoTypes
    <3>2. i \in Infos
      BY <3>1 DEF Infos
    <3> QED
      BY <2>1, <3>2
  <2> HIDE DEF i
  <2>4. InfoTypes'
    BY <2>2, <2>3, ReportsTo DEF NewsInv, InfoTypes
  <2>5. NoneFailed => News'
    BY <1>1, <2>1, <2>3, FoundIsTrue DEF NewsInv
  <2>6. ReportsExited'
    BY <1>1, ReportKept DEF NewsInv
  <2> QED
    BY <1>1, <2>4, <2>5, <2>6 DEF NewsInv, NoneFailed
<1>3. CASE /\ pc[helper[t]] = "ended"
           /\ info' = [info EXCEPT ![creator[t]] = info[t]]
           /\ Goto(t, "close")
  <2>1. InfoTypes'
    BY <1>3, ReportsTo DEF NewsInv, InfoTypes
  <2>2. ReportsExited'
    BY <1>1, ReportKept DEF NewsInv
  <2>3. pc' = [pc EXCEPT ![t] = "close"] /\ \A s \in Threads : s # t => pc'[s] = pc[s]
    BY <1>3 DEF Goto, ChainInv, ChainTypes
  <2>4. ASSUME NoneFailed
        PROVE  News'
    <3>1. News /\ Chain
      BY <2>4 DEF NewsInv, ChainInv, NoneFailed
    <3>2. True(t) \/ \E r \in Threads : r < t /\ pc[r] = "join"
      BY <1>1, <3>1 DEF News
    <3>3. /\ creator[t] \in Threads \cup {NoThread} /\ info'[creator[t]] = info[t]
          /\ \A x \in Threads \cup {NoThread} : x # creator[t] => info'[x] = info[x]
      BY <1>3, ReportsTo DEF NewsInv, InfoTypes
    <3>4. True(NoThread)'
      <4>1. CASE t = Main
        <5>1. True(t)
          BY <3>2, <4>1, ThreadsAreNumbers DEF Main
        <5> QED
          BY <1>1, <3>3, <4>1, <5>1, ReportsTo DEF True
      <4>2. CASE t # Main
        <5>1. creator[t] # NoThread
          BY <1>1, <3>1, <4>2, ThreadsAreNumbers DEF Chain, HasCreator, Live
        <5> QED
          BY <1>1, <3>1, <3>3, <5>1 DEF True, News
      <4> QED
        BY <4>1, <4>2
    <3>5. ASSUME NEW s \in Threads, pc'[s] = "wait"
          PROVE  True(s)' \/ \E r \in Threads : r < s /\ pc'[r] = "join"
      <4>1. s # t /\ pc[s] = "wait"
        BY <2>3, <3>5 DEF ChainInv, ChainTypes
      <4>2. CASE s = creator[t]
        <5>1. t # Main /\ HasCreator(t)
          BY <1>1, <3>1, <4>2, ReportsTo, ThreadsAreNumbers DEF Chain, Live
        <5>2. CASE True(t)
          BY <1>1, <3>3, <4>2, <5>2 DEF True
        <5>3. CASE \E r \in Threads : r < t /\ pc[r] = "join"
          <6>1. PICK r \in Threads : r < t /\ pc[r] = "join"
            BY <5>3
          <6>2. helper[s] = t /\ r # s
            BY <4>1, <4>2, <5>1, <6>1 DEF HasCreator
          <6>3. ~(s < r)
            BY <3>1, <4>1, <6>1, <6>2, ThreadsAreNumbers DEF Chain, Live
          <6>4. r < s /\ r # t
            BY <6>1, <6>2, <6>3, ThreadsAreNumbers
          <6> QED
            BY <2>3, <6>1, <6>4
        <5> QED
          BY <3>2, <5>2, <5>3
      <4>3. CASE s # creator[t]
        <5>1. info'[s] = info[s]
          BY <3>3, <4>3
        <5>2. CASE True(s)
          BY <1>1, <5>1, <5>2 DEF True
        <5>3. CASE \E r \in Threads : r < s /\ pc[r] = "join"
          BY <1>1, <2>3, <5>3
        <5> QED
          BY <3>1, <4>1, <5>2, <5>3 DEF News
      <4> QED
        BY <4>2, <4>3
    <3> QED
      BY <3>4, <3>5 DEF News
  <2> QED
    BY <1>1, <2>1, <2>2, <2>4 DEF NewsInv, NoneFailed
<1> QED
  BY <1>2, <1>3 DEF Wait

LEMMA CreateKeepsNews ==
  ASSUME ChainInv, NewsInv, NEW t \in Threads, Create(t)
  PROVE  NewsInv'
<1>1. /\ pc[t] = "create" /\ UNCHANGED exited
      /\ info' = [info EXCEPT ![t] = info[creator[t]]]
  BY DEF Create, AnyStep
<1>2. InfoTypes'
  BY <1>1, ReportsTo DEF NewsInv, InfoTypes
<1>3. /\ info'[t] = info[creator[t]]
      /\ \A x \in Threads \cup {NoThread} : x # t => info'[x] = info[x]
  BY <1>1 DEF NewsInv, InfoTypes
<1>4. ASSUME News
      PROVE  True(NoThread)'
  BY <1>1, <1>3, <1>4, ThreadsAreNumbers DEF News, True
<1>5. ASSUME NEW u \in Threads,
             u = Cardinality({s \in Threads : pc[s] # "none"}),
             pc' = [pc EXCEPT ![t] = "wait", ![u] = "scan"],
             UNCHANGED <<result, failed>>
      PROVE  NewsInv'
  <2>1. ReportsExited'
    BY <1>1, <1>5, ReportKept DEF NewsInv
  <2>2. ASSUME NoneFailed
        PROVE  News'
    <3>1. News /\ Chain
      BY <2>2 DEF NewsInv, ChainInv, NoneFailed
    <3>2. /\ pc'[u] = "scan"
          /\ \A s \in Threads : s # t /\ s # u => pc'[s] = pc[s]
      BY <1>5 DEF ChainInv, ChainTypes
    <3>3. pc[u] # "join"
      BY <1>5, NewThread DEF ChainInv
    <3>4. \A r \in Threads : pc[r] = "join" => pc'[r] = "join"
      BY <1>1, <3>2, <3>3
    <3>5. ASSUME NEW s \in Threads, pc'[s] = "wait"
          PROVE  True(s)' \/ \E r \in Threads : r < s /\ pc'[r] = "join"
      <4>1. CASE s # t
        <5>1. pc[s] = "wait" /\ info'[s] = info[s]
          BY <1>3, <3>2, <3>5, <4>1
        <5>2. CASE True(s)
          BY <1>1, <5>1, <5>2 DEF True
        <5>3. CASE \E r \in Threads : r < s /\ pc[r] = "join"
          BY <3>4, <5>3
        <5> QED
          BY <3>1, <5>1, <5>2, <5>3 DEF News
      <4>2. CASE s = t /\ t = Main
        BY <1>1, <1>3, <3>1, <4>2, ReportsTo DEF News, True
      <4>3. CASE s = t /\ t # Main
        <5>1. HasCreator(t)
          BY <1>1, <3>1, <4>3 DEF Chain, Live
        <5>2. CASE pc[creator[t]] = "join"
          BY <3>4, <4>3, <5>1, <5>2 DEF HasCreator
        <5>3. CASE pc[creator[t]] = "wait"
          <6>1. CASE True(creator[t])
            BY <1>1, <1>3, <4>3, <6>1 DEF True
          <6>2. CASE \E r \in Threads : r < creator[t] /\ pc[r] = "join"
            <7>1. PICK r \in Threads : r < creator[t] /\ pc[r] = "join"
              BY <6>2
            <7>2. r < t
              BY <5>1, <7>1, ThreadsAreNumbers DEF HasCreator
            <7> QED
              BY <3>4, <4>3, <7>1, <7>2
          <6> QED
            BY <3>1, <5>1, <5>3, <6>1, <6>2 DEF News, HasCreator
        <5> QED
          BY <5>1, <5>2, <5>3 DEF HasCreator, Waiting
      <4> QED
        BY <4>1, <4>2, <4>3
    <3> QED
      BY <1>4, <3>1, <3>5 DEF News
  <2> QED
    BY <1>2, <1>5, <2>1, <2>2 DEF NewsInv, NoneFailed
<1>6. ASSUME Fails("CreateThread"),
             IF t = Main THEN Return(Error)
             ELSE Goto(t, "last") /\ UNCHANGED result
      PROVE  NewsInv'
  <2>1. PICK q : q # "wait" /\ pc' = [pc EXCEPT ![t] = q]
    BY <1>6 DEF Return, Goto
  <2>2. failed \subseteq failed'
    BY <1>6 DEF Fails
  <2>3. result' = result \/ result'.kind # "child"
    BY <1>6 DEF Return, Error, Returned
  <2>4. ReportsExited'
    BY <1>1, <2>2, <2>3, ReportKept DEF NewsInv
  <2>5. ASSUME NoneFailed'
        PROVE  News'
    <3>1. News
      BY <2>2, <2>5 DEF NewsInv, NoneFailed
    <3>2. pc'[t] = q /\ \A s \in Threads : s # t => pc'[s] = pc[s]
      BY <2>1 DEF ChainInv, ChainTypes
    <3>3. ASSUME NEW s \in Threads, pc'[s] = "wait"
          PROVE  True(s)' \/ \E r \in Threads : r < s /\ pc'[r] = "join"
      <4>1. s # t /\ pc[s] = "wait" /\ info'[s] = info[s]
        BY <1>3, <2>1, <3>2, <3>3
      <4>2. CASE True(s)
        BY <1>1, <4>1, <4>2 DEF True
      <4>3. CASE \E r \in Threads : r < s /\ pc[r] = "join"
        BY <1>1, <3>2, <4>3
      <4> QED
        BY <3>1, <4>1, <4>2, <4>3 DEF News
    <3> QED
      BY <1>4, <3>1, <3>3 DEF News
  <2> QED
    BY <1>2, <2>4, <2>5 DEF NewsInv
<1> QED
  BY <1>5, <1>6 DEF Create

LEMMA NewsStep ==
  ASSUME ChainInv, NewsInv, [Next]_vars
  PROVE  NewsInv'
<1>1. ASSUME NEW c \in Children, Exit(c)
      PROVE  NewsInv'
  <2>1. exited \subseteq exited' /\ UNCHANGED <<info, pc, failed, result>>
    BY <1>1 DEF Exit, childVars
  <2>2. \A x : True(x) => True(x)'
    BY <2>1 DEF True
  <2>3. News => News'
    BY <2>1, <2>2 DEF News
  <2>4. ReportsExited'
    BY <2>1, ReportKept DEF NewsInv
  <2> QED
    BY <2>1, <2>3, <2>4 DEF NewsInv, InfoTypes, NoneFailed
<1>2. CASE UNCHANGED vars
  BY <1>2 DEF vars, childVars, NewsInv, InfoTypes, NoneFailed, News, True, ReportsExited
<1>3. ASSUME NEW t \in Threads, WaitFails(t)
      PROVE  NewsInv'
  <2>1. UNCHANGED <<info, exited, result>> /\ failed' = failed \cup {"wait"}
    BY <1>3 DEF WaitFails, AnyStep, childVars, Fails
  <2>2. ~NoneFailed' /\ ReportsExited'
    BY <2>1, ReportKept DEF NewsInv, NoneFailed
  <2> QED
    BY <2>1, <2>2 DEF NewsInv, InfoTypes
<1>4. ASSUME NEW t \in Threads, WaitForProcesses(t)
      PROVE  NewsInv'
  BY <1>3, <1>4, QuietSteps, JoinKeepsNews, LastWaitKeepsNews, WaitKeepsNews,
     CreateKeepsNews DEF WaitForProcesses, Any
<1> QED
  BY <1>1, <1>2, <1>4, AloneKeepsNews DEF Next, wait, waitpid, waitid

LEMMA NewsHolds == SafeSpec => []NewsInv
<1>1. Init => NewsInv
  BY ThreadsAreNumbers
     DEF Init, NewsInv, InfoTypes, Infos, NotDone, News, True, ReportsExited, Returned
<1> QED
  BY <1>1, ChainHolds, NewsStep, PTL DEF SafeSpec

\* The child that wait, waitpid or waitid reports has exited, however many
\* helper threads the news went through, unless a wait failed.
THEOREM ReportedHasExited == SafeSpec => []ReportsExited
<1>1. NewsInv => ReportsExited
  BY DEF NewsInv
<1> QED
  BY <1>1, NewsHolds, PTL

-----------------------------------------------------------------------------
(* The handles.                                                            *)

\* With so many children hHandles is full but for the helper.
Full == MAXIMUM_WAIT_OBJECTS - 1

HasRoom(t) ==
  /\ Cardinality(handles[t]) <= Full
  /\ pc[t] = "scan" => Cardinality(handles[t]) < Full
  /\ pc[t] \in {"create", "wait", "join", "close"} => Cardinality(handles[t]) = Full
  /\ pc[t] \in {"none"} \cup (Alone \ {"wait_one"}) => handles[t] = {}
  /\ pc[t] \in Walking => \A c \in handles[t] : c < next
  /\ t # Main /\ pc[t] = "ended" => handles[t] = {}

HandleTypes ==
  /\ handles \in [Threads -> SUBSET Children]
  /\ next \in 1..N + 1
  /\ function \in ForOne => pid \in Children

RoomInv == HandleTypes /\ \A t \in Threads : HasRoom(t)

\* Only the thread that moves changes its handles.
MovesAlone(t) ==
  /\ \A s \in Threads : s # t => pc'[s] = pc[s] /\ handles'[s] = handles[s]
  /\ next' \in Nat /\ next <= next'

LEMMA NumbersInOrder ==
  /\ N \in Nat /\ Full \in Nat /\ Full > 0
  /\ Children \subseteq Nat
  /\ \A S \in SUBSET Children : IsFiniteSet(S) /\ Cardinality(S) \in Nat
<1>1. N \in Nat /\ Full \in Nat /\ Full > 0 /\ Children \subseteq Nat
  BY WaitAssumption DEF Full, Children
<1>2. IsFiniteSet(Children)
  BY <1>1, FS_Interval DEF Children
<1> QED
  BY <1>1, <1>2, FS_Subset, FS_CardinalityType

\* No thread is disturbed by another.
LEMMA OthersKeepRoom ==
  ASSUME RoomInv, NEW t \in Threads, MovesAlone(t), HasRoom(t)'
  PROVE  \A s \in Threads : HasRoom(s)'
<1>1. ASSUME NEW s \in Threads, s # t
      PROVE  HasRoom(s)'
  <2>1. pc'[s] = pc[s] /\ handles'[s] = handles[s] /\ HasRoom(s)
    BY <1>1 DEF RoomInv, MovesAlone
  <2>2. ASSUME NEW c \in handles[s], c < next
        PROVE  c < next'
    <3>1. next \in Nat /\ next' \in Nat /\ next <= next'
      BY NumbersInOrder DEF RoomInv, HandleTypes, MovesAlone
    <3>2. c \in Nat
      BY NumbersInOrder DEF RoomInv, HandleTypes
    <3> QED
      BY <2>2, <3>1, <3>2
  <2> QED
    BY <2>1, <2>2 DEF HasRoom
<1> QED
  BY <1>1

LEMMA SmallSets ==
  /\ Cardinality({}) = 0
  /\ \A c : Cardinality({c}) = 1
BY FS_EmptySet, FS_Singleton

\* Before the snapshot is walked there is at most one handle, Main's.
LEMMA AloneKeepsRoom ==
  ASSUME ChainInv, RoomInv,
         \/ Unknown \/ Snapshot \/ Stopped \/ First
         \/ function \in ForOne /\ (StoppedOne \/ OpenOne)
         \/ OpenFirst \/ WaitOne \/ WaitOneFails
  PROVE  RoomInv'
<1> USE ThreadsAreNumbers, NumbersInOrder, SmallSets
    DEF RoomInv, HandleTypes, HasRoom, MovesAlone, Alone, Walking
<1>1. /\ pc \in [Threads -> Places] /\ handles \in [Threads -> SUBSET Children]
  BY DEF ChainInv, ChainTypes
<1> USE DEF Goto, Return, callVars, snapVars, childVars
<1>2. CASE Unknown \/ Snapshot \/ Stopped \/ First \/ StoppedOne
  <2>1. UNCHANGED <<handles, next, function, pid>>
    BY <1>2 DEF Unknown, Snapshot, Stopped, First, StoppedOne, SetupStep
  <2>2. PICK p \in {"stopped", "first", "open", "open_one", "scan", "ended"} :
          pc' = [pc EXCEPT ![Main] = p]
    BY <1>2 DEF Unknown, Snapshot, Stopped, First, StoppedOne
  <2>3. pc[Main] \in Alone \ {"wait_one"}
    BY <1>2 DEF Unknown, Snapshot, Stopped, First, StoppedOne
  <2>4. HasRoom(Main)' /\ MovesAlone(Main)
    BY <1>1, <2>1, <2>2, <2>3
  <2> QED
    BY <2>1, <2>4, OthersKeepRoom
<1>3. CASE OpenOne /\ function \in ForOne
  <2>1. UNCHANGED <<next, function, pid>>
    BY <1>3 DEF OpenOne, OneStep
  <2>2. CASE handles' = [handles EXCEPT ![Main] = {pid}] /\ pc' = [pc EXCEPT ![Main] = "wait_one"]
    <3>1. HandleTypes'
      BY <1>3, <2>1, <2>2
    <3>2. handles'[Main] = {pid} /\ pc'[Main] = "wait_one"
      BY <1>1, <2>2
    <3>3. Cardinality(handles'[Main]) = 1
      BY <3>2
    <3>4. HasRoom(Main)'
      BY <3>2, <3>3
    <3>5. MovesAlone(Main)
      BY <1>1, <2>1, <2>2
    <3> QED
      BY <3>1, <3>4, <3>5, OthersKeepRoom
  <2>3. CASE handles' = handles /\ pc' = [pc EXCEPT ![Main] = "ended"]
    <3>1. HasRoom(Main)' /\ MovesAlone(Main)
      BY <1>1, <2>1, <2>3
    <3> QED
      BY <2>1, <2>3, <3>1, OthersKeepRoom
  <2> QED
    BY <1>3, <2>2, <2>3 DEF OpenOne
<1>4. CASE OpenFirst
  <2>1. pc[Main] = "open" /\ UNCHANGED <<function, pid>>
    BY <1>4 DEF OpenFirst, OneStep
  <2>2. CASE next > N
    <3>1. UNCHANGED <<handles, next>> /\ pc' = [pc EXCEPT ![Main] = "ended"]
      BY <1>4, <2>2 DEF OpenFirst
    <3>2. HasRoom(Main)' /\ MovesAlone(Main)
      BY <1>1, <3>1
    <3> QED
      BY <2>1, <3>1, <3>2, OthersKeepRoom
  <2>3. CASE ~(next > N)
    <3>1. /\ next' = next + 1
          /\ \/ handles' = [handles EXCEPT ![Main] = {next}] /\ pc' = [pc EXCEPT ![Main] = "wait_one"]
             \/ UNCHANGED <<handles, pc>>
      BY <1>4, <2>3 DEF OpenFirst
    <3>2. next \in Children /\ next' \in 1..N + 1
      BY <2>3, <3>1 DEF Children
    <3>3. HandleTypes'
      BY <2>1, <3>1, <3>2
    <3>4. HasRoom(Main)' /\ MovesAlone(Main)
      BY <1>1, <2>1, <3>1, <3>2
    <3> QED
      BY <3>3, <3>4, OthersKeepRoom
  <2> QED
    BY <2>2, <2>3
<1>5. CASE WaitOne \/ WaitOneFails
  <2>1. /\ UNCHANGED <<next, function, pid>> /\ pc[Main] = "wait_one"
        /\ handles' = [handles EXCEPT ![Main] = {}]
        /\ pc' = [pc EXCEPT ![Main] = "ended"]
    BY <1>5 DEF WaitOne, WaitOneFails, CloseOne, OneStep
  <2>2. HandleTypes'
    BY <2>1
  <2>3. HasRoom(Main)' /\ MovesAlone(Main)
    BY <1>1, <2>1
  <2> QED
    BY <2>2, <2>3, OthersKeepRoom
<1> QED
  BY <1>2, <1>3, <1>4, <1>5

\* A thread goes on when hHandles is full and closes what it has before it
\* walks on and when it ends.
LEMMA WalkKeepsRoom ==
  ASSUME ChainInv, RoomInv, NEW t \in Threads, WaitForProcesses(t)
  PROVE  RoomInv'
<1> USE ThreadsAreNumbers, NumbersInOrder, SmallSets
    DEF RoomInv, HandleTypes, HasRoom, MovesAlone, Alone, Walking
<1>1. /\ pc \in [Threads -> Places] /\ handles \in [Threads -> SUBSET Children]
  BY DEF ChainInv, ChainTypes
<1> USE DEF Goto, callVars, snapVars, childVars, AnyStep
<1>2. CASE Scan(t)
  <2>1. pc[t] = "scan" /\ UNCHANGED <<function, pid>>
    BY <1>2 DEF Scan
  <2>2. CASE UNCHANGED <<handles, next>> /\ pc' = [pc EXCEPT ![t] = "last"]
    <3>1. HasRoom(t)' /\ MovesAlone(t)
      BY <1>1, <2>1, <2>2
    <3> QED
      BY <2>1, <2>2, <3>1, OthersKeepRoom
  <2>3. CASE ~(next > N) /\ next' = next + 1 /\ UNCHANGED <<handles, pc>>
    <3>1. HandleTypes'
      BY <2>1, <2>3
    <3>2. HasRoom(t)' /\ MovesAlone(t)
      BY <1>1, <2>1, <2>3
    <3> QED
      BY <3>1, <3>2, OthersKeepRoom
  <2>4. CASE /\ ~(next > N) /\ next' = next + 1
             /\ handles' = [handles EXCEPT ![t] = @ \cup {next}]
             /\ pc' = [pc EXCEPT ![t] =
                         IF Cardinality(handles[t]) = MAXIMUM_WAIT_OBJECTS - 2
                         THEN "create" ELSE "scan"]
    <3>1. next \in Children /\ next \notin handles[t]
      BY <2>1, <2>4 DEF Children
    <3>2. handles'[t] = handles[t] \cup {next} /\ handles[t] \subseteq Children
      BY <1>1, <2>4
    <3>3. Cardinality(handles'[t]) = Cardinality(handles[t]) + 1
      BY <3>1, <3>2, FS_AddElement
    <3>4. HandleTypes'
      BY <2>1, <2>4, <3>1
    <3>5. Cardinality(handles[t]) \in Nat /\ Cardinality(handles[t]) < Full
      BY <2>1, <3>2
    <3>6. \A c \in handles'[t] : c < next'
      BY <2>1, <2>4, <3>2
    <3>7. \/ pc'[t] = "create" /\ Cardinality(handles'[t]) = Full
          \/ pc'[t] = "scan" /\ Cardinality(handles'[t]) < Full
      <4>1. Cardinality(handles[t]) = MAXIMUM_WAIT_OBJECTS - 2 <=>
              Cardinality(handles[t]) + 1 = Full
        BY <3>5, WaitAssumption DEF Full
      <4>2. CASE Cardinality(handles[t]) = MAXIMUM_WAIT_OBJECTS - 2
        <5>1. pc'[t] = "create"
          BY <1>1, <2>4, <4>2
        <5>2. Cardinality(handles[t]) + 1 = Full
          BY <4>1, <4>2
        <5>3. Cardinality(handles'[t]) = Full
          BY <3>3, <5>2
        <5> QED
          BY <5>1, <5>3
      <4>3. CASE Cardinality(handles[t]) # MAXIMUM_WAIT_OBJECTS - 2
        <5>1. pc'[t] = "scan"
          BY <1>1, <2>4, <4>3
        <5>2. Cardinality(handles[t]) + 1 < Full
          BY <3>5, <4>1, <4>3
        <5> QED
          BY <3>3, <5>1, <5>2
      <4> QED
        BY <4>2, <4>3
    <3>8. HasRoom(t)'
      <4>1. Cardinality(handles'[t]) <= Full
        BY <3>3, <3>5
      <4> QED
        BY <3>6, <3>7, <4>1
    <3>9. MovesAlone(t)
      BY <1>1, <2>4
    <3> QED
      BY <3>4, <3>8, <3>9, OthersKeepRoom
  <2> QED
    BY <1>2, <2>2, <2>3, <2>4 DEF Scan
<1>3. CASE Create(t)
  <2>1. pc[t] = "create" /\ UNCHANGED <<function, pid, handles, next>>
    BY <1>3 DEF Create
  <2>2. ASSUME NEW u \in Threads,
               u = Cardinality({s \in Threads : pc[s] # "none"}),
               pc' = [pc EXCEPT ![t] = "wait", ![u] = "scan"]
        PROVE  RoomInv'
    <3>1. pc[u] = "none" /\ u # t
      BY <2>1, <2>2, NewThread DEF ChainInv
    <3>2. HasRoom(u)' /\ HasRoom(t)'
      BY <1>1, <2>1, <2>2, <3>1
    <3>3. \A s \in Threads \ {t, u} : HasRoom(s)'
      BY <1>1, <2>1, <2>2
    <3> QED
      BY <2>1, <3>2, <3>3
  <2>3. CASE \/ pc' = [pc EXCEPT ![t] = "last"]
             \/ t = Main /\ pc' = [pc EXCEPT ![t] = "ended"]
    <3>1. HasRoom(t)' /\ MovesAlone(t)
      BY <1>1, <2>1, <2>3
    <3> QED
      BY <2>1, <3>1, OthersKeepRoom
  <2> QED
    BY <1>3, <2>2, <2>3 DEF Create, Return
<1>4. CASE Wait(t) \/ WaitFails(t) \/ Join(t)
  <2>1. /\ pc[t] \in {"wait", "join"} /\ UNCHANGED <<function, pid, handles, next>>
        /\ pc' = [pc EXCEPT ![t] = "join"] \/ pc' = [pc EXCEPT ![t] = "close"]
    BY <1>4 DEF Wait, WaitFails, Join
  <2>2. HasRoom(t)' /\ MovesAlone(t)
    BY <1>1, <2>1
  <2> QED
    BY <2>1, <2>2, OthersKeepRoom
<1>5. CASE Close(t)
  <2>1. /\ UNCHANGED <<function, pid, next>>
        /\ handles' = [handles EXCEPT ![t] = {}]
        /\ pc' = [pc EXCEPT ![t] = "scan"]
    BY <1>5 DEF Close
  <2>2. HandleTypes'
    BY <2>1
  <2>3. HasRoom(t)' /\ MovesAlone(t)
    BY <1>1, <2>1
  <2> QED
    BY <2>2, <2>3, OthersKeepRoom
<1>6. CASE Last(t) \/ LastWait(t) \/ LastWaitFails(t)
  <2>1. /\ UNCHANGED <<function, pid, next>> /\ pc[t] \in {"last", "last_wait"}
        /\ \/ /\ handles' = [handles EXCEPT ![t] = {}]
              /\ pc' = [pc EXCEPT ![t] = "ended"]
           \/ handles' = handles /\ pc' = [pc EXCEPT ![t] = "last_wait"]
    BY <1>6 DEF Last, LastWait, LastWaitFails, Finish
  <2>2. HandleTypes'
    BY <2>1
  <2>3. MovesAlone(t)
    BY <1>1, <2>1
  <2>4. CASE handles' = [handles EXCEPT ![t] = {}] /\ pc' = [pc EXCEPT ![t] = "ended"]
    <3>1. handles'[t] = {} /\ pc'[t] = "ended"
      BY <1>1, <2>4
    <3>2. HasRoom(t)'
      BY <3>1
    <3> QED
      BY <2>2, <2>3, <3>2, OthersKeepRoom
  <2>5. CASE handles' = handles /\ pc' = [pc EXCEPT ![t] = "last_wait"]
    <3>1. handles'[t] = handles[t] /\ pc'[t] = "last_wait" /\ next' = next
      BY <1>1, <2>1, <2>5
    <3>2. HasRoom(t)'
      BY <2>1, <3>1
    <3> QED
      BY <2>2, <2>3, <3>2, OthersKeepRoom
  <2> QED
    BY <2>1, <2>4, <2>5
<1> QED
  BY <1>2, <1>3, <1>4, <1>5, <1>6 DEF WaitForProcesses, Any

LEMMA RoomStep ==
  ASSUME ChainInv, RoomInv, [Next]_vars
  PROVE  RoomInv'
<1>1. (\E c \in Children : Exit(c)) \/ UNCHANGED vars => RoomInv'
  BY DEF Exit, vars, callVars, snapVars, childVars, RoomInv, HandleTypes, HasRoom
<1> QED
  BY <1>1, AloneKeepsRoom, WalkKeepsRoom DEF Next, wait, waitpid, waitid, ForOne

\* The snapshots and Main's handles are closed on every path but the three.
ClosedInv ==
  /\ pc[Main] \in {"call", "open_one"} => snapshots = {}
  /\ "Thread32First" \notin failed => snapshots \subseteq {"processes"}
  /\ /\ Over /\ function # "wait"
     /\ failed \cap {"CreateThread", "Process32First", "Thread32First"} = {}
     => snapshots = {} /\ handles[Main] = {}

LEMMA ClosedStep ==
  ASSUME ChainInv, RoomInv, ClosedInv, [Next]_vars
  PROVE  ClosedInv'
<1> USE ThreadsAreNumbers DEF ClosedInv, Over
<1>1. /\ pc \in [Threads -> Places] /\ handles \in [Threads -> SUBSET Children]
  BY DEF ChainInv, ChainTypes, RoomInv, HandleTypes
<1>2. pc[Main] \in Alone \ {"wait_one"} => handles[Main] = {}
  BY DEF RoomInv, HasRoom
<1> USE DEF Goto, Return, Fails, callVars, snapVars, childVars
<1>3. CASE Unknown \/ Snapshot \/ Stopped \/ First \/ StoppedOne
  <2> USE <1>1, <1>2 DEF SetupStep, Alone
  <2>1. CASE Unknown
    BY <2>1 DEF Unknown
  <2>2. CASE Snapshot
    BY <2>2 DEF Snapshot
  <2>3. CASE Stopped
    BY <2>3 DEF Stopped
  <2>4. CASE First
    BY <2>4 DEF First
  <2>5. CASE StoppedOne
    BY <2>5 DEF StoppedOne
  <2> QED
    BY <1>3, <2>1, <2>2, <2>3, <2>4, <2>5
<1>4. CASE OpenOne \/ OpenFirst \/ WaitOne \/ WaitOneFails
  <2> USE <1>1, <1>2 DEF OneStep, Alone
  <2>1. CASE OpenOne
    BY <2>1 DEF OpenOne
  <2>2. CASE OpenFirst
    BY <2>2 DEF OpenFirst
  <2>3. CASE WaitOne
    BY <2>3 DEF WaitOne, CloseOne
  <2>4. CASE WaitOneFails
    BY <2>4 DEF WaitOneFails, CloseOne
  <2> QED
    BY <1>4, <2>1, <2>2, <2>3, <2>4
<1>5. ASSUME NEW t \in Threads, WaitForProcesses(t)
      PROVE  ClosedInv'
  <2> USE <1>1 DEF AnyStep
  <2>1. CASE Scan(t) \/ Wait(t) \/ WaitFails(t) \/ Join(t) \/ Close(t)
    BY <2>1 DEF Scan, Wait, WaitFails, Join, Close
  <2>2. CASE Create(t)
    <3>1. ASSUME NEW u \in Threads,
                 u = Cardinality({s \in Threads : pc[s] # "none"})
          PROVE  u # Main
      BY <3>1, NewThread DEF ChainInv, Main
    <3> QED
      BY <2>2, <3>1 DEF Create
  <2>3. CASE Last(t) \/ LastWait(t) \/ LastWaitFails(t)
    BY <2>3 DEF Last, LastWait, LastWaitFails, Finish, ReturnFound
  <2> QED
    BY <1>5, <2>1, <2>2, <2>3 DEF WaitForProcesses, Any
<1>6. (\E c \in Children : Exit(c)) \/ UNCHANGED vars => ClosedInv'
  BY DEF Exit, vars
<1> QED
  BY <1>3, <1>4, <1>5, <1>6 DEF Next, wait, waitpid, waitid

LEMMA RoomHolds == SafeSpec => []RoomInv
<1>1. Init => RoomInv
  BY ThreadsAreNumbers, NumbersInOrder, SmallSets
     DEF Init, RoomInv, HandleTypes, HasRoom, Alone, Walking, Main
<1> QED
  BY <1>1, ChainHolds, RoomStep, PTL DEF SafeSpec

\* hHandles never has more than WaitForMultipleObjects takes, the helper
\* included, and every path but the ones of three failures closes what it
\* opened.
THEOREM HandlesAreKept == SafeSpec => []HandlesInOrder
<1>1. Init => ClosedInv
  BY ThreadsAreNumbers DEF Init, ClosedInv, Over, Main
<1>2. RoomInv => HandlesFit
  <2>1. ASSUME RoomInv, NEW t \in Threads
        PROVE  Cardinality(handles[t]) + (IF helper[t] = NoThread THEN 0 ELSE 1)
                 <= MAXIMUM_WAIT_OBJECTS
    <3>1. Cardinality(handles[t]) \in Nat /\ Cardinality(handles[t]) <= Full
      BY <2>1, NumbersInOrder DEF RoomInv, HandleTypes, HasRoom
    <3> QED
      BY <3>1, WaitAssumption DEF Full
  <2> QED
    BY <2>1 DEF HandlesFit
<1>3. RoomInv /\ ClosedInv => HandlesClosed
  BY DEF RoomInv, HasRoom, ClosedInv, HandlesClosed
<1> QED
  BY <1>1, <1>2, <1>3, ChainHolds, RoomHolds, ClosedStep, PTL
     DEF SafeSpec, HandlesInOrder

-----------------------------------------------------------------------------
(* The count of the children.                                              *)

LEMMA Remainder ==
  ASSUME NEW m \in Nat, m > 0, NEW q \in Nat, NEW r \in Nat, r < m
  PROVE  (m * q + r) % m = r
BY SMT

\* What one more does to a remainder.
LEMMA NextRemainder ==
  ASSUME NEW m \in Nat, m > 0, NEW x \in Nat
  PROVE  /\ (x % m) + 1 < m => (x + 1) % m = (x % m) + 1
         /\ (x % m) + 1 = m => (x + 1) % m = 0
<1>1. x \div m \in Nat /\ (x % m) \in Nat /\ x = m * (x \div m) + (x % m)
  BY SMT
<1>2. PICK q \in Nat, r \in Nat : x = m * q + r /\ x % m = r
  BY <1>1
<1>3. ASSUME r + 1 < m
      PROVE  (x + 1) % m = r + 1
  <2>1. x + 1 = m * q + (r + 1)
    BY <1>2
  <2>2. (m * q + (r + 1)) % m = r + 1
    BY <1>3, Remainder
  <2> QED
    BY <2>1, <2>2
<1>4. ASSUME r + 1 = m
      PROVE  (x + 1) % m = 0
  <2>1. x + 1 = m * (q + 1) + 0
    BY <1>2, <1>4
  <2>2. (m * (q + 1) + 0) % m = 0
    BY Remainder
  <2> QED
    BY <2>1, <2>2
<1> QED
  BY <1>2, <1>3, <1>4

LEMMA SmallRemainders ==
  /\ 0 % Full = 0 /\ Full % Full = 0
  /\ \A c \in Nat : c < Full => c % Full = c
<1>1. Full \in Nat /\ Full > 0
  BY NumbersInOrder
<1> QED
  BY <1>1, SMT

\* A struct above thread r says that a child was found: that of the function,
\* or that of a thread that will copy it to its creator.
NewsAbove(r) ==
  \/ info[NoThread].done
  \/ \E s \in Threads : s < r /\ pc[s] = "wait" /\ info[s].done

NewsOut == \E r \in Nat : NewsAbove(r)

\* A thread that joins its helper has told its creator; what a waiting creator
\* knows its waiting helper knows too, so that it does not take it back.
Spread ==
  /\ \A t \in Threads : pc[t] = "join" => NewsAbove(t)
  /\ \A t \in Threads :
       /\ pc[t] = "wait" /\ (t = Main \/ pc[creator[t]] = "wait")
       /\ info[creator[t]].done
       => info[t].done

SpreadInv == "wait" \notin failed => Spread

LEMMA CreatorOf ==
  ASSUME ChainInv, Chain, NEW t \in Threads, Live(t)
  PROVE  /\ t = Main => creator[t] = NoThread
         /\ t # Main => HasCreator(t) /\ creator[t] \in Nat
         /\ creator[t] # t
         /\ \A s \in Threads : Live(s) /\ creator[s] = creator[t] => s = t
<1> USE ThreadsAreNumbers
<1>1. \A s \in Threads : Live(s) => s = Main \/ HasCreator(s)
  BY DEF Chain
<1>2. creator[Main] = NoThread
  BY DEF ChainInv, ChainTypes
<1>3. \A s \in Threads : Live(s) /\ s # Main =>
        HasCreator(s) /\ creator[s] \in Threads /\ creator[s] # s
  BY <1>1 DEF HasCreator
<1>4. \A s \in Threads : Live(s) /\ s # Main => helper[creator[s]] = s
  BY <1>3 DEF HasCreator
<1> QED
  BY <1>2, <1>3, <1>4

LEMMA NewsFurtherDown ==
  ASSUME NEW r \in Nat, NEW q \in Nat, r <= q, NewsAbove(r)
  PROVE  NewsAbove(q)
BY ThreadsAreNumbers DEF NewsAbove

\* A thread t that ends or joins its helper or closes its handles tells its
\* creator.
Tells(t) ==
  /\ pc[t] \in {"wait", "last_wait"}
  /\ \E i \in Infos :
       /\ i.done \/ (i = info[t] /\ pc[t] = "wait")
       /\ \/ info' = [info EXCEPT ![creator[t]] = i]
          \/ /\ i.done
             /\ \E j \in Infos : info' = [info EXCEPT ![creator[t]] = i, ![t] = j]
  /\ creator' = creator
  /\ \E q \in {"join", "close", "ended"} :
       /\ pc' = [pc EXCEPT ![t] = q]
       /\ q = "join" => info'[creator[t]].done

LEMMA TellsKeepsNews ==
  ASSUME ChainInv, Chain, InfoTypes, Spread, NEW t \in Threads, Tells(t),
         NEW r \in Nat, NewsAbove(r)
  PROVE  NewsAbove(r)'
<1> USE ThreadsAreNumbers
<1>1. Live(t)
  BY DEF Tells, Live
<1>2. /\ \A x \in Threads \cup {NoThread} : x # t /\ x # creator[t] => info'[x] = info[x]
      /\ \A x \in Threads : x # t => pc'[x] = pc[x]
      /\ creator[t] \in Threads \cup {NoThread} /\ creator[t] # t
  BY <1>1, CreatorOf, ReportsTo DEF Tells, InfoTypes, ChainInv, ChainTypes
<1>3. \/ info'[creator[t]].done
      \/ pc[t] = "wait" /\ info'[creator[t]] = info[t]
  BY <1>2 DEF Tells, InfoTypes
<1>4. (creator[t] = NoThread \/ pc[creator[t]] = "wait") /\ info[creator[t]].done
        => info'[creator[t]].done
  BY <1>1, <1>3, CreatorOf DEF Spread, HasCreator
<1>5. CASE info[NoThread].done
  <2>1. info'[NoThread].done
    BY <1>2, <1>4, <1>5
  <2> QED
    BY <2>1 DEF NewsAbove
<1>6. ASSUME NEW s \in Threads, s < r, pc[s] = "wait", info[s].done
      PROVE  NewsAbove(r)'
  <2>1. CASE s # t
    <3>1. pc'[s] = "wait" /\ info'[s].done
      BY <1>2, <1>4, <1>6, <2>1
    <3> QED
      BY <1>6, <3>1 DEF NewsAbove
  <2>2. CASE s = t
    <3>1. info'[creator[t]].done
      BY <1>3, <1>6, <2>2
    <3>2. CASE t = Main
      BY <1>1, <3>1, <3>2, CreatorOf DEF NewsAbove
    <3>3. CASE t # Main
      <4>1. /\ creator[t] \in Threads /\ creator[t] < t
            /\ pc[creator[t]] \in {"wait", "join"}
        BY <1>1, <3>3, CreatorOf DEF HasCreator, Waiting
      <4>2. CASE pc[creator[t]] = "wait"
        BY <1>2, <1>6, <2>2, <3>1, <4>1, <4>2 DEF NewsAbove
      <4>3. CASE pc[creator[t]] = "join"
        <5>1. NewsAbove(creator[t])
          BY <4>1, <4>3 DEF Spread
        <5>2. CASE info[NoThread].done
          <6>1. info'[NoThread].done
            BY <1>2, <4>1, <5>2
          <6> QED
            BY <6>1 DEF NewsAbove
        <5>3. ASSUME NEW p \in Threads, p < creator[t], pc[p] = "wait", info[p].done
              PROVE  NewsAbove(r)'
          <6>1. p < r /\ p # t /\ p # creator[t]
            BY <1>6, <2>2, <4>1, <5>3
          <6>2. pc'[p] = "wait" /\ info'[p].done
            BY <1>2, <5>3, <6>1
          <6> QED
            BY <6>1, <6>2 DEF NewsAbove
        <5> QED
          BY <5>1, <5>2, <5>3 DEF NewsAbove
      <4> QED
        BY <4>1, <4>2, <4>3
    <3> QED
      BY <3>2, <3>3
  <2> QED
    BY <2>1, <2>2
<1> QED
  BY <1>5, <1>6 DEF NewsAbove

LEMMA TellsKeepsSpread ==
  ASSUME ChainInv, Chain, InfoTypes, Spread, NEW t \in Threads, Tells(t)
  PROVE  Spread'
<1> USE ThreadsAreNumbers
<1>1. Live(t)
  BY DEF Tells, Live
<1>2. /\ \A x \in Threads \cup {NoThread} : x # t /\ x # creator[t] => info'[x] = info[x]
      /\ \A x \in Threads : x # t => pc'[x] = pc[x]
      /\ creator[t] \in Threads \cup {NoThread} /\ creator[t] # t
      /\ creator' = creator
  BY <1>1, CreatorOf, ReportsTo DEF Tells, InfoTypes, ChainInv, ChainTypes
<1>3. \/ info'[creator[t]].done
      \/ pc[t] = "wait" /\ info'[creator[t]] = info[t]
  BY <1>2 DEF Tells, InfoTypes
<1>4. pc'[t] # "wait" /\ (pc'[t] = "join" => info'[creator[t]].done)
  BY DEF Tells, ChainInv, ChainTypes
<1>5. ASSUME NEW s \in Threads, pc'[s] = "join"
      PROVE  NewsAbove(s)'
  <2>1. CASE s # t
    BY <1>2, <1>5, <2>1, TellsKeepsNews DEF Spread
  <2>2. CASE s = t /\ t = Main
    BY <1>1, <1>4, <1>5, <2>2, CreatorOf DEF NewsAbove
  <2>3. CASE s = t /\ t # Main
    <3>1. /\ creator[t] \in Threads /\ creator[t] < t
          /\ pc[creator[t]] \in {"wait", "join"}
      BY <1>1, <2>3, CreatorOf DEF HasCreator, Waiting
    <3>2. CASE pc[creator[t]] = "wait"
      BY <1>2, <1>4, <1>5, <2>3, <3>1, <3>2 DEF NewsAbove
    <3>3. CASE pc[creator[t]] = "join"
      <4>1. NewsAbove(creator[t])
        BY <3>1, <3>3 DEF Spread
      <4>2. NewsAbove(creator[t])'
        BY <1>2, <3>1, <4>1, TellsKeepsNews
      <4> QED
        BY <1>2, <2>3, <3>1, <4>2 DEF NewsAbove
    <3> QED
      BY <3>1, <3>2, <3>3
  <2> QED
    BY <2>1, <2>2, <2>3
<1>6. ASSUME NEW s \in Threads, pc'[s] = "wait",
             s = Main \/ pc'[creator[s]] = "wait",
             info'[creator[s]].done
      PROVE  info'[s].done
  <2>1. s # t /\ pc[s] = "wait" /\ Live(s)
    BY <1>2, <1>4, <1>6 DEF Live
  <2>2. creator[s] # creator[t] /\ creator[s] # t
    <3>1. creator[s] # creator[t]
      BY <1>1, <2>1, CreatorOf
    <3>2. creator[s] # t
      BY <1>4, <1>6, <2>1, CreatorOf
    <3> QED
      BY <3>1, <3>2
  <2>3. creator[s] \in Threads \cup {NoThread}
    BY ReportsTo
  <2>4. info[creator[s]].done
    BY <1>2, <1>6, <2>2, <2>3
  <2>5. s = Main \/ pc[creator[s]] = "wait"
    BY <1>2, <1>6, <2>1, <2>2, CreatorOf DEF HasCreator
  <2>6. info[s].done
    BY <2>1, <2>4, <2>5 DEF Spread
  <2>7. CASE s = creator[t]
    <3>1. t # Main
      BY <1>1, <2>7, CreatorOf
    <3>2. pc[t] = "wait" => info[t].done
      BY <2>1, <2>6, <2>7 DEF Spread
    <3> QED
      BY <1>3, <2>7, <3>2
  <2>8. CASE s # creator[t]
    BY <1>2, <2>1, <2>6, <2>8
  <2> QED
    BY <2>7, <2>8
<1> QED
  BY <1>2, <1>5, <1>6 DEF Spread

\* A step that neither copies a struct nor starts or ends a wait for a helper.
Silent ==
  /\ UNCHANGED <<info, creator>>
  /\ \A s \in Threads : /\ pc'[s] = "wait" <=> pc[s] = "wait"
                        /\ pc'[s] = "join" => pc[s] = "join"

LEMMA SilentKeepsSpread ==
  ASSUME ChainInv, Chain, Spread, Silent
  PROVE  Spread' /\ \A r \in Nat : NewsAbove(r) => NewsAbove(r)'
<1>1. \A r : NewsAbove(r) => NewsAbove(r)'
  BY DEF NewsAbove, Silent
<1>2. ASSUME NEW s \in Threads, pc'[s] = "wait",
             s = Main \/ pc'[creator[s]] = "wait",
             info'[creator[s]].done
      PROVE  info'[s].done
  <2>1. s = Main \/ creator[s] \in Threads
    BY <1>2, CreatorOf DEF HasCreator, Live, Silent
  <2> QED
    BY <1>2, <2>1 DEF Spread, Silent
<1> QED
  BY <1>1, <1>2 DEF Spread, Silent

LEMMA CreateKeepsSpread ==
  ASSUME ChainInv, Chain, InfoTypes, Spread, NEW t \in Threads, Create(t)
  PROVE  Spread' /\ \A r \in Nat : NewsAbove(r) => NewsAbove(r)'
<1> USE ThreadsAreNumbers
<1>1. pc[t] = "create" /\ info' = [info EXCEPT ![t] = info[creator[t]]]
  BY DEF Create
<1>2. Live(t) /\ creator[t] # t /\ creator[t] \in Threads \cup {NoThread}
  BY <1>1, CreatorOf, ReportsTo DEF Live
<1>3. /\ info'[t] = info[creator[t]]
      /\ \A x \in Threads \cup {NoThread} : x # t => info'[x] = info[x]
  BY <1>1 DEF InfoTypes
<1>4. \A s \in Threads : Live(s) => creator[s] # t
  <2>1. \A s \in Threads : Live(s) /\ s # Main => pc[creator[s]] # "create"
    BY CreatorOf DEF HasCreator, Waiting
  <2> QED
    BY <1>1, <2>1, CreatorOf
<1>5. PICK D \in SUBSET Threads :
        /\ \A s \in D : pc[s] = "none" /\ pc'[s] = "scan"
        /\ t \notin D
        /\ \A s \in Threads : s \notin D =>
             /\ s # t => pc'[s] = pc[s]
             /\ creator'[s] = creator[s]
        /\ pc'[t] # "join"
  <2>1. ASSUME NEW u \in Threads,
               u = Cardinality({s \in Threads : pc[s] # "none"}),
               creator' = [creator EXCEPT ![u] = t],
               pc' = [pc EXCEPT ![t] = "wait", ![u] = "scan"]
        PROVE  /\ pc[u] = "none" /\ pc'[u] = "scan" /\ t # u /\ pc'[t] = "wait"
               /\ \A s \in Threads : s # u =>
                    /\ s # t => pc'[s] = pc[s]
                    /\ creator'[s] = creator[s]
    <3>1. pc[u] = "none" /\ t # u
      BY <1>1, <2>1, NewThread DEF ChainInv
    <3> QED
      BY <2>1, <3>1 DEF ChainInv, ChainTypes
  <2>2. CASE \E u \in Threads :
               /\ u = Cardinality({s \in Threads : pc[s] # "none"})
               /\ creator' = [creator EXCEPT ![u] = t]
               /\ pc' = [pc EXCEPT ![t] = "wait", ![u] = "scan"]
    <3>1. PICK u \in Threads :
                 /\ u = Cardinality({s \in Threads : pc[s] # "none"})
                 /\ creator' = [creator EXCEPT ![u] = t]
                 /\ pc' = [pc EXCEPT ![t] = "wait", ![u] = "scan"]
      BY <2>2
    <3> WITNESS {u} \in SUBSET Threads
    <3> QED
      BY <2>1, <3>1
  <2>3. CASE /\ creator' = creator
             /\ \E q \in {"last", "ended"} : pc' = [pc EXCEPT ![t] = q]
    <3> WITNESS {} \in SUBSET Threads
    <3> QED
      BY <2>3 DEF ChainInv, ChainTypes
  <2> QED
    BY <2>2, <2>3 DEF Create, Return, Goto
<1>6. ASSUME NEW r \in Nat, NewsAbove(r)
      PROVE  NewsAbove(r)'
  <2>1. CASE info[NoThread].done
    BY <1>3, <2>1 DEF NewsAbove
  <2>2. ASSUME NEW s \in Threads, s < r, pc[s] = "wait", info[s].done
        PROVE  NewsAbove(r)'
    <3>1. s # t /\ s \notin D
      BY <1>1, <1>5, <2>2
    <3>2. pc'[s] = "wait" /\ info'[s].done
      BY <1>3, <1>5, <2>2, <3>1
    <3> QED
      BY <2>2, <3>2 DEF NewsAbove
  <2> QED
    BY <1>6, <2>1, <2>2 DEF NewsAbove
<1>7. ASSUME NEW s \in Threads, pc'[s] = "join"
      PROVE  NewsAbove(s)'
  <2>1. s # t /\ s \notin D /\ pc[s] = "join"
    BY <1>5, <1>7
  <2>2. NewsAbove(s)
    BY <2>1 DEF Spread
  <2> QED
    BY <1>6, <2>2
<1>8. ASSUME NEW s \in Threads, pc'[s] = "wait",
             s = Main \/ pc'[creator'[s]] = "wait",
             info'[creator'[s]].done
      PROVE  info'[s].done
  <2>1. s \notin D /\ creator'[s] = creator[s]
    BY <1>5, <1>8
  <2>2. CASE s = t
    BY <1>2, <1>3, <1>8, <2>1, <2>2
  <2>3. CASE s # t
    <3>1. pc[s] = "wait" /\ Live(s) /\ creator[s] # t
      BY <1>4, <1>5, <1>8, <2>1, <2>3 DEF Live
    <3>2. info[creator[s]].done
      BY <1>3, <1>8, <2>1, <3>1, ReportsTo
    <3>3. s = Main \/ pc[creator[s]] = "wait"
      <4>1. CASE s # Main
        <5>1. creator[s] \in Threads /\ creator[s] \notin D
          BY <1>5, <1>8, <2>1, <3>1, <4>1, CreatorOf DEF HasCreator
        <5> QED
          BY <1>5, <1>8, <2>1, <3>1, <4>1, <5>1
      <4> QED
        BY <4>1
    <3>4. info[s].done
      BY <3>1, <3>2, <3>3 DEF Spread
    <3> QED
      BY <1>3, <2>3, <3>4
  <2> QED
    BY <2>2, <2>3
<1> QED
  BY <1>6, <1>7, <1>8 DEF Spread

LEMMA WaitTells ==
  ASSUME ChainInv, InfoTypes, NEW t \in Threads, Wait(t) \/ LastWait(t)
  PROVE  Tells(t)
<1>1. /\ creator[t] \in Threads \cup {NoThread} /\ info[t] \in Infos
      /\ NoThread # t
  BY ReportsTo, ThreadsAreNumbers DEF InfoTypes
<1>2. \A c \in Children : Found(c) \in Infos /\ Found(c).done
  BY DEF Found, Infos
<1>3. CASE LastWait(t)
  <2>1. PICK c \in Children : info' = [info EXCEPT ![creator[t]] = Found(c)]
    BY <1>3 DEF LastWait
  <2>2. /\ pc[t] = "last_wait" /\ creator' = creator
        /\ pc' = [pc EXCEPT ![t] = "ended"]
    BY <1>3 DEF LastWait, Finish, Goto
  <2>3. \E i \in Infos :
          /\ i.done \/ (i = info[t] /\ pc[t] = "wait")
          /\ \/ info' = [info EXCEPT ![creator[t]] = i]
             \/ /\ i.done
                /\ \E j \in Infos : info' = [info EXCEPT ![creator[t]] = i, ![t] = j]
    <3>1. Found(c) \in Infos /\ Found(c).done
      BY <1>2
    <3> QED
      BY <2>1, <3>1
  <2>4. \E q \in {"join", "close", "ended"} :
          /\ pc' = [pc EXCEPT ![t] = q]
          /\ q = "join" => info'[creator[t]].done
    BY <2>2
  <2> QED
    BY <2>2, <2>3, <2>4 DEF Tells
<1>4. ASSUME pc[t] = "wait", creator' = creator, NEW c \in Children,
             info' = [info EXCEPT ![creator[t]] = Found(c), ![t].done = TRUE],
             Goto(t, "join")
      PROVE  Tells(t)
  <2> DEFINE i == [[info EXCEPT ![creator[t]] = Found(c)][t] EXCEPT !.done = TRUE]
  <2>1. i \in Infos /\ info' = [info EXCEPT ![creator[t]] = Found(c), ![t] = i]
    <3>1. [info EXCEPT ![creator[t]] = Found(c)][t] \in Infos
      BY <1>1, <1>2 DEF InfoTypes
    <3>2. i \in Infos
      BY <3>1 DEF Infos
    <3> QED
      BY <1>4, <3>2
  <2> HIDE DEF i
  <2>2. info'[creator[t]].done
    <3>1. CASE creator[t] # t
      BY <1>1, <1>2, <2>1, <3>1 DEF InfoTypes
    <3>2. CASE creator[t] = t
      <4>1. info'[t].done
        BY <1>4, <1>1, <1>2 DEF InfoTypes, Infos
      <4> QED
        BY <3>2, <4>1
    <3> QED
      BY <3>1, <3>2
  <2> QED
    BY <1>2, <1>4, <2>1, <2>2 DEF Tells, Goto
<1>5. ASSUME pc[t] = "wait", creator' = creator,
             info' = [info EXCEPT ![creator[t]] = info[t]],
             Goto(t, "close")
      PROVE  Tells(t)
  BY <1>1, <1>5 DEF Tells, Goto
<1> QED
  BY <1>3, <1>4, <1>5 DEF Wait

LEMMA FailedGrows ==
  ASSUME [Next]_vars
  PROVE  failed \subseteq failed'
<1> USE DEF SetupStep, OneStep, AnyStep, Fails, callVars, snapVars, childVars
<1>1. Unknown \/ Snapshot \/ Stopped \/ First \/ StoppedOne => failed \subseteq failed'
  BY DEF Unknown, Snapshot, Stopped, First, StoppedOne
<1>2. OpenOne \/ OpenFirst \/ WaitOne \/ WaitOneFails => failed \subseteq failed'
  BY DEF OpenOne, OpenFirst, WaitOne, WaitOneFails
<1>3. ASSUME NEW t \in Threads, WaitForProcesses(t)
      PROVE  failed \subseteq failed'
  BY <1>3 DEF WaitForProcesses, Any, Scan, Create, Wait, WaitFails, Join, Close,
              Last, LastWait, LastWaitFails
<1>4. (\E c \in Children : Exit(c)) \/ UNCHANGED vars => failed \subseteq failed'
  BY DEF Exit, vars
<1> QED
  BY <1>1, <1>2, <1>3, <1>4 DEF Next, wait, waitpid, waitid

LEMMA OpenedIsNat ==
  ASSUME opened \in Nat, [Next]_vars
  PROVE  opened' \in Nat
<1> USE DEF SetupStep, OneStep, AnyStep
<1>1. Unknown \/ Snapshot \/ Stopped \/ First \/ StoppedOne => opened' = opened
  BY DEF Unknown, Snapshot, Stopped, First, StoppedOne
<1>2. OpenOne \/ OpenFirst \/ WaitOne \/ WaitOneFails => opened' = opened
  BY DEF OpenOne, OpenFirst, WaitOne, WaitOneFails
<1>3. ASSUME NEW t \in Threads, WaitForProcesses(t)
      PROVE  opened' = opened \/ opened' = opened + 1
  BY <1>3 DEF WaitForProcesses, Any, Scan, Create, Wait, WaitFails, Join, Close,
              Last, LastWait, LastWaitFails
<1>4. (\E c \in Children : Exit(c)) \/ UNCHANGED vars => opened' = opened
  BY DEF Exit, vars
<1> QED
  BY <1>1, <1>2, <1>3, <1>4 DEF Next, wait, waitpid, waitid

LEMMA SpreadKept ==
  ASSUME ChainInv, InfoTypes, SpreadInv, [Next]_vars, "wait" \notin failed'
  PROVE  Spread' /\ \A r \in Nat : NewsAbove(r) => NewsAbove(r)'
<1> USE DEF SetupStep, OneStep, AnyStep, Goto, Return, Fails, callVars, snapVars, childVars
<1>1. failed \subseteq failed'
  BY FailedGrows
<1>2. Chain /\ Spread
  BY <1>1 DEF ChainInv, SpreadInv
<1>3. pc \in [Threads -> Places]
  BY DEF ChainInv, ChainTypes
<1>4. Unknown \/ Snapshot \/ Stopped \/ First \/ StoppedOne => Silent
  BY <1>3, ThreadsAreNumbers DEF Unknown, Snapshot, Stopped, First, StoppedOne, Silent
<1>5. OpenOne \/ OpenFirst \/ WaitOne \/ WaitOneFails => Silent
  BY <1>3, ThreadsAreNumbers DEF OpenOne, OpenFirst, WaitOne, WaitOneFails, Silent
<1>6. (\E c \in Children : Exit(c)) \/ UNCHANGED vars => Silent
  BY DEF Exit, vars, Silent
<1>7. ASSUME NEW t \in Threads, WaitForProcesses(t)
      PROVE  Silent \/ Tells(t) \/ Create(t)
  <2>1. CASE Scan(t) \/ Join(t) \/ Close(t) \/ Last(t)
    BY <1>3, <2>1 DEF Scan, Join, Close, Last, Finish, Silent
  <2>2. CASE WaitFails(t) \/ LastWaitFails(t)
    BY <2>2 DEF WaitFails, LastWaitFails
  <2> QED
    BY <1>7, <2>1, <2>2, WaitTells DEF WaitForProcesses, Any
<1>8. ASSUME NEW t \in Threads, Tells(t)
      PROVE  Spread' /\ \A r \in Nat : NewsAbove(r) => NewsAbove(r)'
  BY <1>2, <1>8, TellsKeepsNews, TellsKeepsSpread
<1> QED
  BY <1>2, <1>4, <1>5, <1>6, <1>7, <1>8, SilentKeepsSpread, CreateKeepsSpread
     DEF Next, wait, waitpid, waitid

\* The last thread of the chain.
LastOne(t) == pc[t] \in Walking /\ \A u \in Threads : t < u => ~Live(u)

\* Every thread but the last has opened as many as fill its wait.
Count ==
  /\ pc[Main] \in Alone => opened = 0
  /\ \A t \in Threads :
       LastOne(t) => NewsOut \/ opened % Full = Cardinality(handles[t]) % Full
  /\ result = Nothing => opened % Full = 0

CountInv ==
  /\ opened \in Nat
  /\ pc[Main] # "ended" => result = Returned("running", 0)
  /\ "wait" \notin failed => Count

\* While a helper runs, or Main walks, the function has not returned.
LEMMA DuringCall ==
  ASSUME ChainInv, Chain, NEW t \in Threads, Live(t), pc[t] \notin Alone
  PROVE  /\ pc[Main] \notin Alone /\ pc[Main] # "ended"
         /\ \A u \in Threads : u < t /\ Live(u) => pc[u] \in Waiting
         /\ pc[t] \notin Waiting \/ pc[helper[t]] = "ended" =>
              \A u \in Threads : t < u => ~Live(u)
<1> USE ThreadsAreNumbers
<1>1. \A u \in Threads : u < t /\ Live(u) => pc[u] \in Waiting
  BY DEF Chain
<1>2. Live(Main) /\ (t = Main \/ Main < t)
  BY DEF Chain, Main
<1>3. pc[Main] \notin Alone
  BY <1>1, <1>2 DEF Waiting, Alone
<1>4. \A u \in Threads : t < u /\ Live(u) => pc[t] \in Waiting /\ Live(helper[t])
  BY DEF Chain
<1> QED
  BY <1>1, <1>2, <1>3, <1>4 DEF Live

LEMMA ScanKeepsCount ==
  ASSUME ChainInv, RoomInv, Chain, CountInv, Count, NEW t \in Threads, Scan(t),
         NewsOut => NewsOut'
  PROVE  Count' /\ opened' \in Nat
<1> USE ThreadsAreNumbers, NumbersInOrder, SmallRemainders
<1>1. pc[t] = "scan" /\ Live(t) /\ pc[t] \notin Alone /\ pc[t] \notin Waiting
  BY DEF Scan, Live, Alone, Waiting
<1>2. /\ pc[Main] \notin Alone /\ pc[Main] # "ended"
      /\ \A u \in Threads : u < t /\ Live(u) => pc[u] \in Waiting
      /\ \A u \in Threads : t < u => ~Live(u)
  BY <1>1, DuringCall
<1>3. LastOne(t)
  BY <1>1, <1>2 DEF LastOne, Walking
<1>4. PICK q \in {"scan", "create", "last"} : pc' = [pc EXCEPT ![t] = q]
  <2>1. pc' = pc => pc' = [pc EXCEPT ![t] = "scan"]
    BY <1>1 DEF ChainInv, ChainTypes
  <2> QED
    BY <2>1 DEF Scan, Goto
<1>5. pc'[t] = q /\ \A s \in Threads : s # t => pc'[s] = pc[s]
  BY <1>4 DEF ChainInv, ChainTypes
<1>6. \A u \in Threads : LastOne(u)' => u = t
  BY <1>2, <1>5 DEF LastOne, Live, Walking
<1>7. pc'[Main] \notin Alone
  BY <1>2, <1>5 DEF Alone
<1>8. result' = result /\ result # Nothing
  BY <1>2 DEF Scan, CountInv, Returned, Nothing
<1>9. opened' \in Nat /\ (NewsOut' \/ opened' % Full = Cardinality(handles'[t]) % Full)
  <2>1. NewsOut \/ opened % Full = Cardinality(handles[t]) % Full
    BY <1>3 DEF Count
  <2>2. opened \in Nat
    BY DEF CountInv
  <2>3. CASE UNCHANGED <<handles, opened>>
    BY <2>1, <2>2, <2>3
  <2>4. CASE /\ ~(next > N) /\ opened' = opened + 1
             /\ handles' = [handles EXCEPT ![t] = @ \cup {next}]
    <3> DEFINE c == Cardinality(handles[t])
    <3>1. /\ next \in Children /\ next \notin handles[t]
          /\ handles'[t] = handles[t] \cup {next} /\ handles[t] \subseteq Children
          /\ c < Full
      BY <1>1, <2>4 DEF Children, RoomInv, HandleTypes, HasRoom, Walking
    <3>2. c \in Nat /\ Cardinality(handles'[t]) = c + 1
      BY <3>1, FS_AddElement
    <3> HIDE DEF c
    <3>3. c % Full = c
      BY <3>1, <3>2
    <3>4. CASE opened % Full = c
      <4>1. c + 1 < Full => (opened + 1) % Full = c + 1 /\ (c + 1) % Full = c + 1
        <5>1. c + 1 < Full => (c + 1) % Full = c + 1
          BY <3>2
        <5> QED
          BY <2>2, <3>4, <5>1, NextRemainder
      <4>2. c + 1 = Full => (opened + 1) % Full = 0 /\ (c + 1) % Full = 0
        BY <2>2, <3>4, NextRemainder
      <4>3. c + 1 < Full \/ c + 1 = Full
        BY <3>1, <3>2
      <4> QED
        BY <2>2, <2>4, <3>2, <4>1, <4>2, <4>3
    <3>5. NewsOut \/ opened % Full = c
      BY <2>1, <3>3 DEF c
    <3> QED
      BY <2>2, <2>4, <3>4, <3>5
  <2> QED
    BY <2>3, <2>4 DEF Scan
<1> QED
  BY <1>6, <1>7, <1>8, <1>9 DEF Count

LEMMA CloseKeepsCount ==
  ASSUME ChainInv, RoomInv, Chain, CountInv, Count, NEW t \in Threads,
         Close(t), NewsOut => NewsOut'
  PROVE  Count' /\ opened' \in Nat
<1> USE ThreadsAreNumbers, SmallRemainders
<1>1. pc[t] = "close" /\ Live(t) /\ pc[t] \notin Alone /\ pc[t] \notin Waiting
  BY DEF Close, Live, Alone, Waiting
<1>2. /\ pc[Main] \notin Alone /\ pc[Main] # "ended"
      /\ \A u \in Threads : u < t /\ Live(u) => pc[u] \in Waiting
      /\ \A u \in Threads : t < u => ~Live(u)
  BY <1>1, DuringCall
<1>3. /\ pc'[t] = "scan" /\ \A s \in Threads : s # t => pc'[s] = pc[s]
      /\ handles'[t] = {} /\ opened' = opened /\ result' = result
  BY DEF Close, Goto, ChainInv, ChainTypes, RoomInv, HandleTypes
<1>4. \A u \in Threads : LastOne(u)' => u = t
  BY <1>2, <1>3 DEF LastOne, Live, Walking
<1>5. pc'[Main] \notin Alone
  BY <1>2, <1>3 DEF Alone
<1>6. LastOne(t) /\ Cardinality(handles[t]) = Full
  BY <1>1, <1>2 DEF LastOne, Walking, RoomInv, HasRoom
<1>7. NewsOut \/ opened % Full = 0
  BY <1>6 DEF Count
<1>8. Cardinality(handles'[t]) % Full = 0
  BY <1>3, SmallSets
<1> QED
  BY <1>3, <1>4, <1>5, <1>7, <1>8 DEF Count, CountInv

LEMMA WaitKeepsCount ==
  ASSUME ChainInv, RoomInv, Chain, CountInv, Count, NEW t \in Threads,
         Wait(t) \/ Join(t), NewsOut => NewsOut'
  PROVE  Count' /\ opened' \in Nat
<1> USE ThreadsAreNumbers
<1>1. pc[t] \in {"wait", "join"} /\ Live(t) /\ pc[t] \notin Alone
  BY DEF Wait, Join, Live, Alone
<1>2. pc[Main] \notin Alone
  BY <1>1, DuringCall
<1>3. /\ pc' = [pc EXCEPT ![t] = "join"] \/ pc' = [pc EXCEPT ![t] = "close"]
      /\ UNCHANGED <<handles, opened, result>>
  BY DEF Wait, Join, Goto, childVars
<1>4. pc'[t] \in {"join", "close"} /\ \A s \in Threads : s # t => pc'[s] = pc[s]
  BY <1>3 DEF ChainInv, ChainTypes
<1>5. \A s \in Threads : (Live(s)' <=> Live(s)) /\ (pc'[s] \in Walking <=> pc[s] \in Walking)
  BY <1>1, <1>4 DEF Live, Walking
<1>6. \A u \in Threads : LastOne(u)' => LastOne(u)
  BY <1>5 DEF LastOne
<1>7. pc'[Main] \notin Alone
  BY <1>2, <1>4 DEF Alone
<1> QED
  BY <1>3, <1>6, <1>7 DEF Count, CountInv

LEMMA CreateKeepsCount ==
  ASSUME ChainInv, RoomInv, RoomInv', Chain, CountInv, Count, NEW t \in Threads,
         Create(t), NewsOut => NewsOut'
  PROVE  Count' /\ opened' \in Nat
<1> USE ThreadsAreNumbers, SmallRemainders
<1>1. pc[t] = "create" /\ Live(t) /\ pc[t] \notin Alone /\ pc[t] \notin Waiting
  BY DEF Create, Live, Alone, Waiting
<1>2. /\ pc[Main] \notin Alone /\ pc[Main] # "ended"
      /\ \A u \in Threads : u < t /\ Live(u) => pc[u] \in Waiting
      /\ \A u \in Threads : t < u => ~Live(u)
  BY <1>1, DuringCall
<1>3. LastOne(t) /\ Cardinality(handles[t]) = Full
  BY <1>1, <1>2 DEF LastOne, Walking, RoomInv, HasRoom
<1>4. NewsOut \/ opened % Full = 0
  BY <1>3 DEF Count
<1>5. UNCHANGED <<handles, opened>> /\ opened \in Nat
  BY DEF Create, CountInv
<1>6. ASSUME NEW u \in Threads,
             u = Cardinality({s \in Threads : pc[s] # "none"}),
             pc' = [pc EXCEPT ![t] = "wait", ![u] = "scan"],
             result' = result
      PROVE  Count'
  <2>1. u # t /\ t < u /\ u # Main /\ pc[u] = "none"
    BY <1>1, <1>6, NewThread DEF ChainInv, Main
  <2>2. /\ pc'[t] = "wait" /\ pc'[u] = "scan"
        /\ \A s \in Threads : s # t /\ s # u => pc'[s] = pc[s]
    BY <1>6, <2>1 DEF ChainInv, ChainTypes
  <2>3. \A s \in Threads : LastOne(s)' => s = u
    <3>1. Live(u)'
      BY <2>2 DEF Live
    <3>2. ASSUME NEW s \in Threads, LastOne(s)'
          PROVE  s = u
      <4>1. ~(s < u)
        BY <3>1, <3>2 DEF LastOne
      <4>2. ~(t < s) \/ s = u
        BY <1>2, <2>2, <3>2 DEF LastOne, Walking, Live
      <4> QED
        BY <2>1, <4>1, <4>2
    <3> QED
      BY <3>2
  <2>4. Cardinality(handles'[u]) % Full = 0
    BY <1>5, <2>1, SmallSets DEF RoomInv, HasRoom
  <2>5. pc'[Main] \notin Alone
    BY <1>2, <2>1, <2>2 DEF Alone
  <2>6. result # Nothing
    BY <1>2 DEF CountInv, Returned, Nothing
  <2> QED
    BY <1>4, <1>5, <1>6, <2>3, <2>4, <2>5, <2>6 DEF Count
<1>7. ASSUME t = Main, Return(Error)
      PROVE  Count'
  <2>1. pc'[Main] = "ended" /\ \A s \in Threads : s # Main => pc'[s] = pc[s]
    BY <1>7 DEF Return, Goto, ChainInv, ChainTypes
  <2>2. \A s \in Threads : ~LastOne(s)'
    BY <1>2, <1>7, <2>1 DEF LastOne, Walking, Live, Main
  <2>3. result' # Nothing
    BY <1>7 DEF Return, Error, Nothing, Returned
  <2> QED
    BY <2>1, <2>2, <2>3 DEF Count, Alone
<1>8. ASSUME t # Main, Goto(t, "last"), result' = result
      PROVE  Count'
  <2>1. pc'[t] = "last" /\ \A s \in Threads : s # t => pc'[s] = pc[s]
    BY <1>8 DEF Goto, ChainInv, ChainTypes
  <2>2. \A u \in Threads : LastOne(u)' => u = t
    BY <1>2, <2>1 DEF LastOne, Live, Walking
  <2>3. result # Nothing
    BY <1>2 DEF CountInv, Returned, Nothing
  <2> QED
    BY <1>2, <1>3, <1>4, <1>5, <1>8, <2>1, <2>2, <2>3 DEF Count
<1> QED
  BY <1>5, <1>6, <1>7, <1>8 DEF Create

\* The last thread ends: it was told, or has found a child, or has none left.
LEMMA EndKeepsCount ==
  ASSUME ChainInv, RoomInv, Chain, InfoTypes, Spread, Spread', CountInv, Count,
         NEW t \in Threads, Last(t) \/ LastWait(t), NewsOut => NewsOut'
  PROVE  Count' /\ opened' \in Nat
<1> USE ThreadsAreNumbers, SmallRemainders
<1>1. pc[t] \in {"last", "last_wait"} /\ Live(t) /\ pc[t] \notin Alone /\ pc[t] \notin Waiting
  BY DEF Last, LastWait, Live, Alone, Waiting
<1>2. /\ pc[Main] \notin Alone /\ pc[Main] # "ended"
      /\ \A u \in Threads : u < t /\ Live(u) => pc[u] \in Waiting
      /\ \A u \in Threads : t < u => ~Live(u)
  BY <1>1, DuringCall
<1>3. LastOne(t)
  BY <1>1, <1>2 DEF LastOne, Walking
<1>4. opened' = opened /\ opened \in Nat /\ creator' = creator
  BY DEF Last, LastWait, CountInv
<1>5. creator[t] \in Threads \cup {NoThread} /\ (t = Main => creator[t] = NoThread)
  BY ReportsTo
<1>6. PICK q \in {"ended", "last_wait"} : pc' = [pc EXCEPT ![t] = q]
  BY DEF Last, LastWait, Finish, Goto
<1>7. pc'[t] = q /\ \A s \in Threads : s # t => pc'[s] = pc[s]
  BY <1>6 DEF ChainInv, ChainTypes
<1>8. pc'[Main] \notin Alone
  BY <1>2, <1>7 DEF Alone
<1>9. CASE q = "last_wait"
  <2>1. UNCHANGED <<handles, result>>
    <3>1. ~Finish(t)
      BY <1>7, <1>9 DEF Finish, Goto, ChainInv, ChainTypes
    <3> QED
      BY <3>1 DEF Last, LastWait
  <2>2. \A u \in Threads : LastOne(u)' => u = t
    BY <1>2, <1>7, <1>9 DEF LastOne, Live, Walking
  <2>3. result # Nothing
    BY <1>2 DEF CountInv, Returned, Nothing
  <2> QED
    BY <1>3, <1>4, <1>8, <2>1, <2>2, <2>3 DEF Count
<1>10. CASE q = "ended"
  <2>1. PICK found \in Infos :
          /\ ReturnFound(t, found)
          /\ handles' = [handles EXCEPT ![t] = {}]
          /\ info'[creator[t]] = found
          /\ found.done \/ handles[t] = {}
    <3>1. info[creator[t]] \in Infos /\ \A c \in Children : Found(c) \in Infos /\ Found(c).done
      BY <1>5 DEF InfoTypes, Found, Infos
    <3>2. CASE Last(t)
      <4>1. (info[creator[t]].done \/ handles[t] = {})
        BY <1>6, <1>7, <1>10, <3>2 DEF Last, Goto
      <4>2. /\ ReturnFound(t, info[creator[t]]) /\ info' = info
            /\ handles' = [handles EXCEPT ![t] = {}]
        BY <3>2, <4>1 DEF Last, Finish
      <4> QED
        BY <3>1, <4>1, <4>2
    <3>3. CASE LastWait(t)
      <4>1. PICK c \in Children :
              /\ ReturnFound(t, Found(c))
              /\ info' = [info EXCEPT ![creator[t]] = Found(c)]
              /\ handles' = [handles EXCEPT ![t] = {}]
        BY <3>3 DEF LastWait, Finish
      <4>2. info'[creator[t]] = Found(c)
        BY <1>5, <4>1 DEF InfoTypes
      <4> QED
        BY <3>1, <4>1, <4>2
    <3> QED
      BY <3>2, <3>3
  <2>2. \A s \in Threads : s # t => handles'[s] = handles[s]
    BY <2>1 DEF RoomInv, HandleTypes
  <2>3. found.done => NewsOut'
    <3>1. CASE t = Main
      BY <1>5, <2>1, <3>1 DEF NewsOut, NewsAbove
    <3>2. CASE t # Main
      <4>1. creator[t] \in Threads /\ creator[t] \in Nat /\ pc'[creator[t]] \in {"wait", "join"}
        BY <1>1, <1>7, <3>2, CreatorOf DEF HasCreator, Waiting
      <4>2. CASE pc'[creator[t]] = "wait"
        <5>1. found.done => NewsAbove(t)'
          BY <1>1, <2>1, <3>2, <4>1, <4>2, CreatorOf DEF HasCreator, NewsAbove
        <5> QED
          BY <5>1 DEF NewsOut
      <4>3. CASE pc'[creator[t]] = "join"
        BY <4>1, <4>3 DEF Spread, NewsOut
      <4> QED
        BY <4>1, <4>2, <4>3
    <3> QED
      BY <3>1, <3>2
  <2>4. handles[t] = {} => NewsOut \/ opened % Full = 0
    BY <1>3, SmallSets DEF Count
  <2>5. NewsOut' \/ opened' % Full = 0
    BY <1>4, <2>1, <2>3, <2>4
  <2>6. ASSUME NEW u \in Threads, LastOne(u)'
        PROVE  Cardinality(handles'[u]) % Full = 0
    <3>1. u # t /\ Live(u) /\ u < t
      BY <1>2, <1>7, <1>10, <2>6 DEF LastOne, Walking, Live
    <3>2. pc[u] \in Waiting
      BY <1>2, <3>1
    <3>3. Cardinality(handles[u]) = Full
      BY <3>2 DEF Waiting, RoomInv, HasRoom
    <3> QED
      BY <2>2, <3>1, <3>3
  <2>7. result' = Nothing => opened' % Full = 0
    <3>1. CASE t # Main
      BY <1>2, <2>1, <3>1 DEF ReturnFound, CountInv, Returned, Nothing
    <3>2. CASE t = Main
      <4>1. result' = IF found.done THEN Returned("child", found.processID) ELSE Nothing
        BY <2>1, <3>2 DEF ReturnFound
      <4>2. NewsOut' => found.done
        <5>1. \A s \in Threads : pc'[s] # "wait"
          BY <1>2, <1>7, <1>10, <3>2 DEF Main, Live
        <5> QED
          BY <1>5, <2>1, <3>2, <5>1 DEF NewsOut, NewsAbove
      <4>3. ~found.done => opened' % Full = 0
        BY <2>5, <4>2
      <4> QED
        BY <4>1, <4>3 DEF Returned, Nothing
    <3> QED
      BY <3>1, <3>2
  <2> QED
    BY <1>4, <1>8, <2>5, <2>6, <2>7 DEF Count
<1> QED
  BY <1>9, <1>10

LEMMA AloneKeepsCount ==
  ASSUME ChainInv, RoomInv, RoomInv', Chain, CountInv, Count,
         \/ Unknown \/ Snapshot \/ Stopped \/ First \/ StoppedOne
         \/ OpenOne \/ OpenFirst \/ WaitOne \/ WaitOneFails
  PROVE  Count' /\ opened' \in Nat
<1> USE ThreadsAreNumbers, SmallRemainders
<1>1. PICK p : AloneStep(p)
  BY AloneMoves
<1>2. pc[Main] \in Alone /\ \A s \in Threads : s # Main => ~Live(s)
  <2>1. pc[Main] \in Alone
    BY <1>1 DEF AloneStep
  <2> QED
    BY <2>1, CreatorOf, DuringCall DEF Chain, Live, Main, Alone, Waiting
<1>3. opened' = opened
  <2>1. Unknown \/ Snapshot \/ Stopped \/ First \/ StoppedOne => opened' = opened
    BY DEF Unknown, Snapshot, Stopped, First, StoppedOne, SetupStep
  <2>2. OpenOne \/ OpenFirst \/ WaitOne \/ WaitOneFails => opened' = opened
    BY DEF OpenOne, OpenFirst, WaitOne, WaitOneFails, OneStep
  <2> QED
    BY <2>1, <2>2
<1>4. opened = 0
  BY <1>2 DEF Count
<1>5. pc'[Main] = p /\ \A s \in Threads : s # Main => pc'[s] = pc[s]
  BY <1>1 DEF AloneStep, ChainInv, ChainTypes
<1>6. p = "scan" => handles'[Main] = {}
  <2>1. p = "scan" => First
    <3>1. Unknown \/ Snapshot \/ Stopped \/ StoppedOne => p # "scan"
      BY <1>5 DEF Unknown, Snapshot, Stopped, StoppedOne, Return, Goto, ChainInv, ChainTypes
    <3>2. OpenOne \/ OpenFirst \/ WaitOne \/ WaitOneFails => p # "scan"
      BY <1>5 DEF OpenOne, OpenFirst, WaitOne, WaitOneFails, Return, Goto, ChainInv, ChainTypes
    <3> QED
      BY <3>1, <3>2
  <2> QED
    BY <2>1 DEF First, SetupStep, childVars, RoomInv, HasRoom, Alone
<1>7. ASSUME NEW u \in Threads, LastOne(u)'
      PROVE  opened' % Full = Cardinality(handles'[u]) % Full
  <2>1. u = Main /\ p \in Walking
    BY <1>2, <1>5, <1>7 DEF LastOne, Walking, Live
  <2>2. handles'[Main] = {}
    BY <1>1, <1>5, <1>6, <2>1 DEF AloneStep, Alone, Walking, RoomInv, HasRoom
  <2> QED
    BY <1>3, <1>4, <2>1, <2>2, SmallSets
<1> QED
  BY <1>3, <1>4, <1>7 DEF Count

\* Until the function returns it has no result.
LEMMA RunningKept ==
  ASSUME ChainInv, CountInv, [Next]_vars
  PROVE  pc'[Main] # "ended" => result' = Returned("running", 0)
<1> USE ThreadsAreNumbers DEF CountInv, Goto, Return
<1>1. pc \in [Threads -> Places]
  BY DEF ChainInv, ChainTypes
<1>2. CASE Unknown \/ Snapshot \/ Stopped \/ First \/ StoppedOne
  BY <1>1, <1>2 DEF Unknown, Snapshot, Stopped, First, StoppedOne
<1>3. CASE OpenOne \/ OpenFirst \/ WaitOne \/ WaitOneFails
  BY <1>1, <1>3 DEF OpenOne, OpenFirst, WaitOne, WaitOneFails
<1>4. ASSUME NEW t \in Threads, WaitForProcesses(t)
      PROVE  pc'[Main] # "ended" => result' = Returned("running", 0)
  <2>1. CASE Scan(t) \/ Wait(t) \/ WaitFails(t) \/ Join(t) \/ Close(t)
    BY <1>1, <2>1 DEF Scan, Wait, WaitFails, Join, Close
  <2>2. CASE Create(t)
    <3>1. ASSUME NEW u \in Threads,
                 u = Cardinality({s \in Threads : pc[s] # "none"})
          PROVE  u # Main
      BY <3>1, NewThread DEF ChainInv, Main
    <3> QED
      BY <1>1, <2>2, <3>1 DEF Create
  <2>3. CASE Last(t) \/ LastWait(t) \/ LastWaitFails(t)
    BY <1>1, <2>3 DEF Last, LastWait, LastWaitFails, Finish, ReturnFound
  <2> QED
    BY <1>4, <2>1, <2>2, <2>3 DEF WaitForProcesses, Any
<1>5. (\E c \in Children : Exit(c)) \/ UNCHANGED vars =>
        (pc'[Main] # "ended" => result' = Returned("running", 0))
  BY DEF Exit, vars
<1> QED
  BY <1>2, <1>3, <1>4, <1>5 DEF Next, wait, waitpid, waitid

LEMMA CountStep ==
  ASSUME ChainInv, RoomInv, RoomInv', InfoTypes, SpreadInv, SpreadInv', CountInv,
         [Next]_vars
  PROVE  CountInv'
<1>1. "wait" \notin failed' =>
        /\ Spread' /\ (NewsOut => NewsOut')
        /\ "wait" \notin failed
  <2>1. failed \subseteq failed'
    BY FailedGrows
  <2> QED
    BY <2>1, SpreadKept DEF NewsOut
<1>2. opened' \in Nat
  BY OpenedIsNat DEF CountInv
<1>3. ASSUME "wait" \notin failed'
      PROVE  Count'
  <2>1. Chain /\ Spread /\ Count /\ Spread' /\ (NewsOut => NewsOut')
    BY <1>1, <1>3 DEF ChainInv, SpreadInv, CountInv
  <2>2. (\E c \in Children : Exit(c)) \/ UNCHANGED vars => Count'
    BY <2>1 DEF Exit, vars, callVars, snapVars, childVars, Count, LastOne, Live
  <2>3. ASSUME NEW t \in Threads, WaitForProcesses(t)
        PROVE  Count'
    <3>1. ~WaitFails(t) /\ ~LastWaitFails(t)
      BY <1>3 DEF WaitFails, LastWaitFails, Fails
    <3> QED
      BY <2>1, <2>3, <3>1, ScanKeepsCount, CreateKeepsCount, WaitKeepsCount,
         CloseKeepsCount, EndKeepsCount DEF WaitForProcesses, Any
  <2> QED
    BY <2>1, <2>2, <2>3, AloneKeepsCount DEF Next, wait, waitpid, waitid
<1> QED
  BY <1>2, <1>3, RunningKept DEF CountInv

\* waitid without WNOHANG returns 0 without a child only if it opened none or
\* as many as fill the waits of all its threads, unless a wait or
\* Process32First failed.
THEOREM NothingOnlyAfterFullWaits == SafeSpec => []NothingOnlyWhenFull
<1>1. Init => SpreadInv /\ InfoTypes /\ CountInv
  BY ThreadsAreNumbers, SmallRemainders
     DEF Init, SpreadInv, Spread, InfoTypes, Infos, NotDone, CountInv, Count,
         LastOne, Walking, Main, Returned, Nothing
<1>2. ChainInv /\ InfoTypes /\ SpreadInv /\ [Next]_vars => SpreadInv'
  BY SpreadKept, FailedGrows DEF SpreadInv
<1>3. CountInv => NothingOnlyWhenFull
  BY DEF CountInv, Count, NothingOnlyWhenFull, Full
<1> QED
  BY <1>1, <1>2, <1>3, ChainHolds, RoomHolds, NewsHolds, CountStep, PTL DEF SafeSpec, NewsInv
=============================================================================
