----------------------------- MODULE AioRequest -----------------------------
(***************************************************************************)
(* What asynchronous I/O promises an application about every control block: *)
(* a queued request is pending until it ends, it ends once, its outcome     *)
(* does not change any more, and collecting it delivers that outcome.       *)
(***************************************************************************)
EXTENDS Integers

CONSTANTS Cbs, NBytesOf

Failed == -1

VARIABLES
  status,   \* "idle", "pending" or "ended"
  outcome,  \* of a request that has ended: the count, or Failed
  report    \* of a control block that is idle: what was collected last

vars == <<status, outcome, report>>

Init ==
  /\ status = [cb \in Cbs |-> "idle"]
  /\ outcome = [cb \in Cbs |-> Failed]
  /\ report = [cb \in Cbs |-> Failed]

\* The request is accepted, or refused and the control block stays idle.
Queue(cb) ==
  /\ status[cb] = "idle"
  /\ \/ status' = [status EXCEPT ![cb] = "pending"]
     \/ UNCHANGED status
  /\ report' = [report EXCEPT ![cb] = Failed]
  /\ UNCHANGED outcome

End(cb) ==
  /\ status[cb] = "pending"
  /\ status' = [status EXCEPT ![cb] = "ended"]
  /\ \E n \in 0..NBytesOf[cb] \cup {Failed} :
       outcome' = [outcome EXCEPT ![cb] = n]
  /\ UNCHANGED report

Collect(cb) ==
  /\ status[cb] = "ended"
  /\ status' = [status EXCEPT ![cb] = "idle"]
  /\ report' = [report EXCEPT ![cb] = outcome[cb]]
  /\ outcome' = [outcome EXCEPT ![cb] = Failed]

Next == \E cb \in Cbs : Queue(cb) \/ End(cb) \/ Collect(cb)

SafeSpec == Init /\ [][Next]_vars

\* An accepted request ends; nobody has to collect it.
Spec == SafeSpec /\ \A cb \in Cbs : WF_vars(End(cb))
=============================================================================
