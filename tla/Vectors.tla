------------------------------ MODULE Vectors -------------------------------
(***************************************************************************)
(* Scatter and gather: readv, writev, process_vm_readv, process_vm_writev  *)
(* and sendmsg, each given a vector of buffers (struct iovec) and moving   *)
(* its bytes, in order, from or to a file, a socket or the vector of       *)
(* another process.                                                        *)
(*                                                                         *)
(* A buffer is its length, a byte of a vector is the pair of its element   *)
(* and its place there.  The file or socket is a vector of one element     *)
(* without an end.  The functions keep nothing between calls: a behaviour  *)
(* is one call, in one thread.                                             *)
(***************************************************************************)
EXTENDS Integers, Sequences, SequencesExt, FiniteSets

CONSTANTS
  MaxCount,   \* bound: elements of a vector
  MaxLength   \* bound: length of an element

ASSUME ConstantsAssumption == {MaxCount, MaxLength} \subseteq Nat

Calls == {"readv", "writev", "process_vm_readv", "process_vm_writev",
          "sendmsg"}
ProcessVm == {"process_vm_readv", "process_vm_writev"}
Vecs == UNION {[1..count -> 0..MaxLength] : count \in 0..MaxCount}

VARIABLES
  call,     \* which function
  lvec,     \* the caller's vector
  rvec,     \* the other process's vector
  pc,       \* where the call is
  iLvec, offLvec,   \* the position in lvec
  iRvec, offRvec,   \* and in rvec
  length,   \* writeLvec or writeRvec: what the next copy moves
  bytes,    \* number_of_bytes_...
  held,     \* blocks and handles the call has to give back
  moved,    \* the bytes of lvec that were moved, with their other place
  gap,      \* history: a call for one element moved less than its length
  result    \* what the function returned

position == <<iLvec, offLvec, iRvec, offRvec, length>>
vars == <<call, lvec, rvec, pc, position, bytes, held, moved, gap, result>>

Init ==
  /\ call \in Calls
  /\ lvec \in Vecs
  /\ rvec \in (IF call \in ProcessVm THEN Vecs ELSE {<<>>})
  /\ pc = "start"
  /\ iLvec = 1 /\ offLvec = 0 /\ iRvec = 1 /\ offRvec = 0 /\ length = 0
  /\ bytes = 0
  /\ held = {}
  /\ moved = {}
  /\ gap = FALSE
  /\ result = 0

Call(c, from, to) ==
  /\ call = c /\ pc = from /\ pc' = to
  /\ UNCHANGED <<call, lvec, rvec>>

Returns(n) == result' = n
Goes == UNCHANGED result

-----------------------------------------------------------------------------
(* process_vm_readv and process_vm_writev.                                 *)

\* The length in element i: past the end of the vector it is what memory holds.
LengthAt(v, i) == IF i \in DOMAIN v THEN {v[i]} ELSE 0..MaxLength
Smaller(m, n) == IF m < n THEN m ELSE n

\* OpenProcess returns NULL when it fails, which the code does not look for.
\* The first elements are read even of empty vectors.
VmOpen(c) ==
  /\ Call(c, "start", "copy")
  /\ held' \in {{}, {"process"}}
  /\ \E l \in LengthAt(lvec, 1), r \in LengthAt(rvec, 1) :
       length' = Smaller(l, r)
  /\ UNCHANGED <<iLvec, offLvec, iRvec, offRvec, bytes, moved, gap>>
  /\ Goes

More == iLvec <= Len(lvec) /\ iRvec <= Len(rvec) /\ length # 0

\* Mutant of Advance: the place in an element is kept when the next one begins.
AdvanceKeeps(v, i, off) ==
  IF off = v[i] THEN <<i + 1, IF i = 1 THEN 0 ELSE off>> ELSE <<i, off>>

\* The position after a copy that ended at off in element i.
Advance(v, i, off) == IF off = v[i] THEN <<i + 1, 0>> ELSE <<i, off>>

\* ReadProcessMemory or WriteProcessMemory, its result ignored: without the
\* process, and with memory that is not there, it moves nothing.
VmCopy(c) ==
  /\ More
  /\ Call(c, "copy", "copy")
  /\ \/ /\ "process" \in held
        /\ moved' = moved \cup {<<<<iLvec, offLvec + k>>, <<iRvec, offRvec + k>>>>
                                  : k \in 0..length - 1}
        /\ UNCHANGED gap
     \/ gap' = TRUE /\ UNCHANGED moved
  /\ bytes' = bytes + length
  /\ LET l == Advance(lvec, iLvec, offLvec + length)
         r == Advance(rvec, iRvec, offRvec + length)
     IN iLvec' = l[1] /\ offLvec' = l[2] /\ iRvec' = r[1] /\ offRvec' = r[2]
  /\ \E l \in LengthAt(lvec, iLvec'), r \in LengthAt(rvec, iRvec') :
       length' = Smaller(l - offLvec', r - offRvec')
  /\ UNCHANGED held
  /\ Goes

\* The end of the loop: CloseHandle
VmClose(c) ==
  /\ ~More
  /\ Call(c, "copy", "done")
  /\ held' = held \ {"process"}
  /\ Returns(bytes)
  /\ UNCHANGED <<position, bytes, moved, gap>>

process_vm(c) == VmOpen(c) \/ VmCopy(c) \/ VmClose(c)

-----------------------------------------------------------------------------
(* readv: read of each element, its result ignored.                        *)

\* n bytes of element i, from its beginning, are moved to or from the places
\* of the file that come next.
Move(i, n) ==
  LET next == Cardinality(moved)
  IN moved' = moved \cup {<<<<i, k>>, <<1, next + k>>>> : k \in 0..n - 1}

ReadOne ==
  /\ iLvec <= Len(lvec)
  /\ Call("readv", "start", "start")
  /\ \E n \in 0..lvec[iLvec] :              \* none at the end, or on a failure
       Move(iLvec, n) /\ gap' = (gap \/ n < lvec[iLvec])
  /\ bytes' = bytes + lvec[iLvec]
  /\ iLvec' = iLvec + 1
  /\ UNCHANGED <<offLvec, iRvec, offRvec, length, held>>
  /\ Goes

ReadReturns ==
  /\ iLvec > Len(lvec)
  /\ Call("readv", "start", "done")
  /\ Returns(bytes)
  /\ UNCHANGED <<position, bytes, held, moved, gap>>

readv == ReadOne \/ ReadReturns

-----------------------------------------------------------------------------
(* writev: one buffer for all elements, or one write for each.             *)

\* The lengths of v up to each element, as total_length and offset add them.
Sums(v) ==
  LET sum[i \in 0..Len(v)] == IF i = 0 THEN 0 ELSE sum[i - 1] + v[i]
  IN sum
Total(v) == Sums(v)[Len(v)]

\* malloc (total_length)
WriteAllocates ==
  /\ \/ Call("writev", "start", "gathered") /\ held' = {"buffer"}
     \/ Call("writev", "start", "each") /\ UNCHANGED held
  /\ UNCHANGED <<position, bytes, moved, gap>>
  /\ Goes

\* Mutant of Offset: every element is copied to the beginning of the buffer.
OffsetStays(i) == 0

\* Where memcpy puts element i
Offset(i) == Sums(lvec)[i - 1]

\* The buffer after the memcpys, by place; a later one overwrites.
Gathered ==
  [p \in 0..Total(lvec) - 1 |->
     LET over == {i \in DOMAIN lvec : p \in Offset(i)..Offset(i) + lvec[i] - 1}
         i == CHOOSE i \in over : \A j \in over : j <= i
     IN <<i, p - Offset(i)>>]

\* write of the buffer, short or failed; its result is returned
WriteGathered ==
  /\ Call("writev", "gathered", "free")
  /\ \/ \E n \in 0..Total(lvec) :
          /\ moved' = {<<Gathered[p], <<1, p>>>> : p \in 0..n - 1}
          /\ bytes' = n
     \/ bytes' = -1 /\ UNCHANGED moved
  /\ UNCHANGED <<position, held, gap>>
  /\ Goes

WriteFrees ==
  /\ Call("writev", "free", "done")
  /\ held' = held \ {"buffer"}
  /\ Returns(bytes)
  /\ UNCHANGED <<position, bytes, moved, gap>>

\* What an element that was written adds to the count.
Written(n) == n

\* The next element is written behind the last even if that was cut short.
WriteOne ==
  /\ iLvec <= Len(lvec)
  /\ Call("writev", "each", "each")
  /\ \E n \in 0..lvec[iLvec] :
       /\ Move(iLvec, n)
       /\ bytes' = bytes + Written(n)
       /\ gap' = (gap \/ n < lvec[iLvec])
  /\ iLvec' = iLvec + 1
  /\ UNCHANGED <<offLvec, iRvec, offRvec, length, held>>
  /\ Goes

\* A write that fails: -1, whatever was written before
WriteOneFails ==
  /\ iLvec <= Len(lvec)
  /\ Call("writev", "each", "done")
  /\ Returns(-1)
  /\ UNCHANGED <<position, bytes, held, moved, gap>>

WriteReturns ==
  /\ iLvec > Len(lvec)
  /\ Call("writev", "each", "done")
  /\ Returns(bytes)
  /\ UNCHANGED <<position, bytes, held, moved, gap>>

writev ==
  \/ WriteAllocates \/ WriteGathered \/ WriteFrees
  \/ WriteOne \/ WriteOneFails \/ WriteReturns

-----------------------------------------------------------------------------
(* sendmsg, from the look at the socket on.                                *)

SendFails ==
  /\ Returns(-1)
  /\ UNCHANGED <<position, bytes, moved, gap, held>>

\* No socket, or neither WSASendMsg nor sendto; sendto cannot send this
\* message (control data, or not exactly one buffer); malloc failed.
SendGivesUp == Call("sendmsg", "start", "done") /\ SendFails

\* Without WSASendMsg, one buffer goes to sendto.
SendOne ==
  /\ Len(lvec) = 1
  /\ Call("sendmsg", "start", "done")
  /\ \/ SendFails
     \/ /\ \E n \in 0..lvec[1] : Move(1, n) /\ Returns(n)
        /\ UNCHANGED <<position, bytes, held, gap>>

\* The array of WSABUFs, for a message that has buffers
SendAllocates ==
  /\ Call("sendmsg", "start", "send")
  /\ held' = IF lvec = <<>> THEN {} ELSE {"wsabufs"}
  /\ UNCHANGED <<position, bytes, moved, gap>>
  /\ Goes

\* Mutant of SendReleases: free only after a message was sent.
SendReleasesSent(sent) == IF sent THEN held \ {"wsabufs"} ELSE held

SendReleases(sent) == held \ {"wsabufs"}

\* WSASendMsg, which gathers the buffers itself, and free
SendMsg ==
  /\ Call("sendmsg", "send", "done")
  /\ \/ /\ \E n \in 0..Total(lvec) :
             /\ moved' = {<<Gathered[p], <<1, p>>>> : p \in 0..n - 1}
             /\ Returns(n)
        /\ held' = SendReleases(TRUE)
     \/ /\ Returns(-1)
        /\ held' = SendReleases(FALSE)
        /\ UNCHANGED moved
  /\ UNCHANGED <<position, bytes, gap>>

sendmsg == SendGivesUp \/ SendOne \/ SendAllocates \/ SendMsg

-----------------------------------------------------------------------------
Next ==
  \/ readv \/ writev \/ sendmsg
  \/ process_vm("process_vm_readv") \/ process_vm("process_vm_writev")

Spec == Init /\ [][Next]_vars

-----------------------------------------------------------------------------
(* Properties.                                                             *)

\* The bytes of a vector in order, and the places a file has for them.
Flat(v) ==
  FlattenSeq([i \in DOMAIN v |-> [k \in 1..v[i] |-> <<i, k - 1>>]])
Places == IF call \in ProcessVm THEN Flat(rvec)
          ELSE [k \in 1..Total(lvec) |-> <<1, k - 1>>]

\* The bytes up to the first empty element, where process_vm_... stop.
Reach(v) ==
  LET empty == {i \in DOMAIN v : v[i] = 0}
  IN IF empty = {} THEN Total(v)
     ELSE Sums(v)[(CHOOSE i \in empty : \A j \in empty : i <= j) - 1]

\* The k-th byte of the vector is moved to or from the k-th place, however the
\* bytes are cut into elements on the two sides and into calls, and whether or
\* not there was memory to gather them.  When a call for one element moves
\* less than its length the functions go on with the next one: that is exempt.
BytesInOrder ==
  ~gap =>
    moved = {<<Flat(lvec)[k], Places[k]>> : k \in 1..Cardinality(moved)}

\* A function that has not failed returns the number of bytes it moved, and
\* process_vm_readv and process_vm_writev move all that both vectors have, up
\* to an empty element, which ends them.
CountsWhatMoved ==
  (pc = "done" /\ result >= 0 /\ (~gap \/ call = "writev")) =>
    /\ result = Cardinality(moved)
    /\ call \in ProcessVm => (result = Smaller(Reach(lvec), Reach(rvec)))

\* Every return gives back the buffer, the array and the process handle.
Released == pc = "done" => held = {}
=============================================================================
