--------------------------- MODULE NetworkProofs ---------------------------
(***************************************************************************)
(* Proofs about the two parts of the library that are about the network:   *)
(* Winsock, for any number of threads and calls in a program that calls    *)
(* init_lock before its threads run, and then Netdb, for any files and any *)
(* number of lines, words and aliases.  The two share nothing.             *)
(***************************************************************************)
EXTENDS Winsock, Netdb, TLAPS

\* The steps of Next, named for the cases of the proofs: the socket functions
\* are one sequence.
LEMMA StepCases ==
  ASSUME [Next]_vars
  PROVE  \/ init_lock /\ UNCHANGED <<loadVars, callVars>>
         \/ Cleanup
         \/ \E t \in Threads : SocketCall(t)
         \/ UNCHANGED vars
BY DEF Next, socket, accept, bind, connect, listen, getpeername, getsockname,
       getsockopt, setsockopt, shutdown, send, recv, sendto, recvfrom,
       sendmsg, recvmsg, socketpair

-----------------------------------------------------------------------------
(* Types and the lock.                                                     *)

\* Numbers aside, every variable has its type.
WeakTypeOK ==
  /\ LockTypeOK
  /\ ws2_32_handle \in {"NULL", "ws2_32"}
  /\ loads \in Int
  /\ startups \in Nat
  /\ pc \in [Threads -> {"idle", "check", "lock", "symbol", "call", "crashed"}
                        \cup Loading]
  /\ fast \in [Threads -> BOOLEAN]
  /\ calls \in [Threads -> 0..MaxCalls]

\* With init_lock called first nobody initializes the section any more, the
\* section belongs to the one thread between lock and unlock, and whoever is
\* loading is that thread.
LockInv ==
  /\ main = "start" => section = NoThread
  /\ main = "calls" => initialized
  /\ \A t \in Threads :
       /\ at[t] \in {"out", "enter", "in"}
       /\ at[t] = "in" <=> section = t
       /\ pc[t] # "idle" => main = "calls"
       /\ pc[t] \in Loading => at[t] = "in"
       /\ at[t] # "out" => pc[t] \in Loading \cup {"lock"}

LEMMA LockInvStep ==
  ASSUME InitLockFirst, WeakTypeOK, LockInv, [Next]_vars
  PROVE  WeakTypeOK' /\ LockInv'
<1> USE LockAssumption, MaxCallsAssumption
    DEF WeakTypeOK, LockTypeOK, LockInv, Loading, Places
<1>1. CASE init_lock /\ UNCHANGED <<loadVars, callVars>>
  BY <1>1 DEF init_lock, loadVars, callVars
<1>2. CASE Cleanup
  BY <1>2 DEF Cleanup, delete_lock, loadVars, callVars
<1>3. ASSUME NEW t \in Threads, SocketCall(t)
      PROVE  WeakTypeOK' /\ LockInv'
  <2>1. CASE Begin(t)
    BY <2>1 DEF Begin, Goto, lockVars, loadVars
  <2>2. CASE Check(t)
    BY <2>2 DEF Check, Goto, lockVars, loadVars
  <2>3. CASE Lock(t)
    <3>1. pc[t] = "lock" /\ main = "calls" /\ initialized
      BY <2>3 DEF Lock
    <3>2. LockChecks(t) \/ Enter(t)
      BY <2>3 DEF Lock, lock, InitChecks, Initialize, SetInitialized, Move
    <3>3. CASE LockChecks(t)
      BY <2>3, <3>1, <3>3 DEF Lock, LockChecks, Move, loadVars, callVars
    <3>4. CASE Enter(t)
      BY <2>3, <3>1, <3>4 DEF Lock, Enter, Move, loadVars, callVars
    <3> QED
      BY <3>2, <3>3, <3>4
  <2>4. CASE Recheck(t)
    BY <2>4 DEF Recheck, Goto, lockVars, loadVars
  <2>5. CASE Open(t)
    BY <2>5 DEF Open, Goto, lockVars
  <2>6. CASE Startup(t) \/ Close(t) \/ Clear(t)
    BY <2>6 DEF Startup, Close, Clear, Goto, lockVars
  <2>7. CASE Fail(t) \/ Unlock(t)
    BY <2>7 DEF Fail, Unlock, Goto, unlock, Move, loadVars
  <2>8. CASE Symbol(t)
    BY <2>8 DEF Symbol, Goto, lockVars, loadVars
  <2>9. CASE Call(t)
    BY <2>9 DEF Call, Goto, lockVars, loadVars
  <2> QED
    BY <1>3, <2>1, <2>2, <2>3, <2>4, <2>5, <2>6, <2>7, <2>8, <2>9
       DEF SocketCall, Inside
<1>4. CASE UNCHANGED vars
  BY <1>4 DEF vars, lockVars, loadVars, callVars
<1> QED
  BY StepCases, <1>1, <1>2, <1>3, <1>4

LEMMA LockInvariant ==
  ASSUME InitLockFirst
  PROVE  SafeSpec => [](WeakTypeOK /\ LockInv)
<1>1. ASSUME Init
      PROVE  WeakTypeOK /\ LockInv
  <2> USE <1>1 DEF Init, LockInit
  <2>1. LockTypeOK
    BY DEF LockTypeOK, Places
  <2>2. calls \in [Threads -> 0..MaxCalls]
    BY MaxCallsAssumption
  <2>3. WeakTypeOK
    BY <2>1, <2>2 DEF WeakTypeOK
  <2>4. LockInv
    BY LockAssumption DEF LockInv, Loading
  <2> QED
    BY <2>3, <2>4
<1>2. WeakTypeOK /\ LockInv /\ [Next]_vars => (WeakTypeOK /\ LockInv)'
  BY InitLockFirst, LockInvStep
<1>3. Init => WeakTypeOK /\ LockInv
  BY <1>1
<1> QED
  BY <1>2, <1>3, PTL DEF SafeSpec

\* Two threads are never between lock and unlock.
THEOREM LockExcludes ==
  ASSUME InitLockFirst
  PROVE  SafeSpec => []LockExclusive
<1>1. LockInv => LockExclusive
  BY DEF LockInv, LockExclusive
<1>2. SafeSpec => [](WeakTypeOK /\ LockInv)
  BY InitLockFirst, LockInvariant
<1> QED
  BY <1>1, <1>2, PTL

-----------------------------------------------------------------------------
(* The library and Winsock.                                                *)

\* The four states of ws2_32.dll, as the loading thread takes it through them.
Library(handle, n, m) ==
  ws2_32_handle = handle /\ loads = n /\ startups = m

Unloaded == Library("NULL", 0, 0)
Opened   == Library("ws2_32", 1, 0)
Dropped   == Library("ws2_32", 0, 0)
Started  == Library("ws2_32", 1, 1)

\* The place of the thread that holds the lock tells the state of the library;
\* when no thread is loading it is one of the two ends.
LoadInv ==
  /\ \A t \in Threads :
       /\ pc[t] \in {"open", "fail"} => Unloaded
       /\ pc[t] \in {"startup", "close"} => Opened
       /\ pc[t] = "clear" => Dropped
       /\ pc[t] = "unlock" => Started
       /\ pc[t] \in {"symbol", "call"} /\ ~fast[t] => Started
  /\ \/ Unloaded
     \/ Started
     \/ \E t \in Threads : pc[t] \in {"startup", "close"} /\ Opened
     \/ \E t \in Threads : pc[t] = "clear" /\ Dropped

LEMMA LoadInvStep ==
  ASSUME InitLockFirst, WeakTypeOK, LockInv, LoadInv, [Next]_vars
  PROVE  LoadInv'
<1> USE DEF LoadInv, Unloaded, Opened, Dropped, Started, Library
<1>1. ASSUME UNCHANGED <<loadVars, callVars>>
      PROVE  LoadInv'
  BY <1>1 DEF loadVars, callVars
<1>2. ASSUME NEW t \in Threads, Begin(t) \/ Check(t) \/ Call(t)
      PROVE  LoadInv'
  BY <1>2 DEF Begin, Check, Call, Goto, loadVars, WeakTypeOK, Loading
<1>3. ASSUME NEW t \in Threads, Lock(t)
      PROVE  LoadInv'
  BY <1>1, <1>3 DEF Lock
<1>4. ASSUME NEW t \in Threads, at[t] = "in"
      PROVE  \A s \in Threads : s # t => pc[s] \notin Loading
  BY <1>4 DEF LockInv
<1>5. ASSUME NEW t \in Threads, Recheck(t)
      PROVE  LoadInv'
  BY <1>4, <1>5 DEF Recheck, Goto, loadVars, WeakTypeOK, Loading
<1>6. ASSUME NEW t \in Threads, pc[t] \in Loading
      PROVE  \A s \in Threads : s # t => pc[s] \notin Loading
  BY <1>6 DEF LockInv
<1>7. ASSUME NEW t \in Threads, Open(t)
      PROVE  LoadInv'
  BY <1>6, <1>7 DEF Open, Goto, WeakTypeOK, Loading
<1>8. ASSUME NEW t \in Threads, Startup(t)
      PROVE  LoadInv'
  BY <1>6, <1>8 DEF Startup, Goto, WeakTypeOK, Loading
<1>9. ASSUME NEW t \in Threads, Close(t)
      PROVE  LoadInv'
  BY <1>6, <1>9 DEF Close, Goto, WeakTypeOK, Loading
<1>10. ASSUME NEW t \in Threads, Clear(t)
      PROVE  LoadInv'
  BY <1>6, <1>10 DEF Clear, Goto, WeakTypeOK, Loading
<1>11. ASSUME NEW t \in Threads, Fail(t) \/ Unlock(t)
      PROVE  LoadInv'
  BY <1>6, <1>11 DEF Fail, Unlock, Goto, loadVars, WeakTypeOK, Loading
<1>12. ASSUME NEW t \in Threads, Symbol(t)
      PROVE  LoadInv'
  BY <1>12 DEF Symbol, Goto, loadVars, WeakTypeOK, Loading
<1> QED
  BY StepCases, <1>1, <1>2, <1>3, <1>5, <1>7, <1>8, <1>9, <1>10, <1>11, <1>12
     DEF Cleanup, SocketCall, Inside, vars

LEMMA LoadInvariant ==
  ASSUME InitLockFirst
  PROVE  SafeSpec => [](WeakTypeOK /\ LockInv /\ LoadInv)
<1>1. Init => LoadInv
  BY DEF Init, LoadInv, Unloaded, Library
<1>2. WeakTypeOK /\ LockInv /\ LoadInv /\ [Next]_vars => LoadInv'
  BY InitLockFirst, LoadInvStep
<1>3. SafeSpec => [](WeakTypeOK /\ LockInv)
  BY InitLockFirst, LockInvariant
<1> QED
  BY <1>1, <1>2, <1>3, PTL DEF SafeSpec

\* In a program that calls init_lock first, Winsock is started at most once,
\* no path leaks or doubles a load of the library, and a thread that took the
\* lock finds Winsock started.
THEOREM LoadedCorrectly ==
  ASSUME InitLockFirst
  PROVE  SafeSpec => [](TypeOK /\ StartedOnce /\ LoadsBalanced
                        /\ ReadyAfterLock)
<1>1. ASSUME WeakTypeOK, LockInv, LoadInv
      PROVE  TypeOK /\ StartedOnce /\ LoadsBalanced /\ ReadyAfterLock
  <2> USE <1>1 DEF LoadInv, Unloaded, Opened, Dropped, Started, Library
  <2>1. TypeOK
    BY DEF WeakTypeOK, TypeOK
  <2>2. StartedOnce
    BY DEF StartedOnce
  <2>3. LoadsBalanced
    BY DEF LoadsBalanced, Loading
  <2>4. ReadyAfterLock
    BY DEF ReadyAfterLock
  <2> QED
    BY <2>1, <2>2, <2>3, <2>4
<1>2. SafeSpec => [](WeakTypeOK /\ LockInv /\ LoadInv)
  BY InitLockFirst, LoadInvariant
<1> QED
  BY <1>1, <1>2, PTL

\* In such a program a thread that went through the lock calls into a Winsock
\* that is loaded once and started once, also after another thread failed to
\* start it.
THEOREM ReadyThroughLock ==
  ASSUME InitLockFirst
  PROVE  SafeSpec => []ReadyAfterLock
BY InitLockFirst, LoadedCorrectly, PTL

\* In such a program no thread withdraws the handle once Winsock was started,
\* so every later call takes the fast path.
THEOREM HandleIsFinal ==
  ASSUME InitLockFirst
  PROVE  SafeSpec => HandleStays
<1>1. ASSUME WeakTypeOK, LockInv, LoadInv, [Next]_vars, startups > 0
      PROVE  UNCHANGED <<ws2_32_handle, loads>>
  <2>1. \A t \in Threads : pc[t] \notin {"open", "startup", "close", "clear"}
    BY <1>1 DEF LoadInv, Unloaded, Opened, Dropped, Library
  <2>2. ASSUME NEW t \in Threads, SocketCall(t)
        PROVE  UNCHANGED <<ws2_32_handle, loads>>
    BY <2>1, <2>2
       DEF SocketCall, Inside, Begin, Check, Lock, Recheck, Open, Startup,
           Close, Clear, Fail, Unlock, Symbol, Call, Goto, loadVars
  <2> QED
    BY <1>1, <2>2, StepCases DEF Cleanup, vars, loadVars
<1>2. SafeSpec => [](WeakTypeOK /\ LockInv /\ LoadInv)
  BY InitLockFirst, LoadInvariant
<1>3. WeakTypeOK /\ LockInv /\ LoadInv /\ [Next]_vars
        => [startups > 0 => UNCHANGED <<ws2_32_handle, loads>>]_vars
  BY <1>1
<1> QED
  BY <1>2, <1>3, PTL DEF SafeSpec, HandleStays
-----------------------------------------------------------------------------
(* The network databases.  Two facts carry the proof.  A whole line writes *)
(* every field of the static entry that its database uses, so nothing of   *)
(* earlier lines is left; and a lookup has come to its place from the      *)
(* beginning of the file without a match.                                  *)

\* Only a service has a protocol.
ProtoOf(d, e) == d # "services" => e.proto = Nothing

CursorInv ==
  /\ db \in Databases
  /\ cursor \in {Closed} \cup 0..Len(Lines)
  /\ cursor # Closed => present
  /\ ProtoOf(db, entry)
  /\ call \in Lookups =>
       \A i \in 1..cursor : i \in WholeLines => ~Matches(Entry(i).entry, call)

-----------------------------------------------------------------------------
(* A whole line leaves the same entry whatever was there before.           *)

LEMMA NamedFresh ==
  ASSUME NEW e, NEW f, e.proto = f.proto, NEW l, NEW forms
  PROVE  /\ Named(e, l, forms).entry.proto = e.proto
         /\ Named(e, l, forms).whole = Named(f, l, forms).whole
         /\ Named(e, l, forms).whole =>
              Named(e, l, forms).entry = Named(f, l, forms).entry
<1>1. CASE Stop(l, 2, forms) = 0
  BY <1>1 DEF Named, Line
<1>2. CASE Stop(l, 2, forms) # 0
  BY <1>2 DEF Named, Line
<1> QED BY <1>1, <1>2

LEMMA ServFresh ==
  ASSUME NEW e, NEW f, NEW l
  PROVE  /\ ServLine(e, l).whole = ServLine(f, l).whole
         /\ ServLine(e, l).whole => ServLine(e, l).entry = ServLine(f, l).entry
<1>1. CASE Stop(l, 2, {"port"}) = 0
  BY <1>1 DEF ServLine, Named, Line
<1>2. CASE Stop(l, 2, {"port"}) # 0
  BY <1>2 DEF ServLine, Named, Line
<1> QED BY <1>1, <1>2

LEMMA HostFresh ==
  ASSUME NEW e, NEW f, e.proto = f.proto, NEW l
  PROVE  /\ HostLine(e, l).entry.proto = e.proto
         /\ HostLine(e, l).whole = HostLine(f, l).whole
         /\ HostLine(e, l).whole => HostLine(e, l).entry = HostLine(f, l).entry
<1>1. CASE l[1].form # "addr" \/ Len(l) < 2
  BY <1>1 DEF HostLine, Line
<1>2. CASE ~(l[1].form # "addr" \/ Len(l) < 2)
  BY <1>2 DEF HostLine, Line
<1> QED BY <1>1, <1>2

Known == {"services", "hosts", "networks", "protocols"}

LEMMA StoredFresh ==
  ASSUME NEW d \in Known, NEW e, ProtoOf(d, e), NEW f, ProtoOf(d, f), NEW l
  PROVE  /\ ProtoOf(d, Stored(d, e, l).entry)
         /\ Stored(d, e, l).whole = Stored(d, f, l).whole
         /\ Stored(d, e, l).whole =>
              Stored(d, e, l).entry = Stored(d, f, l).entry
<1>1. ProtoOf(d, ReadOver(e)) /\ ProtoOf(d, ReadOver(f))
  BY DEF ProtoOf, ReadOver
<1>2. d # "services" => ReadOver(e).proto = ReadOver(f).proto
  BY <1>1 DEF ProtoOf
<1>3. CASE Blank(l)
  <2>1. \A x : /\ Stored(d, x, l).entry = ReadOver(x)
               /\ Stored(d, x, l).whole = FALSE
    BY <1>3 DEF Stored, Line
  <2> QED BY <1>1, <2>1
<1>4. CASE ~Blank(l) /\ d = "services"
  <2>1. \A x : Stored(d, x, l) = ServLine(ReadOver(x), l)
    BY <1>4 DEF Stored
  <2> QED BY <1>4, <2>1, ServFresh DEF ProtoOf
<1>5. CASE ~Blank(l) /\ d = "hosts"
  <2>1. \A x : Stored(d, x, l) = HostLine(ReadOver(x), l)
    BY <1>5 DEF Stored
  <2> QED BY <1>1, <1>2, <1>5, <2>1, HostFresh DEF ProtoOf
<1>6. CASE ~Blank(l) /\ d = "networks"
  <2>1. \A x : Stored(d, x, l)
                 = Named(ReadOver(x), l, {"digits", "port", "addr", "dotted"})
    BY <1>6 DEF Stored, NetLine
  <2> QED BY <1>1, <1>2, <1>6, <2>1, NamedFresh DEF ProtoOf
<1>7. CASE ~Blank(l) /\ d = "protocols"
  <2>1. \A x : Stored(d, x, l)
                 = Named(ReadOver(x), l, {"digits", "port", "addr"})
    BY <1>7 DEF Stored, ProtoLine
  <2> QED BY <1>1, <1>2, <1>7, <2>1, NamedFresh DEF ProtoOf
<1> QED BY <1>3, <1>4, <1>5, <1>6, <1>7 DEF Known

-----------------------------------------------------------------------------
(* The invariant.                                                          *)

LEMMA Constant ==
  ASSUME CursorInv
  PROVE  db \in Known /\ Len(Lines) \in Nat /\ ProtoOf(db, NoEntry)
BY ConstantsAssumption DEF CursorInv, Known, Lines, ProtoOf, NoEntry, Nothing

LEMMA NotLookups == Idle \notin Lookups /\ GetNext \notin Lookups
BY DEF Idle, GetNext, Lookups

\* What one line becomes, in the middle of a file.
LEMMA LineRead ==
  ASSUME CursorInv, cursor \in 0..Len(Lines) - 1
  PROVE  LET line == Stored(db, entry, Lines[cursor + 1])
         IN /\ ProtoOf(db, line.entry)
            /\ line.whole = (cursor + 1 \in WholeLines)
            /\ line.whole => line.entry = Entry(cursor + 1).entry
<1>1. /\ db \in Known /\ ProtoOf(db, entry) /\ ProtoOf(db, NoEntry)
      /\ cursor + 1 \in 1..Len(Lines)
  BY Constant DEF CursorInv
<1> DEFINE line == Stored(db, entry, Lines[cursor + 1])
<1>2. /\ ProtoOf(db, line.entry)
      /\ line.whole = Entry(cursor + 1).whole
      /\ line.whole => line.entry = Entry(cursor + 1).entry
  BY <1>1, StoredFresh DEF Entry
<1>3. Entry(cursor + 1).whole \in BOOLEAN
  BY <1>1 DEF Entry, Stored, Line, ServLine, HostLine, NetLine, ProtoLine,
              Named, Known
<1>4. Entry(cursor + 1).whole = (cursor + 1 \in WholeLines)
  BY <1>1, <1>3 DEF WholeLines
<1> QED BY <1>2, <1>4

\* The steps that read no line leave the entry alone, and put the cursor, if
\* they move it, where it was, at the beginning or nowhere.
LEMMA OtherSteps ==
  ASSUME CursorInv, UNCHANGED <<db, present, entry>>,
         \/ cursor' \in {Closed, 0} /\ (cursor' # Closed => present)
         \/ cursor' = cursor /\ (call' = call \/ call' \notin Lookups)
  PROVE  CursorInv'
<1>1. /\ cursor' \in {Closed} \cup 0..Len(Lines)
      /\ Lines' = Lines /\ WholeLines' = WholeLines
      /\ \A i : Entry(i)' = Entry(i)
  BY Constant DEF CursorInv, Lines, WholeLines, Entry
<1>2. CASE cursor' \in {Closed, 0} /\ (cursor' # Closed => present)
  BY <1>1, <1>2 DEF CursorInv, Closed
<1>3. CASE cursor' = cursor /\ (call' = call \/ call' \notin Lookups)
  BY <1>1, <1>3 DEF CursorInv
<1> QED BY <1>2, <1>3

LEMMA NextSplits ==
  ASSUME NetdbNext
  PROVE  \/ \E d : Set(d) \/ End(d) \/ Get(d)
         \/ \E d, by, key, proto : LookUp(d, by, key, proto)
         \/ OpenFile \/ ReadLine \/ AtEnd
BY DEF NetdbNext, setservent, sethostent, setnetent, setprotoent, endservent,
       endhostent, endnetent, endprotoent, getservent, gethostent, getnetent,
       getprotoent, Reading, getservbyname, getservbyport, getnetbyname,
       getnetbyaddr, getprotobyname, getprotobynumber

LEMMA CursorInit == NetdbInit => CursorInv
BY NotLookups, ConstantsAssumption
   DEF NetdbInit, CursorInv, Closed, ProtoOf, NoEntry, Nothing

LEMMA RewindBegins ==
  ASSUME CursorInv
  PROVE  Rewind(cursor) \in {Closed, 0} /\ (Rewind(cursor) # Closed => present)
BY DEF Rewind, CursorInv

LEMMA ReadLineStep == CursorInv /\ ReadLine => CursorInv'
<1> SUFFICES ASSUME CursorInv, ReadLine PROVE CursorInv'
  OBVIOUS
<1> DEFINE line == Stored(db, entry, Lines[cursor + 1])
<1>1. /\ cursor \in 0..Len(Lines) - 1 /\ cursor' = cursor + 1
      /\ db' = db /\ present' = present /\ entry' = line.entry
      /\ IF line.whole /\ (call = GetNext \/ Matches(line.entry, call))
         THEN call' = Idle ELSE call' = call
  BY DEF ReadLine, Return
<1>2. /\ ProtoOf(db, line.entry)
      /\ line.whole = (cursor + 1 \in WholeLines)
      /\ line.whole => line.entry = Entry(cursor + 1).entry
  BY <1>1, LineRead
<1> HIDE DEF line
<1>3. /\ cursor' \in {Closed} \cup 0..Len(Lines)
      /\ Lines' = Lines /\ WholeLines' = WholeLines
      /\ \A i : Entry(i)' = Entry(i)
  BY <1>1, Constant DEF Lines, WholeLines, Entry
<1>4. ASSUME call' \in Lookups, NEW i \in 1..cursor', i \in WholeLines
      PROVE  ~Matches(Entry(i).entry, call)
  <2>1. call' = call /\ ~(line.whole /\ Matches(line.entry, call))
    BY <1>1, <1>4, NotLookups
  <2>2. CASE i = cursor + 1
    BY <1>2, <1>4, <2>1, <2>2
  <2>3. CASE i # cursor + 1
    <3>1. i \in 1..cursor
      BY <1>1, <1>4, <2>3, Constant
    <3> QED BY <1>4, <2>1, <3>1 DEF CursorInv
  <2> QED BY <2>2, <2>3
<1>5. ASSUME call' \in Lookups
      PROVE  \A i \in 1..cursor' : i \in WholeLines' =>
                                     ~Matches(Entry(i).entry, call)'
  BY <1>1, <1>3, <1>4, <1>5, NotLookups DEF Matches
<1> QED BY <1>1, <1>2, <1>3, <1>5 DEF CursorInv, Closed

LEMMA CursorStep == CursorInv /\ [NetdbNext]_netdbVars => CursorInv'
<1> SUFFICES ASSUME CursorInv, [NetdbNext]_netdbVars PROVE CursorInv'
  OBVIOUS
<1>1. ASSUME NEW d, Set(d) PROVE CursorInv'
  BY <1>1, RewindBegins, OtherSteps DEF Set
<1>2. ASSUME NEW d, End(d) PROVE CursorInv'
  BY <1>2, OtherSteps DEF End
<1>3. ASSUME NEW d, Get(d) PROVE CursorInv'
  BY <1>3, NotLookups, OtherSteps DEF Get
<1>4. ASSUME NEW d, NEW by, NEW key, NEW proto, LookUp(d, by, key, proto)
      PROVE  CursorInv'
  BY <1>4, RewindBegins, OtherSteps DEF LookUp
<1>5. ASSUME OpenFile PROVE CursorInv'
  BY <1>5, NotLookups, OtherSteps DEF OpenFile, Return
<1>6. ASSUME AtEnd PROVE CursorInv'
  BY <1>6, NotLookups, OtherSteps DEF AtEnd, Return
<1>7. ASSUME UNCHANGED netdbVars PROVE CursorInv'
  BY <1>7, OtherSteps DEF netdbVars
<1> QED BY <1>1, <1>2, <1>3, <1>4, <1>5, <1>6, <1>7, NextSplits, ReadLineStep

-----------------------------------------------------------------------------
(* How a call ends.                                                        *)

\* A call ends with a line, at the end of the file or without a file.
LEMMA Ends ==
  ASSUME CursorInv, [NetdbNext]_netdbVars, call # Idle, call' = Idle
  PROVE  /\ UNCHANGED <<db, present>>
         /\ \/ /\ result' = TRUE /\ present /\ cursor \in Nat
               /\ cursor' = cursor + 1 /\ cursor' \in WholeLines
               /\ entry' = Entry(cursor').entry
               /\ call = GetNext \/ Matches(entry', call)
            \/ /\ result' = FALSE
               /\ present => cursor = Len(Lines)
<1>1. OpenFile \/ ReadLine \/ AtEnd
  BY NextSplits DEF netdbVars, Set, End, Get, LookUp
<1>2. CASE OpenFile
  BY <1>2 DEF OpenFile, Return
<1>3. CASE AtEnd
  BY <1>3 DEF AtEnd, Return
<1>4. CASE ReadLine
  <2> DEFINE line == Stored(db, entry, Lines[cursor + 1])
  <2>1. /\ cursor \in 0..Len(Lines) - 1 /\ cursor' = cursor + 1
        /\ UNCHANGED <<db, present>> /\ entry' = line.entry
        /\ IF line.whole /\ (call = GetNext \/ Matches(line.entry, call))
           THEN call' = Idle /\ result' = TRUE ELSE call' = call
    BY <1>4 DEF ReadLine, Return
  <2>2. /\ line.whole = (cursor + 1 \in WholeLines)
        /\ line.whole => line.entry = Entry(cursor + 1).entry
    BY <2>1, LineRead
  <2>3. present /\ cursor \in Nat
    BY <2>1, Constant DEF CursorInv, Closed
  <2> HIDE DEF line
  <2> QED BY <2>1, <2>2, <2>3
<1> QED BY <1>1, <1>2, <1>3, <1>4

LEMMA CursorInvariant == NetdbSpec => []CursorInv
BY CursorInit, CursorStep, PTL DEF NetdbSpec

\* Whatever get...ent or a lookup returns to the application is the entry of
\* one line: a line that is given up half way leaves nothing in the static
\* entry that a later line does not overwrite before the entry is returned.
THEOREM EntriesAreLines == NetdbSpec => EntryIsOneLine
<1>1. CursorInv /\ [NetdbNext]_netdbVars =>
        ((call # Idle /\ call' = Idle /\ result') =>
           cursor' \in WholeLines /\ entry' = Entry(cursor').entry)
  BY Ends
<1> QED BY <1>1, CursorInvariant, PTL DEF NetdbSpec, EntryIsOneLine

\* A lookup returns the first line that matches or, if there is none, NULL:
\* the rewind in front of its loop takes away where the enumeration of the
\* application had come to, and its loop skips no line that matches.
THEOREM LookupsFindFirst == NetdbSpec => LookupFindsFirst
<1> DEFINE found == {i \in WholeLines : Matches(Entry(i).entry, call)}
<1>1. ASSUME CursorInv, [NetdbNext]_netdbVars, call \in Lookups, call' = Idle
      PROVE  IF present /\ found # {}
             THEN /\ result' /\ cursor' \in found
                  /\ \A i \in found : cursor' <= i
             ELSE ~result'
  <2>1. call # Idle /\ call # GetNext
    BY <1>1, NotLookups
  <2>2. \A i \in found : i \in 1..Len(Lines) /\ i \notin 1..cursor
    BY <1>1 DEF CursorInv, WholeLines
  <2>3. CASE result' = TRUE
    <3>1. /\ present /\ cursor \in Nat /\ cursor' = cursor + 1
          /\ cursor' \in found
      BY <1>1, <2>1, <2>3, Ends
    <3>2. \A i \in found : cursor' <= i
      BY <3>1, <2>2, <1>1, Constant
    <3> QED BY <2>3, <3>1, <3>2
  <2>4. CASE result' = FALSE /\ (present => cursor = Len(Lines))
    BY <2>2, <2>4
  <2> QED BY <1>1, <2>1, <2>3, <2>4, Ends
<1>2. CursorInv /\ [NetdbNext]_netdbVars =>
        ((call \in Lookups /\ call' = Idle) =>
           IF present /\ found # {}
           THEN /\ result' /\ cursor' \in found
                /\ \A i \in found : cursor' <= i
           ELSE ~result')
  BY <1>1
<1> QED BY <1>2, CursorInvariant, PTL DEF NetdbSpec, LookupFindsFirst
=============================================================================
