---------------------------- MODULE PasswdProofs ----------------------------
(***************************************************************************)
(* The password database, for any number of threads, calls and blocks, in a *)
(* program that calls init_lock first.                                      *)
(*                                                                         *)
(* The handle of netapi32.dll: what the loaders open is closed once.  The   *)
(* strings and current_passwd, which the lock does not protect, play no     *)
(* part in that argument.  Types are kept too.                              *)
(*                                                                         *)
(* With the functions that are not reentrant serialized: a set handle has   *)
(* its record, a record owns its strings, nothing is used, written or freed *)
(* wrongly, and only names are lost.  There the argument is what a thread   *)
(* has left behind it in its route: from then on it knows something, of the *)
(* handle or of the record, that no other thread changes.                   *)
(***************************************************************************)
EXTENDS Passwd, Integers, TLAPS

\* Between lock and unlock.
Held == {"open", "record", "fail", "close", "unlock"}

\* The types of the variables the argument is about.
HandleTypeOK ==
  /\ LockTypeOK
  /\ netapi32_handle \in {NULL, "netapi32"}
  /\ loads \in Int
  /\ fn \in [Threads -> AllFunctions \cup {"none"}]
  /\ stage \in [Threads -> Int]
  /\ place \in [Threads -> {"check", "lock"} \cup Held]

\* A thread that has begun to load or to unload is in such a stage.
InLoad(t) ==
  fn[t] # "none" /\ Route[fn[t]][stage[t]] \in {"load", "unload"}

\* The section belongs to the one thread between lock and unlock, and every
\* thread on its way there or back is in a stage that loads or unloads.
LockInv ==
  /\ main = "start" => section = NoThread
  /\ main = "calls" => initialized
  /\ \A t \in Threads :
       /\ at[t] \in {"out", "enter", "in"}
       /\ at[t] = "in" <=> section = t
       /\ fn[t] # "none" => main = "calls"
       /\ place[t] \in Held => at[t] = "in"
       /\ at[t] # "out" => place[t] \in Held \cup {"lock"}
       /\ place[t] # "check" => InLoad(t)

\* The library is loaded once if the handle is set, and not at all if not.
Balanced == loads = IF netapi32_handle = NULL THEN 0 ELSE 1

\* A library that is about to be closed.
Withdrawn == netapi32_handle = NULL /\ loads = 1

\* Only the thread about to call dlclose sees the two apart.
LoadInv ==
  /\ \A t \in Threads :
       /\ place[t] \in {"open", "fail"} => netapi32_handle = NULL /\ loads = 0
       /\ place[t] = "close" => Withdrawn
       /\ place[t] \in {"record", "unlock"} => Balanced
  /\ Balanced \/ \E t \in Threads : place[t] = "close"

HandleInv == HandleTypeOK /\ LockInv /\ LoadInv

-----------------------------------------------------------------------------
(* The steps, sorted by what they do to the handle.                        *)

\* What a step outside the handle's stages may do to the variables at hand:
\* its thread, not on its way to the lock, moves on to another stage.
Elsewhere(t) ==
  /\ UNCHANGED <<lockVars, loadVars>>
  /\ place[t] = "check"
  /\ Stay(t) \/ Return(t) \/ \E n \in {1, 2} : Skip(t, n)

LEMMA EntryElsewhere ==
  ASSUME HandleInv, NEW t \in Threads, Entry(t)
  PROVE  Elsewhere(t) /\ fn[t] # "none"
<1>1. \/ At(t, "pw") \/ At(t, "clear") \/ At(t, "free") \/ At(t, "reset")
      \/ At(t, "index") \/ At(t, "count") \/ At(t, "lookup")
      \/ At(t, "convert") \/ At(t, "name") \/ At(t, "symbol") \/ At(t, "info")
      \/ At(t, "strings") \/ At(t, "fill") \/ At(t, "buffer")
  BY DEF Entry, ReadRecord, ClearRecord, FreeFields, Reset, CheckIndex, Count,
         Lookup, Convert, Name, Symbol, Info, MakeStrings, StringsStep, Fill, Buffer
<1>2. place[t] = "check" /\ fn[t] # "none"
  BY <1>1 DEF HandleInv, LockInv, InLoad, At
<1>3. UNCHANGED <<lockVars, loadVars>>
  BY DEF Entry, ReadRecord, ClearRecord, FreeFields, Reset, CheckIndex, Count,
         Lookup, Convert, Name, Symbol, Info, MakeStrings, StringsStep, Fill, Buffer,
         EntryStep
<1>4. Stay(t) \/ Return(t) \/ Skip(t, 1) \/ Skip(t, 2)
  <2>1. CASE \/ ReadRecord(t) \/ ClearRecord(t) \/ FreeFields(t) \/ Reset(t)
             \/ CheckIndex(t) \/ Count(t) \/ Lookup(t)
    BY <2>1 DEF ReadRecord, ClearRecord, FreeFields, Reset, CheckIndex, Count,
                Lookup, Advance
  <2>2. CASE \/ Convert(t) \/ Name(t) \/ Symbol(t) \/ Info(t)
             \/ MakeStrings(t) \/ Fill(t) \/ Buffer(t)
    BY <2>2 DEF Convert, Name, Symbol, Info, MakeStrings,
                StringsMade, OutOfMemory, ShellLost, Fill, Buffer, Advance
  <2> QED
    BY <2>1, <2>2 DEF Entry
<1> QED
  BY <1>2, <1>3, <1>4 DEF Elsewhere

LEMMA ElsewhereStep ==
  ASSUME HandleInv, NEW t \in Threads, fn[t] # "none", Elsewhere(t)
  PROVE  HandleInv'
<1>1. HandleTypeOK'
  BY DEF HandleInv, HandleTypeOK, LockTypeOK, Elsewhere, Stay, Return, Skip,
         lockVars, loadVars
<1>2. /\ place' = place
      /\ \A s \in Threads : s # t => UNCHANGED <<fn[s], stage[s]>>
      /\ \A s \in Threads : fn'[s] # "none" => main = "calls"
  BY DEF HandleInv, HandleTypeOK, LockInv, Elsewhere, Stay, Return, Skip
<1>3. LockInv'
  BY <1>2 DEF HandleInv, LockInv, InLoad, Elsewhere, lockVars
<1>4. LoadInv'
  BY <1>2 DEF HandleInv, LoadInv, Balanced, Withdrawn, Elsewhere, loadVars
<1> QED
  BY <1>1, <1>3, <1>4 DEF HandleInv

LEMMA CallStep ==
  ASSUME HandleInv, NEW t \in Threads, NEW f \in AllFunctions, Call(t, f)
  PROVE  HandleInv'
<1> USE DEF HandleInv, Call, lockVars, loadVars
<1>1. HandleTypeOK'
  BY DEF HandleTypeOK, LockTypeOK
<1>2. LockInv'
  BY DEF HandleTypeOK, LockInv, InLoad
<1>3. LoadInv'
  BY DEF LoadInv, Balanced, Withdrawn
<1> QED
  BY <1>1, <1>2, <1>3

\* Whoever holds the lock does so alone.
LEMMA HeldAlone ==
  ASSUME HandleInv, NEW t \in Threads, at[t] = "in"
  PROVE  \A s \in Threads : s # t => place[s] \notin Held
BY DEF HandleInv, LockInv

LEMMA LoadSteps ==
  ASSUME HandleInv, NEW t \in Threads, Load(t)
  PROVE  HandleInv'
<1> USE LockAssumption, PasswdAssumption
    DEF HandleInv, HandleTypeOK, LockTypeOK, Places, LockInv, Held
<1>1. CASE Check(t)
  <2>1. CASE To(t, "lock")
    BY <1>1, <2>1 DEF Check, At, To, InLoad, LoadInv, Balanced, Withdrawn,
                      lockVars, loadVars
  <2>2. CASE Advance(t)
    <3>1. Elsewhere(t) /\ fn[t] # "none"
      BY <1>1, <2>2 DEF Check, At, Advance, Elsewhere
    <3> QED
      BY <3>1, ElsewhereStep
  <2> QED
    BY <1>1, <2>1, <2>2 DEF Check
<1>2. CASE Lock(t)
  <2>1. /\ place[t] = "lock" /\ main = "calls" /\ initialized
        /\ UNCHANGED <<fn, stage, place, loadVars>>
    BY <1>2 DEF Lock, Stay, InLoad
  <2>2. LockChecks(t) \/ Enter(t)
    BY <1>2 DEF Lock, lock, InitChecks, Initialize, SetInitialized, Move
  <2>3. HandleTypeOK' /\ LockInv'
    <3>1. CASE LockChecks(t)
      BY <2>1, <3>1 DEF LockChecks, Move, InLoad, loadVars
    <3>2. CASE Enter(t)
      BY <2>1, <3>2 DEF Enter, Move, InLoad, loadVars
    <3> QED
      BY <2>2, <3>1, <3>2
  <2>4. LoadInv'
    BY <2>1 DEF LoadInv, Balanced, Withdrawn, loadVars
  <2> QED
    BY <2>3, <2>4
<1>3. ASSUME at[t] = "in", UNCHANGED <<lockVars, fn, stage>>, InLoad(t),
             NEW p \in Held, place' = [place EXCEPT ![t] = p]
      PROVE  LockInv' /\ LockTypeOK' /\ place' \in [Threads -> {"check", "lock"} \cup Held]
  BY <1>3 DEF InLoad, lockVars
<1>4. CASE Recheck(t)
  BY <1>3, <1>4, HeldAlone DEF Recheck, At, To, InLoad, LoadInv, Balanced, Withdrawn
<1>5. CASE Open(t)
  BY <1>3, <1>5, HeldAlone DEF Open, To, LoadInv, Balanced, Withdrawn, loadVars
<1>6. CASE SetRecord(t)
  BY <1>3, <1>6, HeldAlone
     DEF SetRecord, To, LoadInv, Balanced, Withdrawn, loadVars
<1>7. CASE Close(t)
  BY <1>3, <1>7, HeldAlone DEF Close, To, LoadInv, Balanced, Withdrawn
<1>8. CASE Unlock(t) \/ OpenFailed(t)
  <2>1. /\ unlock(t) /\ UNCHANGED loadVars /\ at[t] = "in" /\ place[t] \in Held
        /\ Return(t) \/ Skip(t, 1)
    BY <1>8 DEF Unlock, OpenFailed, Advance, unlock, Move
  <2>2. /\ fn' \in [Threads -> AllFunctions \cup {"none"}]
        /\ stage' \in [Threads -> Int]
        /\ place' = [place EXCEPT ![t] = "check"]
        /\ \A s \in Threads : s # t => UNCHANGED <<fn[s], stage[s]>>
        /\ fn'[t] \in {fn[t], "none"}
    BY <2>1 DEF Return, Skip
  <2>3. /\ main = "calls" /\ initialized /\ section = t
        /\ section' = NoThread /\ at' = [at EXCEPT ![t] = "out"]
        /\ UNCHANGED <<initialized, main>>
    BY <2>1 DEF unlock, Move, InLoad
  <2>4. HandleTypeOK'
    BY <2>1, <2>2, <2>3 DEF loadVars
  <2>5. LockInv'
    BY <2>2, <2>3 DEF InLoad
  <2>6. Balanced
    BY <1>8, PasswdAssumption DEF Unlock, OpenFailed, LoadInv, Balanced
  <2>7. LoadInv'
    BY <2>1, <2>2, <2>6, HeldAlone DEF LoadInv, Balanced, Withdrawn, loadVars
  <2> QED
    BY <2>4, <2>5, <2>7
<1> QED
  BY <1>1, <1>2, <1>4, <1>5, <1>6, <1>7, <1>8 DEF Load

-----------------------------------------------------------------------------

LEMMA HandleInit == Init => HandleInv
<1> SUFFICES ASSUME Init PROVE HandleInv
  OBVIOUS
<1> USE LockAssumption DEF Init, LockInit
<1>1. HandleTypeOK
  <2>1. LockTypeOK
    BY DEF LockTypeOK, Places
  <2>2. /\ fn \in [Threads -> AllFunctions \cup {"none"}]
        /\ stage \in [Threads -> Int]
        /\ place \in [Threads -> {"check", "lock"} \cup Held]
    OBVIOUS
  <2> QED
    BY <2>1, <2>2 DEF HandleTypeOK
<1>2. LockInv
  BY DEF LockInv, Held
<1>3. LoadInv
  BY DEF LoadInv, Balanced
<1> QED
  BY <1>1, <1>2, <1>3 DEF HandleInv

\* The steps of a thread: it calls a function, or it is in one.
LEMMA ThreadSteps ==
  ASSUME [Next]_vars
  PROVE  \/ init_lock /\ UNCHANGED <<loadVars, entryVars, heapVars, localVars,
                                     fn, stage, place, fault, calls>>
         \/ \E t \in Threads, f \in AllFunctions : Call(t, f)
         \/ \E t \in Threads : Load(t) \/ Entry(t)
         \/ UNCHANGED vars
BY PasswdAssumption
   DEF Next, getpwent, setpwent, endpwent, getpwnam, getpwuid, getpwnam_r,
       getpwuid_r, Call

LEMMA HandleStep ==
  ASSUME InitLockFirst, HandleInv, [Next]_vars
  PROVE  HandleInv'
<1>1. CASE init_lock /\ UNCHANGED <<loadVars, fn, stage, place>>
  <2> USE <1>1, InitLockFirst DEF HandleInv, init_lock, loadVars
  <2>1. HandleTypeOK'
    BY DEF HandleTypeOK, LockTypeOK
  <2>2. LockInv'
    BY DEF LockInv, InLoad
  <2>3. LoadInv'
    BY DEF LoadInv, Balanced, Withdrawn
  <2> QED
    BY <2>1, <2>2, <2>3
<1>2. CASE UNCHANGED vars
  BY <1>2
     DEF vars, HandleInv, HandleTypeOK, LockTypeOK, LockInv, InLoad, LoadInv,
         Balanced, Withdrawn, lockVars, loadVars
<1> QED
  BY <1>1, <1>2, ThreadSteps, CallStep, LoadSteps, EntryElsewhere,
     ElsewhereStep

LEMMA HandleInvariant ==
  ASSUME InitLockFirst
  PROVE  Spec => []HandleInv
<1>1. HandleInv /\ [Next]_vars => HandleInv'
  BY InitLockFirst, HandleStep
<1> QED
  BY <1>1, HandleInit, PTL DEF Spec

\* In a program that calls init_lock first, endpwent closes exactly what the
\* loaders opened, however their threads interleave and whatever fails.
THEOREM HandleBalanced ==
  ASSUME InitLockFirst
  PROVE  Spec => []LoadsBalanced
<1>1. HandleInv => LoadsBalanced
  BY DEF HandleInv, LockInv, LoadInv, Balanced, LoadsBalanced, Held
<1>2. Spec => []HandleInv
  BY InitLockFirst, HandleInvariant
<1> QED
  BY <1>1, <1>2, PTL

-----------------------------------------------------------------------------
(* The order of the stages.                                                *)

\* The first n - 1 stages of a function.
Stages(f, n) == {Route[f][k] : k \in 1..n - 1}

\* What has come before a stage, and in whose route the stage is.
InOrder(f, here, behind) ==
  /\ here \in {"symbol", "info", "strings", "fill"} => "load" \in behind
  /\ here \in {"pw", "free", "name"} =>
       {"name", "strings", "fill"} \cap behind = {}
  /\ here \in {"pw", "clear", "free"} => "free" \notin behind
  /\ here = "pw" => "pw" \notin behind
  /\ here \in {"free", "clear"} => "pw" \in behind
  /\ here \in {"strings", "fill", "reset"} => "free" \in behind
  /\ here \in {"strings", "fill", "reset"} => "fill" \notin behind
  /\ here = "strings" => "name" \in behind /\ "strings" \notin behind
  /\ here = "count" => "fill" \in behind
  /\ here \in {"unload", "clear"} => f = "endpwent"
  /\ here = "reset" => f \in {"setpwent", "endpwent"}
  /\ here = "reset" /\ f = "endpwent" => "clear" \in behind
  /\ here = "load" => f # "endpwent"
  /\ here = "unload" => "clear" \notin behind
  /\ f # "endpwent" => "unload" \notin behind
  /\ here = "clear" => "unload" \in behind
  /\ f = "endpwent" =>
       /\ here \in {"unload", "pw", "clear", "free", "reset"}
       /\ "load" \notin behind
  /\ f \in {"setpwent", "endpwent"} \cup Reentrant => "name" \notin behind
  /\ f = "getpwent" /\ here \in {"load", "index"} => "name" \notin behind
  /\ here \in {"convert", "lookup"} => f # "getpwent"
  /\ f \in Reentrant =>
       here \in {"lookup", "load", "convert", "symbol", "info", "buffer"}
  /\ here = "buffer" => f \in Reentrant
  /\ here \notin {"fill", "count"} => "strings" \notin behind

\* Where a function cannot end: at every stage but the last.
InRoute(f) ==
  /\ DOMAIN Route[f] = 1..Len(Route[f]) /\ Len(Route[f]) \in Nat \ {0}
  /\ \A k \in 1..Len(Route[f]) :
       /\ InOrder(f, Route[f][k], Stages(f, k))
       /\ Route[f][k] = "symbol" =>
            /\ Route[f][k + 1] = "info"
            /\ k + 1 \in 1..Len(Route[f]) /\ k + 2 \in 1..Len(Route[f])
       /\ Route[f][k] \notin {"reset", "fill", "count", "buffer"} =>
            k + 1 \in 1..Len(Route[f])

LEMMA RoutesInOrder == \A f \in AllFunctions : InRoute(f)
<1> USE DEF Route, Stages, Reentrant, InOrder, InRoute
<1>1. InRoute("getpwent")
  OBVIOUS
<1>2. InRoute("setpwent")
  OBVIOUS
<1>3. InRoute("endpwent")
  OBVIOUS
<1>4. InRoute("getpwnam")
  OBVIOUS
<1>5. InRoute("getpwuid")
  OBVIOUS
<1>6. InRoute("getpwnam_r")
  OBVIOUS
<1>7. InRoute("getpwuid_r")
  OBVIOUS
<1>8. AllFunctions = {"getpwent", "setpwent", "endpwent", "getpwnam",
                      "getpwuid", "getpwnam_r", "getpwuid_r"}
  BY DEF AllFunctions
<1> HIDE DEF InRoute
<1> QED
  BY <1>1, <1>2, <1>3, <1>4, <1>5, <1>6, <1>7, <1>8

Here(t) == Route[fn[t]][stage[t]]
Behind(t) == Stages(fn[t], stage[t])

StageOK ==
  /\ stage \in [Threads -> Nat]
  /\ \A t \in Threads :
       /\ fn[t] # "none" => stage[t] \in DOMAIN Route[fn[t]]
       /\ fn[t] = "none" => stage[t] = 1

LEMMA AtStage ==
  ASSUME HandleInv, StageOK, NEW t \in Threads, fn[t] # "none"
  PROVE  /\ fn[t] \in AllFunctions
         /\ stage[t] \in 1..Len(Route[fn[t]]) /\ Len(Route[fn[t]]) \in Nat
         /\ InOrder(fn[t], Here(t), Behind(t))
         /\ Here(t) = "symbol" =>
              /\ Route[fn[t]][stage[t] + 1] = "info"
              /\ stage[t] + 1 \in 1..Len(Route[fn[t]])
              /\ stage[t] + 2 \in 1..Len(Route[fn[t]])
         /\ Here(t) \notin {"reset", "fill", "count", "buffer"} =>
              stage[t] + 1 \in 1..Len(Route[fn[t]])
<1>1. fn[t] \in AllFunctions
  BY DEF HandleInv, HandleTypeOK
<1>2. InRoute(fn[t])
  BY <1>1, RoutesInOrder
<1> QED
  BY <1>1, <1>2 DEF InRoute, StageOK, Here, Behind

\* A thread leaves its function, stays where it is, or leaves its stage
\* behind.
Moves(t) ==
  /\ \A u \in Threads : u # t => fn'[u] = fn[u] /\ Here(u)' = Here(u)
                                 /\ Behind(u)' = Behind(u)
  /\ \/ fn'[t] = "none"
     \/ fn'[t] = fn[t] /\ Here(t)' = Here(t) /\ Behind(t)' = Behind(t)
     \/ fn'[t] = fn[t] /\ Behind(t)' = Behind(t) \cup {Here(t)}
     \/ /\ fn'[t] = fn[t] /\ Here(t) = "symbol"
        /\ Behind(t)' = Behind(t) \cup {"symbol", "info"}

LEMMA MovesOn ==
  ASSUME HandleInv, StageOK, NEW t \in Threads, fn[t] # "none",
         \/ UNCHANGED <<fn, stage>>
         \/ Return(t) \/ Skip(t, 1) \/ (Here(t) = "symbol" /\ Skip(t, 2))
  PROVE  StageOK' /\ Moves(t)
<1>1. /\ fn \in [Threads -> AllFunctions \cup {"none"}]
      /\ stage \in [Threads -> Nat] /\ fn[t] \in AllFunctions
      /\ stage[t] \in 1..Len(Route[fn[t]])
      /\ DOMAIN Route[fn[t]] = 1..Len(Route[fn[t]])
      /\ Len(Route[fn[t]]) \in Nat
  BY AtStage, RoutesInOrder DEF HandleInv, HandleTypeOK, StageOK, InRoute
<1>2. CASE UNCHANGED <<fn, stage>>
  BY <1>2 DEF StageOK, Moves, Here, Behind
<1>3. CASE Return(t)
  BY <1>1, <1>3 DEF Return, StageOK, Moves, Here, Behind
<1>4. ASSUME NEW n \in 1..2, stage[t] + n \in 1..Len(Route[fn[t]]),
             stage' = [stage EXCEPT ![t] = @ + n], fn' = fn
      PROVE  /\ StageOK'
             /\ \A u \in Threads : u # t =>
                  fn'[u] = fn[u] /\ Here(u)' = Here(u) /\ Behind(u)' = Behind(u)
             /\ Behind(t)' = Stages(fn[t], stage[t] + n)
  BY <1>1, <1>4 DEF StageOK, Here, Behind
<1>5. CASE Skip(t, 1)
  <2>1. CASE stage[t] + 1 <= Len(Route[fn[t]])
    <3>1. Stages(fn[t], stage[t] + 1) = Behind(t) \cup {Here(t)}
      BY <1>1 DEF Stages, Behind, Here
    <3> QED BY <1>1, <1>4, <1>5, <2>1, <3>1 DEF Skip, Moves
  <2> QED BY <1>3, <1>5, <2>1 DEF Skip
<1>6. CASE Here(t) = "symbol" /\ Skip(t, 2)
  <2>1. CASE stage[t] + 2 <= Len(Route[fn[t]])
    <3>1. Route[fn[t]][stage[t] + 1] = "info"
      BY <1>6, AtStage
    <3>2. Stages(fn[t], stage[t] + 2) = Behind(t) \cup {Here(t), "info"}
      BY <1>1, <3>1 DEF Stages, Behind, Here
    <3> QED BY <1>1, <1>4, <1>6, <2>1, <3>2 DEF Skip, Moves
  <2> QED BY <1>3, <1>6, <2>1 DEF Skip
<1> QED BY <1>2, <1>3, <1>5, <1>6

LEMMA StepMoves ==
  ASSUME HandleInv, StageOK, NEW t \in Threads, Load(t) \/ Entry(t)
  PROVE  fn[t] # "none" /\ StageOK' /\ Moves(t)
<1>1. CASE Load(t)
  <2>1. /\ fn[t] # "none"
        /\ \/ UNCHANGED <<fn, stage>>
           \/ Return(t) \/ Skip(t, 1)
    BY <1>1
       DEF Load, Check, Lock, Recheck, Open, SetRecord, Close, Unlock,
           OpenFailed, At, To, Stay, Advance, HandleInv, LockInv, InLoad
  <2> QED BY <2>1, MovesOn
<1>2. CASE Entry(t)
  <2>1. Stay(t) \/ Return(t) \/ Skip(t, 1) \/ (Here(t) = "symbol" /\ Skip(t, 2))
    <3>1. CASE Symbol(t)
      BY <3>1 DEF Symbol, At, Here, Advance
    <3>2. CASE \/ ReadRecord(t) \/ ClearRecord(t) \/ FreeFields(t) \/ Reset(t)
               \/ CheckIndex(t) \/ Count(t) \/ Lookup(t)
      BY <3>2 DEF ReadRecord, ClearRecord, FreeFields, Reset, CheckIndex,
                  Count, Lookup, Advance
    <3>3. CASE \/ Convert(t) \/ Name(t) \/ Info(t) \/ MakeStrings(t)
               \/ Fill(t) \/ Buffer(t)
      BY <3>3 DEF Convert, Name, Info, MakeStrings, StringsMade, OutOfMemory,
                  ShellLost, Fill, Buffer, Advance
    <3> QED BY <1>2, <3>1, <3>2, <3>3 DEF Entry
  <2> QED BY <1>2, <2>1, EntryElsewhere, MovesOn DEF Stay
<1> QED BY <1>1, <1>2

LEMMA CallMoves ==
  ASSUME HandleInv, StageOK, NEW t \in Threads, NEW f \in AllFunctions,
         Call(t, f)
  PROVE  /\ StageOK' /\ fn'[t] = f /\ Behind(t)' = {}
         /\ \A u \in Threads : u # t => fn'[u] = fn[u] /\ Here(u)' = Here(u)
                                        /\ Behind(u)' = Behind(u)
<1>1. /\ fn' = [fn EXCEPT ![t] = f] /\ stage' = stage /\ fn[t] = "none"
      /\ fn \in [Threads -> AllFunctions \cup {"none"}] /\ stage[t] = 1
  BY DEF Call, HandleInv, HandleTypeOK, StageOK
<1>2. 1 \in DOMAIN Route[f]
  BY RoutesInOrder DEF InRoute
<1> QED BY <1>1, <1>2 DEF StageOK, Here, Behind, Stages

LEMMA StageStep ==
  ASSUME HandleInv, StageOK, [Next]_vars
  PROVE  StageOK'
<1>1. CASE UNCHANGED <<fn, stage>>
  BY <1>1 DEF StageOK
<1> QED
  BY <1>1, ThreadSteps, StepMoves, CallMoves DEF vars

\* Which of the two stages a thread with the lock is in.
PlaceOK ==
  \A t \in Threads :
    /\ place[t] \in {"open", "record", "fail"} => Here(t) = "load"
    /\ place[t] = "close" => Here(t) = "unload"

LEMMA PlaceStep ==
  ASSUME HandleInv, StageOK, PlaceOK, [Next]_vars
  PROVE  PlaceOK'
<1>1. CASE UNCHANGED <<fn, stage, place>>
  BY <1>1 DEF PlaceOK, Here
<1>2. ASSUME NEW t \in Threads, NEW f \in AllFunctions, Call(t, f)
      PROVE  PlaceOK'
  <2>1. place[t] = "check" /\ place' = place
    BY <1>2 DEF Call, HandleInv, HandleTypeOK, LockInv, InLoad, Held
  <2> QED BY <1>2, <2>1, CallMoves DEF PlaceOK
<1>3. ASSUME NEW t \in Threads, Load(t) \/ Entry(t)
      PROVE  PlaceOK'
  <2>1. \A u \in Threads : u # t => Here(u)' = Here(u) /\ place'[u] = place[u]
    <3>1. \/ place' = place
          \/ \E p : place' = [place EXCEPT ![t] = p]
      <4>1. CASE Load(t)
        BY <4>1 DEF Load, Check, Lock, Recheck, Open, SetRecord, Close, Unlock,
                    OpenFailed, To, Stay, Advance, Skip, Return
      <4>2. CASE Entry(t)
        BY <4>2, EntryElsewhere DEF Elsewhere, Stay, Skip, Return
      <4> QED BY <1>3, <4>1, <4>2
    <3> QED
      BY <1>3, <3>1, StepMoves DEF Moves, HandleInv, HandleTypeOK
  <2>2. \/ place'[t] \in {"check", "lock", "unlock"}
        \/ Here(t)' = Here(t) /\ place'[t] \in {"open", "record", "fail"}
                              /\ Here(t) = "load"
        \/ Here(t)' = Here(t) /\ place'[t] = "close" /\ Here(t) = "unload"
    <3>1. place \in [Threads -> {"check", "lock"} \cup Held]
      BY DEF HandleInv, HandleTypeOK
    <3>2. CASE Check(t) \/ Unlock(t) \/ OpenFailed(t)
      BY <3>1, <3>2
         DEF Check, Unlock, OpenFailed, To, Advance, Skip, Return
    <3>3. CASE Lock(t)
      BY <3>1, <3>3 DEF Lock, Stay
    <3>4. CASE Recheck(t)
      BY <3>1, <3>4 DEF Recheck, To, At, Here
    <3>5. CASE Open(t) \/ SetRecord(t) \/ Close(t)
      BY <3>1, <3>5 DEF Open, SetRecord, Close, To, PlaceOK, Here
    <3>6. CASE Entry(t)
      BY <3>1, <3>6, EntryElsewhere DEF Elsewhere, Stay, Skip, Return
    <3> QED BY <1>3, <3>2, <3>3, <3>4, <3>5, <3>6 DEF Load
  <2> QED BY <2>1, <2>2 DEF PlaceOK
<1> QED BY <1>1, <1>2, <1>3, ThreadSteps DEF vars

-----------------------------------------------------------------------------
(* Types.                                                                  *)

DataOK ==
  /\ current_passwd \in Records \cup {NULL} /\ passwd_index \in Nat
  /\ fields \in [Records -> Strings] /\ live \in SUBSET Blocks
  /\ pw \in [Threads -> Records \cup {NULL}]
  /\ memory \in [Threads -> Strings] /\ mine \in [Threads -> Strings]
  /\ fault \in [Threads -> {"none", "no library", "no record", "double free",
                            "no name"}]
  /\ calls \in [Threads -> 0..MaxCalls]
  /\ allocator \in [Blocks -> Allocators]

TypeInv == HandleInv /\ StageOK /\ PlaceOK /\ DataOK

LEMMA CountersStep ==
  ASSUME passwd_index \in Nat, calls \in [Threads -> 0..MaxCalls],
         NEW t \in Threads
  PROVE  /\ \A f : Call(t, f) => calls' \in [Threads -> 0..MaxCalls]
         /\ Reset(t) \/ Count(t) => passwd_index' \in Nat
<1>1. ASSUME NEW f, Call(t, f) PROVE calls' \in [Threads -> 0..MaxCalls]
  <2>1. calls' = [calls EXCEPT ![t] = @ + 1] /\ calls[t] < MaxCalls
    BY <1>1 DEF Call
  <2>2. MaxCalls \in Nat /\ calls[t] \in Nat
    BY PasswdAssumption
  <2>3. calls[t] + 1 \in 0..MaxCalls
    BY <2>1, <2>2
  <2> QED BY <2>1, <2>3
<1>2. Reset(t) => passwd_index' \in Nat
  BY DEF Reset
<1>3. Count(t) => passwd_index' \in Nat
  <2>1. Count(t) => passwd_index' = passwd_index + 1
    BY DEF Count
  <2> QED BY <2>1
<1> QED BY <1>1, <1>2, <1>3

LEMMA ForIsAllocator ==
  ASSUME NEW t \in Threads, fn[t] \in AllFunctions, NEW f \in Fields
  PROVE  For(t, f) \in Allocators
BY DEF For, Allocators

LEMMA DataStep ==
  ASSUME TypeInv, [Next]_vars
  PROVE  DataOK'
<1> USE PasswdAssumption DEF TypeInv, DataOK
<1>1. Empty \in Strings
  BY DEF Empty, Strings
<1>2. CASE UNCHANGED <<entryVars, heapVars, localVars, fault, calls>>
  BY <1>2 DEF entryVars, heapVars, localVars
<1>3. ASSUME NEW t \in Threads, NEW f \in AllFunctions, Call(t, f)
      PROVE  DataOK'
  <2>1. calls' \in [Threads -> 0..MaxCalls]
    BY <1>3, CountersStep
  <2> QED BY <1>1, <1>3, <2>1 DEF Call, entryVars, heapVars
<1>4. ASSUME NEW t \in Threads, Load(t)
      PROVE  DataOK'
  <2>1. CASE SetRecord(t)
    <3>1. fn[t] \in Records
      <4>1. fn[t] # "none" /\ Here(t) = "load"
        BY <1>4, <2>1, StepMoves DEF SetRecord, PlaceOK
      <4>2. fn[t] \in AllFunctions /\ fn[t] # "endpwent"
        BY <4>1, AtStage DEF InOrder
      <4> QED BY <4>2 DEF Records
    <3> QED BY <2>1, <3>1 DEF SetRecord, LoadStep, heapVars, localVars
  <2>2. CASE \/ Check(t) \/ Lock(t) \/ Recheck(t) \/ Open(t) \/ Close(t)
             \/ Unlock(t) \/ OpenFailed(t)
    BY <1>2, <2>2 DEF Check, Lock, Recheck, Open, Close, Unlock, OpenFailed,
                      LoadStep, entryVars
  <2> QED BY <1>4, <2>1, <2>2 DEF Load
<1>5. ASSUME NEW t \in Threads, Entry(t)
      PROVE  DataOK'
  <2> USE <1>1 DEF EntryStep, entryVars, heapVars, localVars
  <2>1. CASE ReadRecord(t)
    BY <2>1 DEF ReadRecord
  <2>2. CASE ClearRecord(t) \/ CheckIndex(t)
    BY <2>2 DEF ClearRecord, CheckIndex
  <2>9. CASE Reset(t) \/ Count(t)
    <3>1. passwd_index' \in Nat
      BY <2>9, CountersStep
    <3> QED BY <2>9, <3>1 DEF Reset, Count
  <2>3. CASE FreeFields(t)
    BY <2>3 DEF FreeFields, Fault
  <2>4. CASE Lookup(t) \/ Convert(t) \/ Buffer(t)
    BY <2>4 DEF Lookup, Convert, Buffer
  <2>5. CASE Name(t)
    <3>1. CASE UNCHANGED <<mine, live, allocator>>
      BY <2>5, <3>1 DEF Name
    <3>2. ASSUME NEW b \in Fresh,
                 mine' = [mine EXCEPT ![t].pw_name = b],
                 live' = live \cup {b},
                 allocator' = [allocator EXCEPT ![b] = For(t, "pw_name")]
          PROVE  DataOK'
      <4>1. For(t, "pw_name") \in Allocators
        BY <2>5, AtStage, ForIsAllocator DEF Name, At, Fields
      <4>2. mine' \in [Threads -> Strings]
        BY <3>2 DEF Fresh, Strings, Fields
      <4> QED BY <2>5, <3>2, <4>1, <4>2 DEF Name, Fresh
    <3> QED BY <2>5, <3>1, <3>2 DEF Name
  <2>6. CASE Symbol(t) \/ Info(t)
    BY <2>6 DEF Symbol, Info, Fault
  <2>7. CASE MakeStrings(t)
    <3>1. /\ UNCHANGED <<current_passwd, passwd_index, fields, pw, memory,
                         fault, calls>>
          /\ fn[t] \in AllFunctions
      BY <2>7, AtStage DEF MakeStrings, StringsStep, At
    <3>2. For(t, "pw_dir") \in Allocators /\ For(t, "pw_shell") \in Allocators
      BY <3>1, ForIsAllocator DEF Fields
    <3>3. CASE StringsMade(t)
      <4>1. PICK b \in Fresh, c \in Fresh :
              /\ mine' = [mine EXCEPT ![t].pw_dir = b, ![t].pw_shell = c]
              /\ live' = live \cup {b, c}
              /\ allocator' = [allocator EXCEPT ![b] = For(t, "pw_dir"),
                                                ![c] = For(t, "pw_shell")]
        BY <3>3 DEF StringsMade
      <4>2. mine' \in [Threads -> Strings]
        BY <4>1 DEF Fresh, Strings, Fields
      <4> QED BY <3>1, <3>2, <4>1, <4>2 DEF Fresh
    <3>4. CASE OutOfMemory(t)
      BY <3>1, <3>4 DEF OutOfMemory
    <3>5. CASE ShellLost(t)
      BY <3>1, <3>2, <3>5 DEF ShellLost, Fresh
    <3> QED BY <2>7, <3>3, <3>4, <3>5 DEF MakeStrings
  <2>8. CASE Fill(t)
    BY <2>8 DEF Fill, Fault
  <2> QED
    BY <1>5, <2>1, <2>2, <2>3, <2>4, <2>5, <2>6, <2>7, <2>8, <2>9
     DEF Entry
<1> QED
  BY <1>2, <1>3, <1>4, <1>5, ThreadSteps DEF vars

-----------------------------------------------------------------------------
(* One thread at a time in the functions that are not reentrant, and the   *)
(* record that goes with the handle.                                       *)

LEMMA AdvanceMoves ==
  ASSUME HandleInv, StageOK, NEW t \in Threads, fn[t] # "none", Advance(t)
  PROVE  /\ \/ fn'[t] = "none"
            \/ fn' = fn /\ Behind(t)' = Behind(t) \cup {Here(t)}
         /\ Here(t) \notin {"reset", "fill", "count", "buffer"} =>
              fn' = fn /\ Behind(t)' = Behind(t) \cup {Here(t)}
<1>1. /\ Here(t) \notin {"reset", "fill", "count", "buffer"} =>
           stage[t] + 1 <= Len(Route[fn[t]])
      /\ stage[t] \in 1..Len(Route[fn[t]]) /\ Len(Route[fn[t]]) \in Nat
      /\ stage \in [Threads -> Nat]
      /\ fn \in [Threads -> AllFunctions \cup {"none"}]
  BY AtStage DEF StageOK, HandleInv, HandleTypeOK
<1>2. CASE stage[t] + 1 <= Len(Route[fn[t]])
  <2>1. fn' = fn /\ stage' = [stage EXCEPT ![t] = @ + 1]
    BY <1>2 DEF Advance, Skip
  <2>2. Behind(t)' = Stages(fn[t], stage[t] + 1)
    BY <1>1, <2>1 DEF Behind
  <2>3. Stages(fn[t], stage[t] + 1) = Behind(t) \cup {Here(t)}
    BY <1>1 DEF Stages, Behind, Here
  <2> QED BY <2>1, <2>2, <2>3
<1>3. CASE ~(stage[t] + 1 <= Len(Route[fn[t]]))
  <2>1. fn'[t] = "none"
    BY <1>1, <1>3 DEF Advance, Skip, Return
  <2> QED BY <1>1, <1>3, <2>1
<1> QED BY <1>2, <1>3

Alone(t) == fn[t] \notin Reentrant \cup {"none"}

SerialInv ==
  \A t, u \in Threads : Alone(t) /\ t # u => fn[u] = "none"

LEMMA SerialStep ==
  ASSUME Serialized, TypeInv, SerialInv, [Next]_vars
  PROVE  SerialInv'
<1> USE DEF TypeInv, SerialInv, Alone
<1>1. CASE UNCHANGED fn
  BY <1>1
<1>2. ASSUME NEW t \in Threads, NEW f \in AllFunctions, Call(t, f)
      PROVE  SerialInv'
  <2>1. \A u \in Threads : {f, fn[u]} \subseteq Reentrant \/ fn[u] = "none"
    BY <1>2, Serialized DEF Call
  <2>2. fn'[t] = f /\ \A u \in Threads : u # t => fn'[u] = fn[u]
    BY <1>2, CallMoves
  <2> QED BY <2>1, <2>2
<1>3. ASSUME NEW t \in Threads, Load(t) \/ Entry(t)
      PROVE  SerialInv'
  <2>1. /\ fn'[t] \in {fn[t], "none"}
        /\ \A u \in Threads : u # t => fn'[u] = fn[u]
    BY <1>3, StepMoves DEF Moves
  <2> QED BY <2>1
<1> QED BY <1>1, <1>2, <1>3, ThreadSteps DEF vars

\* The loader of the handle is about to set current_passwd, and endpwent
\* about to clear it; else the two are set together.
PairInv ==
  /\ netapi32_handle # NULL =>
       current_passwd # NULL \/ \E t \in Threads : place[t] = "record"
  /\ netapi32_handle = NULL =>
       \/ current_passwd = NULL
       \/ \E t \in Threads : fn[t] = "endpwent" /\ "clear" \notin Behind(t)

\* What a thread knows of the handle, since nobody withdraws it meanwhile.
KnownInv ==
  \A t \in Threads : fn[t] # "none" =>
    /\ place[t] = "record" => current_passwd = NULL
    /\ place[t] \in {"record", "unlock"} /\ Here(t) = "load" =>
         netapi32_handle # NULL
    /\ "load" \in Behind(t) => netapi32_handle # NULL
    /\ place[t] = "unlock" /\ Here(t) = "unload" => netapi32_handle = NULL
    /\ "unload" \in Behind(t) => netapi32_handle = NULL

RecordInv == PairInv /\ KnownInv

\* A step of a thread that changes neither of the two.
LEMMA SameRecord ==
  ASSUME TypeInv, RecordInv, NEW t \in Threads, Moves(t), fn[t] # "none",
         UNCHANGED <<netapi32_handle, current_passwd>>,
         \A u \in Threads : u # t => place'[u] = place[u],
         place[t] # "record", place'[t] # "record",
         fn[t] = "endpwent" /\ "clear" \notin Behind(t) =>
           fn'[t] = "endpwent" /\ "clear" \notin Behind(t)',
         fn'[t] # "none" =>
           /\ place'[t] = "unlock" => /\ Here(t)' = "load" => netapi32_handle # NULL
                                      /\ Here(t)' = "unload" => netapi32_handle = NULL
           /\ "load" \in Behind(t)' => netapi32_handle # NULL
           /\ "unload" \in Behind(t)' => netapi32_handle = NULL
  PROVE  RecordInv'
<1>1. PairInv'
  BY DEF RecordInv, PairInv, Moves
<1>2. KnownInv'
  BY DEF RecordInv, KnownInv, Moves
<1> QED BY <1>1, <1>2 DEF RecordInv

\* While a thread is in endpwent the others are in no function.
LEMMA EndAlone ==
  ASSUME SerialInv, NEW t \in Threads, fn[t] # "none", fn[t] # "endpwent"
  PROVE  \A u \in Threads : fn[u] # "endpwent"
BY DEF SerialInv, Alone, Reentrant

LEMMA RecordLoadStep ==
  ASSUME TypeInv, SerialInv, RecordInv, NEW t \in Threads, Load(t)
  PROVE  RecordInv'
<1> USE PasswdAssumption DEF TypeInv
<1>1. /\ fn[t] # "none" /\ Moves(t)
      /\ InOrder(fn[t], Here(t), Behind(t))
      /\ place \in [Threads -> {"check", "lock"} \cup Held]
      /\ \A u \in Threads : place[u] # "check" => fn[u] # "none"
  BY StepMoves, AtStage DEF HandleInv, HandleTypeOK, LockInv, InLoad
<1>2. CASE Check(t)
  <2> DEFINE goes == (netapi32_handle = NULL) = At(t, "load")
  <2>1. CASE goes
    <3> To(t, "lock")
      BY <1>2, <2>1 DEF Check
    <3>1. place'[t] = "lock" /\ Here(t)' = Here(t) /\ Behind(t)' = Behind(t)
          /\ fn' = fn /\ \A u \in Threads : u # t => place'[u] = place[u]
      BY <1>1, <2>1 DEF To, Here, Behind
    <3> QED
      BY <1>1, <1>2, <3>1, SameRecord DEF Check, loadVars, RecordInv, KnownInv
  <2>2. CASE ~goes
    <3> Advance(t)
      BY <1>2, <2>2 DEF Check
    <3>1. Here(t) \in {"load", "unload"}
          /\ ((netapi32_handle = NULL) <=> (Here(t) = "unload"))
      BY <1>2, <2>2 DEF Check, At, Here
    <3> QED
      BY <1>1, <1>2, <2>2, <3>1, AdvanceMoves, SameRecord
         DEF Check, loadVars, RecordInv, KnownInv, Advance, Skip, Return,
             InOrder
  <2> QED BY <2>1, <2>2
<1>3. CASE Lock(t)
  <2>1. UNCHANGED <<netapi32_handle, current_passwd, fn, stage, place>>
    BY <1>3 DEF Lock, Stay, loadVars
  <2> QED BY <2>1 DEF RecordInv, PairInv, KnownInv, Here, Behind
<1>4. CASE Recheck(t)
  <2>1. /\ UNCHANGED <<fn, stage, current_passwd>> /\ place[t] = "lock"
        /\ \A u \in Threads : u # t => place'[u] = place[u]
    BY <1>1, <1>4 DEF Recheck, To
  <2>2. CASE At(t, "load")
    <3>1. /\ Here(t) = "load" /\ netapi32_handle' = netapi32_handle
          /\ place'[t] = IF netapi32_handle = NULL THEN "open" ELSE "unlock"
      BY <1>1, <1>4, <2>2 DEF Recheck, To, At, Here
    <3> QED
      BY <1>1, <2>1, <3>1, SameRecord
         DEF RecordInv, KnownInv, Here, Behind
  <2>3. CASE At(t, "unload")
    <3>1. /\ Here(t) = "unload" /\ netapi32_handle' = NULL
          /\ place'[t] \in {"close", "unlock"}
      BY <1>1, <1>4, <2>3 DEF Recheck, To, At, Here
    <3>2. fn[t] = "endpwent" /\ "clear" \notin Behind(t)
          /\ "load" \notin Behind(t)
      BY <1>1, <3>1 DEF InOrder
    <3>3. \A u \in Threads : u # t => fn[u] = "none"
      BY <3>2 DEF SerialInv, Alone, Reentrant
    <3>4. PairInv'
      BY <2>1, <3>1, <3>2 DEF PairInv, Behind
    <3>5. KnownInv'
      BY <2>1, <3>1, <3>2, <3>3 DEF KnownInv, Behind, Here
    <3> QED BY <3>4, <3>5 DEF RecordInv
  <2> QED BY <1>4, <2>2, <2>3 DEF Recheck
<1>5. CASE Open(t)
  <2>1. /\ UNCHANGED <<fn, stage, current_passwd>> /\ place[t] = "open"
        /\ netapi32_handle = NULL /\ Here(t) = "load"
        /\ \A u \in Threads : u # t => place'[u] = place[u]
    BY <1>1, <1>5 DEF Open, To, HandleInv, LoadInv, PlaceOK
  <2>2. CASE netapi32_handle' = "netapi32" /\ place'[t] = "record"
    <3>1. \A u \in Threads : fn[u] # "endpwent"
      BY <1>1, <2>1, EndAlone DEF InOrder
    <3>2. current_passwd = NULL
      BY <2>1, <3>1 DEF RecordInv, PairInv
    <3>3. \A u \in Threads : "unload" \in Behind(u) /\ fn[u] # "none" => u # u
      <4>1. \A u \in Threads : fn[u] # "none" => "unload" \notin Behind(u)
        BY <3>1, AtStage DEF InOrder
      <4> QED BY <4>1
    <3>4. \A u \in Threads : u # t => place[u] \notin Held
      BY <2>1, HeldAlone DEF HandleInv, LockInv, Held
    <3>5. PairInv'
      BY <2>2 DEF PairInv
    <3>6. KnownInv'
      BY <2>1, <2>2, <3>2, <3>3, <3>4 DEF KnownInv, Here, Behind, Held
    <3> QED BY <3>5, <3>6 DEF RecordInv
  <2>3. CASE netapi32_handle' = netapi32_handle /\ place'[t] = "fail"
    BY <1>1, <2>1, <2>3, SameRecord DEF RecordInv, KnownInv, Here, Behind
  <2> QED BY <1>1, <1>5, <2>2, <2>3 DEF Open, To, loadVars
<1>6. CASE SetRecord(t)
  <2>1. /\ UNCHANGED <<fn, stage, netapi32_handle>> /\ place[t] = "record"
        /\ place'[t] = "unlock" /\ current_passwd' = fn[t] /\ Here(t) = "load"
        /\ \A u \in Threads : u # t => place'[u] = place[u]
    BY <1>1, <1>6 DEF SetRecord, To, PlaceOK, loadVars
  <2>2. netapi32_handle # NULL
    BY <1>1, <2>1 DEF RecordInv, KnownInv
  <2>3. fn[t] \in Records
    BY <1>1, <2>1, AtStage DEF InOrder, Records
  <2>4. \A u \in Threads : u # t => place[u] \notin Held
    BY <2>1, HeldAlone DEF HandleInv, LockInv, Held
  <2>5. PairInv'
    BY <2>1, <2>2, <2>3 DEF PairInv
  <2>6. KnownInv'
    BY <2>1, <2>2, <2>4 DEF RecordInv, KnownInv, Here, Behind, Held
  <2> QED BY <2>5, <2>6 DEF RecordInv
<1>7. CASE Close(t)
  <2>1. /\ UNCHANGED <<fn, stage, netapi32_handle, current_passwd>>
        /\ place[t] = "close" /\ place'[t] = "unlock"
        /\ netapi32_handle = NULL /\ Here(t) = "unload"
        /\ \A u \in Threads : u # t => place'[u] = place[u]
    BY <1>1, <1>7
       DEF Close, To, PlaceOK, HandleInv, LoadInv, Withdrawn
  <2> QED
    BY <1>1, <2>1, SameRecord DEF RecordInv, KnownInv, Here, Behind
<1>8. CASE Unlock(t)
  <2>1. /\ Advance(t) /\ place[t] = "unlock"
        /\ UNCHANGED <<netapi32_handle, current_passwd>>
        /\ Here(t) \in {"load", "unload"}
    BY <1>1, <1>8
       DEF Unlock, loadVars, HandleInv, LockInv, InLoad, Here
  <2>2. fn' = fn /\ Behind(t)' = Behind(t) \cup {Here(t)}
    BY <1>1, <2>1, AdvanceMoves
  <2>3. place'[t] = "check" /\ \A u \in Threads : u # t => place'[u] = place[u]
    BY <1>1, <2>1 DEF Advance, Skip, Return
  <2> QED
    BY <1>1, <2>1, <2>2, <2>3, SameRecord
       DEF RecordInv, KnownInv, InOrder
<1>9. CASE OpenFailed(t)
  <2>1. /\ Return(t) /\ place[t] = "fail" /\ Here(t) = "load"
        /\ UNCHANGED <<netapi32_handle, current_passwd>>
    BY <1>9 DEF OpenFailed, loadVars, PlaceOK
  <2>2. /\ place'[t] = "check" /\ fn'[t] = "none"
        /\ \A u \in Threads : u # t => place'[u] = place[u]
    BY <1>1, <2>1 DEF Return, HandleInv, HandleTypeOK
  <2> QED BY <1>1, <2>1, <2>2, SameRecord DEF InOrder
<1> QED
  BY <1>2, <1>3, <1>4, <1>5, <1>6, <1>7, <1>8, <1>9 DEF Load

LEMMA RecordEntryStep ==
  ASSUME TypeInv, SerialInv, RecordInv, NEW t \in Threads, Entry(t)
  PROVE  RecordInv'
<1> USE DEF TypeInv
<1>1. /\ fn[t] # "none" /\ Moves(t) /\ InOrder(fn[t], Here(t), Behind(t))
      /\ place' = place /\ place[t] = "check"
      /\ netapi32_handle' = netapi32_handle
  <2>1. place' = place
    BY EntryElsewhere
       DEF Elsewhere, Stay, Skip, Return, HandleInv, HandleTypeOK
  <2> QED
    BY <2>1, StepMoves, AtStage, EntryElsewhere DEF Elsewhere, loadVars
<1>2. Here(t) \notin {"load", "unload"}
  BY DEF Entry, ReadRecord, ClearRecord, FreeFields, Reset, CheckIndex, Count,
         Lookup, Convert, Name, Symbol, Info, MakeStrings, StringsStep, Fill, Buffer, At,
         Here
<1>3. fn'[t] # "none" =>
        /\ "load" \in Behind(t)' => netapi32_handle # NULL
        /\ "unload" \in Behind(t)' => netapi32_handle = NULL
  BY <1>1, <1>2 DEF Moves, RecordInv, KnownInv
<1>4. CASE ClearRecord(t)
  <2>1. current_passwd' = NULL /\ netapi32_handle = NULL
    BY <1>1, <1>4 DEF ClearRecord, At, Here, InOrder, RecordInv, KnownInv
  <2>2. PairInv'
    BY <1>1, <2>1 DEF PairInv
  <2>3. KnownInv'
    BY <1>1, <1>3, <2>1 DEF RecordInv, KnownInv, Moves
  <2> QED BY <2>2, <2>3 DEF RecordInv
<1>5. CASE ~ClearRecord(t)
  <2>1. current_passwd' = current_passwd
    BY <1>5 DEF Entry, ReadRecord, FreeFields, Reset, CheckIndex, Count,
         Lookup, Convert, Name, Symbol, Info, MakeStrings, StringsStep, Fill, Buffer,
         entryVars
  <2>2. fn[t] = "endpwent" /\ "clear" \notin Behind(t) =>
          fn'[t] = "endpwent" /\ "clear" \notin Behind(t)'
    <3> SUFFICES ASSUME fn[t] = "endpwent", "clear" \notin Behind(t)
                 PROVE  fn'[t] = "endpwent" /\ "clear" \notin Behind(t)'
      OBVIOUS
    <3>1. Here(t) \in {"pw", "free"}
      <4>1. Here(t) \in {"pw", "clear", "free", "reset"}
        BY <1>1, <1>2 DEF InOrder
      <4>2. Here(t) # "reset"
        BY <1>1 DEF InOrder
      <4>3. Here(t) # "clear"
        BY <1>5 DEF Entry, ReadRecord, FreeFields, Reset, CheckIndex, Count,
             Lookup, Convert, Name, Symbol, Info, MakeStrings, StringsStep, Fill, Buffer,
             At, Here
      <4> QED BY <4>1, <4>2, <4>3
    <3>2. Advance(t) \/ Stay(t)
      BY <3>1 DEF Entry, ReadRecord, ClearRecord, FreeFields, Reset,
           CheckIndex, Count, Lookup, Convert, Name, Symbol, Info,
           MakeStrings, Fill, Buffer, At, Here
    <3>3. CASE Advance(t)
      BY <1>1, <3>1, <3>3, AdvanceMoves
    <3>4. CASE Stay(t)
      BY <3>4 DEF Stay, Behind
    <3> QED BY <3>2, <3>3, <3>4
  <2> QED BY <1>1, <1>3, <2>1, <2>2, SameRecord
<1> QED BY <1>4, <1>5

LEMMA RecordStep ==
  ASSUME TypeInv, SerialInv, RecordInv, [Next]_vars
  PROVE  RecordInv'
<1>1. CASE UNCHANGED <<netapi32_handle, current_passwd, fn, stage, place>>
  BY <1>1 DEF RecordInv, PairInv, KnownInv, Here, Behind
<1>2. ASSUME NEW t \in Threads, NEW f \in AllFunctions, Call(t, f)
      PROVE  RecordInv'
  <2>1. /\ UNCHANGED <<netapi32_handle, current_passwd, place>>
        /\ place[t] = "check" /\ fn[t] = "none"
    BY <1>2 DEF Call, loadVars, entryVars, TypeInv, HandleInv, LockInv, InLoad
  <2>2. /\ fn'[t] = f /\ Behind(t)' = {}
        /\ \A u \in Threads : u # t => fn'[u] = fn[u] /\ Here(u)' = Here(u)
                                       /\ Behind(u)' = Behind(u)
    BY <1>2, CallMoves DEF TypeInv
  <2>3. PairInv'
    BY <2>1, <2>2 DEF RecordInv, PairInv
  <2>4. KnownInv'
    BY <2>1, <2>2 DEF RecordInv, KnownInv
  <2> QED BY <2>3, <2>4 DEF RecordInv
<1> QED
  BY <1>1, <1>2, ThreadSteps, RecordLoadStep, RecordEntryStep
     DEF vars, loadVars, entryVars

-----------------------------------------------------------------------------
(* The strings.                                                            *)

\* Blocks that are allocated, each for one field.
Owned(strings) ==
  /\ BlocksOf(strings) \subseteq live
  /\ \A f, g \in Fields : strings[f] = strings[g] /\ f # g => strings[f] = NULL

AllEmpty == \A r \in Records : fields[r] = Empty

\* Only the current record has strings, or the one endpwent is about to free.
FieldsInv ==
  \A r \in Records :
    /\ Owned(fields[r])
    /\ fields[r] # Empty =>
         \/ r = current_passwd
         \/ \E t \in Threads :
              fn[t] = "endpwent" /\ "pw" \in Behind(t) /\ pw[t] = r

\* What a thread has read of the record it is about to free, which nobody
\* changes meanwhile.
ReadInv(t) ==
  /\ memory[t] = IF pw[t] = NULL THEN Empty ELSE fields[pw[t]]
  /\ \A r \in Records : fields[r] # Empty => r = pw[t]

\* What a thread has allocated.
MineInv(t) ==
  /\ Owned(mine[t])
  /\ "name" \notin Behind(t) \/ "fill" \in Behind(t) => mine[t] = Empty
  /\ "strings" \notin Behind(t) =>
       mine[t].pw_dir = NULL /\ mine[t].pw_shell = NULL
  /\ \A f \in Fields :
       mine[t][f] # NULL => allocator[mine[t][f]] = For(t, f)

LocalsInv ==
  \A t \in Threads : Alone(t) =>
    /\ MineInv(t)
    /\ "pw" \in Behind(t) /\ "free" \notin Behind(t) => ReadInv(t)
    /\ "free" \in Behind(t) /\ "fill" \notin Behind(t) => AllEmpty

OwnInv == FieldsInv /\ LocalsInv

LEMMA EmptyOwned ==
  /\ BlocksOf(Empty) = {} /\ Owned(Empty)
  /\ Empty.pw_dir = NULL /\ Empty.pw_shell = NULL
  /\ \A f \in Fields : Empty[f] = NULL
BY DEF BlocksOf, Empty, Owned, Fields

\* A step that leaves the strings alone.
LEMMA HeapKept ==
  ASSUME OwnInv, NEW t \in Threads, fn[t] # "none", Moves(t),
         UNCHANGED <<current_passwd, fields, live, allocator, pw, memory,
                     mine>>,
         Here(t) \notin {"pw", "free", "name", "strings", "fill"},
         fn[t] = "endpwent" => fn'[t] = "endpwent" \/ AllEmpty
  PROVE  OwnInv'
<1>1. \A strings : Owned(strings) => Owned(strings)'
  BY DEF Owned
<1>2. FieldsInv'
  <2>1. CASE AllEmpty
    BY <2>1, EmptyOwned DEF AllEmpty, FieldsInv, Owned
  <2>2. CASE fn[t] = "endpwent" => fn'[t] = "endpwent"
    BY <2>2 DEF OwnInv, FieldsInv, Moves, Owned
  <2> QED BY <2>1, <2>2
<1>3. LocalsInv'
  <2> SUFFICES ASSUME NEW u \in Threads, Alone(u)'
               PROVE  /\ MineInv(u)'
                      /\ "pw" \in Behind(u)' /\ "free" \notin Behind(u)' =>
                           ReadInv(u)'
                      /\ "free" \in Behind(u)' /\ "fill" \notin Behind(u)' =>
                           AllEmpty'
    BY DEF LocalsInv
  <2>1. /\ fn'[u] = fn[u]
        /\ \A s \in {"pw", "free", "name", "strings", "fill"} :
             s \in Behind(u)' <=> s \in Behind(u)
    BY DEF Moves, Alone
  <2>2. Alone(u)
    BY <2>1 DEF Alone
  <2>3. /\ MineInv(u)
        /\ "pw" \in Behind(u) /\ "free" \notin Behind(u) => ReadInv(u)
        /\ "free" \in Behind(u) /\ "fill" \notin Behind(u) => AllEmpty
    BY <2>2 DEF OwnInv, LocalsInv
  <2>4. MineInv(u)'
    BY <2>1, <2>3 DEF MineInv, For, Owned
  <2>5. ReadInv(u) => ReadInv(u)'
    BY DEF ReadInv
  <2>6. AllEmpty => AllEmpty'
    BY DEF AllEmpty
  <2> QED BY <2>1, <2>3, <2>4, <2>5, <2>6
<1> QED BY <1>2, <1>3 DEF OwnInv

LEMMA OwnCallStep ==
  ASSUME TypeInv, OwnInv, NEW t \in Threads, NEW f \in AllFunctions,
         Call(t, f)
  PROVE  OwnInv'
<1>1. /\ UNCHANGED <<current_passwd, fields, live, allocator, pw, memory>>
      /\ fn[t] = "none" /\ mine'[t] = Empty
      /\ \A u \in Threads : u # t => mine'[u] = mine[u]
  BY DEF Call, entryVars, heapVars, TypeInv, DataOK
<1>2. /\ fn'[t] = f /\ Behind(t)' = {}
      /\ \A u \in Threads : u # t => fn'[u] = fn[u] /\ Behind(u)' = Behind(u)
  BY CallMoves DEF TypeInv
<1>3. FieldsInv'
  BY <1>1, <1>2 DEF OwnInv, FieldsInv, Owned
<1>4. LocalsInv'
  <2> SUFFICES ASSUME NEW u \in Threads, Alone(u)'
               PROVE  /\ MineInv(u)'
                      /\ "pw" \in Behind(u)' /\ "free" \notin Behind(u)' =>
                           ReadInv(u)'
                      /\ "free" \in Behind(u)' /\ "fill" \notin Behind(u)' =>
                           AllEmpty'
    BY DEF LocalsInv
  <2>1. CASE u = t
    <3>1. MineInv(t)'
      BY <1>1, <1>2, EmptyOwned DEF MineInv, For, Owned
    <3> QED BY <1>2, <2>1, <3>1
  <2>2. CASE u # t
    <3>1. Alone(u)
      BY <1>2, <2>2 DEF Alone
    <3> QED
      BY <1>1, <1>2, <2>2, <3>1
         DEF OwnInv, LocalsInv, MineInv, For, ReadInv, AllEmpty, Owned
  <2> QED BY <2>1, <2>2
<1> QED BY <1>3, <1>4 DEF OwnInv

LEMMA OwnLoadStep ==
  ASSUME TypeInv, SerialInv, RecordInv, OwnInv, NEW t \in Threads, Load(t)
  PROVE  OwnInv'
<1>1. /\ fn[t] # "none" /\ Moves(t) /\ InOrder(fn[t], Here(t), Behind(t))
      /\ UNCHANGED <<fields, live, allocator, pw, memory, mine>>
  BY StepMoves, AtStage
     DEF TypeInv, Load, Check, Lock, Recheck, Open, SetRecord, Close, Unlock,
         OpenFailed, LoadStep, heapVars, localVars
<1>2. Here(t) \in {"load", "unload"}
  BY DEF TypeInv, HandleInv, LockInv, InLoad, PlaceOK, Here, Load, Check,
         Lock, Recheck, Open, SetRecord, Close, Unlock, OpenFailed, At
<1>3. fn[t] = "endpwent" => fn'[t] = "endpwent"
  <2>1. CASE Advance(t)
    BY <1>1, <1>2, <2>1, AdvanceMoves DEF TypeInv
  <2>2. CASE OpenFailed(t)
    BY <1>1, <2>2 DEF OpenFailed, TypeInv, PlaceOK, InOrder
  <2>3. CASE fn' = fn
    BY <2>3
  <2> QED
    BY <2>1, <2>2, <2>3
       DEF Load, Check, Lock, Recheck, Open, SetRecord, Close, Unlock, To,
           Stay
<1>4. CASE SetRecord(t)
  <2>1. current_passwd = NULL /\ \A u \in Threads : fn[u] # "endpwent"
    <3>1. Here(t) = "load" /\ place[t] = "record"
      BY <1>4 DEF SetRecord, TypeInv, PlaceOK
    <3> QED
      BY <1>1, <3>1, EndAlone DEF InOrder, RecordInv, KnownInv
  <2>2. AllEmpty
    BY <2>1, PasswdAssumption DEF OwnInv, FieldsInv, AllEmpty
  <2>3. fn' = fn /\ \A u \in Threads : Behind(u)' = Behind(u)
    BY <1>4 DEF SetRecord, To, Behind
  <2>4. FieldsInv'
    BY <1>1, <2>2, EmptyOwned DEF AllEmpty, FieldsInv, Owned
  <2>5. LocalsInv'
    BY <1>1, <2>3
       DEF OwnInv, LocalsInv, MineInv, For, ReadInv, AllEmpty, Owned, Alone
  <2> QED BY <2>4, <2>5 DEF OwnInv
<1>5. CASE ~SetRecord(t)
  <2>1. current_passwd' = current_passwd
    BY <1>5 DEF Load, Check, Lock, Recheck, Open, Close, Unlock, OpenFailed
  <2> QED BY <1>1, <1>2, <1>3, <2>1, HeapKept
<1> QED BY <1>4, <1>5

\* A thread at a stage only the functions that are not reentrant have is the
\* only one in a function.
LEMMA AtAlone ==
  ASSUME TypeInv, SerialInv, NEW t \in Threads, fn[t] # "none",
         Here(t) \notin {"lookup", "load", "convert", "symbol", "info",
                         "buffer"}
  PROVE  Alone(t) /\ \A u \in Threads : u # t => fn[u] = "none"
<1>1. InOrder(fn[t], Here(t), Behind(t))
  BY AtStage DEF TypeInv
<1> QED BY <1>1 DEF InOrder, SerialInv, Alone

\* The two halves of the invariant after a step of the only thread.
LEMMA AloneLocals ==
  ASSUME NEW t \in Threads, \A u \in Threads : u # t => fn'[u] = "none",
         fn'[t] # "none" =>
           /\ MineInv(t)'
           /\ "pw" \in Behind(t)' /\ "free" \notin Behind(t)' => ReadInv(t)'
           /\ "free" \in Behind(t)' /\ "fill" \notin Behind(t)' => AllEmpty'
  PROVE  LocalsInv'
BY DEF LocalsInv, Alone

LEMMA EmptyFields ==
  ASSUME AllEmpty' PROVE FieldsInv'
BY EmptyOwned DEF AllEmpty, FieldsInv, Owned

LEMMA OwnReadStep ==
  ASSUME TypeInv, SerialInv, OwnInv, NEW t \in Threads, ReadRecord(t)
  PROVE  OwnInv'
<1>1. /\ fn[t] # "none" /\ Here(t) = "pw" /\ Advance(t)
      /\ InOrder(fn[t], Here(t), Behind(t))
  BY AtStage DEF ReadRecord, At, Here, TypeInv
<1>2. /\ fn' = fn /\ Behind(t)' = Behind(t) \cup {"pw"}
      /\ Alone(t) /\ \A u \in Threads : u # t => fn[u] = "none"
  BY <1>1, AdvanceMoves, AtAlone DEF TypeInv
<1>3. /\ UNCHANGED <<current_passwd, fields, live, allocator, mine>>
      /\ pw'[t] = current_passwd
      /\ memory'[t] = IF current_passwd = NULL THEN Empty
                      ELSE fields[current_passwd]
  BY DEF ReadRecord, TypeInv, DataOK, entryVars, heapVars
<1>4. \A r \in Records : fields[r] # Empty => r = current_passwd
  BY <1>1, <1>2 DEF OwnInv, FieldsInv, InOrder
<1>5. FieldsInv'
  BY <1>3, <1>4 DEF OwnInv, FieldsInv, Owned
<1>6. MineInv(t)'
  BY <1>1, <1>2, <1>3 DEF OwnInv, LocalsInv, MineInv, For, Owned
<1>7. ReadInv(t)'
  BY <1>3, <1>4 DEF ReadInv
<1>8. "free" \notin Behind(t)'
  BY <1>1, <1>2 DEF InOrder
<1>9. LocalsInv'
  BY <1>2, <1>6, <1>7, <1>8, AloneLocals
<1> QED BY <1>5, <1>9 DEF OwnInv

LEMMA OwnClearStep ==
  ASSUME TypeInv, SerialInv, OwnInv, NEW t \in Threads, ClearRecord(t)
  PROVE  OwnInv'
<1>1. /\ fn[t] # "none" /\ Here(t) = "clear" /\ Advance(t)
      /\ InOrder(fn[t], Here(t), Behind(t))
  BY AtStage DEF ClearRecord, At, Here, TypeInv
<1>2. /\ fn' = fn /\ Behind(t)' = Behind(t) \cup {"clear"}
      /\ Alone(t) /\ \A u \in Threads : u # t => fn[u] = "none"
  BY <1>1, AdvanceMoves, AtAlone DEF TypeInv
<1>3. UNCHANGED <<fields, live, allocator, pw, memory, mine>>
  BY DEF ClearRecord, heapVars, localVars
<1>4. fn[t] = "endpwent" /\ "pw" \in Behind(t) /\ "free" \notin Behind(t)
  BY <1>1 DEF InOrder
<1>5. MineInv(t) /\ ReadInv(t)
  BY <1>2, <1>4 DEF OwnInv, LocalsInv
<1>6. FieldsInv'
  BY <1>2, <1>3, <1>4, <1>5 DEF OwnInv, FieldsInv, Owned, ReadInv
<1>7. MineInv(t)' /\ ReadInv(t)'
  BY <1>2, <1>3, <1>5 DEF MineInv, For, ReadInv, Owned
<1>8. LocalsInv'
  BY <1>2, <1>4, <1>7, AloneLocals
<1> QED BY <1>6, <1>8 DEF OwnInv

\* The strings that are freed are those of the record, which gives them up.
LEMMA FreesRecord ==
  ASSUME TypeInv, SerialInv, OwnInv, NEW t \in Threads, FreeFields(t)
  PROVE  /\ BlocksOf(memory[t]) \subseteq live
         /\ \A r \in Records :
              BlocksOf(fields[r]) \subseteq BlocksOf(memory[t])
         /\ fault' = fault /\ AllEmpty' /\ OwnInv'
<1>1. /\ fn[t] # "none" /\ Here(t) = "free"
      /\ InOrder(fn[t], Here(t), Behind(t))
  BY AtStage DEF FreeFields, At, Here, TypeInv
<1>2. Alone(t) /\ \A u \in Threads : u # t => fn[u] = "none"
  BY <1>1, AtAlone
<1>3. MineInv(t) /\ ReadInv(t) /\ mine[t] = Empty
  BY <1>1, <1>2 DEF OwnInv, LocalsInv, InOrder, MineInv
<1>4. BlocksOf(memory[t]) \subseteq live
  <2>1. pw[t] \in Records \cup {NULL}
    BY DEF TypeInv, DataOK
  <2>2. \A r \in Records : BlocksOf(fields[r]) \subseteq live
    BY DEF OwnInv, FieldsInv, Owned
  <2> QED BY <1>3, <2>1, <2>2, EmptyOwned DEF ReadInv
<1>5. \A r \in Records : BlocksOf(fields[r]) \subseteq BlocksOf(memory[t])
  BY <1>3, EmptyOwned, PasswdAssumption DEF ReadInv
<1>6. Advance(t) /\ fault' = fault
  BY <1>4 DEF FreeFields
<1>7. fn' = fn /\ Behind(t)' = Behind(t) \cup {"free"}
  BY <1>1, <1>6, AdvanceMoves DEF TypeInv
<1>8. AllEmpty'
  BY <1>3, PasswdAssumption
     DEF FreeFields, AllEmpty, ReadInv, TypeInv, DataOK
<1>9. MineInv(t)'
  <2>1. UNCHANGED <<mine, allocator>>
    BY DEF FreeFields
  <2> QED
    BY <1>1, <1>3, <1>7, <2>1, EmptyOwned DEF MineInv, For, Owned
<1>10. LocalsInv'
  BY <1>2, <1>7, <1>8, <1>9, AloneLocals
<1> QED
  BY <1>4, <1>5, <1>6, <1>8, <1>10, EmptyFields DEF OwnInv

LEMMA OwnNameStep ==
  ASSUME TypeInv, SerialInv, OwnInv, NEW t \in Threads, Name(t)
  PROVE  OwnInv'
<1>1. /\ fn[t] # "none" /\ Here(t) = "name" /\ Moves(t)
      /\ InOrder(fn[t], Here(t), Behind(t))
      /\ fn[t] \in AllFunctions
  BY AtStage, StepMoves DEF Name, At, Here, TypeInv, Entry
<1>2. Alone(t) /\ \A u \in Threads : u # t => fn[u] = "none"
  BY <1>1, AtAlone
<1>3. /\ UNCHANGED <<current_passwd, fields, pw, memory>>
      /\ mine \in [Threads -> Strings] /\ live \in SUBSET Blocks
      /\ allocator \in [Blocks -> Allocators]
  BY DEF Name, entryVars, TypeInv, DataOK
<1>4. MineInv(t) /\ mine[t] = Empty /\ fn[t] # "endpwent"
  BY <1>1, <1>2 DEF OwnInv, LocalsInv, InOrder, MineInv
<1>5. ASSUME live \subseteq live', MineInv(t)', Advance(t)
      PROVE  OwnInv'
  <2>1. fn' = fn /\ Behind(t)' = Behind(t) \cup {"name"}
    BY <1>1, <1>5, AdvanceMoves DEF TypeInv
  <2>2. FieldsInv'
    BY <1>2, <1>3, <1>4, <1>5, <2>1 DEF OwnInv, FieldsInv, Owned
  <2>3. LocalsInv'
    BY <1>2, <1>3, <1>5, <2>1, AloneLocals
       DEF OwnInv, LocalsInv, ReadInv, AllEmpty
  <2> QED BY <2>2, <2>3 DEF OwnInv
<1>6. CASE UNCHANGED <<mine, live, allocator>>
  <2>1. CASE Advance(t)
    <3>1. fn' = fn /\ Behind(t)' = Behind(t) \cup {"name"}
      BY <1>1, <2>1, AdvanceMoves DEF TypeInv
    <3>2. MineInv(t)'
      BY <1>1, <1>4, <1>6, <3>1 DEF MineInv, For, Owned
    <3> QED BY <1>5, <1>6, <2>1, <3>2
  <2>2. CASE Return(t)
    <3>1. fn'[t] = "none" /\ \A u \in Threads : u # t => fn'[u] = "none"
      BY <1>1, <1>2, <2>2 DEF Moves, Return, TypeInv, HandleInv, HandleTypeOK
    <3>2. FieldsInv'
      BY <1>2, <1>3, <1>4, <1>6, <3>1 DEF OwnInv, FieldsInv, Owned
    <3> QED BY <3>1, <3>2, AloneLocals DEF OwnInv
  <2> QED
    BY <2>1, <2>2, <1>1, <1>4, <1>6, <1>5, EmptyOwned
       DEF Name
<1>7. ASSUME NEW b \in Fresh, mine' = [mine EXCEPT ![t].pw_name = b],
             live' = live \cup {b},
             allocator' = [allocator EXCEPT ![b] = For(t, "pw_name")],
             Advance(t)
      PROVE  OwnInv'
  <2>1. /\ mine'[t] = [Empty EXCEPT !.pw_name = b]
        /\ live' = live \cup {b} /\ allocator'[b] = For(t, "pw_name")
        /\ b # NULL
    BY <1>3, <1>4, <1>7, PasswdAssumption DEF Fresh
  <2>2. /\ mine'[t].pw_name = b
        /\ mine'[t].pw_dir = NULL /\ mine'[t].pw_shell = NULL
        /\ BlocksOf(mine'[t]) = {b}
    BY <2>1 DEF Empty, Fields, BlocksOf
  <2>3. fn' = fn /\ Behind(t)' = Behind(t) \cup {"name"}
    BY <1>1, <1>7, AdvanceMoves DEF TypeInv
  <2>4. Owned(mine[t])'
    BY <2>1, <2>2 DEF Owned, Fields
  <2>5. MineInv(t)'
    <3>1. \A f \in Fields :
            mine'[t][f] # NULL => allocator'[mine'[t][f]] = For(t, f)'
      BY <2>1, <2>2, <2>3 DEF Fields, For
    <3> QED BY <1>1, <2>1, <2>2, <2>3, <2>4, <3>1 DEF MineInv, InOrder
  <2> QED BY <1>5, <1>7, <2>1, <2>5
<1> QED BY <1>6, <1>7 DEF Name

LEMMA OwnStringsStep ==
  ASSUME TypeInv, SerialInv, OwnInv, NEW t \in Threads, MakeStrings(t)
  PROVE  OwnInv'
<1>1. /\ fn[t] # "none" /\ Here(t) = "strings"
      /\ InOrder(fn[t], Here(t), Behind(t))
      /\ fn[t] \in AllFunctions
  BY AtStage DEF MakeStrings, At, Here, TypeInv
<1>2. Alone(t) /\ \A u \in Threads : u # t => fn[u] = "none"
  BY <1>1, AtAlone
<1>3. /\ UNCHANGED <<current_passwd, fields, pw, memory>>
      /\ mine \in [Threads -> Strings] /\ live \in SUBSET Blocks
      /\ allocator \in [Blocks -> Allocators]
  BY DEF MakeStrings, StringsStep, entryVars, TypeInv, DataOK
<1>4. MineInv(t) /\ AllEmpty
  BY <1>1, <1>2 DEF OwnInv, LocalsInv, InOrder
<1>5. AllEmpty' /\ FieldsInv'
  BY <1>3, <1>4, EmptyFields DEF AllEmpty
<1>6. CASE Return(t)
  <2>1. \A u \in Threads : fn'[u] = "none"
    BY <1>2, <1>6 DEF Return, TypeInv, HandleInv, HandleTypeOK
  <2> QED BY <1>5, <2>1 DEF OwnInv, LocalsInv, Alone
<1>7. ASSUME NEW b \in Fresh, NEW c \in Fresh, b # c,
             mine' = [mine EXCEPT ![t].pw_dir = b, ![t].pw_shell = c],
             live' = live \cup {b, c},
             allocator' = [allocator EXCEPT ![b] = For(t, "pw_dir"),
                                            ![c] = For(t, "pw_shell")],
             Advance(t)
      PROVE  OwnInv'
  <2>1. fn' = fn /\ Behind(t)' = Behind(t) \cup {"strings"}
    BY <1>1, <1>7, AdvanceMoves DEF TypeInv
  <2>2. /\ live' = live \cup {b, c}
        /\ allocator'[b] = For(t, "pw_dir") /\ allocator'[c] = For(t, "pw_shell")
        /\ \A x \in live : allocator'[x] = allocator[x]
        /\ b \notin live /\ c \notin live
    BY <1>3, <1>7 DEF Fresh
  <2>3. /\ mine'[t].pw_dir = b /\ mine'[t].pw_shell = c
        /\ mine'[t].pw_name = mine[t].pw_name
    BY <1>3, <1>7 DEF Strings, Fields
  <2>4. /\ BlocksOf(mine'[t]) \subseteq {b, c} \cup BlocksOf(mine[t])
        /\ mine[t].pw_name # NULL => mine[t].pw_name \in BlocksOf(mine[t])
    BY <2>3 DEF BlocksOf, Fields
  <2>5. Owned(mine[t])'
    <3>1. BlocksOf(mine'[t]) \subseteq live'
      BY <1>4, <2>2, <2>4 DEF MineInv, Owned
    <3>2. mine[t].pw_name # NULL => mine[t].pw_name \in live
      BY <1>4, <2>4 DEF MineInv, Owned
    <3>3. b # c /\ mine'[t].pw_name \notin {b, c} \ {NULL}
      BY <1>7, <2>2, <2>3, <3>2
    <3>4. \A f, g \in Fields :
            mine'[t][f] = mine'[t][g] /\ f # g => mine'[t][f] = NULL
      BY <2>3, <3>3 DEF Fields
    <3> QED BY <3>1, <3>4 DEF Owned
  <2>6. MineInv(t)'
    <3>1. mine[t].pw_name # NULL =>
            /\ mine[t].pw_name \in live
            /\ allocator[mine[t].pw_name] = For(t, "pw_name")
      BY <1>4, <2>4 DEF MineInv, For, Owned, Fields
    <3>2. \A f \in Fields :
            mine'[t][f] # NULL => allocator'[mine'[t][f]] = For(t, f)'
      BY <2>1, <2>2, <2>3, <3>1 DEF Fields, For
    <3>3. "name" \in Behind(t) /\ "fill" \notin Behind(t)
      BY <1>1 DEF InOrder
    <3> QED BY <2>1, <2>5, <3>2, <3>3 DEF MineInv
  <2>7. LocalsInv'
    <3>1. "free" \in Behind(t)'
      BY <1>1, <2>1 DEF InOrder
    <3> QED BY <1>2, <1>5, <2>1, <2>6, <3>1, AloneLocals
  <2> QED BY <1>5, <2>7 DEF OwnInv
<1> QED
  BY <1>6, <1>7 DEF MakeStrings, StringsMade, OutOfMemory, ShellLost

\* The record is there: the handle is set since the thread loaded it.
LEMMA RecordThere ==
  ASSUME TypeInv, SerialInv, RecordInv, NEW t \in Threads, fn[t] # "none",
         Here(t) = "fill", place[t] = "check"
  PROVE  current_passwd \in Records
<1>1. "load" \in Behind(t)
  BY AtStage DEF TypeInv, InOrder
<1>2. netapi32_handle # NULL
  BY <1>1 DEF RecordInv, KnownInv
<1>3. \A u \in Threads : place[u] # "record"
  BY AtAlone DEF TypeInv, HandleInv, LockInv, InLoad
<1> QED BY <1>2, <1>3 DEF RecordInv, PairInv, TypeInv, DataOK

LEMMA FillsRecord ==
  ASSUME TypeInv, SerialInv, RecordInv, OwnInv, NEW t \in Threads, Fill(t)
  PROVE  fault' = fault /\ OwnInv'
         /\ fields'[current_passwd] = mine[t] /\ current_passwd \in Records
<1>1. /\ fn[t] # "none" /\ Here(t) = "fill" /\ Entry(t) /\ Moves(t)
      /\ InOrder(fn[t], Here(t), Behind(t)) /\ place[t] = "check"
  BY AtStage, StepMoves, EntryElsewhere
     DEF Fill, At, Here, TypeInv, Entry, Elsewhere
<1>2. Alone(t) /\ \A u \in Threads : u # t => fn[u] = "none"
  BY <1>1, AtAlone
<1>3. current_passwd \in Records /\ current_passwd # NULL
  BY <1>1, RecordThere, PasswdAssumption
<1>4. /\ UNCHANGED <<current_passwd, live, allocator, fault, pw, memory>>
      /\ fields' = [fields EXCEPT ![current_passwd] = mine[t]]
      /\ mine' = [mine EXCEPT ![t] = Empty] /\ Advance(t)
  BY <1>3 DEF Fill, entryVars
<1>5. MineInv(t) /\ AllEmpty
  BY <1>1, <1>2 DEF OwnInv, LocalsInv, InOrder
<1>6. /\ fields'[current_passwd] = mine[t] /\ mine'[t] = Empty
      /\ \A r \in Records : r # current_passwd => fields'[r] = Empty
  BY <1>3, <1>4, <1>5 DEF AllEmpty, TypeInv, DataOK
<1>7. FieldsInv'
  <2>1. \A strings : Owned(strings) => Owned(strings)'
    BY <1>4 DEF Owned
  <2> QED
    BY <1>4, <1>5, <1>6, <2>1, EmptyOwned DEF FieldsInv, MineInv
<1>8. LocalsInv'
  <2>1. fn'[t] # "none" => fn'[t] = fn[t] /\ Behind(t)' = Behind(t) \cup {"fill"}
    BY <1>1, <1>4, AdvanceMoves DEF TypeInv
  <2>2. MineInv(t)' \/ fn'[t] = "none"
    BY <1>1, <1>6, <2>1, EmptyOwned DEF MineInv, For, Owned
  <2>3. \A u \in Threads : u # t => fn'[u] = "none"
    BY <1>1, <1>2 DEF Moves
  <2> QED BY <1>1, <2>1, <2>2, <2>3, AloneLocals DEF InOrder
<1> QED BY <1>3, <1>4, <1>6, <1>7, <1>8 DEF OwnInv

\* The other steps of a function leave the strings alone.
LEMMA OwnOtherStep ==
  ASSUME TypeInv, OwnInv, NEW t \in Threads,
         \/ Reset(t) \/ CheckIndex(t) \/ Count(t) \/ Lookup(t) \/ Convert(t)
         \/ Symbol(t) \/ Info(t) \/ Buffer(t)
  PROVE  OwnInv'
<1>1. /\ fn[t] # "none" /\ Moves(t) /\ InOrder(fn[t], Here(t), Behind(t))
  BY AtStage, StepMoves DEF TypeInv, Entry
<1>2. /\ UNCHANGED <<current_passwd, fields, live, allocator, pw, memory,
                     mine>>
      /\ Here(t) \in {"reset", "index", "count", "lookup", "convert",
                      "symbol", "info", "buffer"}
  BY DEF Reset, CheckIndex, Count, Lookup, Convert, Symbol, Info, Buffer,
         entryVars, heapVars, localVars, At, Here
<1>3. fn[t] = "endpwent" => AllEmpty
  <2> SUFFICES ASSUME fn[t] = "endpwent" PROVE AllEmpty
    OBVIOUS
  <2>1. Here(t) = "reset"
    BY <1>1, <1>2 DEF InOrder
  <2>2. "free" \in Behind(t) /\ "fill" \notin Behind(t) /\ Alone(t)
    BY <1>1, <2>1 DEF InOrder, Alone, Reentrant
  <2> QED BY <2>2 DEF OwnInv, LocalsInv
<1> QED BY <1>1, <1>2, <1>3, HeapKept

OwnershipInv == TypeInv /\ SerialInv /\ RecordInv /\ OwnInv

LEMMA OwnStep ==
  ASSUME OwnershipInv, [Next]_vars
  PROVE  OwnInv'
<1> USE DEF OwnershipInv
<1>1. CASE UNCHANGED <<current_passwd, heapVars, localVars, fn, stage>>
  BY <1>1 DEF OwnInv, FieldsInv, LocalsInv, Owned, MineInv, For, ReadInv,
              AllEmpty, Behind, Alone, heapVars, localVars
<1>2. ASSUME NEW t \in Threads, Entry(t)
      PROVE  OwnInv'
  BY <1>2, OwnReadStep, OwnClearStep, FreesRecord, OwnNameStep,
     OwnStringsStep, FillsRecord, OwnOtherStep DEF Entry
<1> QED
  BY <1>1, <1>2, ThreadSteps, OwnCallStep, OwnLoadStep DEF vars, entryVars

LEMMA TypeInit == Init => TypeInv
<1> SUFFICES ASSUME Init PROVE TypeInv
  OBVIOUS
<1>1. StageOK /\ PlaceOK
  BY DEF Init, StageOK, PlaceOK
<1>2. Empty \in Strings
  BY DEF Empty, Strings
<1>3. DataOK
  <2>1. calls \in [Threads -> 0..MaxCalls]
    <3>1. 0 \in 0..MaxCalls
      BY PasswdAssumption
    <3> QED BY <3>1 DEF Init
  <2>2. NoAllocator \in Allocators
    BY DEF Allocators
  <2> QED BY <1>2, <2>1, <2>2 DEF Init, DataOK
<1> QED BY <1>1, <1>3, HandleInit DEF TypeInv

LEMMA TypeStep ==
  ASSUME InitLockFirst, TypeInv, [Next]_vars
  PROVE  TypeInv'
BY InitLockFirst, HandleStep, StageStep, PlaceStep, DataStep DEF TypeInv

LEMMA OwnershipInvariant ==
  ASSUME InitLockFirst, Serialized
  PROVE  Spec => []OwnershipInv
<1>1. Init => OwnershipInv
  <2> SUFFICES ASSUME Init PROVE OwnershipInv
    OBVIOUS
  <2>1. \A t \in Threads : fn[t] = "none" /\ place[t] = "check"
    BY DEF Init
  <2>2. SerialInv
    BY <2>1 DEF SerialInv
  <2>3. RecordInv
    BY <2>1 DEF Init, RecordInv, PairInv, KnownInv
  <2>4. OwnInv
    BY <2>1, EmptyOwned DEF Init, OwnInv, FieldsInv, LocalsInv, Alone
  <2> QED BY <2>2, <2>3, <2>4, TypeInit DEF OwnershipInv
<1>2. OwnershipInv /\ [Next]_vars => OwnershipInv'
  BY InitLockFirst, Serialized, TypeStep, SerialStep, RecordStep, OwnStep
     DEF OwnershipInv
<1> QED BY <1>1, <1>2, PTL DEF Spec

-----------------------------------------------------------------------------

\* In a program that calls init_lock first every variable keeps its type, and
\* every thread in a function is at a stage of its route.
THEOREM PasswdTypeCorrect ==
  ASSUME InitLockFirst
  PROVE  Spec => []TypeOK
<1>1. TypeInv => TypeOK
  <2> SUFFICES ASSUME TypeInv PROVE TypeOK
    OBVIOUS
  <2>1. loads \in Nat
    BY DEF TypeInv, HandleInv, LoadInv, Balanced, Withdrawn
  <2>2. place \in [Threads -> {"check", "lock", "open", "record", "fail",
                               "close", "unlock"}]
    BY DEF TypeInv, HandleInv, HandleTypeOK, Held
  <2> QED
    BY <2>1, <2>2
       DEF TypeInv, TypeOK, HandleInv, HandleTypeOK, StageOK, DataOK
<1>2. TypeInv /\ [Next]_vars => TypeInv'
  BY InitLockFirst, TypeStep
<1> QED BY <1>1, <1>2, TypeInit, PTL DEF Spec

\* Between calls of the functions that are not reentrant only the current
\* record has strings, each a block of its own that is allocated, for any
\* number of threads and blocks and any order of the calls, in a program that
\* calls init_lock first and serializes those functions.
THEOREM RecordOwns ==
  ASSUME InitLockFirst, Serialized
  PROVE  Spec => []RecordOwnsStrings
<1>1. OwnershipInv => RecordOwnsStrings
  <2> SUFFICES ASSUME OwnershipInv, Quiet PROVE RecordOwnsStrings
    BY DEF RecordOwnsStrings
  <2>1. \A t \in Threads : fn[t] # "endpwent"
    BY DEF Quiet, Reentrant
  <2> QED
    BY <2>1
       DEF OwnershipInv, OwnInv, FieldsInv, Owned, RecordOwnsStrings
<1> QED BY <1>1, OwnershipInvariant, InitLockFirst, Serialized, PTL

\* In such a program a set handle always has its record, once every thread is
\* back: endpwent withdraws both, and whoever loads the library again sets the
\* record before it returns.
THEOREM HandleHasRecord ==
  ASSUME InitLockFirst, Serialized
  PROVE  Spec => []HandleMeansRecord
<1>1. OwnershipInv => HandleMeansRecord
  BY DEF OwnershipInv, RecordInv, PairInv, TypeInv, HandleInv, LockInv, InLoad,
         HandleMeansRecord
<1> QED BY <1>1, OwnershipInvariant, InitLockFirst, Serialized, PTL

-----------------------------------------------------------------------------
(* What goes wrong, and what is lost.                                      *)

LEMMA LibraryThere ==
  ASSUME TypeInv, RecordInv, NEW t \in Threads, fn[t] # "none",
         Here(t) \in {"symbol", "info"}
  PROVE  netapi32_handle # NULL /\ loads # 0
<1>1. "load" \in Behind(t)
  BY AtStage DEF TypeInv, InOrder
<1>2. netapi32_handle # NULL
  BY <1>1 DEF RecordInv, KnownInv
<1> QED
  BY <1>2 DEF TypeInv, HandleInv, LoadInv, Balanced, Withdrawn

LEMMA FaultStep ==
  ASSUME OwnershipInv, NoFault, [Next]_vars
  PROVE  NoFault'
<1> USE DEF OwnershipInv, NoFault
<1>1. CASE UNCHANGED fault
  BY <1>1
<1>2. fault \in [Threads -> {"none", "no library", "no record",
                             "double free", "no name"}]
  BY DEF TypeInv, DataOK
<1>3. ASSUME NEW t \in Threads, Symbol(t) \/ Info(t)
      PROVE  NoFault'
  <2>1. fn[t] # "none" /\ Here(t) \in {"symbol", "info"}
    BY <1>3 DEF Symbol, Info, At, Here
  <2>2. fault' = fault \/ fault' = [fault EXCEPT ![t] = "no name"]
    BY <1>3, <2>1, LibraryThere DEF Symbol, Info, Fault
  <2> QED BY <1>2, <2>2
<1>4. ASSUME NEW t \in Threads, Load(t) \/ Entry(t), ~(Symbol(t) \/ Info(t))
      PROVE  fault' = fault
  BY <1>4, FreesRecord, FillsRecord
     DEF Load, LoadStep, Check, Lock, Recheck, Open, SetRecord, Close,
         Unlock, OpenFailed, Entry, ReadRecord, ClearRecord, Reset,
         CheckIndex, Count, Lookup, Convert, Name, MakeStrings,
         StringsStep, Buffer
<1>5. ASSUME NEW t \in Threads, NEW f \in AllFunctions, Call(t, f)
      PROVE  fault' = fault
  BY <1>5 DEF Call
<1> QED BY <1>1, <1>3, <1>4, <1>5, ThreadSteps DEF vars

\* However the functions follow one another in a program that calls init_lock
\* first and serializes those that are not reentrant, with any number of
\* reentrant ones beside each other: none uses netapi32 when it is not loaded,
\* writes through a current_passwd that is NULL, or frees a string twice.
THEOREM FaultFree ==
  ASSUME InitLockFirst, Serialized
  PROVE  Spec => []NoFault
<1>1. Init => NoFault
  BY DEF Init, NoFault
<1>2. OwnershipInv /\ NoFault /\ [Next]_vars => NoFault'
  BY FaultStep
<1> QED
  BY <1>1, <1>2, OwnershipInvariant, InitLockFirst, Serialized, PTL DEF Spec

\* A block is in a record, or one of the thread that is about to fill a
\* record, or it was given up where the functions are known to do that.
LostInv ==
  \A b \in live :
    \/ \E r \in Records : b \in BlocksOf(fields[r])
    \/ \E t \in Threads : Alone(t) /\ b \in BlocksOf(mine[t])
    \/ allocator[b] \in Lost

\* What a thread leaves behind when it returns before it has made its home_dir
\* and shell is the name of one of the two functions.
LEMMA GivenUp ==
  ASSUME OwnershipInv, NEW t \in Threads, Alone(t), Here(t) # "fill",
         \/ fn[t] # "getpwent" \/ "fill" \in Behind(t)
         \/ Here(t) \in {"load", "index", "name"},
         NEW b \in BlocksOf(mine[t])
  PROVE  allocator[b] \in Lost
<1>1. MineInv(t) /\ mine[t] # Empty
  BY EmptyOwned DEF OwnershipInv, OwnInv, LocalsInv
<1>2. "name" \in Behind(t) /\ "fill" \notin Behind(t)
  BY <1>1 DEF MineInv
<1>3. fn[t] # "none" /\ InOrder(fn[t], Here(t), Behind(t))
      /\ fn[t] \in AllFunctions
  BY AtStage DEF OwnershipInv, TypeInv, Alone
<1>4. fn[t] \notin {"getpwent", "setpwent", "endpwent"}
  BY <1>2, <1>3 DEF InOrder
<1>5. AllFunctions = {"getpwent", "setpwent", "endpwent", "getpwnam",
                      "getpwuid", "getpwnam_r", "getpwuid_r"}
  BY DEF AllFunctions, Route
<1>6. "strings" \notin Behind(t)
  BY <1>2, <1>3 DEF InOrder
<1>7. b = mine[t].pw_name /\ b # NULL
  BY <1>1, <1>6 DEF MineInv, For, BlocksOf, Fields
<1>8. allocator[b] = <<fn[t], "pw_name">>
  BY <1>1, <1>7 DEF MineInv, For, Fields
<1> QED BY <1>3, <1>4, <1>5, <1>8 DEF Lost, Alone, Reentrant

\* A step that leaves the strings alone and may end the function.
LEMMA LostKept ==
  ASSUME OwnershipInv, LostInv, NEW t \in Threads, fn[t] # "none", Moves(t),
         UNCHANGED <<fields, live, allocator, mine>>, Here(t) # "fill",
         \/ fn'[t] = fn[t]
         \/ fn[t] # "getpwent" \/ "fill" \in Behind(t)
         \/ Here(t) \in {"load", "index", "name"}
  PROVE  LostInv'
<1> SUFFICES ASSUME NEW b \in live
             PROVE  \/ \E r \in Records : b \in BlocksOf(fields[r])'
                    \/ \E u \in Threads : (Alone(u) /\ b \in BlocksOf(mine[u]))'
                    \/ allocator'[b] \in Lost
  BY DEF LostInv
<1>1. CASE \E r \in Records : b \in BlocksOf(fields[r])
  BY <1>1
<1>2. CASE allocator[b] \in Lost
  BY <1>2
<1>3. ASSUME NEW u \in Threads, Alone(u), b \in BlocksOf(mine[u])
      PROVE  \/ \E x \in Threads : (Alone(x) /\ b \in BlocksOf(mine[x]))'
             \/ allocator'[b] \in Lost
  <2>1. CASE fn'[u] = fn[u]
    BY <1>3, <2>1 DEF Alone
  <2>2. CASE fn'[u] # fn[u]
    <3>1. u = t
      BY <2>2 DEF Moves
    <3> QED BY <1>3, <2>2, <3>1, GivenUp
  <2> QED BY <2>1, <2>2
<1> QED BY <1>1, <1>2, <1>3 DEF LostInv

LEMMA LostStep ==
  ASSUME OwnershipInv, LostInv, [Next]_vars
  PROVE  LostInv'
<1> USE DEF OwnershipInv
<1>1. CASE UNCHANGED <<heapVars, localVars, fn>>
  BY <1>1 DEF LostInv, Alone, heapVars, localVars
<1>2. ASSUME NEW t \in Threads, NEW f \in AllFunctions, Call(t, f)
      PROVE  LostInv'
  <2>1. /\ UNCHANGED <<fields, live, allocator>> /\ ~Alone(t)
        /\ \A u \in Threads : u # t => mine'[u] = mine[u] /\ fn'[u] = fn[u]
    BY <1>2 DEF Call, heapVars, Alone
  <2> QED BY <2>1 DEF LostInv, Alone
<1>3. ASSUME NEW t \in Threads, Load(t)
      PROVE  LostInv'
  <2>1. /\ fn[t] # "none" /\ Moves(t)
        /\ UNCHANGED <<fields, live, allocator, mine>>
    BY <1>3, StepMoves
       DEF TypeInv, Load, Check, Lock, Recheck, Open, SetRecord, Close,
           Unlock, OpenFailed, LoadStep, heapVars, localVars
  <2>2. Here(t) # "fill" /\ (Here(t) = "load" \/ fn[t] = "endpwent")
    <3>1. Here(t) \in {"load", "unload"}
      BY <1>3 DEF TypeInv, HandleInv, LockInv, InLoad, PlaceOK, Here, Load,
           Check, Lock, Recheck, Open, SetRecord, Close, Unlock, OpenFailed,
           At
    <3> QED BY <2>1, <3>1, AtStage DEF TypeInv, InOrder
  <2> QED BY <2>1, <2>2, LostKept
<1>4. ASSUME NEW t \in Threads, Entry(t)
      PROVE  LostInv'
  <2>1. /\ fn[t] # "none" /\ Moves(t) /\ InOrder(fn[t], Here(t), Behind(t))
    BY <1>4, StepMoves, AtStage DEF TypeInv
  <2>2. CASE \/ Reset(t) \/ CheckIndex(t) \/ Count(t) \/ Lookup(t)
             \/ Convert(t) \/ Buffer(t)
    <3>1. /\ UNCHANGED <<fields, live, allocator, mine>>
          /\ Here(t) \in {"reset", "index", "count", "lookup", "convert",
                          "buffer"}
      BY <2>2 DEF Reset, CheckIndex, Count, Lookup, Convert, Buffer, heapVars,
                  localVars, At, Here
    <3>2. Here(t) = "reset" => fn[t] # "getpwent"
      BY <2>1 DEF InOrder
    <3> QED BY <2>1, <3>1, <3>2, LostKept DEF InOrder, Reentrant
  <2>3. CASE Symbol(t) \/ Info(t)
    <3>1. /\ UNCHANGED <<fields, live, allocator, mine>>
          /\ Here(t) \in {"symbol", "info"}
      BY <2>3 DEF Symbol, Info, heapVars, localVars, At, Here
    <3>2. fn'[t] = fn[t] \/ fn[t] # "getpwent"
      <4>1. CASE Symbol(t)
        <5>1. stage[t] + 1 <= Len(Route[fn[t]])
              /\ stage[t] + 2 <= Len(Route[fn[t]])
          <6>1. Here(t) = "symbol"
            BY <4>1 DEF Symbol, At, Here
          <6> QED BY <2>1, <6>1, AtStage DEF TypeInv
        <5> QED BY <4>1, <5>1 DEF Symbol, Stay, Advance, Skip
      <4>2. CASE Info(t)
        BY <2>1, <3>1, <4>2, AdvanceMoves
           DEF Info, Stay, TypeInv, Reentrant
      <4> QED BY <2>3, <4>1, <4>2
    <3> QED BY <2>1, <3>1, <3>2, LostKept
  <2>4. CASE ReadRecord(t) \/ ClearRecord(t)
    <3>1. /\ UNCHANGED <<fields, live, allocator, mine>>
          /\ Here(t) \in {"pw", "clear"} /\ Advance(t)
      BY <2>4 DEF ReadRecord, ClearRecord, heapVars, localVars, At, Here
    <3>2. fn'[t] = fn[t]
      BY <2>1, <3>1, AdvanceMoves DEF TypeInv
    <3> QED BY <2>1, <3>1, <3>2, LostKept
  <2>5. CASE FreeFields(t)
    <3>1. /\ live' = live \ BlocksOf(memory[t])
          /\ UNCHANGED <<allocator, mine>>
      BY <2>5 DEF FreeFields
    <3>2. \A r \in Records : BlocksOf(fields[r]) \subseteq BlocksOf(memory[t])
      BY <2>5, FreesRecord
    <3>3. fn' = fn
      <4>1. Advance(t) /\ Here(t) = "free"
        BY <2>5, FreesRecord DEF FreeFields, At, Here
      <4> QED BY <2>1, <4>1, AdvanceMoves DEF TypeInv
    <3> QED BY <3>1, <3>2, <3>3 DEF LostInv, Alone
  <2>6. CASE Name(t)
    <3>1. Here(t) = "name" /\ fields' = fields
      BY <2>6 DEF Name, At, Here
    <3>2. Alone(t) /\ mine[t] = Empty
      BY <2>1, <3>1, AtAlone DEF OwnInv, LocalsInv, MineInv, InOrder
    <3>3. CASE UNCHANGED <<mine, live, allocator>>
      BY <2>1, <3>1, <3>3, LostKept
    <3>4. ASSUME NEW b \in Fresh, mine' = [mine EXCEPT ![t].pw_name = b],
                 live' = live \cup {b},
                 allocator' = [allocator EXCEPT ![b] = For(t, "pw_name")],
                 Advance(t)
          PROVE  LostInv'
      <4>1. fn' = fn
        BY <2>1, <3>1, <3>4, AdvanceMoves DEF TypeInv
      <4>2. /\ live' = live \cup {b}
            /\ \A x \in live : allocator'[x] = allocator[x]
            /\ \A u \in Threads : u # t => mine'[u] = mine[u]
            /\ mine'[t].pw_name = b /\ b # NULL
        BY <3>4, PasswdAssumption
           DEF TypeInv, DataOK, Fresh, Strings, Fields
      <4>3. b \in BlocksOf(mine'[t])
        BY <4>2 DEF BlocksOf, Fields
      <4>4. \A x : \A u \in Threads :
              x \in BlocksOf(mine[u]) => x \in BlocksOf(mine'[u])
        BY <3>2, <4>2, EmptyOwned
      <4> QED BY <3>1, <3>2, <4>1, <4>2, <4>3, <4>4 DEF LostInv, Alone
    <3> QED BY <2>6, <3>3, <3>4 DEF Name
  <2>7. CASE MakeStrings(t)
    <3>1. Here(t) = "strings" /\ fields' = fields
      BY <2>7 DEF MakeStrings, StringsStep, At, Here
    <3>2. /\ Alone(t) /\ MineInv(t)
          /\ mine[t].pw_dir = NULL /\ mine[t].pw_shell = NULL
      BY <2>1, <3>1, AtAlone DEF OwnInv, LocalsInv, MineInv, InOrder
    <3>3. CASE OutOfMemory(t)
      <4>1. \A u \in Threads : u # t => mine'[u] = mine[u] /\ fn'[u] = fn[u]
        BY <3>3 DEF OutOfMemory, Return
      <4> QED BY <3>1, <3>3, <4>1 DEF OutOfMemory, LostInv, Alone
    <3>5. CASE ShellLost(t)
      <4>1. \A u \in Threads : u # t => mine'[u] = mine[u] /\ fn'[u] = fn[u]
        BY <3>5 DEF ShellLost, Return
      <4>2. PICK c \in Fresh :
              /\ live' = (live \ BlocksOf(mine[t])) \cup {c}
              /\ allocator' = [allocator EXCEPT ![c] = <<"getpwuid", "pw_shell">>]
        BY <3>5 DEF ShellLost, For
      <4>3. /\ allocator'[c] \in Lost
            /\ \A x \in live : allocator'[x] = allocator[x]
        BY <4>2 DEF Lost, Fresh, TypeInv, DataOK
      <4> QED BY <3>1, <4>1, <4>2, <4>3 DEF LostInv, Alone
    <3>4. ASSUME NEW b \in Fresh, NEW c \in Fresh,
                 mine' = [mine EXCEPT ![t].pw_dir = b, ![t].pw_shell = c],
                 live' = live \cup {b, c},
                 allocator' = [allocator EXCEPT ![b] = For(t, "pw_dir"),
                                                ![c] = For(t, "pw_shell")],
                 Advance(t)
          PROVE  LostInv'
      <4>1. fn' = fn
        BY <2>1, <3>1, <3>4, AdvanceMoves DEF TypeInv
      <4>2. /\ live' = live \cup {b, c}
            /\ \A x \in live : allocator'[x] = allocator[x]
            /\ \A u \in Threads : u # t => mine'[u] = mine[u]
            /\ mine'[t].pw_dir = b /\ mine'[t].pw_shell = c
            /\ mine'[t].pw_name = mine[t].pw_name
            /\ b # NULL /\ c # NULL
        BY <3>4, PasswdAssumption
           DEF TypeInv, DataOK, Fresh, Strings, Fields
      <4>3. b \in BlocksOf(mine'[t]) /\ c \in BlocksOf(mine'[t])
        BY <4>2 DEF BlocksOf, Fields
      <4>4. \A x : \A u \in Threads :
              x \in BlocksOf(mine[u]) => x \in BlocksOf(mine'[u])
        BY <3>2, <4>2 DEF BlocksOf, Fields
      <4> QED BY <3>1, <3>2, <4>1, <4>2, <4>3, <4>4 DEF LostInv, Alone
    <3> QED BY <2>7, <3>3, <3>4, <3>5 DEF MakeStrings, StringsMade
  <2>8. CASE Fill(t)
    <3>1. /\ fields'[current_passwd] = mine[t] /\ current_passwd \in Records
          /\ current_passwd # NULL
      BY <2>8, FillsRecord, PasswdAssumption
    <3>2. /\ UNCHANGED <<live, allocator>>
          /\ \A u \in Threads : u # t => mine'[u] = mine[u] /\ fn'[u] = fn[u]
      BY <2>1, <2>8, <3>1 DEF Fill, Moves, TypeInv, DataOK
    <3>3. \A r \in Records : BlocksOf(fields[r]) = {}
      <4>1. Here(t) = "fill"
        BY <2>8 DEF Fill, At, Here
      <4>2. AllEmpty
        BY <2>1, <4>1, AtAlone DEF OwnInv, LocalsInv, InOrder
      <4> QED BY <4>2, EmptyOwned DEF AllEmpty
    <3> QED BY <3>1, <3>2, <3>3 DEF LostInv, Alone
  <2> QED
    BY <1>4, <2>2, <2>3, <2>4, <2>5, <2>6, <2>7, <2>8 DEF Entry
<1> QED BY <1>1, <1>2, <1>3, <1>4, ThreadSteps DEF vars

\* In such a program a string that nobody can free any more is a name that
\* getpwnam or getpwuid gave up, or a shell that getpwuid did; no home directory
\* is lost, and getpwent loses nothing.
THEOREM LossesAreKnown ==
  ASSUME InitLockFirst, Serialized
  PROVE  Spec => []OnlyTheseAreLost
<1>1. Init => LostInv
  BY DEF Init, LostInv
<1>2. OwnershipInv /\ LostInv /\ [Next]_vars => LostInv'
  BY LostStep
<1>3. LostInv => OnlyTheseAreLost
  BY DEF LostInv, OnlyTheseAreLost, Alone
<1> QED
  BY <1>1, <1>2, <1>3, OwnershipInvariant, InitLockFirst, Serialized, PTL
     DEF Spec
=============================================================================
