------------------------------- MODULE Passwd -------------------------------
(***************************************************************************)
(* The password database: getpwent, setpwent, endpwent, getpwnam, getpwuid  *)
(* and the reentrant getpwnam_r and getpwuid_r.  They share the handle of   *)
(* netapi32.dll, the pointer current_passwd to the record the last loader   *)
(* owns, and passwd_index; endpwent withdraws all three.  Only the handle   *)
(* and, when it is loaded, current_passwd are changed under the lock.       *)
(*                                                                         *)
(* A string is a block of the heap.  Of what the functions allocate, the    *)
(* model has the three strings that end up in a record.  The functions free  *)
(* and fill the three fields of a record one after the other; here each is  *)
(* one step.                                                               *)
(***************************************************************************)
EXTENDS GlobalLock, Sequences

CONSTANTS
  Blocks,      \* the blocks malloc can hand out
  NULL,        \* no block, no record, no handle
  Functions,   \* the functions the program calls
  Serialized,  \* whether the program calls the functions that are not
               \* reentrant only when no other thread is in one of these
  MaxCalls     \* bound: how many calls a thread makes

\* The stages of every function, in the order of its code.
Route ==
  [getpwent   |-> <<"pw", "free", "load", "index", "name", "symbol", "info",
                    "strings", "fill", "count">>,
   setpwent   |-> <<"load", "pw", "free", "reset">>,
   endpwent   |-> <<"unload", "pw", "clear", "free", "reset">>,
   getpwnam   |-> <<"lookup", "pw", "free", "name", "load", "convert",
                    "symbol", "info", "strings", "fill">>,
   getpwuid   |-> <<"lookup", "pw", "free", "name", "load", "symbol",
                    "info", "strings", "fill">>,
   getpwnam_r |-> <<"lookup", "load", "convert", "symbol", "info", "buffer">>,
   getpwuid_r |-> <<"lookup", "load", "symbol", "info", "buffer">>]

AllFunctions == DOMAIN Route
Reentrant    == {"getpwnam_r", "getpwuid_r"}

\* Every file but endpwent.c has a static record of its own.
Records == AllFunctions \ {"endpwent"}
Fields  == {"pw_name", "pw_dir", "pw_shell"}
Empty   == [f \in Fields |-> NULL]

ASSUME PasswdAssumption ==
  /\ NULL \notin Blocks /\ NULL \notin Records /\ NULL # "netapi32"
  /\ Functions \subseteq AllFunctions
  /\ Serialized \in BOOLEAN
  /\ MaxCalls \in Nat

VARIABLES
  netapi32_handle,  \* NULL or "netapi32"
  loads,            \* how often the library is loaded
  current_passwd,   \* NULL or a static record
  passwd_index,     \* how many entries getpwent has handed out
  fields,           \* the strings of every static record
  live,             \* the blocks that are allocated
  fn,               \* the function a thread is in, or "none"
  stage,            \* the index in its route
  place,            \* where it is in the stages "load" and "unload"
  pw,               \* pw, a local: the record it frees
  memory,           \* memory, a local: the strings it is about to free
  mine,             \* username_a, home_dir and shell, its locals
  fault,            \* how a thread failed, or "none"
  calls,            \* history: how many calls a thread has made
  allocator         \* history: who allocated a block last, for which field

loadVars   == <<netapi32_handle, loads>>
entryVars  == <<current_passwd, passwd_index>>
heapVars   == <<fields, live, allocator>>
localVars  == <<pw, memory, mine>>
vars == <<lockVars, loadVars, entryVars, heapVars, localVars, fn, stage, place,
          fault, calls>>

Strings == [Fields -> Blocks \cup {NULL}]

\* The function a thread is in, allocating a string for a field.
For(t, f) == <<fn[t], f>>
NoAllocator == <<"none", "none">>
Allocators == (AllFunctions \X Fields) \cup {NoAllocator}

TypeOK ==
  /\ LockTypeOK
  /\ netapi32_handle \in {NULL, "netapi32"} /\ loads \in Nat
  /\ current_passwd \in Records \cup {NULL} /\ passwd_index \in Nat
  /\ fields \in [Records -> Strings] /\ live \in SUBSET Blocks
  /\ fn \in [Threads -> AllFunctions \cup {"none"}]
  /\ stage \in [Threads -> Nat]
  /\ \A t \in Threads : fn[t] # "none" => stage[t] \in DOMAIN Route[fn[t]]
  /\ place \in [Threads -> {"check", "lock", "open", "record", "fail", "close",
                            "unlock"}]
  /\ pw \in [Threads -> Records \cup {NULL}]
  /\ memory \in [Threads -> Strings] /\ mine \in [Threads -> Strings]
  /\ fault \in [Threads -> {"none", "no library", "no record", "double free",
                            "no name"}]
  /\ calls \in [Threads -> 0..MaxCalls]
  /\ allocator \in [Blocks -> Allocators]

Init ==
  /\ LockInit
  /\ netapi32_handle = NULL /\ loads = 0
  /\ current_passwd = NULL /\ passwd_index = 0
  /\ fields = [r \in Records |-> Empty] /\ live = {}
  /\ fn = [t \in Threads |-> "none"]
  /\ stage = [t \in Threads |-> 1]
  /\ place = [t \in Threads |-> "check"]
  /\ pw = [t \in Threads |-> NULL]
  /\ memory = [t \in Threads |-> Empty]
  /\ mine = [t \in Threads |-> Empty]
  /\ fault = [t \in Threads |-> "none"]
  /\ calls = [t \in Threads |-> 0]
  /\ allocator = [b \in Blocks |-> NoAllocator]

-----------------------------------------------------------------------------
(* Going through a function.                                               *)

At(t, s) ==
  fn[t] # "none" /\ fault[t] = "none" /\ Route[fn[t]][stage[t]] = s

Return(t) ==
  /\ fn' = [fn EXCEPT ![t] = "none"]
  /\ stage' = [stage EXCEPT ![t] = 1]
  /\ place' = [place EXCEPT ![t] = "check"]

\* To the n-th stage from here, or out of the function.
Skip(t, n) ==
  IF stage[t] + n <= Len(Route[fn[t]])
  THEN /\ stage' = [stage EXCEPT ![t] = @ + n]
       /\ place' = [place EXCEPT ![t] = "check"]
       /\ UNCHANGED fn
  ELSE Return(t)

Advance(t) == Skip(t, 1)

Stay(t) == UNCHANGED <<fn, stage, place>>
To(t, p) == place' = [place EXCEPT ![t] = p] /\ UNCHANGED <<fn, stage>>

Fault(t, what) == fault' = [fault EXCEPT ![t] = what]

\* malloc: a block that is free.
Fresh == Blocks \ live

BlocksOf(strings) == {strings[f] : f \in Fields} \ {NULL}

Call(t, f) ==
  /\ main = "calls" /\ f \in Functions /\ fn[t] = "none" /\ fault[t] = "none"
  /\ calls[t] < MaxCalls
  /\ Serialized =>
       \A u \in Threads : {f, fn[u]} \subseteq Reentrant \/ fn[u] = "none"
  /\ calls' = [calls EXCEPT ![t] = @ + 1]
  /\ fn' = [fn EXCEPT ![t] = f]
  /\ mine' = [mine EXCEPT ![t] = Empty]
  /\ UNCHANGED <<lockVars, loadVars, entryVars, heapVars, pw, memory, stage,
                 place, fault>>

getpwent(t)   == Call(t, "getpwent")
setpwent(t)   == Call(t, "setpwent")
endpwent(t)   == Call(t, "endpwent")
getpwnam(t)   == Call(t, "getpwnam")
getpwuid(t)   == Call(t, "getpwuid")
getpwnam_r(t) == Call(t, "getpwnam_r")
getpwuid_r(t) == Call(t, "getpwuid_r")

-----------------------------------------------------------------------------
(* The stages "load" and "unload": the handle of netapi32.dll.              *)

LoadStep(t) ==
  UNCHANGED <<passwd_index, heapVars, localVars, fault, calls>>

\* if (!netapi32_handle), or for endpwent if (netapi32_handle), without the
\* lock
Check(t) ==
  /\ At(t, "load") \/ At(t, "unload")
  /\ place[t] = "check"
  /\ IF (netapi32_handle = NULL) = At(t, "load") THEN To(t, "lock")
                                                 ELSE Advance(t)
  /\ LoadStep(t) /\ UNCHANGED <<lockVars, loadVars, current_passwd>>

Lock(t) ==
  /\ place[t] = "lock" /\ lock(t)
  /\ LoadStep(t) /\ Stay(t) /\ UNCHANGED <<loadVars, current_passwd>>

\* Re-check after acquiring lock; endpwent withdraws the handle
Recheck(t) ==
  /\ place[t] = "lock" /\ at[t] = "in"
  /\ \/ /\ At(t, "load")
        /\ To(t, IF netapi32_handle = NULL THEN "open" ELSE "unlock")
        /\ UNCHANGED netapi32_handle
     \/ /\ At(t, "unload")
        /\ To(t, IF netapi32_handle = NULL THEN "unlock" ELSE "close")
        /\ netapi32_handle' = NULL
  /\ LoadStep(t) /\ UNCHANGED <<lockVars, loads, current_passwd>>

\* netapi32_handle = dlopen ("netapi32.dll")
Open(t) ==
  /\ place[t] = "open"
  /\ \/ /\ netapi32_handle' = "netapi32" /\ loads' = loads + 1
        /\ To(t, "record")
     \/ To(t, "fail") /\ UNCHANGED loadVars
  /\ LoadStep(t) /\ UNCHANGED <<lockVars, current_passwd>>

\* Mutant of SetRecord: the loader forgets current_passwd.
SetRecordMissing(t) ==
  /\ place[t] = "record"
  /\ To(t, "unlock")
  /\ LoadStep(t) /\ UNCHANGED <<lockVars, loadVars, current_passwd>>

\* current_passwd = &current_passwd, the static record of this function
SetRecord(t) ==
  /\ place[t] = "record"
  /\ current_passwd' = fn[t]
  /\ To(t, "unlock")
  /\ LoadStep(t) /\ UNCHANGED <<lockVars, loadVars>>

\* dlclose (netapi32_handle)
Close(t) ==
  /\ place[t] = "close"
  /\ loads' = loads - 1
  /\ To(t, "unlock")
  /\ LoadStep(t) /\ UNCHANGED <<lockVars, netapi32_handle, current_passwd>>

Unlock(t) ==
  /\ place[t] = "unlock" /\ unlock(t) /\ Advance(t)
  /\ LoadStep(t) /\ UNCHANGED <<loadVars, current_passwd>>

\* dlopen failed: unlock () and return
OpenFailed(t) ==
  /\ place[t] = "fail" /\ unlock(t) /\ Return(t)
  /\ LoadStep(t) /\ UNCHANGED <<loadVars, current_passwd>>

Load(t) ==
  \/ Check(t) \/ Lock(t) \/ Recheck(t) \/ Open(t) \/ SetRecord(t) \/ Close(t)
  \/ Unlock(t) \/ OpenFailed(t)

-----------------------------------------------------------------------------
(* The static record and the iteration.                                     *)

EntryStep(t) == UNCHANGED <<lockVars, loadVars, calls>>

\* pw = current_passwd, and its strings: memory = pw->...
ReadRecord(t) ==
  /\ At(t, "pw")
  /\ pw' = [pw EXCEPT ![t] = current_passwd]
  /\ memory' = [memory EXCEPT ![t] = IF current_passwd = NULL THEN Empty
                                     ELSE fields[current_passwd]]
  /\ Advance(t)
  /\ EntryStep(t) /\ UNCHANGED <<entryVars, heapVars, mine, fault>>

\* current_passwd = 0
ClearRecord(t) ==
  /\ At(t, "clear")
  /\ current_passwd' = NULL
  /\ Advance(t)
  /\ EntryStep(t) /\ UNCHANGED <<passwd_index, heapVars, localVars, fault>>

\* Mutant of FreeFields: the fields are not set to NULL.
FreeFieldsOnly(t) ==
  /\ At(t, "free")
  /\ live' = live \ BlocksOf(memory[t])
  /\ UNCHANGED <<fault, fields>> /\ Advance(t)
  /\ memory' = [memory EXCEPT ![t] = Empty]
  /\ pw' = [pw EXCEPT ![t] = NULL]
  /\ EntryStep(t) /\ UNCHANGED <<entryVars, allocator, mine>>

\* free_passwd_fields (pw), with the strings it found in the record; another
\* thread may have found the same ones
FreeFields(t) ==
  /\ At(t, "free")
  /\ fields' = IF pw[t] = NULL THEN fields ELSE [fields EXCEPT ![pw[t]] = Empty]
  /\ live' = live \ BlocksOf(memory[t])
  /\ IF BlocksOf(memory[t]) \subseteq live
     THEN UNCHANGED fault /\ Advance(t)
     ELSE Fault(t, "double free") /\ Stay(t)
  /\ memory' = [memory EXCEPT ![t] = Empty]
  /\ pw' = [pw EXCEPT ![t] = NULL]
  /\ EntryStep(t) /\ UNCHANGED <<entryVars, allocator, mine>>

\* passwd_index = 0
Reset(t) ==
  /\ At(t, "reset")
  /\ passwd_index' = 0
  /\ Advance(t)
  /\ EntryStep(t) /\ UNCHANGED <<current_passwd, heapVars, localVars, fault>>

\* if (passwd_index > 0) return NULL
CheckIndex(t) ==
  /\ At(t, "index")
  /\ IF passwd_index > 0 THEN Return(t) ELSE Advance(t)
  /\ EntryStep(t) /\ UNCHANGED <<entryVars, heapVars, localVars, fault>>

\* passwd_index++
Count(t) ==
  /\ At(t, "count")
  /\ passwd_index' = passwd_index + 1
  /\ Advance(t)
  /\ EntryStep(t) /\ UNCHANGED <<current_passwd, heapVars, localVars, fault>>

-----------------------------------------------------------------------------
(* The strings of an entry.                                                 *)

\* The name or uid is known, and for the reentrant functions the name fits
\* the caller's buffer: or return
Lookup(t) ==
  /\ At(t, "lookup")
  /\ Advance(t) \/ Return(t)
  /\ EntryStep(t) /\ UNCHANGED <<entryVars, heapVars, localVars, fault>>

\* MultiByteToWideChar or malloc fails: return, with username_a allocated
Convert(t) ==
  /\ At(t, "convert")
  /\ Advance(t) \/ Return(t)
  /\ EntryStep(t) /\ UNCHANGED <<entryVars, heapVars, localVars, fault>>

\* username_a, in getpwnam a copy of the name that may fail unnoticed
Name(t) ==
  /\ At(t, "name")
  /\ \/ /\ \E b \in Fresh :
             /\ mine' = [mine EXCEPT ![t].pw_name = b]
             /\ live' = live \cup {b}
             /\ allocator' = [allocator EXCEPT ![b] = For(t, "pw_name")]
        /\ Advance(t)
     \/ /\ IF fn[t] = "getpwnam" THEN Advance(t) ELSE Return(t)
        /\ UNCHANGED <<mine, live, allocator>>
  /\ EntryStep(t) /\ UNCHANGED <<entryVars, fields, pw, memory, fault>>

\* With HOME and SHELL set netapi32 is not needed; HOME is combined with the
\* name.  Without, dlsym reads the library the handle is for, and netapi32
\* may not export what is needed.
Symbol(t) ==
  /\ At(t, "symbol")
  /\ \/ IF fn[t] = "getpwnam" /\ mine[t].pw_name = NULL
        THEN Fault(t, "no name") /\ Stay(t)
        ELSE UNCHANGED fault /\ Skip(t, 2)
     \/ IF netapi32_handle = NULL \/ loads = 0
        THEN Fault(t, "no library") /\ Stay(t)
        ELSE UNCHANGED fault /\ (Advance(t) \/ Skip(t, 2))
  /\ EntryStep(t) /\ UNCHANGED <<entryVars, heapVars, localVars>>

\* NetUserGetInfo (NetApiBufferFree follows), in a library that must still be
\* loaded; it may not know the user, which ends a reentrant function
Info(t) ==
  /\ At(t, "info")
  /\ IF loads = 0
     THEN Fault(t, "no library") /\ Stay(t)
     ELSE /\ UNCHANGED fault
          /\ Advance(t) \/ (fn[t] \in Reentrant /\ Return(t))
  /\ EntryStep(t) /\ UNCHANGED <<entryVars, heapVars, localVars>>

\* home_dir and shell
StringsMade(t) ==
  /\ \E b, c \in Fresh :
       /\ b # c
       /\ mine' = [mine EXCEPT ![t].pw_dir = b, ![t].pw_shell = c]
       /\ live' = live \cup {b, c}
       /\ allocator' = [allocator EXCEPT ![b] = For(t, "pw_dir"),
                                         ![c] = For(t, "pw_shell")]
  /\ Advance(t)

\* ENOMEM for one of them: the other one, if there is one, and username_a are
\* freed
OutOfMemory(t) ==
  /\ live' = live \ BlocksOf(mine[t])
  /\ mine' = [mine EXCEPT ![t] = Empty]
  /\ Return(t) /\ UNCHANGED allocator

\* ENOMEM for home_dir in getpwuid, when shell is a copy of SHELL: username_a
\* is freed, and the copy is not
ShellLost(t) ==
  /\ fn[t] = "getpwuid"
  /\ \E c \in Fresh :
       /\ live' = (live \ BlocksOf(mine[t])) \cup {c}
       /\ allocator' = [allocator EXCEPT ![c] = For(t, "pw_shell")]
  /\ mine' = [mine EXCEPT ![t] = Empty]
  /\ Return(t)

StringsStep(t) ==
  EntryStep(t) /\ UNCHANGED <<entryVars, fields, pw, memory, fault>>

\* Mutant of MakeStrings: shell is lost in getpwent and getpwnam, too, when
\* there is no memory for home_dir.
MakeStringsLosesShell(t) ==
  /\ At(t, "strings")
  /\ \/ StringsMade(t)
     \/ /\ \E c \in Fresh :
             /\ live' = (live \ BlocksOf(mine[t])) \cup {c}
             /\ allocator' = [allocator EXCEPT ![c] = For(t, "pw_shell")]
        /\ mine' = [mine EXCEPT ![t] = Empty]
        /\ Return(t)
  /\ StringsStep(t)

MakeStrings(t) ==
  /\ At(t, "strings")
  /\ StringsMade(t) \/ OutOfMemory(t) \/ ShellLost(t)
  /\ StringsStep(t)

\* Fill the static passwd structure: *current_passwd = ...
Fill(t) ==
  /\ At(t, "fill")
  /\ IF current_passwd = NULL
     THEN Fault(t, "no record") /\ Stay(t) /\ UNCHANGED <<fields, mine>>
     ELSE /\ fields' = [fields EXCEPT ![current_passwd] = mine[t]]
          /\ mine' = [mine EXCEPT ![t] = Empty]
          /\ Advance(t) /\ UNCHANGED fault
  /\ EntryStep(t) /\ UNCHANGED <<entryVars, live, allocator, pw, memory>>

\* The strings of a reentrant function go to the caller's buffer: they fit,
\* or it returns ERANGE.
Buffer(t) ==
  /\ At(t, "buffer") /\ Return(t)
  /\ EntryStep(t) /\ UNCHANGED <<entryVars, heapVars, localVars, fault>>

Entry(t) ==
  \/ ReadRecord(t) \/ ClearRecord(t) \/ FreeFields(t) \/ Reset(t)
  \/ CheckIndex(t) \/ Count(t) \/ Lookup(t) \/ Convert(t) \/ Name(t)
  \/ Symbol(t) \/ Info(t) \/ MakeStrings(t) \/ Fill(t) \/ Buffer(t)

-----------------------------------------------------------------------------

Next ==
  \/ init_lock /\ UNCHANGED <<loadVars, entryVars, heapVars, localVars, fn,
                              stage, place, fault, calls>>
  \/ \E t \in Threads :
       \/ getpwent(t) \/ setpwent(t) \/ endpwent(t) \/ getpwnam(t)
       \/ getpwuid(t) \/ getpwnam_r(t) \/ getpwuid_r(t)
       \/ Load(t) \/ Entry(t)

Spec == Init /\ [][Next]_vars

-----------------------------------------------------------------------------
(* Properties.                                                             *)

Quiet == \A t \in Threads : fn[t] \in Reentrant \cup {"none"}

\* However the functions follow one another, and with reentrant ones in
\* several threads: none of them uses netapi32 when it is not loaded, none
\* writes through current_passwd when it is NULL, and no string is freed
\* twice.  (A getpwnam that runs out of memory for the name is another fault.)
NoFault == \A t \in Threads : fault[t] \in {"none", "no name"}

\* Outside the lock the library is loaded once if the handle is set, and not
\* at all if it is not: endpwent closes what the loaders opened.
LoadsBalanced ==
  (\A t \in Threads : at[t] # "in") =>
    loads = IF netapi32_handle = NULL THEN 0 ELSE 1

\* Between calls, only the current record has strings, and every string of
\* it is a block of its own that is allocated, although each file has a
\* static record and endpwent makes another one current.
RecordOwnsStrings ==
  Quiet => /\ \A r \in Records : r # current_passwd => fields[r] = Empty
           /\ \A r \in Records : BlocksOf(fields[r]) \subseteq live
           /\ \A r \in Records, f, g \in Fields :
                fields[r][f] = fields[r][g] /\ f # g => fields[r][f] = NULL

\* What the functions are known to lose on their error paths: the name, which
\* getpwnam and getpwuid give up when netapi32 cannot be loaded and getpwnam
\* when it cannot convert it, and the shell that getpwuid copied from SHELL
\* when there is no memory for home_dir.
Lost == {<<"getpwnam", "pw_name">>, <<"getpwuid", "pw_name">>,
         <<"getpwuid", "pw_shell">>}

\* A string nobody can free any more is one of these.  No home directory is
\* ever lost, getpwnam loses no shell, and getpwent frees all it allocated on
\* every path.
OnlyTheseAreLost ==
  \A b \in live :
    \/ \E r \in Records : b \in BlocksOf(fields[r])
    \/ \E t \in Threads : b \in BlocksOf(mine[t]) /\ fn[t] # "none"
    \/ allocator[b] \in Lost

\* "Non-NULL: pointer value is loaded and initialized", says the header: when
\* no thread is in a function and the handle is set, the record it stands for
\* is there, although endpwent gives the handle back under the lock and the
\* record (line 59) without it.
HandleMeansRecord ==
  (\A t \in Threads : fn[t] = "none") /\ netapi32_handle # NULL =>
    current_passwd # NULL
=============================================================================
