----------------------------- MODULE GlobalLock -----------------------------
(***************************************************************************)
(* The library's one lock: a Windows CRITICAL_SECTION behind a flag that    *)
(* says whether it was initialized.  lock() looks at the flag without any   *)
(* synchronization and initializes the section itself if it has to; the     *)
(* header asks a program with several threads to call init_lock first.      *)
(*                                                                         *)
(* The program's life is: the main thread may call init_lock, the threads   *)
(* make their calls, and the main thread calls delete_lock at the end.      *)
(***************************************************************************)
EXTENDS Naturals

CONSTANTS
  Threads,       \* the threads of the program
  NoThread,      \* nobody
  InitLockFirst  \* whether the program calls init_lock before its threads run

ASSUME LockAssumption ==
  /\ NoThread \notin Threads
  /\ InitLockFirst \in BOOLEAN

VARIABLES
  initialized,  \* critical_section_initialized
  section,      \* the thread the critical section belongs to
  at,           \* where each thread is in lock ... unlock
  main          \* where the program is in its life

lockVars == <<initialized, section, at, main>>

Places == {"out", "init_lock", "initialize", "set", "enter", "in"}

LockTypeOK ==
  /\ initialized \in BOOLEAN
  /\ section \in Threads \cup {NoThread}
  /\ at \in [Threads -> Places]
  /\ main \in {"start", "calls", "done"}

LockInit ==
  /\ initialized = FALSE
  /\ section = NoThread
  /\ at = [t \in Threads |-> "out"]
  /\ main = "start"

Move(t, from, to) == at[t] = from /\ at' = [at EXCEPT ![t] = to]

-----------------------------------------------------------------------------

\* The main thread, alone, calls init_lock, or does not bother.
init_lock ==
  /\ main = "start"
  /\ main' = "calls"
  /\ initialized' = InitLockFirst
  /\ UNCHANGED <<section, at>>

\* The main thread, alone again, calls delete_lock.
delete_lock ==
  /\ main = "calls" /\ \A t \in Threads : at[t] = "out"
  /\ main' = "done"
  /\ initialized' = FALSE
  /\ UNCHANGED <<section, at>>

\* Mutant of LockChecks: lock() initializes the section every time.
LockInitializes(t) ==
  Move(t, "out", "initialize") /\ UNCHANGED <<initialized, section, main>>

\* lock () looks at the flag
LockChecks(t) ==
  /\ Move(t, "out", IF initialized THEN "enter" ELSE "init_lock")
  /\ UNCHANGED <<initialized, section, main>>

\* init_lock (), called by lock (), looks at it again
InitChecks(t) ==
  /\ Move(t, "init_lock", IF initialized THEN "enter" ELSE "initialize")
  /\ UNCHANGED <<initialized, section, main>>

\* InitializeCriticalSection: the section is new, whoever was in it
Initialize(t) ==
  /\ Move(t, "initialize", "set")
  /\ section' = NoThread
  /\ UNCHANGED <<initialized, main>>

SetInitialized(t) ==
  /\ Move(t, "set", "enter")
  /\ initialized' = TRUE
  /\ UNCHANGED <<section, main>>

\* EnterCriticalSection
Enter(t) ==
  /\ Move(t, "enter", "in")
  /\ section = NoThread
  /\ section' = t
  /\ UNCHANGED <<initialized, main>>

lock(t) ==
  LockChecks(t) \/ InitChecks(t) \/ Initialize(t) \/ SetInitialized(t)
  \/ Enter(t)

\* unlock (): LeaveCriticalSection, which is only defined for the owner; for
\* another thread it may or may not release the section
unlock(t) ==
  /\ Move(t, "in", "out")
  /\ \/ initialized /\ section' = NoThread
     \/ (~initialized \/ section # t) /\ UNCHANGED section
  /\ UNCHANGED <<initialized, main>>

-----------------------------------------------------------------------------

\* Two threads are never between lock and unlock, even though the section
\* they wait for is the one lock() may be initializing.
LockExclusive ==
  \A s, t \in Threads : at[s] = "in" /\ at[t] = "in" => s = t
=============================================================================
