------------------------------ MODULE SpawnFds ------------------------------
(***************************************************************************)
(* posix_spawn and posix_spawnp with file actions.                          *)
(*                                                                         *)
(* A Windows child is given the descriptors its parent has when it is       *)
(* created.  posix_spawn therefore carries out the file actions on the      *)
(* parent's own descriptors, creates the child, and puts the descriptors    *)
(* back.  A handle that is to come back is protected from being closed; a    *)
(* pipe is put in its place, so that the C library closes the pipe.         *)
(*                                                                         *)
(* One list of actions is built and one process spawned; between the calls  *)
(* nothing else is kept.  The process has one thread.                       *)
(***************************************************************************)
EXTENDS Integers, Sequences, FiniteSetsExt

CONSTANTS
  Fds,         \* the descriptor table of the C library
  StartFds,    \* the descriptors open before posix_spawn
  NoInherit,   \* those of them a child does not inherit
  Handles,     \* the handle table of the process
  MaxActions   \* bound: how many actions a list has

ASSUME SpawnAssumption ==
  /\ Fds \subseteq Nat /\ IsFiniteSet(Fds)
  /\ StartFds \subseteq Fds /\ NoInherit \subseteq StartFds
  /\ Handles \subseteq Nat \ {0} /\ {fd + 1 : fd \in StartFds} \subseteq Handles
  /\ MaxActions \in Nat

None == -1  \* no descriptor, no handle, no object

\* What a handle refers to: the file a descriptor was open on at the start,
\* named by that descriptor; the placeholder; the file of the k-th action.
Pipe      == -2
Opened(k) == -2 - k
Objects   == StartFds \cup {Pipe} \cup {Opened(k) : k \in 1..MaxActions}

VARIABLES
  pc,          \* where posix_spawn is; "add" while the list is built
  actions,     \* __actions, of which __used is the length
  allocated,   \* __allocated
  block,       \* how many actions the block has that __actions points to
  os,          \* the tables of the C library and of Windows
  override,    \* both ends of the pipe, or {}
  saved,       \* restore, dwFlags and fds, up to the current action
  i,           \* the index of the two loops
  child,       \* the descriptors the child was given
  result,      \* what posix_spawn returned
  failed       \* history: the calls that have failed

listVars  == <<actions, allocated, block>>
spawnVars == <<os, override, saved, i, child, result>>
vars == <<pc, listVars, spawnVars, failed>>

Open(fd)        == [type |-> "open", fd |-> fd, newfd |-> None]
Close(fd)       == [type |-> "close", fd |-> fd, newfd |-> None]
Dup2(fd, newfd) == [type |-> "dup2", fd |-> fd, newfd |-> newfd]
SpawnActions    == {Open(fd) : fd \in Fds} \cup {Close(fd) : fd \in Fds}
                     \cup {Dup2(fd, newfd) : fd, newfd \in Fds}
\* The descriptor an action changes
Target(a) == IF a.type = "dup2" THEN a.newfd ELSE a.fd

HandleFlags == [inherit: BOOLEAN, protect: BOOLEAN]

TypeOK ==
  /\ pc \in {"add", "actions", "spawn", "restore", "over"}
  /\ actions \in Seq(SpawnActions) /\ Len(actions) <= MaxActions
  /\ allocated \in Nat /\ block \in Nat
  /\ os \in [osfhnd: [Fds -> Handles \cup {None}],
             object: [Handles -> Objects \cup {None}],
             inherit: SUBSET Handles, protect: SUBSET Handles]
  /\ override \subseteq Handles
  /\ saved \in Seq([handle: Handles \cup {None}, dwFlags: HandleFlags,
                    fd: Fds \cup {None}])
  /\ Len(saved) <= Len(actions)
  /\ i \in 1..Len(actions) + 1 /\ (pc = "actions" => i <= Len(actions))
  /\ child \in [Fds -> Objects \cup {None}]
  /\ result \in {"none", "spawned", "error"}
  /\ failed \subseteq {"realloc", "strdup", "malloc", "CreatePipe", "open", "dup2",
                       "DuplicateHandle", "_open_osfhandle", "_spawnle"}

\* The object of every descriptor, before posix_spawn
Before == [fd \in Fds |-> IF fd \in StartFds THEN fd ELSE None]
NoChild == [fd \in Fds |-> None]

Init ==
  /\ pc = "add" /\ actions = <<>> /\ allocated = 0 /\ block = 0
  /\ os = [osfhnd |-> [fd \in Fds |-> IF fd \in StartFds THEN fd + 1 ELSE None],
           object |-> [h \in Handles |->
                         IF h - 1 \in StartFds THEN h - 1 ELSE None],
           inherit |-> {fd + 1 : fd \in StartFds \ NoInherit},
           protect |-> {}]
  /\ override = {} /\ saved = <<>> /\ i = 1
  /\ child = NoChild /\ result = "none" /\ failed = {}

Fail(calls) == failed' = failed \cup calls

-----------------------------------------------------------------------------
(* The C library and Windows, as functions from tables to tables.          *)

IsOpen(o, fd) == fd \in Fds /\ o.osfhnd[fd] # None
Object(o, fd) == IF IsOpen(o, fd) THEN o.object[o.osfhnd[fd]] ELSE None

NewHandle(o) == Min({h \in Handles : o.object[h] = None})
\* The descriptor open and _open_osfhandle give, or None: the table is full
NewFd(o) == LET free == {fd \in Fds : ~IsOpen(o, fd)}
            IN IF free = {} THEN None ELSE Min(free)

\* A protected handle stays open.
CloseHandle(o, h) ==
  IF h \in o.protect THEN o
  ELSE [o EXCEPT !.object[h] = None, !.inherit = @ \ {h}]

\* The descriptor is free afterwards even if the handle stays open.
close(o, fd) ==
  IF ~IsOpen(o, fd) THEN o
  ELSE [CloseHandle(o, o.osfhnd[fd]) EXCEPT !.osfhnd[fd] = None]

\* newfd is closed first; its new handle can be inherited.
dup2(o, fd, newfd) ==
  IF ~IsOpen(o, fd) \/ fd = newfd THEN o
  ELSE LET c == close(o, newfd)
           h == NewHandle(c)
       IN IF Object(c, fd) = None THEN c
          ELSE [c EXCEPT !.object[h] = Object(c, fd), !.inherit = @ \cup {h},
                         !.osfhnd[newfd] = h]

OsfFd(o, h) == IF o.object[h] = None THEN None ELSE NewFd(o)
_open_osfhandle(o, h) ==
  IF OsfFd(o, h) = None THEN o ELSE [o EXCEPT !.osfhnd[NewFd(o)] = h]

GetHandleInformation(o, h) ==
  [inherit |-> h \in o.inherit, protect |-> h \in o.protect]

SetHandleInformation(o, h, flags) ==
  IF o.object[h] = None THEN o
  ELSE [o EXCEPT !.inherit = IF flags.inherit THEN @ \cup {h} ELSE @ \ {h},
                 !.protect = IF flags.protect THEN @ \cup {h} ELSE @ \ {h}]

\* HANDLE_FLAG_PROTECT_FROM_CLOSE alone
Protected == [inherit |-> FALSE, protect |-> TRUE]

-----------------------------------------------------------------------------
(* The list of actions.                                                    *)

ListStep == UNCHANGED <<pc, spawnVars>>

Full == allocated = Len(actions)
Doubled == IF allocated = 0 THEN 1 ELSE allocated * 2

Grow == IF Full THEN allocated' = Doubled /\ block' = Doubled
                ELSE UNCHANGED <<allocated, block>>

\* realloc fails: ENOMEM and nothing has changed
GrowFails ==
  /\ Full /\ Fail({"realloc"})
  /\ UNCHANGED listVars

Add(a) ==
  /\ pc = "add" /\ Len(actions) < MaxActions
  /\ \/ Grow /\ actions' = Append(actions, a) /\ UNCHANGED failed
     \/ GrowFails
  /\ ListStep

\* strdup of the path fails when the list has grown already.
NoPath ==
  /\ pc = "add" /\ Len(actions) < MaxActions
  /\ Grow /\ Fail({"strdup"}) /\ UNCHANGED actions
  /\ ListStep

posix_spawn_file_actions_addopen  == NoPath \/ \E fd \in Fds : Add(Open(fd))
posix_spawn_file_actions_addclose == \E fd \in Fds : Add(Close(fd))
posix_spawn_file_actions_adddup2  == \E fd, newfd \in Fds : Add(Dup2(fd, newfd))

posix_spawn_file_actions_destroy ==
  /\ pc = "add" /\ block # 0
  /\ actions' = <<>> /\ allocated' = 0 /\ block' = 0
  /\ ListStep /\ UNCHANGED failed

-----------------------------------------------------------------------------
(* posix_spawn.                                                            *)

\* malloc of the three arrays and CreatePipe.  If one fails the actions are
\* left out and the child is created all the same.
Begin ==
  /\ pc = "add"
  /\ \/ /\ actions # <<>> /\ pc' = "actions"
        /\ LET h == NewHandle(os)
               g == Min({x \in Handles \ {h} : os.object[x] = None})
           IN /\ override' = {h, g}
              /\ os' = [os EXCEPT !.object[h] = Pipe, !.object[g] = Pipe]
        /\ UNCHANGED failed
     \/ /\ pc' = "spawn" /\ UNCHANGED <<os, override>>
        /\ IF actions = <<>> THEN UNCHANGED failed
           ELSE \E call \in {"malloc", "CreatePipe"} : Fail({call})
  /\ UNCHANGED <<listVars, saved, i, child, result>>

NextAction ==
  /\ i' = IF i = Len(actions) THEN 1 ELSE i + 1
  /\ pc' = IF i = Len(actions) THEN "spawn" ELSE pc
  /\ UNCHANGED <<listVars, override, child, result>>

Keep(fd, back) ==
  LET h == IF IsOpen(os, fd) THEN os.osfhnd[fd] ELSE None
  IN saved' = Append(saved,
       [handle |-> h,
        dwFlags |-> IF back THEN GetHandleInformation(os, h)
                            ELSE [inherit |-> FALSE, protect |-> FALSE],
        fd |-> IF back THEN fd ELSE None])

\* The handle of fd is protected from being closed.
Protect(fd) == SetHandleInformation(os, os.osfhnd[fd], Protected)

\* A duplicate of the pipe takes the place of the protected handle.  With the
\* table full it has no descriptor, and nothing has changed but the handles.
Placeholder(fd) ==
  LET p == Protect(fd)
      h == NewHandle(p)
      d == [p EXCEPT !.object[h] = Pipe]
      n == NewFd(d)
  IN IF n = None THEN d
     ELSE close(dup2(_open_osfhandle(d, h), n, fd), n)

\* Mutant of OpenAs: n is closed even if it is fd.
OpenAsCloses(o, fd) ==
  LET h == NewHandle(o)
      n == NewFd(o)
      p == [o EXCEPT !.object[h] = Opened(i), !.inherit = @ \cup {h},
                     !.osfhnd[n] = h]
  IN close(dup2(p, n, fd), n)

\* open gives a descriptor n, which is moved to fd.
OpenAs(o, fd) ==
  LET h == NewHandle(o)
      n == NewFd(o)
      p == [o EXCEPT !.object[h] = Opened(i), !.inherit = @ \cup {h},
                     !.osfhnd[n] = h]
  IN IF n = fd THEN p ELSE close(dup2(p, n, fd), n)

\* How an action that replaces fd may begin: the tables then, whether fd will
\* be put back, and what failed.
Replaced(fd) ==
  IF ~IsOpen(os, fd) THEN {[os |-> os, back |-> FALSE, failed |-> {}]}
  ELSE {[os |-> os, back |-> FALSE, failed |-> {"DuplicateHandle"}],
        IF NewFd(os) # None
        THEN [os |-> Placeholder(fd), back |-> TRUE, failed |-> {}]
        ELSE [os |-> Placeholder(fd), back |-> FALSE,
              failed |-> {"_open_osfhandle"}]}

\* A failed open is not noticed: the placeholder stays.
ActionOpen(a) ==
  /\ a.type = "open"
  /\ \E r \in Replaced(a.fd) :
       /\ Keep(a.fd, r.back)
       /\ \/ NewFd(r.os) # None /\ os' = OpenAs(r.os, a.fd) /\ Fail(r.failed)
          \/ os' = r.os /\ Fail(r.failed \cup {"open"})
  /\ NextAction

\* close (fds[i]), which is -1 if the descriptor is not going to be put back
ActionClose(a) ==
  /\ a.type = "close"
  /\ \E r \in Replaced(a.fd) :
       /\ Keep(a.fd, r.back)
       /\ os' = close(r.os, IF r.back THEN a.fd ELSE None)
       /\ Fail(r.failed)
  /\ NextAction

\* Mutant of ActionDup2: the handle of newfd is not protected.
ActionDup2Unprotected(a) ==
  /\ a.type = "dup2"
  /\ Keep(a.newfd, IsOpen(os, a.newfd))
  /\ os' = dup2(os, a.fd, a.newfd)
  /\ Fail(IF IsOpen(os, a.fd) THEN {} ELSE {"dup2"})
  /\ NextAction

\* dup2 itself closes newfd; no placeholder is needed.
ActionDup2(a) ==
  /\ a.type = "dup2"
  /\ Keep(a.newfd, IsOpen(os, a.newfd))
  /\ os' = dup2(IF IsOpen(os, a.newfd) THEN Protect(a.newfd) ELSE os,
                a.fd, a.newfd)
  /\ Fail(IF IsOpen(os, a.fd) THEN {} ELSE {"dup2"})
  /\ NextAction

Action ==
  /\ pc = "actions"
  /\ \/ ActionOpen(actions[i])
     \/ ActionClose(actions[i])
     \/ ActionDup2(actions[i])

\* CreateProcess or _spawnle: the child is given what it can inherit.
CreateChild ==
  /\ pc = "spawn"
  /\ pc' = IF override = {} THEN "over" ELSE "restore"
  /\ \/ /\ result' = "spawned" /\ UNCHANGED failed
        /\ child' = [fd \in Fds |->
                       IF IsOpen(os, fd) /\ os.osfhnd[fd] \in os.inherit
                       THEN Object(os, fd) ELSE None]
     \/ result' = "error" /\ Fail({"_spawnle"}) /\ UNCHANGED child
  /\ UNCHANGED <<listVars, os, override, saved, i>>

\* Mutant of PutBack: the descriptor the handle was given stays open.
PutBackTwice(o, s) ==
  LET u == SetHandleInformation(o, s.handle, s.dwFlags)
      n == OsfFd(u, s.handle)
      d == dup2(_open_osfhandle(u, s.handle), n, s.fd)
      p == SetHandleInformation(d, s.handle, Protected)
  IN SetHandleInformation(p, s.handle, s.dwFlags)

\* The handle is given a descriptor n, which is moved to its old one.  It is
\* protected while n is closed, so that it stays open too.
PutBack(o, s) ==
  LET u == SetHandleInformation(o, s.handle, s.dwFlags)
      n == OsfFd(u, s.handle)
      d == dup2(_open_osfhandle(u, s.handle), n, s.fd)
      p == SetHandleInformation(d, s.handle, Protected)
      c == IF n = s.fd THEN p ELSE close(p, n)
  IN SetHandleInformation(c, s.handle, s.dwFlags)

Restore ==
  /\ pc = "restore" /\ i <= Len(actions)
  /\ LET s == saved[i]
     IN IF s.fd = None THEN UNCHANGED <<os, failed>>
        ELSE /\ os' = PutBack(os, s)
             /\ Fail(IF NewFd(os) = None THEN {"_open_osfhandle"} ELSE {})
  /\ i' = i + 1
  /\ UNCHANGED <<pc, listVars, override, saved, child, result>>

\* CloseHandle of both ends of the pipe
Return ==
  /\ pc = "restore" /\ i > Len(actions)
  /\ os' = [os EXCEPT !.object = [h \in Handles |->
                                    IF h \in override THEN None ELSE @[h]]]
  /\ pc' = "over" /\ override' = {}
  /\ UNCHANGED <<listVars, saved, i, child, result, failed>>

posix_spawn == Begin \/ Action \/ CreateChild \/ Restore \/ Return

\* The same text: the two differ in how they look for the program.
posix_spawnp == posix_spawn

Next ==
  \/ posix_spawn_file_actions_addopen
  \/ posix_spawn_file_actions_addclose
  \/ posix_spawn_file_actions_adddup2
  \/ posix_spawn_file_actions_destroy
  \/ posix_spawn \/ posix_spawnp

Spec == Init /\ [][Next]_vars

-----------------------------------------------------------------------------
(* Properties.                                                             *)

Over == pc = "over"

\* What the first k actions make of the descriptors of a child that starts
\* with those of its parent
ActionsDone ==
  LET Done[k \in 0..Len(actions)] ==
        IF k = 0 THEN [fd \in Fds |-> [object |-> Before[fd],
                                       inherit |-> fd \notin NoInherit]]
        ELSE LET a == actions[k]
                 t == Done[k - 1]
             IN [t EXCEPT ![Target(a)] =
                   CASE a.type = "open" -> [object |-> Opened(k), inherit |-> TRUE]
                     [] a.type = "close" -> [object |-> None, inherit |-> FALSE]
                     [] a.type = "dup2" -> [object |-> t[a.fd].object,
                                            inherit |-> TRUE]]
  IN Done[Len(actions)]

NoSelfDup == \A k \in 1..Len(actions) :
               actions[k].type = "dup2" => actions[k].fd # actions[k].newfd

\* A new block is in use as soon as __allocated says so, and no action is
\* ever written behind its end.
ListFits == Len(actions) <= allocated /\ allocated <= block

\* If no call failed the child has the descriptors that its parent's become
\* by the actions, in their order, and none of the placeholders.
ChildHasActionsDone ==
  result = "spawned" /\ failed = {} /\ NoSelfDup =>
    \A fd \in Fds :
      child[fd] = IF ActionsDone[fd].inherit THEN ActionsDone[fd].object ELSE None

\* No descriptor was put back twice.
SavedOnce == \A j, k \in 1..Len(saved) :
               saved[j].fd = saved[k].fd /\ saved[j].fd # None => j = k

\* Every descriptor the parent had is open on its file again, also when an
\* open of the actions or the spawn fails, if none was saved twice and every
\* dup2 changed something.
ParentResetOnce ==
  /\ Over /\ NoSelfDup /\ SavedOnce
  /\ failed \cap {"dup2", "DuplicateHandle", "_open_osfhandle"} = {}
  => \A fd \in StartFds : Object(os, fd) = fd

\* After posix_spawn no handle is left that cannot be closed, unless the
\* descriptor table was full or a dup2 changed nothing.
NothingProtected ==
  Over /\ NoSelfDup /\ failed \cap {"dup2", "_open_osfhandle"} = {}
  => os.protect = {}

\* After posix_spawn no descriptor is open but those that were and those the
\* actions are about, and no handle but theirs and those that descriptors had
\* before, which stay open, unless the table was full.
NothingElseOpen ==
  Over /\ "_open_osfhandle" \notin failed =>
    /\ \A fd \in Fds \ StartFds :
         IsOpen(os, fd) => \E k \in 1..Len(actions) : fd = Target(actions[k])
    /\ \A h \in Handles :
         os.object[h] # None =>
           \/ \E fd \in Fds : os.osfhnd[fd] = h
           \/ \E k \in 1..Len(saved) : saved[k].handle = h

\* The call leaves neither a protected handle nor anything open behind.
NothingLeft == NothingProtected /\ NothingElseOpen
=============================================================================
