---------------------------- MODULE SpawnProofs ----------------------------
(***************************************************************************)
(* Proofs about SpawnFds, for every descriptor table, any descriptors open   *)
(* at the start and lists of actions of any length.                         *)
(*                                                                         *)
(* The first part is about the list of file actions.  The others follow the *)
(* tables of the C library and of Windows through posix_spawn: what each    *)
(* call makes of them, then each action of the list and what is put back,   *)
(* and last the invariants that the theorems are conjuncts of.              *)
(***************************************************************************)
EXTENDS SpawnFds, FiniteSetTheorems, WellFoundedInduction, TLAPS

-----------------------------------------------------------------------------
(* The list of file actions.                                               *)
\* After every call the block has exactly the size __allocated says.
ListInv ==
  /\ actions \in Seq(SpawnActions)
  /\ allocated \in Nat /\ block = allocated
  /\ Len(actions) <= allocated

LEMMA GrowKeepsList ==
  ASSUME ListInv, Grow
  PROVE  /\ allocated' \in Nat /\ block' = allocated'
         /\ Len(actions) + 1 <= allocated'
<1>1. Len(actions) \in Nat
  BY DEF ListInv
<1>2. CASE Full
  <2>1. allocated' = Doubled /\ block' = Doubled
    BY <1>2 DEF Grow
  <2>2. Doubled \in Nat /\ allocated + 1 <= Doubled
    BY DEF Doubled, ListInv
  <2> QED
    BY <1>1, <1>2, <2>1, <2>2 DEF Full
<1>3. CASE ~Full
  BY <1>1, <1>3 DEF Grow, Full, ListInv
<1> QED
  BY <1>2, <1>3

LEMMA AddKeepsList ==
  ASSUME ListInv, NEW a \in SpawnActions, Add(a)
  PROVE  ListInv'
<1>1. CASE Grow /\ actions' = Append(actions, a)
  <2>1. actions' \in Seq(SpawnActions) /\ Len(actions') = Len(actions) + 1
    BY <1>1 DEF ListInv
  <2> QED
    BY <1>1, <2>1, GrowKeepsList DEF ListInv
<1>2. CASE GrowFails
  BY <1>2 DEF GrowFails, listVars, ListInv
<1> QED
  BY <1>1, <1>2 DEF Add

LEMMA ListStepKeeps ==
  ASSUME ListInv, [Next]_vars
  PROVE  ListInv'
<1>1. CASE posix_spawn_file_actions_addopen
  <2>1. CASE NoPath
    <3>1. Len(actions) \in Nat
      BY DEF ListInv
    <3> QED
      BY <2>1, <3>1, GrowKeepsList DEF NoPath, ListInv
  <2>2. CASE \E fd \in Fds : Add(Open(fd))
    BY <2>2, AddKeepsList DEF SpawnActions
  <2> QED
    BY <1>1, <2>1, <2>2 DEF posix_spawn_file_actions_addopen
<1>2. CASE posix_spawn_file_actions_addclose
  BY <1>2, AddKeepsList DEF posix_spawn_file_actions_addclose, SpawnActions
<1>3. CASE posix_spawn_file_actions_adddup2
  BY <1>3, AddKeepsList DEF posix_spawn_file_actions_adddup2, SpawnActions
<1>4. CASE posix_spawn_file_actions_destroy
  <2>1. actions' = <<>> /\ allocated' = 0 /\ block' = 0
    BY <1>4 DEF posix_spawn_file_actions_destroy
  <2> QED
    BY <2>1 DEF ListInv
<1>5. CASE posix_spawn
  <2>1. Begin \/ CreateChild \/ Restore \/ Return => UNCHANGED listVars
    BY DEF Begin, CreateChild, Restore, Return
  <2>2. Action => UNCHANGED listVars
    BY DEF Action, ActionOpen, ActionClose, ActionDup2, NextAction
  <2> QED
    BY <1>5, <2>1, <2>2 DEF posix_spawn, listVars, ListInv
<1>6. CASE UNCHANGED vars
  BY <1>6 DEF vars, listVars, ListInv
<1> QED
  BY <1>1, <1>2, <1>3, <1>4, <1>5, <1>6 DEF Next, posix_spawnp

\* The list of file actions never has more actions than fit into its block,
\* whichever of the calls that grow it fail.
THEOREM ListAlwaysFits == Spec => []ListFits
<1>1. Init => ListInv
  BY DEF Init, ListInv
<1>2. ListInv => ListFits
  BY DEF ListInv, ListFits
<1> QED
  BY <1>1, <1>2, ListStepKeeps, PTL DEF Spec

-----------------------------------------------------------------------------
(* The tables.                                                             *)

\* Windows does not run out of handles: no finite set has them all.
HandlesNeverEnd == ~IsFiniteSet(Handles)

-----------------------------------------------------------------------------
(* What Windows and the C library give: the lowest number that is free.    *)

LEMMA LeastNumber ==
  ASSUME NEW S \in SUBSET Nat, S # {}
  PROVE  Min(S) \in S /\ \A y \in S : Min(S) <= y
<1> DEFINE R == {p \in Nat \X Nat : p[1] < p[2]}
<1>1. IsWellFoundedOn(R, Nat)
  BY NatLessThanWellFounded DEF OpToRel
<1>2. \A x, y \in S : ~(<<y, x>> \in R) => x =< y
  OBVIOUS
<1> HIDE DEF R
<1>3. PICK x \in S : \A y \in S : x =< y
  BY <1>1, <1>2, WFMin
<1> QED
  BY <1>3 DEF Min

Tables == [osfhnd: [Fds -> Handles \cup {None}],
           object: [Handles -> Objects \cup {None}],
           inherit: SUBSET Handles, protect: SUBSET Handles]

\* The handles that refer to something
Live(o) == {h \in Handles : o.object[h] # None}

Sound(o) == o \in Tables /\ IsFiniteSet(Live(o))

LEMMA ObjectsAreSome == None \notin Objects /\ Pipe \in Objects
BY SpawnAssumption DEF Objects, None, Pipe, Opened

LEMMA HandlesAreSome == None \notin Handles /\ None \notin Fds
BY SpawnAssumption DEF None

LEMMA NewHandleIsFree ==
  ASSUME HandlesNeverEnd, NEW o, Sound(o)
  PROVE  NewHandle(o) \in Handles \ Live(o)
<1> DEFINE F == {h \in Handles : o.object[h] = None}
<1>1. F # {}
  <2>1. SUFFICES ASSUME F = {} PROVE FALSE
    OBVIOUS
  <2>2. Live(o) = Handles
    BY <2>1 DEF Live
  <2> QED
    BY <2>2 DEF Sound, HandlesNeverEnd
<1>2. F \in SUBSET Nat
  BY SpawnAssumption
<1>3. Min(F) \in F
  BY <1>1, <1>2, LeastNumber
<1> QED
  BY <1>3 DEF NewHandle, Live

LEMMA NewFdIsFree ==
  ASSUME NEW o, NewFd(o) # None
  PROVE  NewFd(o) \in Fds /\ o.osfhnd[NewFd(o)] = None
<1> DEFINE F == {fd \in Fds : ~IsOpen(o, fd)}
<1>1. F # {} /\ NewFd(o) = Min(F)
  BY DEF NewFd
<1>2. F \in SUBSET Nat
  BY SpawnAssumption
<1>3. Min(F) \in F
  BY <1>1, <1>2, LeastNumber
<1> QED
  BY <1>1, <1>3 DEF IsOpen

-----------------------------------------------------------------------------
(* What the calls of the C library and of Windows make of the tables.      *)

\* However many handles change, only finitely many refer to something.
LEMMA OneMoreIsSound ==
  ASSUME NEW o, Sound(o), NEW t \in Tables, NEW h,
         \A x \in Handles \ {h} : o.object[x] = None => t.object[x] = None
  PROVE  Sound(t)
<1>1. Live(t) \subseteq Live(o) \cup {h}
  BY DEF Live, Sound, Tables
<1>2. IsFiniteSet(Live(o) \cup {h})
  BY FS_AddElement DEF Sound
<1> QED
  BY <1>1, <1>2, FS_Subset DEF Sound

LEMMA CloseEffect ==
  ASSUME NEW o, Sound(o), NEW fd \in Fds, IsOpen(o, fd)
  PROVE  LET c == close(o, fd)
             h == o.osfhnd[fd]
         IN /\ Sound(c) /\ h \in Handles
            /\ c.osfhnd = [o.osfhnd EXCEPT ![fd] = None]
            /\ c.protect = o.protect
            /\ h \in o.protect => c.object = o.object /\ c.inherit = o.inherit
            /\ h \notin o.protect =>
                 /\ c.object = [o.object EXCEPT ![h] = None]
                 /\ c.inherit = o.inherit \ {h}
<1> DEFINE h == o.osfhnd[fd]
           c == close(o, fd)
           k == CloseHandle(o, h)
<1>1. h \in Handles
  BY DEF Sound, Tables, IsOpen
<1>2. /\ k \in Tables /\ k.osfhnd = o.osfhnd /\ k.protect = o.protect
      /\ h \in o.protect => k.object = o.object /\ k.inherit = o.inherit
      /\ h \notin o.protect =>
           /\ k.object = [o.object EXCEPT ![h] = None]
           /\ k.inherit = o.inherit \ {h}
  <2> HIDE DEF h
  <2>1. CASE h \in o.protect
    BY <2>1 DEF CloseHandle, Sound
  <2>2. CASE h \notin o.protect
    BY <1>1, <2>2 DEF CloseHandle, Sound, Tables
  <2> QED
    BY <2>1, <2>2
<1>3. c = [k EXCEPT !.osfhnd[fd] = None]
  BY DEF close
<1> HIDE DEF c, k, h
<1>4. /\ c \in Tables /\ c.object = k.object
      /\ c.protect = k.protect /\ c.inherit = k.inherit
      /\ c.osfhnd = [k.osfhnd EXCEPT ![fd] = None]
  BY <1>2, <1>3 DEF Tables
<1>5. \A x \in Handles \ {h} : o.object[x] = None => c.object[x] = None
  BY <1>1, <1>2, <1>4 DEF Tables
<1>6. Sound(c)
  BY <1>4, <1>5, OneMoreIsSound
<1> QED
  BY <1>1, <1>2, <1>4, <1>6 DEF c, h

\* A descriptor that is not open is not closed.
LEMMA CloseNothing ==
  ASSUME NEW o, NEW fd, ~IsOpen(o, fd)
  PROVE  close(o, fd) = o
BY DEF close

\* What dup2 does if both descriptors are open and differ.
LEMMA Dup2Effect ==
  ASSUME HandlesNeverEnd, NEW o, Sound(o), NEW fd \in Fds, NEW g \in Fds,
         IsOpen(o, fd), fd # g, Object(close(o, g), fd) # None
  PROVE  LET c == close(o, g)
             h == NewHandle(c)
             d == dup2(o, fd, g)
         IN /\ Sound(c) /\ Sound(d) /\ h \in Handles \ Live(c)
            /\ d.osfhnd = [c.osfhnd EXCEPT ![g] = h]
            /\ d.object = [c.object EXCEPT ![h] = Object(c, fd)]
            /\ d.inherit = c.inherit \cup {h} /\ d.protect = c.protect
<1> DEFINE c == close(o, g)
           h == NewHandle(c)
           d == dup2(o, fd, g)
           v == Object(c, fd)
<1>1. Sound(c)
  BY CloseEffect, CloseNothing
<1>2. h \in Handles \ Live(c)
  BY <1>1, NewHandleIsFree
<1>3. v \in Objects
  <2>1. v # None
    OBVIOUS
  <2> HIDE DEF c
  <2> QED
    BY <1>1, <2>1 DEF Object, IsOpen, Sound, Tables
<1>4. d = [c EXCEPT !.object[h] = v, !.inherit = c.inherit \cup {h},
                    !.osfhnd[g] = h]
  <2>1. d = [c EXCEPT !.object[h] = v, !.inherit = @ \cup {h},
                      !.osfhnd[g] = h]
    BY DEF dup2
  <2> HIDE DEF c, d, h, v
  <2> QED
    BY <1>1, <2>1 DEF Sound, Tables
<1> HIDE DEF c, d, h, v
<1>5. /\ d \in Tables
      /\ d.osfhnd = [c.osfhnd EXCEPT ![g] = h]
      /\ d.object = [c.object EXCEPT ![h] = v]
      /\ d.inherit = c.inherit \cup {h} /\ d.protect = c.protect
  BY <1>1, <1>2, <1>3, <1>4 DEF Sound, Tables
<1>6. \A x \in Handles \ {h} : c.object[x] = None => d.object[x] = None
  BY <1>1, <1>2, <1>5 DEF Sound, Tables
<1>7. Sound(d)
  BY <1>1, <1>5, <1>6, OneMoreIsSound
<1> QED
  BY <1>1, <1>2, <1>5, <1>7 DEF c, d, h, v

\* Otherwise it does nothing, or has closed its target before it fails.
LEMMA Dup2Fails ==
  ASSUME NEW o, NEW fd, NEW g,
         \/ ~IsOpen(o, fd) \/ fd = g \/ Object(close(o, g), fd) = None
  PROVE  dup2(o, fd, g) \in {o, close(o, g)}
BY DEF dup2

LEMMA SetEffect ==
  ASSUME NEW o, Sound(o), NEW h \in Handles, NEW flags \in HandleFlags
  PROVE  LET s == SetHandleInformation(o, h, flags)
         IN /\ Sound(s) /\ s.osfhnd = o.osfhnd /\ s.object = o.object
            /\ h \notin Live(o) => s = o
            /\ h \in Live(o) =>
                 /\ flags.inherit => s.inherit = o.inherit \cup {h}
                 /\ ~flags.inherit => s.inherit = o.inherit \ {h}
                 /\ flags.protect => s.protect = o.protect \cup {h}
                 /\ ~flags.protect => s.protect = o.protect \ {h}
<1> DEFINE s == SetHandleInformation(o, h, flags)
<1>1. CASE h \notin Live(o)
  BY <1>1 DEF SetHandleInformation, Live
<1>2. CASE h \in Live(o)
  <2>1. /\ s \in Tables /\ s.osfhnd = o.osfhnd /\ s.object = o.object
        /\ flags.inherit => s.inherit = o.inherit \cup {h}
        /\ ~flags.inherit => s.inherit = o.inherit \ {h}
        /\ flags.protect => s.protect = o.protect \cup {h}
        /\ ~flags.protect => s.protect = o.protect \ {h}
    BY <1>2 DEF SetHandleInformation, Live, Sound, Tables
  <2>2. Sound(s)
    BY <2>1, OneMoreIsSound
  <2> QED
    BY <1>2, <2>1, <2>2
<1> QED
  BY <1>1, <1>2

\* A handle gets a free descriptor.
LEMMA OpenOsfhandleEffect ==
  ASSUME NEW o, Sound(o), NEW h \in Handles, OsfFd(o, h) # None
  PROVE  LET n == OsfFd(o, h)
             t == _open_osfhandle(o, h)
         IN /\ Sound(t) /\ n = NewFd(o) /\ n \in Fds /\ o.osfhnd[n] = None
            /\ h \in Live(o)
            /\ t.osfhnd = [o.osfhnd EXCEPT ![n] = h]
            /\ t.object = o.object
            /\ t.inherit = o.inherit /\ t.protect = o.protect
<1> DEFINE n == NewFd(o)
           t == _open_osfhandle(o, h)
<1>1. n = OsfFd(o, h) /\ h \in Live(o) /\ n # None
  BY DEF OsfFd, Live
<1>2. n \in Fds /\ o.osfhnd[n] = None
  BY <1>1, NewFdIsFree
<1>3. t = [o EXCEPT !.osfhnd[n] = h]
  BY <1>1 DEF _open_osfhandle
<1> HIDE DEF n, t
<1>4. /\ t \in Tables /\ t.osfhnd = [o.osfhnd EXCEPT ![n] = h]
      /\ t.object = o.object /\ t.inherit = o.inherit
      /\ t.protect = o.protect
  BY <1>2, <1>3 DEF Sound, Tables
<1>5. Sound(t)
  BY <1>4, OneMoreIsSound
<1> QED
  BY <1>1, <1>2, <1>4, <1>5 DEF n, t

-----------------------------------------------------------------------------
(* Nothing else stays open: every handle that refers to something is a      *)
(* descriptor's or one that is kept, whatever fails.                        *)

Accounted(o, keep) ==
  /\ o.protect \subseteq keep
  /\ \A h \in Live(o) : h \in keep \/ \E fd \in Fds : o.osfhnd[fd] = h

\* The descriptors but for those in F are the same.
SameBut(o, t, F) == \A fd \in Fds \ F : t.osfhnd[fd] = o.osfhnd[fd]

LEMMA CloseAccounts ==
  ASSUME NEW o, Sound(o), NEW keep, Accounted(o, keep), NEW fd
  PROVE  LET c == close(o, fd)
         IN /\ Sound(c) /\ Accounted(c, keep) /\ SameBut(o, c, {fd})
            /\ fd \in Fds => c.osfhnd[fd] = None
<1> DEFINE c == close(o, fd)
<1>1. CASE ~IsOpen(o, fd)
  BY <1>1, CloseNothing DEF IsOpen, SameBut
<1>2. CASE IsOpen(o, fd)
  <2> DEFINE h == o.osfhnd[fd]
  <2>1. fd \in Fds
    BY <1>2 DEF IsOpen
  <2>2. /\ Sound(c) /\ h \in Handles
        /\ c.osfhnd = [o.osfhnd EXCEPT ![fd] = None]
        /\ c.protect = o.protect
        /\ h \in o.protect => c.object = o.object
        /\ h \notin o.protect => c.object = [o.object EXCEPT ![h] = None]
    BY <1>2, <2>1, CloseEffect
  <2> HIDE DEF c
  <2>3. SameBut(o, c, {fd}) /\ c.osfhnd[fd] = None
    BY <2>1, <2>2 DEF SameBut, Sound, Tables
  <2>4. ASSUME NEW x \in Live(c)
        PROVE  x \in keep \/ \E g \in Fds : c.osfhnd[g] = x
    <3>1. x \in Handles /\ x # None
      BY HandlesAreSome DEF Live
    <3>2. x \in Live(o) /\ (x = h => h \in o.protect)
      BY <2>2 DEF Live, Sound, Tables
    <3>3. CASE x \in keep
      BY <3>3
    <3>4. CASE \E g \in Fds : o.osfhnd[g] = x
      BY <3>2, <3>4, <2>3 DEF SameBut, Accounted
    <3> QED
      BY <3>2, <3>3, <3>4 DEF Accounted
  <2> QED
    BY <2>2, <2>3, <2>4 DEF Accounted, c
<1> QED
  BY <1>1, <1>2

\* A free descriptor is given a handle, old or new.
LEMMA GiveAccounts ==
  ASSUME NEW o, Sound(o), NEW keep, Accounted(o, keep),
         NEW n \in Fds, NEW h \in Handles, o.osfhnd[n] = None,
         NEW t, Sound(t), t.osfhnd = [o.osfhnd EXCEPT ![n] = h],
         \A x \in Handles \ {h} : t.object[x] = o.object[x],
         t.protect = o.protect
  PROVE  Accounted(t, keep) /\ SameBut(o, t, {n})
<1>1. SameBut(o, t, {n}) /\ t.osfhnd[n] = h
  BY DEF SameBut, Sound, Tables
<1>2. ASSUME NEW x \in Live(t)
      PROVE  x \in keep \/ \E g \in Fds : t.osfhnd[g] = x
  <2>1. CASE x = h
    BY <1>1, <2>1
  <2>2. CASE x # h
    <3>1. x \in Live(o) /\ x # None
      BY <2>2, HandlesAreSome DEF Live
    <3> QED
      BY <1>1, <3>1 DEF SameBut, Accounted
  <2> QED
    BY <2>1, <2>2
<1> QED
  BY <1>1, <1>2 DEF Accounted

LEMMA Dup2Accounts ==
  ASSUME HandlesNeverEnd, NEW o, Sound(o), NEW keep, Accounted(o, keep),
         NEW fd, NEW g \in Fds
  PROVE  LET d == dup2(o, fd, g)
         IN Sound(d) /\ Accounted(d, keep) /\ SameBut(o, d, {g})
<1> DEFINE c == close(o, g)
           d == dup2(o, fd, g)
<1>1. Sound(c) /\ Accounted(c, keep) /\ SameBut(o, c, {g})
      /\ c.osfhnd[g] = None
  BY CloseAccounts
<1>2. CASE \/ ~IsOpen(o, fd) \/ fd = g \/ Object(c, fd) = None
  BY <1>1, <1>2, Dup2Fails DEF SameBut
<1>3. CASE IsOpen(o, fd) /\ fd # g /\ Object(c, fd) # None
  <2> DEFINE h == NewHandle(c)
  <2>1. /\ Sound(d) /\ h \in Handles
        /\ d.osfhnd = [c.osfhnd EXCEPT ![g] = h]
        /\ d.object = [c.object EXCEPT ![h] = Object(c, fd)]
        /\ d.protect = c.protect
    BY <1>3, Dup2Effect DEF IsOpen
  <2> HIDE DEF c, d, h
  <2>2. \A x \in Handles \ {h} : d.object[x] = c.object[x]
    BY <1>1, <2>1 DEF Sound, Tables
  <2>3. Accounted(d, keep) /\ SameBut(c, d, {g})
    BY <1>1, <2>1, <2>2, GiveAccounts
  <2> QED
    BY <1>1, <2>1, <2>3 DEF SameBut, c, d
<1> QED
  BY <1>2, <1>3

LEMMA SetAccounts ==
  ASSUME NEW o, Sound(o), NEW keep, Accounted(o, keep),
         NEW h \in Handles \cap keep, NEW flags \in HandleFlags
  PROVE  LET s == SetHandleInformation(o, h, flags)
         IN /\ Sound(s) /\ Accounted(s, keep)
            /\ s.osfhnd = o.osfhnd /\ s.object = o.object
<1> DEFINE s == SetHandleInformation(o, h, flags)
<1>1. /\ Sound(s) /\ s.osfhnd = o.osfhnd /\ s.object = o.object
      /\ s.protect \subseteq o.protect \cup {h}
  <2>1. h \in Handles
    OBVIOUS
  <2> HIDE DEF s
  <2>2. CASE h \in Live(o)
    BY <2>1, <2>2, SetEffect DEF s
  <2>3. CASE h \notin Live(o)
    BY <2>1, <2>3, SetEffect DEF s
  <2> QED
    BY <2>2, <2>3
<1> HIDE DEF s
<1>2. Accounted(s, keep)
  BY <1>1 DEF Accounted, Live
<1> QED
  BY <1>1, <1>2 DEF s

LEMMA ProtectedIsFlags == Protected \in HandleFlags
BY DEF Protected, HandleFlags

\* The free descriptor depends on the descriptors only.
LEMMA NewFdSame ==
  ASSUME NEW o, NEW t, t.osfhnd = o.osfhnd
  PROVE  NewFd(t) = NewFd(o)
BY DEF NewFd, IsOpen

LEMMA PlaceholderAccounts ==
  ASSUME HandlesNeverEnd, Sound(os), NEW keep, Accounted(os, keep),
         NEW fd \in Fds, IsOpen(os, fd), NewFd(os) # None
  PROVE  LET r == Placeholder(fd)
         IN /\ Sound(r) /\ Accounted(r, keep \cup {os.osfhnd[fd]})
            /\ SameBut(os, r, {fd})
<1> DEFINE k == keep \cup {os.osfhnd[fd]}
           p == Protect(fd)
           h == NewHandle(p)
           d == [p EXCEPT !.object[h] = Pipe]
           n == NewFd(d)
           e == _open_osfhandle(d, h)
           g == dup2(e, n, fd)
           c == close(g, n)
<1>1. Accounted(os, k) /\ os.osfhnd[fd] \in Handles \cap k
  BY DEF Accounted, IsOpen, Sound, Tables
<1>2. Sound(p) /\ Accounted(p, k) /\ p.osfhnd = os.osfhnd
  BY <1>1, SetAccounts, ProtectedIsFlags DEF Protect
<1>3. h \in Handles \ Live(p)
  BY <1>2, NewHandleIsFree
<1>4. /\ d \in Tables /\ d.osfhnd = p.osfhnd /\ d.protect = p.protect
      /\ d.object = [p.object EXCEPT ![h] = Pipe]
  <2> HIDE DEF p, h
  <2> QED
    BY <1>2, <1>3, ObjectsAreSome DEF Sound, Tables
<1>5. Sound(d)
  <2> HIDE DEF p, h, d
  <2>1. \A x \in Handles \ {h} : d.object[x] = p.object[x]
    BY <1>2, <1>3, <1>4 DEF Sound, Tables
  <2> QED
    BY <1>2, <1>4, <2>1, OneMoreIsSound
<1>6. n = NewFd(os) /\ n # None
  <2> HIDE DEF p, d
  <2> QED
    BY <1>2, <1>4, NewFdSame
<1>7. OsfFd(d, h) = n
  <2>1. d.object[h] = Pipe
    BY <1>2, <1>3, <1>4 DEF Sound, Tables
  <2> QED
    BY <2>1, ObjectsAreSome DEF OsfFd
<1>8. /\ Sound(e) /\ n \in Fds /\ d.osfhnd[n] = None
      /\ e.osfhnd = [d.osfhnd EXCEPT ![n] = h]
      /\ e.object = d.object /\ e.protect = d.protect
  <2> HIDE DEF d, n, h
  <2> QED
    BY <1>3, <1>5, <1>6, <1>7, OpenOsfhandleEffect
<1>9. Accounted(e, k) /\ SameBut(p, e, {n})
  <2> HIDE DEF p, h, d, n, e, k
  <2>1. \A x \in Handles \ {h} : e.object[x] = p.object[x]
    BY <1>2, <1>3, <1>4, <1>8 DEF Sound, Tables
  <2> QED
    BY <1>2, <1>3, <1>4, <1>8, <2>1, GiveAccounts
<1>10. Sound(g) /\ Accounted(g, k) /\ SameBut(e, g, {fd})
  <2> HIDE DEF e, n, k
  <2> QED
    BY <1>8, <1>9, Dup2Accounts
<1>11. /\ Sound(c) /\ Accounted(c, k) /\ SameBut(g, c, {n})
       /\ c.osfhnd[n] = None
  <2> HIDE DEF g, n, k
  <2> QED
    BY <1>8, <1>10, CloseAccounts
<1>12. Placeholder(fd) = c
  BY <1>6 DEF Placeholder
<1>13. os.osfhnd[n] = None
  <2> HIDE DEF p, d, n
  <2> QED
    BY <1>2, <1>4, <1>8
<1> HIDE DEF p, h, d, n, e, g, c
<1>14. SameBut(os, c, {fd})
  BY <1>2, <1>9, <1>10, <1>11, <1>13 DEF SameBut
<1> QED
  BY <1>11, <1>12, <1>14

LEMMA OpenAsAccounts ==
  ASSUME HandlesNeverEnd, NEW o, Sound(o), NEW keep, Accounted(o, keep),
         NEW fd \in Fds, NewFd(o) # None, Opened(i) \in Objects
  PROVE  LET r == OpenAs(o, fd)
         IN /\ Sound(r) /\ Accounted(r, keep) /\ SameBut(o, r, {fd})
<1> DEFINE h == NewHandle(o)
           n == NewFd(o)
           p == [o EXCEPT !.object[h] = Opened(i), !.inherit = @ \cup {h},
                          !.osfhnd[n] = h]
           g == dup2(p, n, fd)
           c == close(g, n)
<1>1. h \in Handles \ Live(o)
  BY NewHandleIsFree
<1>2. n \in Fds /\ o.osfhnd[n] = None
  BY NewFdIsFree
<1>3. /\ p \in Tables /\ p.protect = o.protect
      /\ p.osfhnd = [o.osfhnd EXCEPT ![n] = h]
      /\ p.object = [o.object EXCEPT ![h] = Opened(i)]
  <2> HIDE DEF n, h
  <2> QED
    BY <1>1, <1>2 DEF Sound, Tables
<1>4. /\ Sound(p) /\ \A x \in Handles \ {h} : p.object[x] = o.object[x]
  <2> HIDE DEF n, h, p
  <2>1. \A x \in Handles \ {h} : p.object[x] = o.object[x]
    BY <1>1, <1>3 DEF Sound, Tables
  <2> QED
    BY <1>3, <2>1, OneMoreIsSound
<1>5. Accounted(p, keep) /\ SameBut(o, p, {n})
  <2> HIDE DEF n, h, p
  <2> QED
    BY <1>1, <1>2, <1>3, <1>4, GiveAccounts
<1>6. OpenAs(o, fd) = IF n = fd THEN p ELSE c
  BY DEF OpenAs
<1>7. CASE n = fd
  BY <1>4, <1>5, <1>6, <1>7
<1>8. CASE n # fd
  <2>1. Sound(g) /\ Accounted(g, keep) /\ SameBut(p, g, {fd})
    <3> HIDE DEF p, n
    <3> QED
      BY <1>4, <1>5, Dup2Accounts
  <2>2. /\ Sound(c) /\ Accounted(c, keep) /\ SameBut(g, c, {n})
        /\ c.osfhnd[n] = None
    <3> HIDE DEF g, n
    <3> QED
      BY <1>2, <2>1, CloseAccounts
  <2> HIDE DEF n, h, p, g, c
  <2>3. SameBut(o, c, {fd})
    BY <1>2, <1>5, <2>1, <2>2 DEF SameBut
  <2> QED
    BY <1>6, <1>8, <2>2, <2>3
<1> QED
  BY <1>7, <1>8

LEMMA PutBackAccounts ==
  ASSUME HandlesNeverEnd, NEW o, Sound(o), NEW keep, Accounted(o, keep),
         NEW s, s.fd \in Fds, s.handle \in Handles \cap keep,
         s.dwFlags \in HandleFlags
  PROVE  LET r == PutBack(o, s)
         IN /\ Sound(r) /\ Accounted(r, keep) /\ SameBut(o, r, {s.fd})
<1> DEFINE u == SetHandleInformation(o, s.handle, s.dwFlags)
           n == OsfFd(u, s.handle)
           e == _open_osfhandle(u, s.handle)
           d == dup2(e, n, s.fd)
           p == SetHandleInformation(d, s.handle, Protected)
           c == IF n = s.fd THEN p ELSE close(p, n)
           r == SetHandleInformation(c, s.handle, s.dwFlags)
<1>1. /\ Sound(u) /\ Accounted(u, keep) /\ u.osfhnd = o.osfhnd
  BY SetAccounts
<1>2. /\ Sound(e) /\ Accounted(e, keep) /\ SameBut(o, e, {n})
      /\ n # None => n \in Fds /\ o.osfhnd[n] = None
  <2>1. CASE n = None
    <3>1. e = u
      BY <2>1 DEF _open_osfhandle
    <3> HIDE DEF u, e, n
    <3> QED
      BY <1>1, <2>1, <3>1 DEF SameBut
  <2>2. CASE n # None
    <3> HIDE DEF u
    <3>1. /\ Sound(e) /\ n \in Fds /\ u.osfhnd[n] = None
          /\ e.osfhnd = [u.osfhnd EXCEPT ![n] = s.handle]
          /\ e.object = u.object /\ e.protect = u.protect
      BY <1>1, <2>2, OpenOsfhandleEffect
    <3> HIDE DEF n, e
    <3>2. Accounted(e, keep) /\ SameBut(u, e, {n})
      BY <1>1, <3>1, GiveAccounts
    <3> QED
      BY <1>1, <3>1, <3>2 DEF SameBut
  <2> QED
    BY <2>1, <2>2
<1>3. Sound(d) /\ Accounted(d, keep) /\ SameBut(e, d, {s.fd})
  <2> HIDE DEF e, n
  <2> QED
    BY <1>2, Dup2Accounts
<1>4. Sound(p) /\ Accounted(p, keep) /\ p.osfhnd = d.osfhnd
  <2> HIDE DEF d
  <2> QED
    BY <1>3, SetAccounts, ProtectedIsFlags
<1>5. /\ Sound(c) /\ Accounted(c, keep)
      /\ n # s.fd => SameBut(p, c, {n})
      /\ n # s.fd /\ n \in Fds => c.osfhnd[n] = None
      /\ n = s.fd => c = p
  <2> HIDE DEF p, n
  <2> QED
    BY <1>4, CloseAccounts
<1>6. Sound(r) /\ Accounted(r, keep) /\ r.osfhnd = c.osfhnd
  <2> HIDE DEF c
  <2> QED
    BY <1>5, SetAccounts
<1>7. SameBut(o, r, {s.fd})
  <2> HIDE DEF u, n, e, d, p, c, r
  <2> QED
    <3>1. SUFFICES ASSUME NEW x \in Fds, x # s.fd
                   PROVE  r.osfhnd[x] = o.osfhnd[x]
      BY DEF SameBut
    <3>2. d.osfhnd[x] = e.osfhnd[x] /\ r.osfhnd[x] = c.osfhnd[x]
      BY <1>3, <1>6, <3>1 DEF SameBut
    <3>3. CASE x = n
      BY <1>2, <1>5, <3>1, <3>2, <3>3, HandlesAreSome
    <3>4. CASE x # n
      BY <1>2, <1>4, <1>5, <3>1, <3>2, <3>4 DEF SameBut
    <3> QED
      BY <3>3, <3>4
<1>8. r = PutBack(o, s)
  BY DEF PutBack
<1> HIDE DEF r
<1> QED
  BY <1>6, <1>7, <1>8

-----------------------------------------------------------------------------
(* Where posix_spawn is, and what it has saved.                            *)

Entries == [handle: Handles \cup {None}, dwFlags: HandleFlags,
            fd: Fds \cup {None}]

SavedHandles == {saved[k].handle : k \in 1..Len(saved)}
Targets      == {Target(actions[k]) : k \in 1..Len(actions)}

PlaceInv ==
  /\ pc \in {"add", "actions", "spawn", "restore", "over"}
  /\ actions \in Seq(SpawnActions) /\ Len(actions) <= MaxActions
  /\ saved \in Seq(Entries) /\ override \subseteq Handles /\ i \in Nat
  /\ pc = "add" => saved = <<>> /\ override = {} /\ i = 1
  /\ pc = "actions" => Len(saved) = i - 1 /\ i \in 1..Len(actions)
  /\ pc = "spawn" => i = 1
  /\ pc \in {"actions", "restore"} => override # {}
  /\ pc \in {"spawn", "restore"} =>
       Len(saved) = IF override = {} THEN 0 ELSE Len(actions)
  /\ pc = "restore" => i \in 1..Len(actions) + 1
  /\ \A k \in 1..Len(saved) :
       /\ k \in 1..Len(actions)
       /\ saved[k].fd # None =>
            saved[k].handle # None /\ saved[k].fd = Target(actions[k])
  /\ Sound(os)

OpenInv ==
  "_open_osfhandle" \notin failed =>
    /\ \A fd \in Fds \ StartFds :
         os.osfhnd[fd] # None => pc # "add" /\ fd \in Targets
    /\ pc # "over" => Accounted(os, SavedHandles \cup override)
    /\ pc = "over" =>
         \A h \in Live(os) :
           h \in SavedHandles \/ \E fd \in Fds : os.osfhnd[fd] = h

LEMMA TargetIsFd ==
  ASSUME NEW a \in SpawnActions
  PROVE  Target(a) \in Fds /\ (a.type = "dup2" => a.fd \in Fds)
BY DEF SpawnActions, Open, Close, Dup2, Target

-----------------------------------------------------------------------------
(* The steps of posix_spawn, one by one.                                   *)

ListCall ==
  \/ posix_spawn_file_actions_addopen
  \/ posix_spawn_file_actions_addclose
  \/ posix_spawn_file_actions_adddup2
  \/ posix_spawn_file_actions_destroy

LEMMA ListCallEffect ==
  ASSUME PlaceInv, ListCall
  PROVE  /\ pc = "add" /\ pc' = "add" /\ UNCHANGED spawnVars
         /\ failed \subseteq failed'
         /\ actions' \in Seq(SpawnActions) /\ Len(actions') <= MaxActions
<1>1. ASSUME NEW a \in SpawnActions, Add(a)
      PROVE  /\ pc = "add" /\ ListStep /\ failed \subseteq failed'
             /\ actions' \in Seq(SpawnActions) /\ Len(actions') <= MaxActions
  <2>1. pc = "add" /\ ListStep /\ Len(actions) < MaxActions
    BY <1>1 DEF Add
  <2>2. failed \subseteq failed'
    BY <1>1 DEF Add, GrowFails, Fail
  <2>3. CASE actions' = Append(actions, a)
    <3>1. Len(actions') = Len(actions) + 1 /\ actions' \in Seq(SpawnActions)
      BY <2>3 DEF PlaceInv
    <3> QED
      BY <2>1, <2>2, <3>1, SpawnAssumption DEF PlaceInv
  <2>4. CASE GrowFails
    BY <2>1, <2>2, <2>4 DEF GrowFails, listVars, PlaceInv
  <2> QED
    BY <1>1, <2>3, <2>4 DEF Add
<1>2. CASE NoPath
  BY <1>2 DEF NoPath, PlaceInv, ListStep, Fail
<1>3. CASE posix_spawn_file_actions_destroy
  <2>1. pc = "add" /\ ListStep /\ actions' = <<>> /\ failed' = failed
    BY <1>3 DEF posix_spawn_file_actions_destroy
  <2> QED
    BY <2>1, SpawnAssumption DEF ListStep
<1> QED
  BY <1>1, <1>2, <1>3
     DEF ListCall, posix_spawn_file_actions_addopen, ListStep,
         posix_spawn_file_actions_addclose,
         posix_spawn_file_actions_adddup2, SpawnActions

\* malloc and CreatePipe succeed: the pipe has two handles.
Piped(h, g) ==
  /\ h \in Handles \ Live(os) /\ g \in Handles \ Live(os) /\ h # g
  /\ override' = {h, g} /\ pc' = "actions" /\ actions # <<>>
  /\ os' = [os EXCEPT !.object[h] = Pipe, !.object[g] = Pipe]
  /\ UNCHANGED failed

LEMMA BeginEffect ==
  ASSUME HandlesNeverEnd, PlaceInv, Begin
  PROVE  /\ pc = "add" /\ UNCHANGED <<actions, saved, i, child, result>>
         /\ \/ \E h, g : Piped(h, g)
            \/ /\ pc' = "spawn" /\ UNCHANGED <<os, override>>
               /\ failed \subseteq failed'
               /\ actions # <<>> => failed' # {}
<1>1. pc = "add" /\ UNCHANGED <<actions, saved, i, child, result>>
  BY DEF Begin, listVars
<1>2. CASE pc' = "spawn" /\ UNCHANGED <<os, override>>
  BY <1>1, <1>2 DEF Begin, Fail
<1>3. CASE ~(pc' = "spawn" /\ UNCHANGED <<os, override>>)
  <2> DEFINE h == NewHandle(os)
             G == {x \in Handles \ {h} : os.object[x] = None}
             g == Min(G)
  <2>1. /\ actions # <<>> /\ pc' = "actions" /\ override' = {h, g}
        /\ os' = [os EXCEPT !.object[h] = Pipe, !.object[g] = Pipe]
        /\ UNCHANGED failed
    BY <1>3 DEF Begin
  <2>2. h \in Handles \ Live(os)
    BY NewHandleIsFree DEF PlaceInv
  <2>3. G # {}
    <3>1. IsFiniteSet(Live(os) \cup {h})
      BY FS_AddElement DEF PlaceInv, Sound
    <3>2. SUFFICES ASSUME G = {} PROVE FALSE
      OBVIOUS
    <3>3. Handles \subseteq Live(os) \cup {h}
      BY <3>2 DEF Live
    <3> QED
      BY <3>1, <3>3, FS_Subset DEF HandlesNeverEnd
  <2>4. g \in G
    BY <2>3, LeastNumber, SpawnAssumption
  <2>5. Piped(h, g)
    BY <2>1, <2>2, <2>4 DEF Piped, Live
  <2> QED
    BY <1>1, <2>5
<1> QED
  BY <1>2, <1>3

LEMMA PipeEffect ==
  ASSUME PlaceInv, NEW h, NEW g, Piped(h, g)
  PROVE  /\ Sound(os') /\ os'.osfhnd = os.osfhnd
         /\ os'.inherit = os.inherit /\ os'.protect = os.protect
         /\ Live(os') = Live(os) \cup {h, g}
         /\ \A x \in Live(os) : os'.object[x] = os.object[x]
<1>1. /\ os' \in Tables /\ os'.osfhnd = os.osfhnd
      /\ os'.inherit = os.inherit /\ os'.protect = os.protect
      /\ os'.object = [os.object EXCEPT ![h] = Pipe, ![g] = Pipe]
  BY ObjectsAreSome DEF PlaceInv, Piped, Sound, Tables
<1>2. Live(os') = Live(os) \cup {h, g}
  BY <1>1, ObjectsAreSome DEF PlaceInv, Piped, Sound, Tables, Live
<1>3. IsFiniteSet(Live(os) \cup {h} \cup {g})
  BY FS_AddElement DEF PlaceInv, Sound
<1>4. Live(os) \cup {h} \cup {g} = Live(os) \cup {h, g}
  OBVIOUS
<1>5. \A x \in Live(os) : os'.object[x] = os.object[x]
  BY <1>1 DEF PlaceInv, Piped, Sound, Tables, Live
<1> QED
  BY <1>1, <1>2, <1>3, <1>4, <1>5 DEF Sound

\* The element of restore, dwFlags and fds for an action on fd
Entry(fd, back) ==
  LET h == IF IsOpen(os, fd) THEN os.osfhnd[fd] ELSE None
  IN [handle |-> h,
      dwFlags |-> IF back THEN GetHandleInformation(os, h)
                          ELSE [inherit |-> FALSE, protect |-> FALSE],
      fd |-> IF back THEN fd ELSE None]

LEMMA KeepEffect ==
  ASSUME Sound(os), NEW fd \in Fds, NEW back \in BOOLEAN,
         back => IsOpen(os, fd), Keep(fd, back)
  PROVE  /\ saved' = Append(saved, Entry(fd, back))
         /\ Entry(fd, back) \in Entries
         /\ Entry(fd, back).handle =
              IF IsOpen(os, fd) THEN os.osfhnd[fd] ELSE None
         /\ Entry(fd, back).fd = IF back THEN fd ELSE None
         /\ back => /\ Entry(fd, back).handle = os.osfhnd[fd]
                    /\ os.osfhnd[fd] \in Handles
                    /\ Entry(fd, back).dwFlags =
                         GetHandleInformation(os, os.osfhnd[fd])
<1>1. saved' = Append(saved, Entry(fd, back))
  BY DEF Keep, Entry
<1>2. IsOpen(os, fd) => os.osfhnd[fd] \in Handles
  BY DEF IsOpen, Sound, Tables
<1>3. GetHandleInformation(os, os.osfhnd[fd]) \in HandleFlags
  BY DEF GetHandleInformation, HandleFlags
<1>4. [inherit |-> FALSE, protect |-> FALSE] \in HandleFlags
  BY DEF HandleFlags
<1>5. Entry(fd, back) \in Entries
  BY <1>2, <1>3, <1>4 DEF Entry, Entries
<1> QED
  BY <1>1, <1>2, <1>5 DEF Entry

\* How an action that replaces fd may begin
LEMMA ReplacedCases ==
  ASSUME NEW fd, NEW r \in Replaced(fd)
  PROVE  \/ /\ ~IsOpen(os, fd) /\ r.os = os
            /\ r.back = FALSE /\ r.failed = {}
         \/ /\ IsOpen(os, fd) /\ r.os = os
            /\ r.back = FALSE /\ r.failed = {"DuplicateHandle"}
         \/ /\ IsOpen(os, fd) /\ NewFd(os) # None /\ r.os = Placeholder(fd)
            /\ r.back = TRUE /\ r.failed = {}
         \/ /\ IsOpen(os, fd) /\ NewFd(os) = None /\ r.os = Placeholder(fd)
            /\ r.back = FALSE /\ r.failed = {"_open_osfhandle"}
BY DEF Replaced

LEMMA AllAccounted ==
  ASSUME NEW o, Sound(o)
  PROVE  Accounted(o, Handles)
BY DEF Accounted, Live, Sound, Tables

LEMMA MoreAccounted ==
  ASSUME NEW o, NEW keep, NEW more, Accounted(o, keep), keep \subseteq more
  PROVE  Accounted(o, more)
BY DEF Accounted

LEMMA FullPlaceholder ==
  ASSUME HandlesNeverEnd, Sound(os), NEW fd \in Fds, IsOpen(os, fd),
         NewFd(os) = None
  PROVE  Sound(Placeholder(fd))
<1> DEFINE p == Protect(fd)
           h == NewHandle(p)
           d == [p EXCEPT !.object[h] = Pipe]
<1>1. Sound(p) /\ p.osfhnd = os.osfhnd
  <2>1. os.osfhnd[fd] \in Handles
    BY DEF IsOpen, Sound, Tables
  <2> QED
    BY <2>1, SetEffect, ProtectedIsFlags DEF Protect
<1>2. h \in Handles
  BY <1>1, NewHandleIsFree
<1>3. /\ d \in Tables /\ d.osfhnd = p.osfhnd
      /\ d.object = [p.object EXCEPT ![h] = Pipe]
  <2> HIDE DEF p, h
  <2> QED
    BY <1>1, <1>2, ObjectsAreSome DEF Sound, Tables
<1>4. Sound(d)
  <2> HIDE DEF p, h, d
  <2>1. \A x \in Handles \ {h} : d.object[x] = p.object[x]
    BY <1>1, <1>2, <1>3 DEF Sound, Tables
  <2> QED
    BY <1>1, <1>3, <2>1, OneMoreIsSound
<1>5. NewFd(d) = None
  <2> HIDE DEF p, d
  <2> QED
    BY <1>1, <1>3, NewFdSame
<1>6. Placeholder(fd) = d
  BY <1>5 DEF Placeholder
<1> QED
  BY <1>4, <1>6

\* The tables o account for every handle, if os does, and h is kept.
Accounts(o, fd, h) ==
  \A keep : Accounted(os, keep) =>
              Accounted(o, keep \cup {h}) /\ SameBut(os, o, {fd})

LEMMA ReplacedAccounts ==
  ASSUME HandlesNeverEnd, Sound(os), NEW fd \in Fds, NEW r \in Replaced(fd)
  PROVE  /\ Sound(r.os) /\ r.back \in BOOLEAN
         /\ r.back => IsOpen(os, fd)
         /\ "_open_osfhandle" \notin r.failed =>
              Accounts(r.os, fd, Entry(fd, r.back).handle)
<1>1. CASE r.os = os /\ r.back = FALSE
  <2>1. Accounts(r.os, fd, Entry(fd, r.back).handle)
    BY <1>1, MoreAccounted DEF Accounts, SameBut
  <2> QED
    BY <1>1, <2>1
<1>2. CASE /\ IsOpen(os, fd) /\ NewFd(os) # None
           /\ r.os = Placeholder(fd) /\ r.back = TRUE
  <2>1. Entry(fd, r.back).handle = os.osfhnd[fd]
    BY <1>2 DEF Entry
  <2>2. Accounts(r.os, fd, Entry(fd, r.back).handle)
    BY <1>2, <2>1, PlaceholderAccounts DEF Accounts
  <2>3. Sound(r.os)
    BY <1>2, PlaceholderAccounts, AllAccounted
  <2> QED
    BY <1>2, <2>2, <2>3
<1>3. CASE /\ IsOpen(os, fd) /\ NewFd(os) = None /\ r.os = Placeholder(fd)
           /\ r.back = FALSE /\ r.failed = {"_open_osfhandle"}
  BY <1>3, FullPlaceholder
<1> QED
  BY <1>1, <1>2, <1>3, ReplacedCases

\* The tables after an action on fd, and what was kept of it
LEMMA ActionAccounts ==
  ASSUME HandlesNeverEnd, PlaceInv, Action
  PROVE  LET fd == Target(actions[i])
         IN /\ fd \in Fds /\ Sound(os') /\ failed \subseteq failed'
            /\ NextAction
            /\ \E back \in BOOLEAN :
                 /\ back => IsOpen(os, fd)
                 /\ Keep(fd, back)
                 /\ "_open_osfhandle" \notin failed' =>
                      Accounts(os', fd, Entry(fd, back).handle)
<1> DEFINE a == actions[i]
           fd == Target(a)
<1>1. pc = "actions" /\ a \in SpawnActions /\ i \in 1..MaxActions
  BY SpawnAssumption DEF Action, PlaceInv
<1>2. fd \in Fds /\ (a.type = "dup2" => a.fd \in Fds)
  BY <1>1, TargetIsFd
<1>3. Sound(os) /\ Opened(i) \in Objects
  BY <1>1 DEF PlaceInv, Objects
<1>4. CASE ActionOpen(a)
  <2>1. fd = a.fd
    BY <1>4 DEF ActionOpen, Target
  <2>2. PICK r \in Replaced(fd) :
          /\ Keep(fd, r.back)
          /\ \/ /\ NewFd(r.os) # None /\ os' = OpenAs(r.os, fd)
                /\ Fail(r.failed)
             \/ os' = r.os /\ Fail(r.failed \cup {"open"})
    BY <1>4, <2>1 DEF ActionOpen
  <2>3. /\ Sound(r.os) /\ r.back \in BOOLEAN
        /\ r.back => IsOpen(os, fd)
        /\ "_open_osfhandle" \notin r.failed =>
              Accounts(r.os, fd, Entry(fd, r.back).handle)
    BY <1>2, <1>3, ReplacedAccounts
  <2>4. /\ Sound(os')
        /\ "_open_osfhandle" \notin r.failed =>
              Accounts(os', fd, Entry(fd, r.back).handle)
    <3>1. CASE NewFd(r.os) # None /\ os' = OpenAs(r.os, fd)
      <4>1. Sound(os')
        BY <1>2, <1>3, <2>3, <3>1, AllAccounted, OpenAsAccounts
      <4>2. ASSUME NEW keep, Accounted(r.os, keep)
            PROVE  Accounted(os', keep) /\ SameBut(r.os, os', {fd})
        BY <1>2, <1>3, <2>3, <3>1, <4>2, OpenAsAccounts
      <4>3. ASSUME "_open_osfhandle" \notin r.failed
            PROVE  Accounts(os', fd, Entry(fd, r.back).handle)
        BY <2>3, <4>2, <4>3 DEF Accounts, SameBut
      <4> QED
        BY <4>1, <4>3
    <3>2. CASE os' = r.os
      BY <2>3, <3>2
    <3> QED
      BY <2>2, <3>1, <3>2
  <2>5. NextAction /\ failed \subseteq failed' /\ r.failed \subseteq failed'
    BY <1>4, <2>2 DEF ActionOpen, Fail
  <2> QED
    BY <1>2, <2>2, <2>3, <2>4, <2>5
<1>5. CASE ActionClose(a)
  <2>1. fd = a.fd
    BY <1>5 DEF ActionClose, Target
  <2>2. PICK r \in Replaced(fd) :
          /\ Keep(fd, r.back) /\ Fail(r.failed)
          /\ os' = close(r.os, IF r.back THEN fd ELSE None)
    BY <1>5, <2>1 DEF ActionClose
  <2>3. /\ Sound(r.os) /\ r.back \in BOOLEAN
        /\ r.back => IsOpen(os, fd)
        /\ "_open_osfhandle" \notin r.failed =>
              Accounts(r.os, fd, Entry(fd, r.back).handle)
    BY <1>2, <1>3, ReplacedAccounts
  <2>4. Sound(os')
    BY <2>2, <2>3, AllAccounted, CloseAccounts
  <2>5. ASSUME NEW keep, Accounted(r.os, keep)
        PROVE  Accounted(os', keep) /\ SameBut(r.os, os', {fd})
    <3>1. CASE r.back
      BY <2>2, <2>3, <2>5, <3>1, CloseAccounts
    <3>2. CASE ~r.back
      <4>1. os' = r.os
        BY <2>2, <3>2, CloseNothing, HandlesAreSome DEF IsOpen
      <4> QED
        BY <2>5, <4>1 DEF SameBut
    <3> QED
      BY <3>1, <3>2
  <2>6. ASSUME "_open_osfhandle" \notin r.failed
        PROVE  Accounts(os', fd, Entry(fd, r.back).handle)
    BY <2>3, <2>5, <2>6 DEF Accounts, SameBut
  <2>7. NextAction /\ failed \subseteq failed' /\ r.failed \subseteq failed'
    BY <1>5, <2>2 DEF ActionClose, Fail
  <2> QED
    BY <1>2, <2>2, <2>3, <2>4, <2>6, <2>7
<1>6. CASE ActionDup2(a)
  <2> DEFINE p == IF IsOpen(os, fd) THEN Protect(fd) ELSE os
             h == Entry(fd, IsOpen(os, fd)).handle
  <2>1. /\ fd = a.newfd /\ NextAction /\ failed \subseteq failed'
        /\ Keep(fd, IsOpen(os, fd)) /\ os' = dup2(p, a.fd, fd)
    BY <1>6 DEF ActionDup2, Target, Fail
  <2>2. ASSUME NEW keep, Accounted(os, keep)
        PROVE  /\ Sound(p) /\ Accounted(p, keep \cup {h})
               /\ SameBut(os, p, {fd})
    <3>1. Accounted(os, keep \cup {h})
      BY <2>2, MoreAccounted
    <3>2. CASE IsOpen(os, fd)
      <4>1. h = os.osfhnd[fd] /\ h \in Handles \cap (keep \cup {h})
        BY <1>2, <1>3, <3>2 DEF Entry, IsOpen, Sound, Tables
      <4>2. p = SetHandleInformation(os, h, Protected)
        BY <3>2, <4>1 DEF Protect
      <4> HIDE DEF p, h
      <4>3. /\ Sound(p) /\ Accounted(p, keep \cup {h})
            /\ p.osfhnd = os.osfhnd
        BY <1>3, <3>1, <4>1, <4>2, SetAccounts, ProtectedIsFlags
      <4> QED
        BY <4>3 DEF SameBut
    <3>3. CASE ~IsOpen(os, fd)
      BY <1>3, <3>1, <3>3 DEF SameBut
    <3> QED
      BY <3>2, <3>3
  <2> HIDE DEF p, h
  <2>3. Sound(p)
    BY <1>3, <2>2, AllAccounted
  <2>4. Sound(os')
    BY <1>2, <2>1, <2>3, AllAccounted, Dup2Accounts
  <2>5. Accounts(os', fd, h)
    <3>1. ASSUME NEW keep, Accounted(os, keep)
          PROVE  /\ Accounted(os', keep \cup {h}) /\ SameBut(os, os', {fd})
      <4>1. Accounted(p, keep \cup {h}) /\ SameBut(os, p, {fd})
        BY <2>2, <3>1
      <4>2. Accounted(os', keep \cup {h}) /\ SameBut(p, os', {fd})
        BY <1>2, <2>1, <2>3, <4>1, Dup2Accounts
      <4> QED
        BY <4>1, <4>2 DEF SameBut
    <3> QED
      BY <3>1 DEF Accounts
  <2>6. IsOpen(os, fd) \in BOOLEAN
    BY DEF IsOpen
  <2> QED
    BY <1>2, <2>1, <2>4, <2>5, <2>6 DEF h
<1> QED
  BY <1>4, <1>5, <1>6 DEF Action

LEMMA StepCases ==
  ASSUME [Next]_vars
  PROVE  \/ ListCall \/ Begin \/ Action \/ CreateChild \/ Restore \/ Return
         \/ UNCHANGED vars
BY DEF Next, ListCall, posix_spawn, posix_spawnp

LEMMA RestoreEffect ==
  ASSUME HandlesNeverEnd, PlaceInv, Restore
  PROVE  /\ pc = "restore" /\ i \in 1..Len(saved) /\ i' = i + 1
         /\ UNCHANGED <<pc, actions, override, saved, child, result>>
         /\ saved[i] \in Entries /\ failed \subseteq failed'
         /\ saved[i].fd = None => os' = os
         /\ saved[i].fd # None =>
              /\ os' = PutBack(os, saved[i])
              /\ saved[i].fd \in Fds /\ saved[i].handle \in Handles
              /\ saved[i].fd = Target(actions[i])
              /\ "_open_osfhandle" \notin failed' => NewFd(os) # None
         /\ Sound(os')
<1>1. /\ pc = "restore" /\ i' = i + 1
      /\ UNCHANGED <<pc, actions, override, saved, child, result>>
  BY DEF Restore, listVars
<1>2. i \in 1..Len(saved) /\ saved[i] \in Entries
  BY <1>1 DEF Restore, PlaceInv
<1>3. CASE saved[i].fd = None
  BY <1>1, <1>2, <1>3 DEF Restore, PlaceInv
<1>4. CASE saved[i].fd # None
  <2>1. /\ os' = PutBack(os, saved[i]) /\ failed \subseteq failed'
        /\ "_open_osfhandle" \notin failed' => NewFd(os) # None
    BY <1>4 DEF Restore, Fail
  <2>2. /\ saved[i].fd \in Fds /\ saved[i].handle \in Handles
        /\ saved[i].dwFlags \in HandleFlags
        /\ saved[i].fd = Target(actions[i])
    BY <1>2, <1>4 DEF PlaceInv, Entries
  <2>3. Sound(os')
    BY <2>1, <2>2, AllAccounted, PutBackAccounts DEF PlaceInv
  <2> QED
    BY <1>1, <1>2, <1>4, <2>1, <2>2, <2>3
<1> QED
  BY <1>3, <1>4

LEMMA ReturnEffect ==
  ASSUME PlaceInv, Return
  PROVE  /\ pc = "restore" /\ i = Len(actions) + 1 /\ pc' = "over"
         /\ override' = {}
         /\ UNCHANGED <<actions, saved, i, child, result, failed>>
         /\ Sound(os') /\ os'.osfhnd = os.osfhnd
         /\ os'.protect = os.protect
         /\ Live(os') = Live(os) \ override
         /\ \A x \in Handles \ override : os'.object[x] = os.object[x]
<1>1. /\ pc = "restore" /\ i = Len(actions) + 1 /\ pc' = "over"
      /\ override' = {}
      /\ UNCHANGED <<actions, saved, i, child, result, failed>>
  BY DEF Return, listVars, PlaceInv
<1>2. os' = [os EXCEPT !.object = [h \in Handles |->
                 IF h \in override THEN None ELSE os.object[h]]]
  BY DEF Return, PlaceInv, Sound, Tables
<1>3. /\ os' \in Tables /\ os'.osfhnd = os.osfhnd
      /\ os'.protect = os.protect
      /\ os'.object = [h \in Handles |->
                 IF h \in override THEN None ELSE os.object[h]]
  BY <1>2 DEF PlaceInv, Sound, Tables
<1>4. Live(os') = Live(os) \ override
  BY <1>3 DEF Live
<1>5. Sound(os')
  BY <1>3, <1>4, FS_Subset DEF PlaceInv, Sound
<1> QED
  BY <1>1, <1>3, <1>4, <1>5

LEMMA PlaceStep ==
  ASSUME HandlesNeverEnd, PlaceInv, [Next]_vars
  PROVE  PlaceInv'
<1>1. CASE ListCall
  BY <1>1, ListCallEffect DEF PlaceInv, spawnVars
<1>2. CASE Begin
  <2>1. pc = "add" /\ UNCHANGED <<actions, saved, i>>
    BY <1>2, BeginEffect
  <2>2. CASE \E h, g : Piped(h, g)
    <3>1. PICK h, g : Piped(h, g)
      BY <2>2
    <3>2. Sound(os')
      BY <3>1, PipeEffect
    <3>3. actions # <<>> => Len(actions) >= 1
      BY DEF PlaceInv
    <3> QED
      BY <2>1, <3>1, <3>2, <3>3 DEF PlaceInv, Piped
  <2>3. CASE pc' = "spawn" /\ UNCHANGED <<os, override>>
    BY <2>1, <2>3 DEF PlaceInv
  <2> QED
    BY <1>2, <2>2, <2>3, BeginEffect
<1>3. CASE Action
  <2> DEFINE fd == Target(actions[i])
  <2>1. fd \in Fds /\ Sound(os') /\ NextAction
    BY <1>3, ActionAccounts
  <2>2. PICK back \in BOOLEAN : (back => IsOpen(os, fd)) /\ Keep(fd, back)
    BY <1>3, ActionAccounts
  <2> HIDE DEF fd
  <2>3. PICK e \in Entries :
          /\ saved' = Append(saved, e)
          /\ e.fd # None => e.handle # None /\ e.fd = fd
    BY <2>1, <2>2, KeepEffect, HandlesAreSome DEF PlaceInv
  <2>4. /\ saved' \in Seq(Entries) /\ Len(saved') = Len(saved) + 1
        /\ \A k \in 1..Len(saved) : saved'[k] = saved[k]
        /\ saved'[Len(saved) + 1] = e
    BY <2>3 DEF PlaceInv
  <2>5. /\ pc = "actions" /\ Len(saved) = i - 1 /\ i \in 1..Len(actions)
        /\ Len(actions) \in Nat
    BY <1>3 DEF Action, PlaceInv
  <2>6. ASSUME NEW k \in 1..Len(saved')
        PROVE  /\ k \in 1..Len(actions)
               /\ saved'[k].fd # None =>
                    /\ saved'[k].handle # None
                    /\ saved'[k].fd = Target(actions[k])
    <3>1. CASE k = i
      BY <2>3, <2>4, <2>5, <3>1 DEF fd
    <3>2. CASE k # i
      <4>1. k \in 1..Len(saved)
        BY <2>4, <2>5, <3>2
      <4> QED
        BY <2>4, <4>1 DEF PlaceInv
    <3> QED
      BY <3>1, <3>2
  <2>7. /\ actions' = actions /\ override' = override
        /\ i' = (IF i = Len(actions) THEN 1 ELSE i + 1)
        /\ pc' = (IF i = Len(actions) THEN "spawn" ELSE pc)
    BY <2>1 DEF NextAction, listVars
  <2> QED
    BY <2>1, <2>4, <2>5, <2>6, <2>7 DEF PlaceInv
<1>4. CASE CreateChild
  <2>1. /\ pc = "spawn"
        /\ pc' = IF override = {} THEN "over" ELSE "restore"
        /\ UNCHANGED <<actions, os, override, saved, i>>
    BY <1>4 DEF CreateChild, listVars
  <2> QED
    BY <2>1 DEF PlaceInv
<1>5. CASE Restore
  BY <1>5, RestoreEffect DEF PlaceInv
<1>6. CASE Return
  BY <1>6, ReturnEffect DEF PlaceInv
<1>7. CASE UNCHANGED vars
  BY <1>7 DEF vars, listVars, spawnVars, PlaceInv
<1> QED
  BY <1>1, <1>2, <1>3, <1>4, <1>5, <1>6, <1>7, StepCases

LEMMA OpenStep ==
  ASSUME HandlesNeverEnd, PlaceInv, PlaceInv', OpenInv, [Next]_vars
  PROVE  OpenInv'
<1> DEFINE Others(o, T) ==
             \A fd \in Fds \ StartFds : o.osfhnd[fd] # None => fd \in T
<1>1. CASE ListCall
  BY <1>1, ListCallEffect
     DEF OpenInv, spawnVars, SavedHandles
<1> SUFFICES ASSUME ~ListCall, "_open_osfhandle" \notin failed'
             PROVE  OpenInv'
  BY <1>1 DEF OpenInv
<1>2. CASE Begin
  <2>1. /\ pc = "add" /\ UNCHANGED <<actions, saved>>
        /\ pc' \in {"actions", "spawn"}
        /\ failed \subseteq failed'
    BY <1>2, BeginEffect DEF Piped
  <2>2. /\ \A fd \in Fds \ StartFds : os.osfhnd[fd] = None
        /\ Accounted(os, SavedHandles \cup override)
        /\ SavedHandles' = SavedHandles
    BY <2>1 DEF OpenInv, SavedHandles
  <2>3. CASE \E h, g : Piped(h, g)
    <3>1. PICK h, g : Piped(h, g)
      BY <2>3
    <3>2. /\ Live(os') = Live(os) \cup override' /\ override = {}
          /\ os'.osfhnd = os.osfhnd /\ os'.protect = os.protect
      BY <2>1, <3>1, PipeEffect DEF Piped, PlaceInv
    <3>3. Accounted(os', SavedHandles \cup override')
      BY <2>2, <3>2 DEF Accounted
    <3> QED
      BY <2>1, <2>2, <3>1, <3>2, <3>3 DEF OpenInv
  <2>4. CASE UNCHANGED <<os, override>>
    BY <2>1, <2>2, <2>4 DEF OpenInv
  <2> QED
    BY <1>2, <2>3, <2>4, BeginEffect
<1>3. CASE Action
  <2> DEFINE fd == Target(actions[i])
  <2>1. PICK back \in BOOLEAN :
          /\ fd \in Fds /\ Keep(fd, back)
          /\ back => IsOpen(os, fd)
          /\ Accounts(os', fd, Entry(fd, back).handle)
          /\ NextAction /\ failed \subseteq failed'
    BY <1>3, ActionAccounts
  <2>2. /\ pc = "actions" /\ pc' \in {"actions", "spawn"}
        /\ actions' = actions /\ override' = override
        /\ fd \in Targets
    BY <1>3, <2>1 DEF Action, NextAction, listVars, Targets, PlaceInv
  <2> HIDE DEF fd
  <2> DEFINE e == Entry(fd, back)
  <2>3. saved' = Append(saved, e) /\ saved \in Seq(Entries) /\ e \in Entries
    BY <2>1, KeepEffect DEF PlaceInv
  <2>4. SavedHandles \cup {e.handle} \subseteq SavedHandles'
    <3> HIDE DEF e
    <3>1. /\ Len(saved') = Len(saved) + 1 /\ Len(saved) \in Nat
          /\ \A k \in 1..Len(saved) : saved'[k] = saved[k]
          /\ saved'[Len(saved) + 1] = e
      BY <2>3
    <3>2. 1..Len(saved) \subseteq 1..Len(saved')
          /\ Len(saved) + 1 \in 1..Len(saved')
      BY <3>1
    <3> QED
      BY <3>1, <3>2 DEF SavedHandles
  <2>5. /\ Accounted(os', SavedHandles \cup override \cup {e.handle})
        /\ SameBut(os, os', {fd})
    BY <2>1, <2>2 DEF Accounts, OpenInv
  <2> HIDE DEF e
  <2>6. Accounted(os', SavedHandles' \cup override')
    BY <2>2, <2>4, <2>5, MoreAccounted
  <2>7. Targets' = Targets
    BY <2>2 DEF Targets
  <2> QED
    BY <2>1, <2>2, <2>5, <2>6, <2>7 DEF OpenInv, SameBut
<1>4. CASE CreateChild
  <2>1. /\ pc = "spawn"
        /\ pc' = IF override = {} THEN "over" ELSE "restore"
        /\ UNCHANGED <<actions, os, override, saved, i>>
        /\ failed \subseteq failed'
    BY <1>4 DEF CreateChild, listVars, Fail
  <2>2. SavedHandles' = SavedHandles /\ Targets' = Targets
    BY <2>1 DEF SavedHandles, Targets
  <2> QED
    BY <2>1, <2>2 DEF OpenInv, Accounted
<1>5. CASE Restore
  <2>1. /\ pc = "restore" /\ i \in 1..Len(saved)
        /\ UNCHANGED <<pc, actions, override, saved>>
        /\ failed \subseteq failed'
    BY <1>5, RestoreEffect
  <2>2. /\ SavedHandles' = SavedHandles /\ Targets' = Targets
        /\ saved[i].handle \in SavedHandles
    BY <2>1 DEF SavedHandles, Targets
  <2>3. CASE saved[i].fd = None
    BY <1>5, <2>1, <2>2, <2>3, RestoreEffect DEF OpenInv
  <2>4. CASE saved[i].fd # None
    <3>1. /\ os' = PutBack(os, saved[i])
          /\ saved[i].fd \in Fds /\ saved[i].handle \in Handles
          /\ saved[i].fd = Target(actions[i])
          /\ saved[i].dwFlags \in HandleFlags
      BY <1>5, <2>4, RestoreEffect DEF Entries
    <3>2. /\ Accounted(os', SavedHandles \cup override)
          /\ SameBut(os, os', {saved[i].fd})
      BY <2>1, <2>2, <3>1, PutBackAccounts DEF OpenInv, PlaceInv
    <3>3. saved[i].fd \in Targets
      BY <2>1, <3>1 DEF PlaceInv, Targets
    <3> QED
      BY <2>1, <2>2, <3>2, <3>3 DEF OpenInv, SameBut
  <2> QED
    BY <2>3, <2>4
<1>6. CASE Return
  <2>1. /\ pc = "restore" /\ pc' = "over" /\ os'.osfhnd = os.osfhnd
        /\ UNCHANGED <<actions, saved, failed>>
        /\ Live(os') = Live(os) \ override
    BY <1>6, ReturnEffect
  <2>2. SavedHandles' = SavedHandles /\ Targets' = Targets
    BY <2>1 DEF SavedHandles, Targets
  <2> QED
    BY <2>1, <2>2 DEF OpenInv, Accounted
<1>7. CASE UNCHANGED vars
  BY <1>7 DEF vars, listVars, spawnVars, OpenInv, SavedHandles, Targets
<1> QED
  BY <1>2, <1>3, <1>4, <1>5, <1>6, <1>7, StepCases

-----------------------------------------------------------------------------
(* Tables in order: every open descriptor has a handle of its own that      *)
(* refers to something, and the protected handles are those that are kept.  *)
(* The descriptors in out may still have a handle that is kept.             *)

InOrderBut(o, kept, pipe, out) ==
  /\ \A fd \in Fds : o.osfhnd[fd] # None =>
       /\ o.osfhnd[fd] \in Live(o) \ pipe
       /\ fd \notin out => o.osfhnd[fd] \notin kept
  /\ \A fd, g \in Fds :
       o.osfhnd[fd] = o.osfhnd[g] /\ o.osfhnd[fd] # None => fd = g
  /\ o.protect = kept
  /\ kept \cup pipe \subseteq Live(o) /\ kept \cap pipe = {}

InOrder(o, kept, pipe) == InOrderBut(o, kept, pipe, {})

\* What o has, t has too, but for the handles in S.
Undisturbed(o, t, S) ==
  \A x \in Live(o) \ S :
    t.object[x] = o.object[x] /\ (x \in t.inherit <=> x \in o.inherit)

SameObject(o, t, h) == t.object[h] = o.object[h]

LEMMA UndisturbedLive ==
  ASSUME NEW o, NEW t, NEW S, Undisturbed(o, t, S)
  PROVE  Live(o) \ S \subseteq Live(t)
BY DEF Undisturbed, Live

LEMMA CloseInOrder ==
  ASSUME NEW o, Sound(o), NEW kept, NEW pipe, NEW out,
         InOrderBut(o, kept, pipe, out), NEW fd \in Fds, IsOpen(o, fd)
  PROVE  LET c == close(o, fd)
             h == o.osfhnd[fd]
         IN /\ Sound(c) /\ InOrderBut(c, kept, pipe, out \ {fd})
            /\ c.osfhnd = [o.osfhnd EXCEPT ![fd] = None]
            /\ h \in Handles
            /\ Live(c) \subseteq Live(o)
            /\ Undisturbed(o, c, {h})
            /\ h \in kept => c.object = o.object /\ c.inherit = o.inherit
<1> DEFINE c == close(o, fd)
           h == o.osfhnd[fd]
<1>1. /\ Sound(c) /\ h \in Handles
      /\ c.osfhnd = [o.osfhnd EXCEPT ![fd] = None]
      /\ c.protect = o.protect
      /\ h \in o.protect => c.object = o.object /\ c.inherit = o.inherit
      /\ h \notin o.protect =>
           /\ c.object = [o.object EXCEPT ![h] = None]
           /\ c.inherit = o.inherit \ {h}
  BY CloseEffect
<1>2. o.protect = kept
  BY DEF InOrderBut
<1> HIDE DEF c
<1>3. /\ h \in kept => Live(c) = Live(o)
      /\ h \notin kept => Live(c) = Live(o) \ {h}
  BY <1>1, <1>2 DEF Live, Sound, Tables
<1>4. Undisturbed(o, c, {h})
  BY <1>1 DEF Undisturbed, Live, Sound, Tables
<1>5. \A g \in Fds : c.osfhnd[g] = IF g = fd THEN None ELSE o.osfhnd[g]
  BY <1>1 DEF Sound, Tables
<1>6. \A g \in Fds : g # fd /\ o.osfhnd[g] # None => o.osfhnd[g] # h
  BY DEF InOrderBut
<1>7. h \notin kept => h \notin pipe
  BY DEF InOrderBut, IsOpen
<1>8. InOrderBut(c, kept, pipe, out \ {fd})
  <2>1. ASSUME NEW g \in Fds, c.osfhnd[g] # None
        PROVE  /\ c.osfhnd[g] \in Live(c) \ pipe
               /\ g \notin out \ {fd} => c.osfhnd[g] \notin kept
    <3>1. g # fd /\ c.osfhnd[g] = o.osfhnd[g] /\ o.osfhnd[g] # h
      BY <1>5, <1>6, <2>1
    <3> QED
      BY <1>3, <2>1, <3>1 DEF InOrderBut
  <2>2. ASSUME NEW g \in Fds, NEW f \in Fds,
               c.osfhnd[f] = c.osfhnd[g], c.osfhnd[f] # None
        PROVE  f = g
    BY <1>5, <2>2 DEF InOrderBut
  <2>3. kept \cup pipe \subseteq Live(c) /\ kept \cap pipe = {}
    BY <1>3, <1>7 DEF InOrderBut
  <2> QED
    BY <1>1, <1>2, <2>1, <2>2, <2>3 DEF InOrderBut
<1>9. Live(c) \subseteq Live(o)
  BY <1>3
<1> QED
  BY <1>1, <1>2, <1>4, <1>8, <1>9 DEF c

\* A free descriptor gets a handle that no descriptor has.
LEMMA GiveInOrder ==
  ASSUME NEW o, Sound(o), NEW kept, NEW pipe, NEW out,
         InOrderBut(o, kept, pipe, out),
         NEW n \in Fds, o.osfhnd[n] = None,
         NEW h \in Handles, h \notin kept \cup pipe,
         \A g \in Fds : o.osfhnd[g] # h,
         NEW t, Sound(t), t.osfhnd = [o.osfhnd EXCEPT ![n] = h],
         \A x \in Handles \ {h} : t.object[x] = o.object[x],
         t.object[h] # None, t.protect = o.protect
  PROVE  InOrderBut(t, kept, pipe, out)
<1>1. \A g \in Fds : t.osfhnd[g] = IF g = n THEN h ELSE o.osfhnd[g]
  BY DEF Sound, Tables
<1>2. Live(o) \cup {h} \subseteq Live(t)
  BY DEF Live
<1>3. ASSUME NEW g \in Fds, t.osfhnd[g] # None
      PROVE  /\ t.osfhnd[g] \in Live(t) \ pipe
             /\ g \notin out => t.osfhnd[g] \notin kept
  BY <1>1, <1>2, <1>3 DEF InOrderBut
<1>4. ASSUME NEW g \in Fds, NEW f \in Fds,
             t.osfhnd[f] = t.osfhnd[g], t.osfhnd[f] # None
      PROVE  f = g
  BY <1>1, <1>4 DEF InOrderBut
<1>5. t.protect = kept /\ kept \cup pipe \subseteq Live(t)
      /\ kept \cap pipe = {}
  BY <1>2 DEF InOrderBut
<1> QED
  BY <1>3, <1>4, <1>5 DEF InOrderBut

LEMMA Dup2InOrder ==
  ASSUME HandlesNeverEnd, NEW o, Sound(o), NEW kept, NEW pipe, NEW out,
         InOrderBut(o, kept, pipe, out), NEW fd \in Fds, NEW g \in Fds,
         IsOpen(o, fd), fd # g
  PROVE  LET d == dup2(o, fd, g)
         IN /\ Sound(d) /\ InOrderBut(d, kept, pipe, out \ {g})
            /\ SameBut(o, d, {g}) /\ IsOpen(d, g)
            /\ Object(d, g) = Object(o, fd) /\ d.osfhnd[g] \in d.inherit
            /\ Undisturbed(o, d, {o.osfhnd[g]})
            /\ o.osfhnd[g] \in kept => SameObject(o, d, o.osfhnd[g])
<1> DEFINE c == close(o, g)
           d == dup2(o, fd, g)
           h == NewHandle(c)
           v == Object(o, fd)
           hf == o.osfhnd[fd]
           hg == o.osfhnd[g]
<1>1. hf \in Live(o) /\ v = o.object[hf] /\ v # None /\ hf # hg
  BY DEF InOrderBut, IsOpen, Object, Live
<1>2. /\ Sound(c) /\ InOrderBut(c, kept, pipe, out \ {g})
      /\ c.osfhnd = [o.osfhnd EXCEPT ![g] = None]
      /\ Undisturbed(o, c, {hg}) /\ Live(c) \subseteq Live(o)
      /\ Live(o) \ {hg} \subseteq Live(c)
      /\ hg \in kept => c.object = o.object /\ c.inherit = o.inherit
  <2>1. CASE IsOpen(o, g)
    <3>1. Sound(c) /\ c.osfhnd = [o.osfhnd EXCEPT ![g] = None]
      BY <2>1, CloseInOrder
    <3>2. InOrderBut(c, kept, pipe, out \ {g})
      BY <2>1, CloseInOrder
    <3>3. Undisturbed(o, c, {hg})
      BY <2>1, CloseInOrder
    <3>4. Live(c) \subseteq Live(o)
      BY <2>1, CloseInOrder
    <3>5. Live(o) \ {hg} \subseteq Live(c)
      BY <3>3, UndisturbedLive
    <3>6. hg \in kept => c.object = o.object /\ c.inherit = o.inherit
      BY <2>1, CloseInOrder
    <3> HIDE DEF c, hg
    <3> QED
      BY <3>1, <3>2, <3>3, <3>4, <3>5, <3>6
  <2>2. CASE ~IsOpen(o, g)
    <3>1. c = o /\ hg = None
      BY <2>2, CloseNothing DEF IsOpen
    <3>2. o.osfhnd = [o.osfhnd EXCEPT ![g] = None]
      BY <3>1 DEF Sound, Tables
    <3>3. InOrderBut(o, kept, pipe, out \ {g})
      BY <3>1 DEF InOrderBut
    <3> HIDE DEF c
    <3> QED
      BY <3>1, <3>2, <3>3 DEF Undisturbed
  <2> QED
    BY <2>1, <2>2
<1>3. IsOpen(c, fd) /\ c.osfhnd[fd] = hf /\ Object(c, fd) = v
  <2> HIDE DEF c
  <2>1. c.osfhnd[fd] = hf
    BY <1>2 DEF Sound, Tables
  <2>2. c.object[hf] = o.object[hf]
    BY <1>1, <1>2 DEF Undisturbed
  <2> QED
    BY <1>1, <2>1, <2>2 DEF IsOpen, Object
<1>4. /\ Sound(d) /\ h \in Handles \ Live(c)
      /\ d.osfhnd = [c.osfhnd EXCEPT ![g] = h]
      /\ d.object = [c.object EXCEPT ![h] = v]
      /\ d.inherit = c.inherit \cup {h} /\ d.protect = c.protect
  <2> HIDE DEF v
  <2> QED
    BY <1>1, <1>3, Dup2Effect
<1> HIDE DEF c, d, h, v, hf, hg
<1>5. \A x \in Fds : /\ c.osfhnd[x] # h
                     /\ c.osfhnd[x] # None => c.osfhnd[x] \in Live(c)
  BY <1>2, <1>4, HandlesAreSome DEF InOrderBut, Live
<1>6. /\ \A x \in Handles \ {h} : d.object[x] = c.object[x]
      /\ d.object[h] = v /\ c.osfhnd[g] = None
      /\ h \notin kept \cup pipe /\ d.osfhnd[g] = h
  BY <1>2, <1>4 DEF Sound, Tables, InOrderBut
<1>7. InOrderBut(d, kept, pipe, out \ {g})
  <2> DEFINE w == out \ {g}
  <2>1. Sound(c) /\ InOrderBut(c, kept, pipe, w) /\ c.osfhnd[g] = None
    BY <1>2, <1>6
  <2>2. /\ h \in Handles /\ h \notin kept \cup pipe
        /\ \A x \in Fds : c.osfhnd[x] # h
    BY <1>4, <1>5, <1>6
  <2>3. /\ Sound(d) /\ d.osfhnd = [c.osfhnd EXCEPT ![g] = h]
        /\ \A x \in Handles \ {h} : d.object[x] = c.object[x]
        /\ d.object[h] # None /\ d.protect = c.protect
    BY <1>1, <1>4, <1>6
  <2> HIDE DEF w
  <2>4. InOrderBut(d, kept, pipe, w)
    BY <2>1, <2>2, <2>3, GiveInOrder
  <2> QED
    BY <2>4 DEF w
<1>8. SameBut(o, d, {g})
  BY <1>2, <1>4 DEF SameBut, Sound, Tables
<1>9. IsOpen(d, g) /\ Object(d, g) = v /\ d.osfhnd[g] \in d.inherit
  BY <1>4, <1>6, HandlesAreSome DEF IsOpen, Object
<1>10. \A x \in Live(c) : /\ d.object[x] = c.object[x]
                          /\ x \in d.inherit <=> x \in c.inherit
  BY <1>4, <1>6 DEF Live
<1>11. Undisturbed(o, d, {hg})
  BY <1>2, <1>10 DEF Undisturbed
<1>12. hg \in kept => SameObject(o, d, hg)
  BY <1>2, <1>10 DEF InOrderBut, SameObject
<1> QED
  BY <1>4, <1>7, <1>8, <1>9, <1>11, <1>12 DEF d, v, hg

LEMMA UndisturbedChain ==
  ASSUME NEW o, NEW t, NEW r, NEW S, NEW T,
         Undisturbed(o, t, S), Undisturbed(t, r, T)
  PROVE  Undisturbed(o, r, S \cup T)
<1>1. ASSUME NEW x \in Live(o) \ (S \cup T)
      PROVE  /\ r.object[x] = o.object[x]
             /\ x \in r.inherit <=> x \in o.inherit
  <2>1. x \in Live(t) \ T
    BY UndisturbedLive
  <2> QED
    BY <2>1 DEF Undisturbed
<1> QED
  BY <1>1 DEF Undisturbed

LEMMA ProtectInOrder ==
  ASSUME NEW o, Sound(o), NEW kept, NEW pipe, InOrder(o, kept, pipe),
         NEW fd \in Fds, IsOpen(o, fd)
  PROVE  LET h == o.osfhnd[fd]
             p == SetHandleInformation(o, h, Protected)
         IN /\ Sound(p) /\ h \in Live(o) \ (kept \cup pipe)
            /\ InOrderBut(p, kept \cup {h}, pipe, {fd})
            /\ p.osfhnd = o.osfhnd /\ p.object = o.object
            /\ Undisturbed(o, p, {h})
<1> DEFINE h == o.osfhnd[fd]
           p == SetHandleInformation(o, h, Protected)
<1>1. h \in Live(o) \ (kept \cup pipe) /\ h \in Handles
  BY DEF IsOpen, InOrder, InOrderBut, Live
<1>2. ~Protected.inherit /\ Protected.protect
  BY DEF Protected
<1>3. Sound(p) /\ p.osfhnd = o.osfhnd /\ p.object = o.object
  BY <1>1, SetEffect, ProtectedIsFlags
<1>4. p.inherit = o.inherit \ {h}
  BY <1>1, <1>2, SetEffect, ProtectedIsFlags
<1>5. p.protect = o.protect \cup {h}
  BY <1>1, <1>2, SetEffect, ProtectedIsFlags
<1> HIDE DEF p
<1>6. Live(p) = Live(o)
  BY <1>3 DEF Live
<1>7. Undisturbed(o, p, {h})
  BY <1>3, <1>4 DEF Undisturbed
<1>8. InOrderBut(p, kept \cup {h}, pipe, {fd})
  <2>1. ASSUME NEW g \in Fds, p.osfhnd[g] # None
        PROVE  /\ p.osfhnd[g] \in Live(p) \ pipe
               /\ g \notin {fd} => p.osfhnd[g] \notin kept \cup {h}
    BY <1>3, <1>6, <2>1 DEF InOrder, InOrderBut
  <2>2. p.protect = kept \cup {h}
    BY <1>5 DEF InOrder, InOrderBut
  <2> QED
    BY <1>1, <1>3, <1>6, <2>1, <2>2 DEF InOrder, InOrderBut
<1> QED
  BY <1>1, <1>3, <1>7, <1>8 DEF p

LEMMA PlaceholderInOrder ==
  ASSUME HandlesNeverEnd, Sound(os), NEW kept, NEW pipe,
         InOrder(os, kept, pipe),
         NEW fd \in Fds, IsOpen(os, fd), NewFd(os) # None
  PROVE  LET r == Placeholder(fd)
             hh == os.osfhnd[fd]
         IN /\ Sound(r) /\ InOrder(r, kept \cup {hh}, pipe)
            /\ SameBut(os, r, {fd}) /\ IsOpen(r, fd)
            /\ Undisturbed(os, r, {hh}) /\ r.object[hh] = os.object[hh]
<1> DEFINE hh == os.osfhnd[fd]
           k == kept \cup {hh}
           p == Protect(fd)
           h == NewHandle(p)
           d == [p EXCEPT !.object[h] = Pipe]
           n == NewFd(d)
           e == _open_osfhandle(d, h)
           g == dup2(e, n, fd)
           c == close(g, n)
<1>1. /\ Sound(p) /\ hh \in Live(os)
      /\ InOrderBut(p, k, pipe, {fd})
      /\ p.osfhnd = os.osfhnd /\ p.object = os.object
      /\ Undisturbed(os, p, {hh})
  BY ProtectInOrder DEF Protect
<1>2. h \in Handles \ Live(p) /\ Live(p) = Live(os)
  BY <1>1, NewHandleIsFree DEF Live
<1>3. /\ d \in Tables /\ d.osfhnd = p.osfhnd /\ d.protect = p.protect
      /\ d.inherit = p.inherit
      /\ d.object = [p.object EXCEPT ![h] = Pipe]
  <2> HIDE DEF p, h
  <2> QED
    BY <1>1, <1>2, ObjectsAreSome DEF Sound, Tables
<1>4. /\ \A x \in Handles \ {h} : d.object[x] = p.object[x]
      /\ d.object[h] = Pipe
  <2> HIDE DEF p, h, d
  <2> QED
    BY <1>1, <1>2, <1>3 DEF Sound, Tables
<1>5. Sound(d)
  <2> HIDE DEF p, h, d
  <2> QED
    BY <1>1, <1>3, <1>4, OneMoreIsSound
<1>6. n = NewFd(os) /\ n # None
  <2> HIDE DEF p, d
  <2> QED
    BY <1>1, <1>3, NewFdSame
<1>7. OsfFd(d, h) = n
  BY <1>4, ObjectsAreSome DEF OsfFd
<1>8. /\ Sound(e) /\ n \in Fds /\ p.osfhnd[n] = None
      /\ e.osfhnd = [p.osfhnd EXCEPT ![n] = h]
      /\ e.object = d.object /\ e.protect = p.protect
      /\ e.inherit = p.inherit
  <2> HIDE DEF d, n, h
  <2>1. OsfFd(d, h) # None
    BY <1>6, <1>7
  <2>2. /\ Sound(e) /\ n \in Fds /\ d.osfhnd[n] = None
        /\ e.osfhnd = [d.osfhnd EXCEPT ![n] = h]
        /\ e.object = d.object
        /\ e.inherit = d.inherit /\ e.protect = d.protect
    BY <1>2, <1>5, <1>7, <2>1, OpenOsfhandleEffect
  <2> QED
    BY <1>3, <2>2
<1>12. Placeholder(fd) = c
  BY <1>6 DEF Placeholder
<1> HIDE DEF p, h, d, n, e, g, c, k, hh
<1>9. InOrderBut(e, k, pipe, {fd})
  <2>1. \A x \in Fds : p.osfhnd[x] # h
    BY <1>1, <1>2, HandlesAreSome DEF InOrderBut
  <2>2. h \notin k \cup pipe
    BY <1>1, <1>2 DEF InOrderBut
  <2>3. /\ \A x \in Handles \ {h} : e.object[x] = p.object[x]
        /\ e.object[h] # None
    BY <1>4, <1>8, ObjectsAreSome
  <2> QED
    BY <1>1, <1>2, <1>8, <2>1, <2>2, <2>3, GiveInOrder
<1>10. /\ e.osfhnd[n] = h /\ e.osfhnd[fd] = hh /\ n # fd
       /\ IsOpen(e, n) /\ SameBut(p, e, {n})
       /\ hh \in k /\ hh # h
  <2>1. n # fd
    BY <1>1, <1>8 DEF IsOpen, hh
  <2> QED
    BY <1>1, <1>2, <1>8, <2>1, HandlesAreSome
       DEF Sound, Tables, IsOpen, SameBut, k, hh
<1>11. Undisturbed(p, e, {})
  BY <1>2, <1>4, <1>8 DEF Undisturbed, Live
<1>13. /\ Sound(g) /\ SameBut(e, g, {fd}) /\ IsOpen(g, fd)
       /\ Undisturbed(e, g, {hh})
       /\ g.object[hh] = e.object[hh]
  <2>1. /\ Sound(e) /\ InOrderBut(e, k, pipe, {fd})
        /\ n \in Fds /\ IsOpen(e, n) /\ n # fd
    BY <1>8, <1>9, <1>10
  <2>2. Sound(g) /\ SameBut(e, g, {fd}) /\ IsOpen(g, fd)
    BY <2>1, Dup2InOrder DEF g
  <2>3. Undisturbed(e, g, {e.osfhnd[fd]})
    BY <2>1, Dup2InOrder DEF g
  <2>4. e.osfhnd[fd] \in k => SameObject(e, g, e.osfhnd[fd])
    BY <2>1, Dup2InOrder DEF g
  <2> QED
    BY <1>10, <2>2, <2>3, <2>4 DEF SameObject
<1>14. InOrderBut(g, k, pipe, {})
  <2>1. InOrderBut(g, k, pipe, {fd} \ {fd})
    BY <1>8, <1>9, <1>10, Dup2InOrder DEF g
  <2> QED
    BY <2>1 DEF InOrderBut
<1>15. g.osfhnd[n] = h /\ IsOpen(g, n)
  BY <1>8, <1>10, <1>13 DEF SameBut, IsOpen
<1>16. /\ Sound(c) /\ c.osfhnd = [g.osfhnd EXCEPT ![n] = None]
       /\ Undisturbed(g, c, {h})
  BY <1>8, <1>13, <1>14, <1>15, CloseInOrder DEF c
<1>17. InOrder(c, k, pipe)
  <2>1. InOrderBut(c, k, pipe, {} \ {n})
    BY <1>8, <1>13, <1>14, <1>15, CloseInOrder DEF c
  <2> QED
    BY <2>1 DEF InOrder, InOrderBut
<1>18. SameBut(os, c, {fd}) /\ IsOpen(c, fd)
  <2>1. \A x \in Fds : c.osfhnd[x] = IF x = n THEN None ELSE g.osfhnd[x]
    BY <1>13, <1>16 DEF Sound, Tables
  <2>2. IsOpen(c, fd)
    BY <1>10, <1>13, <2>1 DEF IsOpen
  <2>3. ASSUME NEW x \in Fds, x # fd
        PROVE  c.osfhnd[x] = os.osfhnd[x]
    <3>1. CASE x = n
      BY <1>1, <1>8, <2>1, <3>1
    <3>2. CASE x # n
      BY <1>1, <1>10, <1>13, <2>1, <2>3, <3>2 DEF SameBut
    <3> QED
      BY <3>1, <3>2
  <2> QED
    BY <2>2, <2>3 DEF SameBut
<1>19. Undisturbed(os, c, {hh})
  <2>1. Undisturbed(os, c, {hh} \cup {} \cup {hh} \cup {h})
    BY <1>1, <1>11, <1>13, <1>16, UndisturbedChain
  <2> QED
    BY <1>2, <2>1 DEF Undisturbed
<1>20. c.object[hh] = os.object[hh]
  <2>1. hh \in Live(g)
    BY <1>10, <1>14 DEF InOrderBut
  <2>2. c.object[hh] = g.object[hh]
    BY <1>10, <1>16, <2>1 DEF Undisturbed
  <2>3. e.object[hh] = p.object[hh]
    BY <1>1, <1>4, <1>8, <1>10 DEF Live
  <2> QED
    BY <1>1, <1>13, <2>2, <2>3
<1> QED
  BY <1>12, <1>16, <1>17, <1>18, <1>19, <1>20 DEF k, hh

\* Closing the descriptor n, through which fd was opened, leaves fd as it is.
LEMMA DropTemporary ==
  ASSUME NEW g, Sound(g), NEW kept, NEW pipe, InOrder(g, kept, pipe),
         NEW n \in Fds, IsOpen(g, n), NEW fd \in Fds, IsOpen(g, fd), n # fd
  PROVE  LET c == close(g, n)
         IN /\ Sound(c) /\ InOrder(c, kept, pipe) /\ IsOpen(c, fd)
            /\ Object(c, fd) = Object(g, fd)
            /\ g.osfhnd[fd] \in g.inherit => c.osfhnd[fd] \in c.inherit
            /\ SameBut(g, c, {n}) /\ c.osfhnd[n] = None
            /\ Undisturbed(g, c, {g.osfhnd[n]})
<1> DEFINE c == close(g, n)
<1>1. Sound(c) /\ c.osfhnd = [g.osfhnd EXCEPT ![n] = None]
  BY CloseInOrder DEF InOrder
<1>2. Undisturbed(g, c, {g.osfhnd[n]})
  BY CloseInOrder DEF InOrder
<1>3. InOrderBut(c, kept, pipe, {} \ {n})
  BY CloseInOrder DEF InOrder
<1> HIDE DEF c
<1>4. InOrder(c, kept, pipe)
  BY <1>3 DEF InOrder, InOrderBut
<1>5. \A x \in Fds : c.osfhnd[x] = IF x = n THEN None ELSE g.osfhnd[x]
  BY <1>1 DEF Sound, Tables
<1>6. SameBut(g, c, {n}) /\ c.osfhnd[n] = None /\ IsOpen(c, fd)
      /\ c.osfhnd[fd] = g.osfhnd[fd]
  BY <1>5 DEF SameBut, IsOpen
<1>7. g.osfhnd[fd] \in Live(g) \ {g.osfhnd[n]}
  BY DEF InOrder, InOrderBut, IsOpen
<1>8. Object(c, fd) = Object(g, fd)
      /\ (g.osfhnd[fd] \in g.inherit => c.osfhnd[fd] \in c.inherit)
  BY <1>2, <1>6, <1>7 DEF Object, Undisturbed
<1> QED
  BY <1>1, <1>2, <1>4, <1>6, <1>8 DEF c

LEMMA OpenAsInOrder ==
  ASSUME HandlesNeverEnd, NEW o, Sound(o), NEW kept, NEW pipe,
         InOrder(o, kept, pipe),
         NEW fd \in Fds, NewFd(o) # None, Opened(i) \in Objects
  PROVE  LET r == OpenAs(o, fd)
         IN /\ Sound(r) /\ InOrder(r, kept, pipe)
            /\ SameBut(o, r, {fd})
            /\ IsOpen(r, fd) /\ Object(r, fd) = Opened(i)
            /\ r.osfhnd[fd] \in r.inherit
            /\ Undisturbed(o, r, {o.osfhnd[fd]})
<1> DEFINE h == NewHandle(o)
           n == NewFd(o)
           p == [o EXCEPT !.object[h] = Opened(i), !.inherit = @ \cup {h},
                          !.osfhnd[n] = h]
           g == dup2(p, n, fd)
           c == close(g, n)
           hh == o.osfhnd[fd]
<1>1. h \in Handles \ Live(o)
  BY NewHandleIsFree
<1>2. n \in Fds /\ o.osfhnd[n] = None
  BY NewFdIsFree
<1>3. /\ p \in Tables /\ p.protect = o.protect
      /\ p.osfhnd = [o.osfhnd EXCEPT ![n] = h]
      /\ p.object = [o.object EXCEPT ![h] = Opened(i)]
      /\ p.inherit = o.inherit \cup {h}
  <2> HIDE DEF n, h
  <2> QED
    BY <1>1, <1>2 DEF Sound, Tables
<1>4. /\ \A x \in Handles \ {h} : p.object[x] = o.object[x]
      /\ p.object[h] = Opened(i) /\ p.osfhnd[n] = h
      /\ \A x \in Fds : x # n => p.osfhnd[x] = o.osfhnd[x]
  <2> HIDE DEF n, h, p
  <2> QED
    BY <1>1, <1>2, <1>3 DEF Sound, Tables
<1>6. OpenAs(o, fd) = IF n = fd THEN p ELSE c
  BY DEF OpenAs
<1> HIDE DEF n, h, p, g, c, hh
<1>5. Sound(p)
  <2>1. /\ p \in Tables
        /\ \A x \in Handles \ {h} : o.object[x] = None => p.object[x] = None
    BY <1>3, <1>4
  <2> QED
    BY <2>1, OneMoreIsSound
<1>7. InOrder(p, kept, pipe)
  <2>1. \A x \in Fds : o.osfhnd[x] # h
    BY <1>1, HandlesAreSome DEF InOrder, InOrderBut
  <2>2. h \notin kept \cup pipe
    BY <1>1 DEF InOrder, InOrderBut
  <2>3. /\ Sound(o) /\ InOrderBut(o, kept, pipe, {}) /\ n \in Fds
        /\ o.osfhnd[n] = None
    BY <1>2 DEF InOrder
  <2>4. h \in Handles /\ h \notin kept \cup pipe
        /\ \A x \in Fds : o.osfhnd[x] # h
    BY <1>1, <2>1, <2>2
  <2>5. /\ Sound(p) /\ p.osfhnd = [o.osfhnd EXCEPT ![n] = h]
        /\ \A x \in Handles \ {h} : p.object[x] = o.object[x]
        /\ p.object[h] # None /\ p.protect = o.protect
    BY <1>3, <1>4, <1>5, ObjectsAreSome
  <2>6. InOrderBut(p, kept, pipe, {})
    BY <2>3, <2>4, <2>5, GiveInOrder
  <2> QED
    BY <2>6 DEF InOrder
<1>8. /\ IsOpen(p, n) /\ Object(p, n) = Opened(i)
      /\ p.osfhnd[n] \in p.inherit /\ SameBut(o, p, {n})
  BY <1>1, <1>2, <1>3, <1>4, HandlesAreSome DEF IsOpen, Object, SameBut
<1>9. Undisturbed(o, p, {})
  BY <1>1, <1>3, <1>4 DEF Undisturbed, Live
<1>10. CASE n = fd
  <2>1. Undisturbed(o, p, {o.osfhnd[fd]})
    BY <1>9 DEF Undisturbed
  <2> QED
    BY <1>5, <1>6, <1>7, <1>8, <1>10, <2>1
<1>11. CASE n # fd
  <2>1. p.osfhnd[fd] = hh
    BY <1>4, <1>11 DEF hh
  <2>2. Sound(g) /\ SameBut(p, g, {fd}) /\ IsOpen(g, fd)
    BY <1>2, <1>5, <1>7, <1>8, <1>11, Dup2InOrder DEF g, InOrder
  <2>3. Object(g, fd) = Opened(i) /\ g.osfhnd[fd] \in g.inherit
    BY <1>2, <1>5, <1>7, <1>8, <1>11, Dup2InOrder DEF g, InOrder
  <2>4. Undisturbed(p, g, {p.osfhnd[fd]})
    BY <1>2, <1>5, <1>7, <1>8, <1>11, Dup2InOrder DEF g, InOrder
  <2>5. InOrder(g, kept, pipe)
    <3>1. InOrderBut(g, kept, pipe, {} \ {fd})
      BY <1>2, <1>5, <1>7, <1>8, <1>11, Dup2InOrder DEF g, InOrder
    <3> QED
      BY <3>1 DEF InOrder, InOrderBut
  <2>6. IsOpen(g, n) /\ g.osfhnd[n] = h
    BY <1>2, <1>4, <1>8, <1>11, <2>2 DEF IsOpen, SameBut
  <2>7. Sound(c) /\ InOrder(c, kept, pipe) /\ IsOpen(c, fd)
    BY <1>2, <1>11, <2>2, <2>5, <2>6, DropTemporary DEF c
  <2>8. Object(c, fd) = Opened(i) /\ c.osfhnd[fd] \in c.inherit
    BY <1>2, <1>11, <2>2, <2>3, <2>5, <2>6, DropTemporary DEF c
  <2>9. SameBut(g, c, {n}) /\ c.osfhnd[n] = None
    BY <1>2, <1>11, <2>2, <2>5, <2>6, DropTemporary DEF c
  <2>10. Undisturbed(g, c, {g.osfhnd[n]})
    BY <1>2, <1>11, <2>2, <2>5, <2>6, DropTemporary DEF c
  <2>11. Undisturbed(o, c, {hh})
    <3>1. Undisturbed(o, c, {} \cup {hh} \cup {h})
      BY <1>9, <2>1, <2>4, <2>6, <2>10, UndisturbedChain
    <3> QED
      BY <1>1, <3>1 DEF Undisturbed
  <2>12. SameBut(o, c, {fd})
    BY <1>2, <1>8, <2>2, <2>9 DEF SameBut
  <2> QED
    BY <1>6, <1>11, <2>7, <2>8, <2>11, <2>12 DEF hh
<1> QED
  BY <1>10, <1>11

\* Of the kept handles of o, t keeps all but h.
Unkept(o, t, kept, pipe, h) ==
  /\ Sound(t) /\ InOrder(t, kept \ {h}, pipe)
  /\ t.osfhnd = o.osfhnd /\ t.object = o.object
  /\ Undisturbed(o, t, {h}) /\ h \in Handles

\* Giving a kept handle its flags back takes it from those that are kept.
\* The descriptor n may have it.
LEMMA FlagsInOrder ==
  ASSUME NEW o, Sound(o), NEW kept, NEW pipe, NEW n,
         InOrderBut(o, kept, pipe, {n}), NEW h \in kept, o.osfhnd[n] = h,
         NEW flags \in HandleFlags, ~flags.protect
  PROVE  Unkept(o, SetHandleInformation(o, h, flags), kept, pipe, h)
<1> DEFINE u == SetHandleInformation(o, h, flags)
<1>1. h \in Live(o) /\ h \in Handles
  BY DEF InOrderBut, Live
<1>2. Sound(u) /\ u.osfhnd = o.osfhnd /\ u.object = o.object
  BY <1>1, SetEffect
<1>3. u.protect = o.protect \ {h}
  BY <1>1, SetEffect
<1>4. u.inherit \in {o.inherit \cup {h}, o.inherit \ {h}}
  <2>1. CASE flags.inherit
    BY <1>1, <2>1, SetEffect
  <2>2. CASE ~flags.inherit
    BY <1>1, <2>2, SetEffect
  <2> QED
    BY <2>1, <2>2
<1> HIDE DEF u
<1>5. Undisturbed(o, u, {h})
  BY <1>2, <1>4 DEF Undisturbed
<1>6. Live(u) = Live(o)
  BY <1>2 DEF Live
<1>7. InOrder(u, kept \ {h}, pipe)
  <2>1. ASSUME NEW g \in Fds, u.osfhnd[g] # None
        PROVE  /\ u.osfhnd[g] \in Live(u) \ pipe
               /\ u.osfhnd[g] \notin kept \ {h}
    BY <1>2, <1>6, <2>1 DEF InOrderBut
  <2>2. u.protect = kept \ {h}
    BY <1>3 DEF InOrderBut
  <2>3. (kept \ {h}) \cup pipe \subseteq Live(u) /\ (kept \ {h}) \cap pipe = {}
    BY <1>6 DEF InOrderBut
  <2>4. ASSUME NEW f \in Fds, NEW g \in Fds,
               u.osfhnd[f] = u.osfhnd[g], u.osfhnd[f] # None
        PROVE  f = g
    BY <1>2, <2>4 DEF InOrderBut
  <2> QED
    BY <2>1, <2>2, <2>3, <2>4 DEF InOrder, InOrderBut
<1> QED
  BY <1>1, <1>2, <1>5, <1>7 DEF u, Unkept

LEMMA UnprotectInOrder ==
  ASSUME NEW o, Sound(o), NEW kept, NEW pipe, InOrder(o, kept, pipe),
         NEW h \in kept, NEW flags \in HandleFlags, ~flags.protect
  PROVE  Unkept(o, SetHandleInformation(o, h, flags), kept, pipe, h)
<1> DEFINE u == SetHandleInformation(o, h, flags)
<1>1. h \in Live(o) /\ h \in Handles
  BY DEF InOrder, InOrderBut, Live
<1>2. Sound(u) /\ u.osfhnd = o.osfhnd /\ u.object = o.object
  BY <1>1, SetEffect
<1>3. u.protect = o.protect \ {h}
  BY <1>1, SetEffect
<1>4. u.inherit \in {o.inherit \cup {h}, o.inherit \ {h}}
  <2>1. CASE flags.inherit
    BY <1>1, <2>1, SetEffect
  <2>2. CASE ~flags.inherit
    BY <1>1, <2>2, SetEffect
  <2> QED
    BY <2>1, <2>2
<1> HIDE DEF u
<1>5. Undisturbed(o, u, {h})
  BY <1>2, <1>4 DEF Undisturbed
<1>6. Live(u) = Live(o)
  BY <1>2 DEF Live
<1>7. InOrder(u, kept \ {h}, pipe)
  <2>1. ASSUME NEW g \in Fds, u.osfhnd[g] # None
        PROVE  /\ u.osfhnd[g] \in Live(u) \ pipe
               /\ u.osfhnd[g] \notin kept \ {h}
    BY <1>2, <1>6, <2>1 DEF InOrder, InOrderBut
  <2>2. u.protect = kept \ {h}
    BY <1>3 DEF InOrder, InOrderBut
  <2>3. (kept \ {h}) \cup pipe \subseteq Live(u) /\ (kept \ {h}) \cap pipe = {}
    BY <1>6 DEF InOrder, InOrderBut
  <2>4. ASSUME NEW f \in Fds, NEW g \in Fds,
               u.osfhnd[f] = u.osfhnd[g], u.osfhnd[f] # None
        PROVE  f = g
    BY <1>2, <2>4 DEF InOrder, InOrderBut
  <2> QED
    BY <2>1, <2>2, <2>3, <2>4 DEF InOrder, InOrderBut
<1> QED
  BY <1>1, <1>2, <1>5, <1>7 DEF u, Unkept

Reopened(o, e, n, kept, pipe, h) ==
  /\ n = NewFd(o) /\ n \in Fds /\ o.osfhnd[n] = None
  /\ Sound(e) /\ InOrder(e, kept \ {h}, pipe) /\ e.object = o.object
  /\ Undisturbed(o, e, {h}) /\ h \in Handles
  /\ IsOpen(e, n) /\ e.osfhnd[n] = h /\ SameBut(o, e, {n})

\* A kept handle that gets its flags back and a free descriptor.
LEMMA ReopenInOrder ==
  ASSUME NEW o, Sound(o), NEW kept, NEW pipe, InOrder(o, kept, pipe),
         NEW h \in kept, NEW flags \in HandleFlags, ~flags.protect,
         NewFd(o) # None
  PROVE  LET u == SetHandleInformation(o, h, flags)
         IN Reopened(o, _open_osfhandle(u, h), OsfFd(u, h), kept, pipe, h)
<1> DEFINE u == SetHandleInformation(o, h, flags)
           n == OsfFd(u, h)
           e == _open_osfhandle(u, h)
           k == kept \ {h}
<1>1. InOrderBut(o, kept, pipe, {})
  BY DEF InOrder
<1>2. /\ Sound(u) /\ InOrder(u, k, pipe) /\ u.osfhnd = o.osfhnd
      /\ u.object = o.object /\ Undisturbed(o, u, {h}) /\ h \in Handles
  BY UnprotectInOrder DEF Unkept
<1>3. o.object[h] # None
  BY <1>1 DEF InOrderBut, Live
<1> HIDE DEF u
<1>4. n = NewFd(o) /\ n # None
  BY <1>2, <1>3, NewFdSame DEF OsfFd
<1> HIDE DEF n
<1>5. /\ Sound(e) /\ n \in Fds /\ u.osfhnd[n] = None
      /\ e.osfhnd = [u.osfhnd EXCEPT ![n] = h] /\ e.object = u.object
      /\ e.inherit = u.inherit /\ e.protect = u.protect
  BY <1>2, <1>4, OpenOsfhandleEffect DEF n
<1> HIDE DEF e
<1>6. InOrder(e, k, pipe)
  <2>1. Sound(u) /\ InOrderBut(u, k, pipe, {}) /\ n \in Fds
        /\ u.osfhnd[n] = None
    BY <1>2, <1>5 DEF InOrder
  <2>2. h \in Handles /\ h \notin k \cup pipe
        /\ \A g \in Fds : u.osfhnd[g] # h
    BY <1>1, <1>2, HandlesAreSome DEF InOrderBut
  <2>3. /\ Sound(e) /\ e.osfhnd = [u.osfhnd EXCEPT ![n] = h]
        /\ \A x \in Handles \ {h} : e.object[x] = u.object[x]
        /\ e.object[h] # None /\ e.protect = u.protect
    BY <1>2, <1>3, <1>5
  <2> HIDE DEF k
  <2>4. InOrderBut(e, k, pipe, {})
    BY <2>1, <2>2, <2>3, GiveInOrder
  <2> QED
    BY <2>4 DEF InOrder
<1>7. Undisturbed(o, e, {h})
  BY <1>2, <1>5 DEF Undisturbed
<1>8. IsOpen(e, n) /\ e.osfhnd[n] = h /\ SameBut(o, e, {n})
  BY <1>2, <1>5, HandlesAreSome DEF IsOpen, SameBut, Sound, Tables
<1> QED
  BY <1>2, <1>4, <1>5, <1>6, <1>7, <1>8 DEF u, n, e, k, Reopened

LEMMA PutBackInOrder ==
  ASSUME HandlesNeverEnd, NEW o, Sound(o), NEW kept, NEW pipe,
         InOrder(o, kept, pipe), NEW s, s.fd \in Fds, s.handle \in kept,
         s.dwFlags \in HandleFlags, ~s.dwFlags.protect, NewFd(o) # None
  PROVE  LET r == PutBack(o, s)
         IN /\ Sound(r) /\ InOrder(r, kept \ {s.handle}, pipe)
            /\ SameBut(o, r, {s.fd})
            /\ IsOpen(r, s.fd) /\ Object(r, s.fd) = o.object[s.handle]
            /\ Undisturbed(o, r, {s.handle, o.osfhnd[s.fd]})
<1> DEFINE h == s.handle
           fd == s.fd
           flags == s.dwFlags
           k == kept \ {h}
           u == SetHandleInformation(o, h, flags)
           n == OsfFd(u, h)
           e == _open_osfhandle(u, h)
           d == dup2(e, n, fd)
           p == SetHandleInformation(d, h, Protected)
           c == IF n = fd THEN p ELSE close(p, n)
           r == SetHandleInformation(c, h, flags)
<1>3. PutBack(o, s) = r
  BY DEF PutBack
<1>13. Reopened(o, e, n, kept, pipe, h)
  BY ReopenInOrder
<1>4. /\ h \in kept /\ fd \in Fds /\ kept = k \cup {h}
      /\ flags \in HandleFlags /\ ~flags.protect /\ kept \ {h} = k
  OBVIOUS
<1>5. n = fd => d = e
  BY DEF dup2
<1> HIDE DEF h, fd, flags, u, n, e, d, p, c, r, k
<1>1. /\ n \in Fds /\ o.osfhnd[n] = None
      /\ Sound(e) /\ e.object = o.object
      /\ Undisturbed(o, e, {h}) /\ h \in Handles
      /\ IsOpen(e, n) /\ e.osfhnd[n] = h /\ SameBut(o, e, {n})
  BY <1>13 DEF Reopened
<1>2. InOrder(e, k, pipe)
  BY <1>4, <1>13 DEF Reopened
\* In either case d has the handle at n, and what it is to be has fd.
<1>6. /\ Sound(d) /\ IsOpen(d, n) /\ d.osfhnd[n] = h /\ IsOpen(d, fd)
      /\ SameBut(e, d, {fd}) /\ Object(d, fd) = o.object[h]
      /\ Undisturbed(e, d, {e.osfhnd[fd]})
  <2>1. Object(e, n) = o.object[h]
    BY <1>1 DEF Object
  <2>2. CASE n = fd
    BY <1>1, <1>5, <2>1, <2>2 DEF SameBut, Undisturbed
  <2>3. CASE n # fd
    <3>1. Sound(e) /\ InOrderBut(e, k, pipe, {}) /\ IsOpen(e, n)
          /\ n \in Fds /\ fd \in Fds
      BY <1>1, <1>2, <1>4 DEF InOrder
    <3>2. Sound(d) /\ SameBut(e, d, {fd}) /\ IsOpen(d, fd)
      BY <2>3, <3>1, Dup2InOrder DEF d
    <3>3. Object(d, fd) = Object(e, n)
      BY <2>3, <3>1, Dup2InOrder DEF d
    <3>4. Undisturbed(e, d, {e.osfhnd[fd]})
      BY <2>3, <3>1, Dup2InOrder DEF d
    <3>5. d.osfhnd[n] = h /\ IsOpen(d, n)
      BY <1>1, <2>3, <3>2 DEF SameBut, IsOpen
    <3> QED
      BY <2>1, <3>2, <3>3, <3>4, <3>5
  <2> QED
    BY <2>2, <2>3
<1>7. InOrder(d, k, pipe)
  <2>1. CASE n = fd
    BY <1>2, <1>5, <2>1
  <2>2. CASE n # fd
    <3>1. Sound(e) /\ InOrderBut(e, k, pipe, {}) /\ IsOpen(e, n)
          /\ n \in Fds /\ fd \in Fds
      BY <1>1, <1>2, <1>4 DEF InOrder
    <3>2. InOrderBut(d, k, pipe, {} \ {fd})
      BY <2>2, <3>1, Dup2InOrder DEF d
    <3> QED
      BY <3>2 DEF InOrder, InOrderBut
  <2> QED
    BY <2>1, <2>2
<1>8. /\ Sound(p) /\ InOrderBut(p, kept, pipe, {n})
      /\ p.osfhnd = d.osfhnd /\ p.object = d.object
      /\ Undisturbed(d, p, {h})
  <2>1. Sound(d) /\ InOrder(d, k, pipe) /\ n \in Fds /\ IsOpen(d, n)
        /\ d.osfhnd[n] = h
    BY <1>1, <1>6, <1>7
  <2>2. InOrderBut(p, k \cup {h}, pipe, {n})
    BY <2>1, ProtectInOrder DEF p
  <2>3. Sound(p) /\ p.osfhnd = d.osfhnd /\ p.object = d.object
    BY <2>1, ProtectInOrder DEF p
  <2>4. Undisturbed(d, p, {h})
    BY <2>1, ProtectInOrder DEF p
  <2> QED
    BY <1>4, <2>2, <2>3, <2>4
<1>9. CASE n = fd
  <2>1. c = p
    BY <1>9 DEF c
  <2>2. InOrderBut(c, kept, pipe, {n}) /\ Sound(c) /\ c.osfhnd[n] = h
    BY <1>6, <1>8, <2>1
  <2>12. Unkept(c, r, kept, pipe, h)
    BY <1>4, <2>2, FlagsInOrder DEF r
  <2>3. /\ Sound(r) /\ r.osfhnd = c.osfhnd /\ r.object = c.object
        /\ Undisturbed(c, r, {h})
    BY <2>12 DEF Unkept
  <2>4. InOrder(r, k, pipe)
    BY <1>4, <2>12 DEF Unkept
  <2>5. SameBut(o, r, {fd})
    BY <1>1, <1>5, <1>8, <1>9, <2>1, <2>3 DEF SameBut
  <2>6. IsOpen(r, fd) /\ Object(r, fd) = o.object[h]
    BY <1>6, <1>8, <2>1, <2>3 DEF IsOpen, Object
  <2>7. Undisturbed(o, r, {h} \cup {h} \cup {h})
    BY <1>1, <1>5, <1>8, <1>9, <2>1, <2>3, UndisturbedChain
  <2>8. Undisturbed(o, r, {h, o.osfhnd[fd]})
    BY <2>7 DEF Undisturbed
  <2> QED
    BY <1>3, <2>3, <2>4, <2>5, <2>6, <2>8 DEF h, fd, k
<1>10. CASE n # fd
  <2>1. c = close(p, n) /\ IsOpen(p, n) /\ p.osfhnd[n] = h
    BY <1>6, <1>8, <1>10 DEF c, IsOpen
  <2>2. InOrderBut(c, kept, pipe, {n} \ {n})
    BY <1>1, <1>8, <2>1, CloseInOrder
  <2>15. /\ Sound(p) /\ InOrderBut(p, kept, pipe, {n}) /\ n \in Fds
         /\ IsOpen(p, n) /\ p.osfhnd[n] = h /\ h \in kept
    BY <1>1, <1>4, <1>8, <2>1
  <2>4. h \in p.protect
    BY <2>15 DEF InOrderBut
  <2>17. /\ Sound(c) /\ c.osfhnd = [p.osfhnd EXCEPT ![n] = None]
         /\ c.object = p.object /\ c.inherit = p.inherit
    <3>1. /\ Sound(p) /\ n \in Fds /\ IsOpen(p, n) /\ p.osfhnd[n] = h
          /\ h \in p.protect
      BY <2>4, <2>15
    <3>2. Sound(c) /\ c.osfhnd = [p.osfhnd EXCEPT ![n] = None]
      BY <2>1, <3>1, CloseEffect
    <3>3. c.object = p.object /\ c.inherit = p.inherit
      BY <2>1, <3>1 DEF close, CloseHandle
    <3> QED
      BY <3>2, <3>3
  <2>3. Undisturbed(p, c, {h})
    BY <2>17 DEF Undisturbed
  <2>5. Sound(c) /\ InOrder(c, kept, pipe)
    BY <2>2, <2>17 DEF InOrder, InOrderBut
  <2>16. Unkept(c, r, kept, pipe, h)
    BY <1>4, <2>5, UnprotectInOrder DEF r
  <2>6. /\ Sound(r) /\ r.osfhnd = c.osfhnd /\ r.object = c.object
        /\ Undisturbed(c, r, {h})
    BY <2>16 DEF Unkept
  <2>7. InOrder(r, k, pipe)
    BY <1>4, <2>16 DEF Unkept
  <2>8. \A x \in Fds : r.osfhnd[x] = IF x = n THEN None ELSE d.osfhnd[x]
    BY <1>6, <1>8, <2>6, <2>17 DEF Sound, Tables
  <2>9. ASSUME NEW x \in Fds, x # fd
        PROVE  r.osfhnd[x] = o.osfhnd[x]
    <3>1. CASE x = n
      BY <1>1, <2>8, <3>1
    <3>2. CASE x # n
      BY <1>1, <1>6, <2>8, <2>9, <3>2 DEF SameBut
    <3> QED
      BY <3>1, <3>2
  <2>10. SameBut(o, r, {fd})
    BY <2>9 DEF SameBut
  <2>11. IsOpen(r, fd) /\ Object(r, fd) = o.object[h]
    BY <1>6, <1>8, <1>10, <2>6, <2>8, <2>17 DEF IsOpen, Object
  <2>12. e.osfhnd[fd] = o.osfhnd[fd]
    BY <1>1, <1>4, <1>10 DEF SameBut
  <2>13. Undisturbed(o, r, {h} \cup {o.osfhnd[fd]} \cup {h} \cup {h} \cup {h})
    BY <1>1, <1>6, <1>8, <2>3, <2>6, <2>12, UndisturbedChain
  <2>14. Undisturbed(o, r, {h, o.osfhnd[fd]})
    BY <2>13 DEF Undisturbed
  <2> QED
    BY <1>3, <2>6, <2>7, <2>10, <2>11, <2>14 DEF h, fd, k
<1> QED
  BY <1>9, <1>10

-----------------------------------------------------------------------------
(* What an action, and what putting back, leaves of the other descriptors. *)

SameHandle(o, t, h) ==
  t.object[h] = o.object[h] /\ (h \in t.inherit <=> h \in o.inherit)

Others(o, t, fd, kept) ==
  /\ SameBut(o, t, {fd})
  /\ \A g \in Fds \ {fd} : o.osfhnd[g] # None => SameHandle(o, t, o.osfhnd[g])
  /\ \A h \in kept : SameObject(o, t, h)

LEMMA OthersAreSame ==
  ASSUME NEW o, NEW t, NEW kept, NEW pipe, NEW fd \in Fds, NEW gone,
         Sound(o), InOrder(o, kept, pipe), gone \subseteq kept,
         SameBut(o, t, {fd}), Undisturbed(o, t, {o.osfhnd[fd]} \cup gone)
  PROVE  Others(o, t, fd, kept \ gone)
<1>1. ASSUME NEW g \in Fds \ {fd}, o.osfhnd[g] # None
      PROVE  SameHandle(o, t, o.osfhnd[g])
  <2>1. o.osfhnd[g] \in Live(o) \ ({o.osfhnd[fd]} \cup gone)
    BY <1>1 DEF InOrder, InOrderBut
  <2> QED
    BY <2>1 DEF Undisturbed, SameHandle
<1>2. ASSUME NEW h \in kept \ gone
      PROVE  SameObject(o, t, h)
  <2>1. h \in Live(o) \ ({o.osfhnd[fd]} \cup gone)
    BY HandlesAreSome DEF InOrder, InOrderBut, Live
  <2> QED
    BY <2>1 DEF Undisturbed, SameObject
<1> QED
  BY <1>1, <1>2 DEF Others

LEMMA OthersChain ==
  ASSUME NEW o, NEW t, NEW r, NEW fd, NEW kept, NEW more,
         Others(o, t, fd, kept), Others(t, r, fd, more), kept \subseteq more
  PROVE  Others(o, r, fd, kept)
BY DEF Others, SameBut, SameHandle, SameObject

LEMMA OthersSame ==
  ASSUME NEW o, NEW fd, NEW kept
  PROVE  Others(o, o, fd, kept)
BY DEF Others, SameBut, SameHandle, SameObject

\* The tables o have the handle of fd kept, if it is to be put back.
Begun(o, fd, back, kept, pipe) ==
  /\ Sound(o) /\ Others(os, o, fd, kept)
  /\ back => /\ IsOpen(os, fd) /\ InOrder(o, kept \cup {os.osfhnd[fd]}, pipe)
             /\ SameObject(os, o, os.osfhnd[fd])
  /\ ~back => InOrder(o, kept, pipe)

LEMMA ReplacedInOrder ==
  ASSUME HandlesNeverEnd, Sound(os), NEW kept, NEW pipe,
         InOrder(os, kept, pipe), NEW fd \in Fds, NEW r \in Replaced(fd),
         "_open_osfhandle" \notin r.failed
  PROVE  /\ Begun(r.os, fd, r.back, kept, pipe) /\ r.back \in BOOLEAN
         /\ r.back => IsOpen(os, fd) /\ IsOpen(r.os, fd)
         /\ ~r.back => r.os = os
         /\ IsOpen(os, fd) /\ ~r.back => "DuplicateHandle" \in r.failed
<1>1. CASE r.os = os /\ r.back = FALSE
  BY <1>1, OthersSame, ReplacedCases DEF Begun
<1>2. CASE /\ IsOpen(os, fd) /\ NewFd(os) # None /\ r.os = Placeholder(fd)
           /\ r.back = TRUE
  <2> DEFINE t == Placeholder(fd)
             h == os.osfhnd[fd]
  <2>1. /\ Sound(t) /\ InOrder(t, kept \cup {h}, pipe)
        /\ SameBut(os, t, {fd}) /\ IsOpen(t, fd)
        /\ Undisturbed(os, t, {h}) /\ t.object[h] = os.object[h]
    BY <1>2, PlaceholderInOrder
  <2> HIDE DEF t
  <2>2. Undisturbed(os, t, {os.osfhnd[fd]} \cup {})
    BY <2>1
  <2>3. Others(os, t, fd, kept \ {})
    BY <2>1, <2>2, OthersAreSame
  <2>4. Others(os, t, fd, kept)
    BY <2>3 DEF Others
  <2> QED
    BY <1>2, <2>1, <2>4 DEF t, Begun, SameObject
<1> QED
  BY <1>1, <1>2, ReplacedCases

\* Putting something else in the place of fd does not change that.
LEMMA BegunOn ==
  ASSUME NEW o, NEW t, NEW fd \in Fds, NEW back \in BOOLEAN, NEW kept,
         NEW pipe, NEW k, Begun(o, fd, back, kept, pipe),
         k = IF back THEN kept \cup {os.osfhnd[fd]} ELSE kept,
         Sound(t), InOrder(t, k, pipe), Others(o, t, fd, k)
  PROVE  Begun(t, fd, back, kept, pipe)
<1>1. Others(os, o, fd, kept) /\ kept \subseteq k
  BY DEF Begun
<1>2. Others(os, t, fd, kept)
  BY <1>1, OthersChain
<1>3. back => SameObject(os, t, os.osfhnd[fd])
  BY DEF Begun, Others, SameObject
<1> QED
  BY <1>2, <1>3 DEF Begun

LEMMA BegunInOrder ==
  ASSUME NEW o, NEW fd, NEW back \in BOOLEAN, NEW kept, NEW pipe, NEW k,
         Begun(o, fd, back, kept, pipe),
         k = IF back THEN kept \cup {os.osfhnd[fd]} ELSE kept
  PROVE  Sound(o) /\ InOrder(o, k, pipe)
BY DEF Begun

\* What fd is after an action, if no call has failed
Becomes(a, fd) ==
  /\ a.type \in {"open", "dup2"} =>
       IsOpen(os', fd) /\ os'.osfhnd[fd] \in os'.inherit
  /\ a.type = "open" => Object(os', fd) = Opened(i)
  /\ a.type = "close" => ~IsOpen(os', fd)
  /\ a.type = "dup2" => Object(os', fd) = Object(os, a.fd)

ActionGoes(a, kept, pipe) ==
  \E back \in BOOLEAN :
    /\ Keep(Target(a), back) /\ Begun(os', Target(a), back, kept, pipe)
    /\ IsOpen(os, Target(a)) /\ ~back => "DuplicateHandle" \in failed'
    /\ failed' = {} => Becomes(a, Target(a))

LEMMA OpenInOrder ==
  ASSUME HandlesNeverEnd, Sound(os), NEW kept, NEW pipe,
         InOrder(os, kept, pipe), NEW a \in SpawnActions, ActionOpen(a),
         "_open_osfhandle" \notin failed', Opened(i) \in Objects
  PROVE  ActionGoes(a, kept, pipe)
<1> DEFINE fd == Target(a)
<1>1. fd = a.fd /\ fd \in Fds /\ a.type = "open"
  BY TargetIsFd DEF ActionOpen, Target
<1> HIDE DEF fd
<1>2. PICK r \in Replaced(fd) :
        /\ Keep(fd, r.back)
        /\ \/ NewFd(r.os) # None /\ os' = OpenAs(r.os, fd) /\ Fail(r.failed)
           \/ os' = r.os /\ Fail(r.failed \cup {"open"})
  BY <1>1 DEF ActionOpen
<1>3. "_open_osfhandle" \notin r.failed /\ r.failed \subseteq failed'
  BY <1>2 DEF Fail
<1>4. Begun(r.os, fd, r.back, kept, pipe) /\ r.back \in BOOLEAN
  BY <1>1, <1>3, ReplacedInOrder
<1>5. IsOpen(os, fd) /\ ~r.back => "DuplicateHandle" \in failed'
  BY <1>1, <1>3, ReplacedInOrder
<1>6. CASE os' = r.os /\ Fail(r.failed \cup {"open"})
  <2>1. failed' # {}
    BY <1>6 DEF Fail
  <2> QED
    BY <1>2, <1>4, <1>5, <1>6, <2>1 DEF ActionGoes, fd
<1>7. CASE NewFd(r.os) # None /\ os' = OpenAs(r.os, fd)
  <2> DEFINE o == r.os
             t == OpenAs(o, fd)
             k == IF r.back THEN kept \cup {os.osfhnd[fd]} ELSE kept
  <2>1. Sound(o) /\ InOrder(o, k, pipe)
    BY <1>4, BegunInOrder
  <2> HIDE DEF o, k
  <2>2. /\ Sound(t) /\ InOrder(t, k, pipe) /\ SameBut(o, t, {fd})
        /\ IsOpen(t, fd) /\ Object(t, fd) = Opened(i)
        /\ t.osfhnd[fd] \in t.inherit
        /\ Undisturbed(o, t, {o.osfhnd[fd]})
    BY <1>1, <1>7, <2>1, OpenAsInOrder DEF o
  <2> HIDE DEF t
  <2>3. Undisturbed(o, t, {o.osfhnd[fd]} \cup {})
    BY <2>2
  <2>4. Others(o, t, fd, k \ {})
    BY <1>1, <2>1, <2>2, <2>3, OthersAreSame
  <2>5. Others(o, t, fd, k)
    BY <2>4 DEF Others
  <2>6. Begun(t, fd, r.back, kept, pipe)
    BY <1>1, <1>4, <2>2, <2>5, BegunOn DEF o, k
  <2>7. os' = t
    BY <1>7 DEF t, o
  <2>8. Becomes(a, fd)
    BY <1>1, <2>2, <2>7 DEF Becomes
  <2> QED
    BY <1>2, <1>4, <1>5, <2>6, <2>7, <2>8 DEF ActionGoes, fd
<1> QED
  BY <1>2, <1>6, <1>7

LEMMA ClosingInOrder ==
  ASSUME HandlesNeverEnd, Sound(os), NEW kept, NEW pipe,
         InOrder(os, kept, pipe), NEW a \in SpawnActions, ActionClose(a),
         "_open_osfhandle" \notin failed'
  PROVE  ActionGoes(a, kept, pipe)
<1> DEFINE fd == Target(a)
<1>1. fd = a.fd /\ fd \in Fds /\ a.type = "close"
  BY TargetIsFd DEF ActionClose, Target
<1> HIDE DEF fd
<1>2. PICK r \in Replaced(fd) :
        /\ Keep(fd, r.back) /\ Fail(r.failed)
        /\ os' = close(r.os, IF r.back THEN fd ELSE None)
  BY <1>1 DEF ActionClose
<1>3. "_open_osfhandle" \notin r.failed /\ r.failed \subseteq failed'
  BY <1>2 DEF Fail
<1>4. Begun(r.os, fd, r.back, kept, pipe) /\ r.back \in BOOLEAN
  BY <1>1, <1>3, ReplacedInOrder
<1>5. IsOpen(os, fd) /\ ~r.back => "DuplicateHandle" \in failed'
  BY <1>1, <1>3, ReplacedInOrder
<1>6. CASE ~r.back
  <2>1. r.os = os
    BY <1>1, <1>3, <1>6, ReplacedInOrder
  <2>2. os' = os
    BY <1>2, <1>6, <2>1, CloseNothing, HandlesAreSome DEF IsOpen
  <2>3. failed' = {} => Becomes(a, fd)
    BY <1>1, <1>5, <1>6, <2>2 DEF Becomes
  <2> QED
    BY <1>2, <1>4, <1>5, <2>1, <2>2, <2>3 DEF ActionGoes, fd
<1>7. CASE r.back
  <2> DEFINE o == r.os
             t == close(o, fd)
             k == kept \cup {os.osfhnd[fd]}
  <2>1. Sound(o) /\ InOrderBut(o, k, pipe, {})
    BY <1>4, <1>7, BegunInOrder DEF InOrder
  <2>2. IsOpen(o, fd) /\ os' = t
    BY <1>1, <1>2, <1>3, <1>7, ReplacedInOrder
  <2> HIDE DEF o, k
  <2>3. Sound(t) /\ t.osfhnd = [o.osfhnd EXCEPT ![fd] = None]
    BY <1>1, <2>1, <2>2, CloseEffect
  <2>4. InOrderBut(t, k, pipe, {} \ {fd})
    BY <1>1, <2>1, <2>2, CloseInOrder
  <2>5. Undisturbed(o, t, {o.osfhnd[fd]})
    BY <1>1, <2>1, <2>2, CloseInOrder
  <2> HIDE DEF t
  <2>6. InOrder(o, k, pipe) /\ InOrder(t, k, pipe)
    BY <2>1, <2>4 DEF InOrder, InOrderBut
  <2>7. SameBut(o, t, {fd}) /\ t.osfhnd[fd] = None
    BY <1>1, <2>1, <2>3 DEF SameBut, Sound, Tables
  <2>8. Undisturbed(o, t, {o.osfhnd[fd]} \cup {})
    BY <2>5
  <2>9. Others(o, t, fd, k \ {})
    BY <1>1, <2>1, <2>6, <2>7, <2>8, OthersAreSame
  <2>10. Others(o, t, fd, k)
    BY <2>9 DEF Others
  <2>11. Begun(t, fd, r.back, kept, pipe)
    BY <1>1, <1>4, <1>7, <2>3, <2>6, <2>10, BegunOn DEF o, k
  <2>12. Becomes(a, fd)
    BY <1>1, <2>2, <2>7 DEF Becomes, IsOpen
  <2> QED
    BY <1>2, <1>4, <1>5, <2>2, <2>11, <2>12 DEF ActionGoes, fd
<1> QED
  BY <1>4, <1>6, <1>7

LEMMA MovingInOrder ==
  ASSUME HandlesNeverEnd, Sound(os), NEW kept, NEW pipe,
         InOrder(os, kept, pipe), NEW a \in SpawnActions, ActionDup2(a),
         "dup2" \notin failed', a.fd # a.newfd
  PROVE  ActionGoes(a, kept, pipe)
<1> DEFINE g == Target(a)
           fd == a.fd
           back == IsOpen(os, g)
           hg == os.osfhnd[g]
           hf == os.osfhnd[fd]
           p == IF back THEN Protect(g) ELSE os
           d == dup2(p, fd, g)
           k == IF back THEN kept \cup {hg} ELSE kept
<1>1. /\ a.type = "dup2" /\ g = a.newfd /\ g \in Fds /\ fd \in Fds /\ fd # g
      /\ Keep(g, back) /\ os' = d
      /\ Fail(IF IsOpen(os, fd) THEN {} ELSE {"dup2"})
  BY TargetIsFd DEF ActionDup2, Target
<1>2. IsOpen(os, fd) /\ back \in BOOLEAN
  BY <1>1 DEF Fail, IsOpen
<1>3. CASE back
  <2>1. p = SetHandleInformation(os, hg, Protected) /\ k = kept \cup {hg}
    BY <1>3 DEF Protect
  <2> HIDE DEF p, k, d, back
  <2>2. Sound(p)
    BY <1>1, <1>3, <2>1, ProtectInOrder DEF back
  <2>3. InOrderBut(p, k, pipe, {g})
    BY <1>1, <1>3, <2>1, ProtectInOrder DEF back
  <2>4. p.osfhnd = os.osfhnd /\ p.object = os.object
    BY <1>1, <1>3, <2>1, ProtectInOrder DEF back
  <2>5. Undisturbed(os, p, {hg})
    BY <1>1, <1>3, <2>1, ProtectInOrder DEF back
  <2> HIDE DEF hg, hf, g, fd
  <2>6. IsOpen(p, fd) /\ Object(p, fd) = Object(os, fd) /\ p.osfhnd[g] = hg
        /\ hg \in k
    BY <1>2, <2>1, <2>4 DEF IsOpen, Object, hg
  <2>7. /\ Sound(p) /\ InOrderBut(p, k, pipe, {g}) /\ fd \in Fds /\ g \in Fds
        /\ IsOpen(p, fd) /\ fd # g
    BY <1>1, <2>2, <2>3, <2>6
  <2>8. Sound(d) /\ SameBut(p, d, {g})
    BY <2>7, Dup2InOrder DEF d
  <2>9. InOrderBut(d, k, pipe, {g} \ {g})
    BY <2>7, Dup2InOrder DEF d
  <2>10. Undisturbed(p, d, {p.osfhnd[g]})
    BY <2>7, Dup2InOrder DEF d
  <2>11. SameObject(p, d, p.osfhnd[g])
    BY <2>6, <2>7, Dup2InOrder DEF d
  <2>12. IsOpen(d, g) /\ Object(d, g) = Object(p, fd)
    BY <2>7, Dup2InOrder DEF d
  <2>13. d.osfhnd[g] \in d.inherit
    BY <2>7, Dup2InOrder DEF d
  <2>14. InOrder(d, k, pipe)
    BY <2>9 DEF InOrder, InOrderBut
  <2>15. Undisturbed(os, d, {hg} \cup {hg})
    BY <2>5, <2>6, <2>10, UndisturbedChain
  <2>16. Undisturbed(os, d, {os.osfhnd[g]} \cup {})
    BY <2>15 DEF hg
  <2>17. SameBut(os, d, {g})
    BY <2>4, <2>8 DEF SameBut
  <2>18. Others(os, d, g, kept \ {})
    BY <1>1, <2>16, <2>17, OthersAreSame
  <2>19. Others(os, d, g, kept)
    BY <2>18 DEF Others
  <2>20. SameObject(os, d, hg)
    BY <2>4, <2>6, <2>11 DEF SameObject
  <2>21. Begun(d, g, back, kept, pipe)
    BY <1>3, <2>1, <2>8, <2>14, <2>19, <2>20 DEF Begun, hg, back
  <2>22. Becomes(a, g)
    BY <1>1, <2>6, <2>12, <2>13 DEF Becomes, fd
  <2> QED
    BY <1>1, <1>2, <1>3, <2>21, <2>22 DEF ActionGoes, g, back
<1>4. CASE ~back
  <2>1. p = os /\ k = kept
    BY <1>4
  <2> HIDE DEF p, k, d, back
  <2>2. InOrderBut(os, kept, pipe, {})
    BY DEF InOrder
  <2>3. os' = dup2(os, fd, g)
    BY <1>1, <2>1 DEF d
  <2> HIDE DEF hg, hf, g, fd
  <2>4. /\ Sound(os) /\ InOrderBut(os, kept, pipe, {}) /\ fd \in Fds
        /\ g \in Fds /\ IsOpen(os, fd) /\ fd # g
    BY <1>1, <1>2, <2>2
  <2>5. Sound(os') /\ SameBut(os, os', {g})
    BY <2>3, <2>4, Dup2InOrder
  <2>6. InOrderBut(os', kept, pipe, {} \ {g})
    BY <2>3, <2>4, Dup2InOrder
  <2>7. Undisturbed(os, os', {os.osfhnd[g]})
    BY <2>3, <2>4, Dup2InOrder
  <2>8. IsOpen(os', g) /\ Object(os', g) = Object(os, fd)
    BY <2>3, <2>4, Dup2InOrder
  <2>9. os'.osfhnd[g] \in os'.inherit
    BY <2>3, <2>4, Dup2InOrder
  <2>10. InOrder(os', kept, pipe)
    BY <2>6 DEF InOrder, InOrderBut
  <2>11. Undisturbed(os, os', {os.osfhnd[g]} \cup {})
    BY <2>7
  <2>12. Others(os, os', g, kept \ {})
    BY <1>1, <2>5, <2>11, OthersAreSame
  <2>13. Others(os, os', g, kept)
    BY <2>12 DEF Others
  <2>14. Begun(os', g, back, kept, pipe)
    BY <1>4, <2>5, <2>10, <2>13 DEF Begun
  <2>15. Becomes(a, g)
    BY <1>1, <2>8, <2>9 DEF Becomes, fd
  <2> QED
    BY <1>1, <1>2, <1>4, <2>14, <2>15 DEF ActionGoes, g, back
<1> QED
  BY <1>3, <1>4

-----------------------------------------------------------------------------
(* The handles that are still to be put back are kept, each once.          *)

Pending == {k \in 1..Len(saved) :
              saved[k].fd # None /\ (pc = "restore" => k >= i)}
PendingHandles == {saved[k].handle : k \in Pending}

Orderly == NoSelfDup /\ failed \cap {"dup2", "_open_osfhandle"} = {}

PendingInv ==
  /\ InOrder(os, PendingHandles, override)
  /\ \A j, k \in Pending : saved[j].handle = saved[k].handle => j = k
  /\ \A k \in Pending : ~saved[k].dwFlags.protect

OrderInv ==
  /\ pc = "add" => InOrder(os, {}, {})
  /\ Orderly =>
       /\ pc \in {"actions", "spawn", "restore"} => PendingInv
       /\ pc = "over" => os.protect = {}

\* Each of the parent's descriptors is to be put back or has its file.
ParentInv ==
  /\ pc = "add" => \A fd \in StartFds : Object(os, fd) = fd
  /\ Orderly /\ SavedOnce /\ "DuplicateHandle" \notin failed =>
       \A fd \in StartFds :
         \/ \E k \in Pending : /\ saved[k].fd = fd /\ pc # "over"
                               /\ os.object[saved[k].handle] = fd
         \/ /\ Object(os, fd) = fd
            /\ \A k \in Pending : saved[k].fd = fd => pc = "over"

-----------------------------------------------------------------------------

LEMMA PipeInOrder ==
  ASSUME PlaceInv, InOrder(os, {}, {}), NEW h, NEW g, Piped(h, g)
  PROVE  InOrder(os', {}, override')
<1>1. /\ os'.osfhnd = os.osfhnd /\ os'.protect = os.protect
      /\ Live(os') = Live(os) \cup {h, g}
  BY PipeEffect
<1>2. /\ h \notin Live(os) /\ g \notin Live(os) /\ override' = {h, g}
  BY DEF Piped
<1> QED
  BY <1>1, <1>2 DEF InOrder, InOrderBut

\* What the current action saves
LEMMA KeepPending ==
  ASSUME PlaceInv, pc = "actions", NextAction, NEW fd \in Fds,
         NEW back \in BOOLEAN, back => IsOpen(os, fd), Keep(fd, back)
  PROVE  /\ Len(saved) = i - 1 /\ i \in 1..Len(actions)
         /\ Len(saved') = i /\ saved'[i] = Entry(fd, back)
         /\ \A k \in 1..i - 1 : saved'[k] = saved[k]
         /\ Pending \subseteq 1..i - 1
         /\ back => Pending' = Pending \cup {i}
         /\ ~back => Pending' = Pending
<1>1. Len(saved) = i - 1 /\ i \in 1..Len(actions) /\ Len(actions) \in Nat
  BY DEF PlaceInv
<1>2. saved' = Append(saved, Entry(fd, back)) /\ Entry(fd, back) \in Entries
      /\ Entry(fd, back).fd = IF back THEN fd ELSE None
  BY KeepEffect DEF PlaceInv
<1> DEFINE e == Entry(fd, back)
<1> HIDE DEF e
<1>3. /\ Len(saved') = i /\ saved'[i] = e
      /\ \A k \in 1..i - 1 : saved'[k] = saved[k]
  BY <1>1, <1>2 DEF PlaceInv, e
<1>4. pc' # "restore"
  BY DEF NextAction
<1>5. Pending = {k \in 1..i - 1 : saved[k].fd # None}
  BY <1>1 DEF Pending
<1>6. Pending' = {k \in 1..i : saved'[k].fd # None}
  BY <1>3, <1>4 DEF Pending
<1>7. 1..i = (1..i - 1) \cup {i} /\ i \notin 1..i - 1
  BY <1>1
<1>8. saved'[i].fd # None <=> back
  BY <1>2, <1>3, HandlesAreSome DEF e
<1>9. /\ back => Pending' = Pending \cup {i}
      /\ ~back => Pending' = Pending
  BY <1>3, <1>5, <1>6, <1>7, <1>8
<1> QED
  BY <1>1, <1>3, <1>5, <1>9 DEF e

LEMMA ActionPending ==
  ASSUME HandlesNeverEnd, PlaceInv, OrderInv, Action, Orderly'
  PROVE  /\ NextAction /\ PendingInv /\ ActionGoes(actions[i], PendingHandles, override)
         /\ pc = "actions" /\ failed \subseteq failed'
<1>1. /\ pc = "actions" /\ i \in 1..Len(actions) /\ actions[i] \in SpawnActions
      /\ Opened(i) \in Objects /\ Sound(os)
  BY SpawnAssumption DEF Action, PlaceInv, Objects
<1>2. NextAction /\ failed \subseteq failed'
  BY ActionAccounts
<1>3. actions' = actions
  BY <1>2 DEF NextAction, listVars
<1>4. Orderly /\ "_open_osfhandle" \notin failed' /\ "dup2" \notin failed'
  BY <1>2, <1>3 DEF Orderly, NoSelfDup
<1>5. PendingInv
  BY <1>1, <1>4 DEF OrderInv
<1>6. actions[i].type = "dup2" => actions[i].fd # actions[i].newfd
  BY <1>1, <1>4 DEF Orderly, NoSelfDup
<1>7. InOrder(os, PendingHandles, override)
  BY <1>5 DEF PendingInv
<1>8. CASE ActionOpen(actions[i])
  BY <1>1, <1>2, <1>4, <1>5, <1>7, <1>8, OpenInOrder
<1>9. CASE ActionClose(actions[i])
  BY <1>1, <1>2, <1>4, <1>5, <1>7, <1>9, ClosingInOrder
<1>10. CASE ActionDup2(actions[i])
  BY <1>1, <1>2, <1>4, <1>5, <1>6, <1>7, <1>10, MovingInOrder DEF ActionDup2
<1> QED
  BY <1>1, <1>2, <1>5, <1>8, <1>9, <1>10 DEF Action

LEMMA ActionOrder ==
  ASSUME HandlesNeverEnd, PlaceInv, OrderInv, Action, Orderly'
  PROVE  PendingInv'
<1> DEFINE fd == Target(actions[i])
<1>1. /\ NextAction /\ PendingInv /\ pc = "actions"
      /\ ActionGoes(actions[i], PendingHandles, override)
  BY ActionPending
<1>2. PICK back \in BOOLEAN :
        Keep(fd, back) /\ Begun(os', fd, back, PendingHandles, override)
  BY <1>1 DEF ActionGoes
<1>3. fd \in Fds /\ (back => IsOpen(os, fd))
  BY <1>2, ActionAccounts DEF Begun
<1> HIDE DEF fd
<1>4. /\ Len(saved) = i - 1 /\ i \in 1..Len(actions)
      /\ Len(saved') = i /\ saved'[i] = Entry(fd, back)
      /\ \A k \in 1..i - 1 : saved'[k] = saved[k]
      /\ Pending \subseteq 1..i - 1
  BY <1>1, <1>2, <1>3, KeepPending
<1>5. override' = override
  BY <1>1 DEF NextAction
<1>6. CASE ~back
  <2>1. Pending' = Pending
    BY <1>1, <1>2, <1>3, <1>6, KeepPending
  <2>2. \A k \in Pending : saved'[k] = saved[k]
    BY <1>4
  <2>3. PendingHandles' = PendingHandles
    BY <2>1, <2>2 DEF PendingHandles
  <2>4. InOrder(os', PendingHandles', override')
    BY <1>2, <1>5, <1>6, <2>3 DEF Begun
  <2> QED
    BY <1>1, <2>1, <2>2, <2>4 DEF PendingInv
<1>7. CASE back
  <2> DEFINE h == os.osfhnd[fd]
             e == Entry(fd, back)
  <2>1. Pending' = Pending \cup {i}
    BY <1>1, <1>2, <1>3, <1>7, KeepPending
  <2>2. e.handle = h /\ e.dwFlags = GetHandleInformation(os, h)
    BY <1>2, <1>3, <1>7, KeepEffect DEF PlaceInv
  <2>3. h \notin PendingHandles /\ ~e.dwFlags.protect
    <3>1. h \notin PendingHandles /\ os.protect = PendingHandles
      BY <1>1, <1>3, <1>7 DEF PendingInv, InOrder, InOrderBut, IsOpen
    <3>2. e.dwFlags.protect = (h \in os.protect)
      BY <2>2 DEF GetHandleInformation
    <3> QED
      BY <3>1, <3>2
  <2> HIDE DEF e, h
  <2>4. \A k \in Pending : saved'[k] = saved[k] /\ k # i
    BY <1>4
  <2>5. saved'[i] = e
    BY <1>4 DEF e
  <2>6. PendingHandles' = PendingHandles \cup {h}
    BY <2>1, <2>2, <2>4, <2>5 DEF PendingHandles
  <2>7. InOrder(os', PendingHandles', override')
    BY <1>2, <1>5, <1>7, <2>6 DEF Begun, h
  <2>8. ASSUME NEW j \in Pending', NEW k \in Pending',
               saved'[j].handle = saved'[k].handle
        PROVE  j = k
    <3>1. \A l \in Pending : saved'[l].handle \in PendingHandles
      BY <2>4 DEF PendingHandles
    <3> QED
      BY <1>1, <2>1, <2>2, <2>3, <2>4, <2>5, <2>8, <3>1 DEF PendingInv
  <2>9. ASSUME NEW k \in Pending'
        PROVE  ~saved'[k].dwFlags.protect
    BY <1>1, <2>1, <2>3, <2>4, <2>5, <2>9 DEF PendingInv
  <2> QED
    BY <2>7, <2>8, <2>9 DEF PendingInv
<1> QED
  BY <1>6, <1>7

\* The handle that is put back is pending no longer.
LEMMA RestorePending ==
  ASSUME HandlesNeverEnd, PlaceInv, OrderInv, Restore, Orderly'
  PROVE  /\ PendingInv /\ Pending' = Pending \ {i}
         /\ saved[i].fd = None => i \notin Pending /\ os' = os
         /\ saved[i].fd # None =>
              /\ i \in Pending /\ saved[i].handle \in PendingHandles
              /\ PendingHandles' = PendingHandles \ {saved[i].handle}
              /\ os' = PutBack(os, saved[i]) /\ NewFd(os) # None
              /\ saved[i].fd \in Fds /\ saved[i].dwFlags \in HandleFlags
              /\ ~saved[i].dwFlags.protect
<1>1. /\ pc = "restore" /\ i \in 1..Len(saved) /\ i' = i + 1
      /\ UNCHANGED <<pc, actions, override, saved>>
      /\ saved[i] \in Entries /\ failed \subseteq failed'
      /\ saved[i].fd = None => os' = os
      /\ saved[i].fd # None =>
           /\ os' = PutBack(os, saved[i]) /\ saved[i].fd \in Fds
           /\ "_open_osfhandle" \notin failed' => NewFd(os) # None
  BY RestoreEffect
<1>2. Orderly /\ "_open_osfhandle" \notin failed'
  BY <1>1 DEF Orderly, NoSelfDup
<1>3. PendingInv
  BY <1>1, <1>2 DEF OrderInv
<1>4. Pending' = Pending \ {i}
  BY <1>1 DEF Pending, PlaceInv
<1>5. saved[i].fd = None => i \notin Pending
  BY DEF Pending
<1>6. ASSUME saved[i].fd # None
      PROVE  /\ i \in Pending /\ saved[i].handle \in PendingHandles
             /\ PendingHandles' = PendingHandles \ {saved[i].handle}
  <2>1. i \in Pending
    BY <1>1, <1>6 DEF Pending
  <2> QED
    BY <1>1, <1>3, <1>4, <2>1 DEF PendingHandles, PendingInv
<1>7. saved[i].fd # None =>
        saved[i].dwFlags \in HandleFlags /\ ~saved[i].dwFlags.protect
  BY <1>1, <1>3, <1>6 DEF PendingInv, Entries
<1> QED
  BY <1>1, <1>2, <1>3, <1>4, <1>5, <1>6, <1>7

LEMMA RestoreOrder ==
  ASSUME HandlesNeverEnd, PlaceInv, OrderInv, Restore, Orderly'
  PROVE  PendingInv'
<1>1. /\ PendingInv /\ Pending' = Pending \ {i}
      /\ saved[i].fd = None => i \notin Pending /\ os' = os
  BY RestorePending
<1>2. UNCHANGED <<saved, override>>
  BY RestoreEffect
<1>3. InOrder(os', PendingHandles', override)
  <2>1. CASE saved[i].fd = None
    <3>1. PendingHandles' = PendingHandles
      BY <1>1, <1>2, <2>1 DEF PendingHandles
    <3> QED
      BY <1>1, <2>1, <3>1 DEF PendingInv
  <2>2. CASE saved[i].fd # None
    <3> DEFINE s == saved[i]
    <3>1. /\ s.handle \in PendingHandles /\ os' = PutBack(os, s)
          /\ PendingHandles' = PendingHandles \ {s.handle}
          /\ NewFd(os) # None /\ s.fd \in Fds
          /\ s.dwFlags \in HandleFlags /\ ~s.dwFlags.protect
      BY <2>2, RestorePending
    <3>2. Sound(os) /\ InOrder(os, PendingHandles, override)
      BY <1>1 DEF PendingInv, PlaceInv
    <3> HIDE DEF s
    <3> QED
      BY <3>1, <3>2, PutBackInOrder
  <2> QED
    BY <2>1, <2>2
<1> QED
  BY <1>1, <1>2, <1>3 DEF PendingInv

LEMMA OrderStep ==
  ASSUME HandlesNeverEnd, PlaceInv, OrderInv, [Next]_vars
  PROVE  OrderInv'
<1>1. CASE ListCall
  BY <1>1, ListCallEffect DEF OrderInv, spawnVars
<1>2. CASE Begin
  <2>1. pc = "add" /\ UNCHANGED <<actions, saved, i>> /\ saved = <<>>
        /\ InOrder(os, {}, {})
    BY <1>2, BeginEffect DEF PlaceInv, OrderInv
  <2>2. Pending' = {} /\ PendingHandles' = {}
    BY <2>1 DEF Pending, PendingHandles
  <2>3. InOrder(os', {}, override') /\ pc' \in {"actions", "spawn"}
    <3>1. CASE \E h, g : Piped(h, g)
      BY <2>1, <3>1, PipeInOrder DEF Piped
    <3>2. CASE pc' = "spawn" /\ UNCHANGED <<os, override>>
      BY <2>1, <3>2 DEF PlaceInv
    <3> QED
      BY <1>2, <3>1, <3>2, BeginEffect
  <2> QED
    BY <2>2, <2>3 DEF OrderInv, PendingInv
<1>3. CASE Action
  <2>1. pc' \in {"actions", "spawn"}
    BY <1>3, ActionAccounts DEF NextAction, Action
  <2> QED
    BY <1>3, <2>1, ActionOrder DEF OrderInv
<1>4. CASE CreateChild
  <2>1. /\ pc = "spawn" /\ i = 1 /\ failed \subseteq failed'
        /\ pc' = IF override = {} THEN "over" ELSE "restore"
        /\ UNCHANGED <<actions, os, override, saved, i>>
    BY <1>4 DEF CreateChild, listVars, PlaceInv, Fail
  <2>2. Orderly' => Orderly
    BY <2>1 DEF Orderly, NoSelfDup
  <2>3. CASE override = {}
    <3>1. Pending = {}
      BY <2>1, <2>3 DEF PlaceInv, Pending
    <3>2. PendingHandles = {}
      BY <3>1 DEF PendingHandles
    <3>3. Orderly => os.protect = {}
      BY <2>1, <3>2 DEF OrderInv, PendingInv, InOrder, InOrderBut
    <3> QED
      BY <2>1, <2>2, <2>3, <3>3 DEF OrderInv
  <2>4. CASE override # {}
    <3>1. Pending' = Pending
      BY <2>1, <2>4 DEF Pending
    <3>2. PendingHandles' = PendingHandles
      BY <2>1, <3>1 DEF PendingHandles
    <3> QED
      BY <2>1, <2>2, <2>4, <3>1, <3>2 DEF OrderInv, PendingInv
  <2> QED
    BY <2>3, <2>4
<1>5. CASE Restore
  <2>1. pc' = "restore"
    BY <1>5, RestoreEffect
  <2> QED
    BY <1>5, <2>1, RestoreOrder DEF OrderInv
<1>6. CASE Return
  <2>1. /\ pc = "restore" /\ i = Len(actions) + 1 /\ pc' = "over"
        /\ UNCHANGED <<actions, failed>> /\ os'.protect = os.protect
    BY <1>6, ReturnEffect
  <2>2. Pending = {}
    BY <2>1 DEF Pending, PlaceInv
  <2>3. PendingHandles = {}
    BY <2>2 DEF PendingHandles
  <2> QED
    BY <2>1, <2>3
       DEF OrderInv, PendingInv, InOrder, InOrderBut, Orderly, NoSelfDup
<1>7. CASE UNCHANGED vars
  <2>1. Pending' = Pending /\ PendingHandles' = PendingHandles
    BY <1>7 DEF vars, spawnVars, Pending, PendingHandles
  <2> QED
    BY <1>7, <2>1
       DEF vars, listVars, spawnVars, OrderInv, PendingInv, Orderly, NoSelfDup
<1> QED
  BY <1>1, <1>2, <1>3, <1>4, <1>5, <1>6, <1>7, StepCases

-----------------------------------------------------------------------------
(* The descriptors of the parent.                                          *)

LEMMA OtherObject ==
  ASSUME NEW o, NEW t, NEW fd, NEW kept, Others(o, t, fd, kept),
         NEW g \in Fds \ {fd}
  PROVE  Object(t, g) = Object(o, g)
BY DEF Others, SameBut, SameHandle, Object, IsOpen

LEMMA OpenIfObject ==
  ASSUME NEW o, NEW fd \in Fds, Object(o, fd) # None
  PROVE  IsOpen(o, fd) /\ Object(o, fd) = o.object[o.osfhnd[fd]]
BY DEF Object

Saved == Orderly /\ SavedOnce /\ "DuplicateHandle" \notin failed

Comes(fd) == \E k \in Pending : /\ saved[k].fd = fd /\ pc # "over"
                                /\ os.object[saved[k].handle] = fd
Is(fd) == /\ Object(os, fd) = fd
          /\ \A k \in Pending : saved[k].fd = fd => pc = "over"

LEMMA StartFdIsFd ==
  ASSUME NEW fd \in StartFds
  PROVE  fd \in Fds /\ fd # None
BY SpawnAssumption DEF None

LEMMA SavedBefore ==
  ASSUME NEW n \in Nat, Len(saved) <= Len(saved'), Len(saved) \in Nat,
         Len(saved') \in Nat, \A k \in 1..Len(saved) : saved'[k] = saved[k],
         failed \subseteq failed', actions' = actions, Saved'
  PROVE  Saved
<1>1. Orderly
  BY DEF Saved, Orderly, NoSelfDup
<1>2. SavedOnce
  BY DEF Saved, SavedOnce
<1> QED
  BY <1>1, <1>2 DEF Saved

LEMMA ActionParent ==
  ASSUME HandlesNeverEnd, PlaceInv, OrderInv, ParentInv, Action, Saved',
         NEW fd \in StartFds
  PROVE  Comes(fd)' \/ Is(fd)'
<1> DEFINE g == Target(actions[i])
<1>1. /\ NextAction /\ PendingInv /\ pc = "actions" /\ failed \subseteq failed'
      /\ ActionGoes(actions[i], PendingHandles, override)
  BY ActionPending DEF Saved
<1>2. PICK back \in BOOLEAN :
        /\ Keep(g, back) /\ Begun(os', g, back, PendingHandles, override)
        /\ IsOpen(os, g) /\ ~back => "DuplicateHandle" \in failed'
  BY <1>1 DEF ActionGoes
<1>3. g \in Fds /\ (back => IsOpen(os, g)) /\ fd \in Fds /\ fd # None
  BY <1>2, ActionAccounts, StartFdIsFd DEF Begun
<1> HIDE DEF g
<1>4. /\ Len(saved) = i - 1 /\ i \in 1..Len(actions) /\ Len(actions) \in Nat
      /\ Len(saved') = i /\ saved'[i] = Entry(g, back)
      /\ \A k \in 1..i - 1 : saved'[k] = saved[k]
      /\ Pending \subseteq 1..i - 1
  BY <1>1, <1>2, <1>3, KeepPending DEF PlaceInv
<1>5. /\ back => Pending' = Pending \cup {i}
      /\ ~back => Pending' = Pending
  BY <1>1, <1>2, <1>3, KeepPending
<1>6. IsOpen(os, g) => back
  BY <1>2 DEF Saved
<1>7. Saved
  BY <1>1, <1>4, SavedBefore DEF NextAction, listVars
<1>8. /\ \A k \in Pending : saved'[k] = saved[k] /\ k \in Pending'
      /\ pc' # "over"
  BY <1>1, <1>4, <1>5 DEF NextAction
<1>9. Others(os, os', g, PendingHandles)
  BY <1>2 DEF Begun
<1>10. CASE Comes(fd)
  <2>1. PICK k \in Pending : saved[k].fd = fd
                             /\ os.object[saved[k].handle] = fd
    BY <1>10 DEF Comes
  <2>2. SameObject(os, os', saved[k].handle)
    BY <1>9 DEF Others, PendingHandles
  <2> QED
    BY <1>8, <2>1, <2>2 DEF Comes, SameObject
<1>11. CASE Is(fd) /\ g # fd
  <2>1. Object(os', fd) = fd
    BY <1>3, <1>9, <1>11, OtherObject DEF Is
  <2>2. back => saved'[i].fd = g
    BY <1>4 DEF Entry
  <2>3. ASSUME NEW k \in Pending'
        PROVE  saved'[k].fd # fd
    BY <1>1, <1>5, <1>8, <1>11, <2>2, <2>3 DEF Is
  <2> QED
    BY <2>1, <2>3 DEF Is
<1>12. CASE Is(fd) /\ g = fd
  <2>1. IsOpen(os, g) /\ os.object[os.osfhnd[g]] = fd
    BY <1>3, <1>12, OpenIfObject DEF Is
  <2>2. back /\ saved'[i].fd = fd /\ saved'[i].handle = os.osfhnd[g]
    BY <1>4, <1>6, <1>12, <2>1 DEF Entry
  <2>3. SameObject(os, os', os.osfhnd[g]) /\ i \in Pending'
    BY <1>2, <1>5, <2>2 DEF Begun
  <2> QED
    BY <1>8, <2>1, <2>2, <2>3 DEF Comes, SameObject
<1> QED
  BY <1>7, <1>10, <1>11, <1>12 DEF ParentInv, Comes, Is, Saved

LEMMA PutBackOthers ==
  ASSUME HandlesNeverEnd, NEW o, Sound(o), NEW kept, NEW pipe,
         InOrder(o, kept, pipe), NEW s, s.fd \in Fds, s.handle \in kept,
         s.dwFlags \in HandleFlags, ~s.dwFlags.protect, NewFd(o) # None
  PROVE  /\ Others(o, PutBack(o, s), s.fd, kept \ {s.handle})
         /\ Object(PutBack(o, s), s.fd) = o.object[s.handle]
<1> DEFINE r == PutBack(o, s)
<1>1. /\ SameBut(o, r, {s.fd}) /\ Object(r, s.fd) = o.object[s.handle]
      /\ Undisturbed(o, r, {s.handle, o.osfhnd[s.fd]})
  BY PutBackInOrder
<1> HIDE DEF r
<1>2. Undisturbed(o, r, {o.osfhnd[s.fd]} \cup {s.handle})
  <2>1. {o.osfhnd[s.fd]} \cup {s.handle} = {s.handle, o.osfhnd[s.fd]}
    OBVIOUS
  <2> QED
    BY <1>1, <2>1
<1>3. Others(o, r, s.fd, kept \ {s.handle})
  BY <1>1, <1>2, OthersAreSame
<1> QED
  BY <1>1, <1>3 DEF r

LEMMA RestoreParent ==
  ASSUME HandlesNeverEnd, PlaceInv, OrderInv, ParentInv, Restore, Saved',
         NEW fd \in StartFds
  PROVE  Comes(fd)' \/ Is(fd)'
<1>1. /\ PendingInv /\ Pending' = Pending \ {i}
      /\ saved[i].fd = None => i \notin Pending /\ os' = os
  BY RestorePending DEF Saved
<1>2. /\ UNCHANGED <<pc, actions, saved>> /\ pc = "restore"
      /\ failed \subseteq failed'
  BY RestoreEffect
<1>3. Saved
  BY <1>2 DEF Saved, Orderly, NoSelfDup, SavedOnce
<1>4. Comes(fd) \/ Is(fd)
  BY <1>3 DEF ParentInv, Comes, Is, Saved
<1>5. CASE saved[i].fd = None
  BY <1>1, <1>2, <1>4, <1>5 DEF Comes, Is
<1>6. CASE saved[i].fd # None
  <2> DEFINE s == saved[i]
             K == PendingHandles \ {s.handle}
  <2>1. /\ i \in Pending /\ s.handle \in PendingHandles
        /\ os' = PutBack(os, s) /\ NewFd(os) # None
        /\ s.fd \in Fds /\ s.dwFlags \in HandleFlags /\ ~s.dwFlags.protect
    BY <1>6, RestorePending DEF Saved
  <2>2. Sound(os) /\ InOrder(os, PendingHandles, override)
    BY <1>1 DEF PendingInv, PlaceInv
  <2>3. Others(os, os', s.fd, K) /\ Object(os', s.fd) = os.object[s.handle]
    <3> HIDE DEF s
    <3> QED
      BY <2>1, <2>2, PutBackOthers
  <2>4. \A k \in Pending : saved[k].fd = s.fd => k = i
    BY <1>3, <2>1 DEF Saved, SavedOnce, Pending
  <2>5. fd \in Fds
    BY StartFdIsFd
  <2>6. CASE Is(fd)
    <3>1. s.fd # fd
      BY <1>2, <2>1, <2>6 DEF Is
    <3>2. Object(os', fd) = fd
      <4> HIDE DEF s, K
      <4> QED
        BY <2>3, <2>5, <2>6, <3>1, OtherObject DEF Is
    <3> QED
      BY <1>1, <1>2, <2>6, <3>2 DEF Is
  <2>7. CASE Comes(fd) /\ s.fd = fd
    <3>1. PICK k \in Pending : saved[k].fd = fd
                               /\ os.object[saved[k].handle] = fd
      BY <2>7 DEF Comes
    <3>2. k = i
      BY <2>4, <2>7, <3>1
    <3>3. Object(os', fd) = fd
      BY <2>3, <2>7, <3>1, <3>2
    <3>4. \A l \in Pending' : saved'[l].fd # fd
      BY <1>1, <1>2, <2>4, <2>7
    <3> QED
      BY <3>3, <3>4 DEF Is
  <2>8. CASE Comes(fd) /\ s.fd # fd
    <3>1. PICK k \in Pending : saved[k].fd = fd
                               /\ os.object[saved[k].handle] = fd
      BY <2>8 DEF Comes
    <3>2. k \in Pending' /\ k # i
      BY <1>1, <2>8, <3>1
    <3>3. saved[k].handle \in K
      BY <1>1, <2>1, <3>2 DEF PendingInv, PendingHandles
    <3>4. SameObject(os, os', saved[k].handle)
      BY <2>3, <3>3 DEF Others
    <3> QED
      BY <1>2, <3>1, <3>2, <3>4 DEF Comes, SameObject
  <2> QED
    BY <1>4, <2>6, <2>7, <2>8
<1> QED
  BY <1>5, <1>6

LEMMA ParentStep ==
  ASSUME HandlesNeverEnd, PlaceInv, OrderInv, ParentInv, [Next]_vars
  PROVE  ParentInv'
<1> DEFINE All == \A fd \in StartFds : Comes(fd) \/ Is(fd)
<1>1. ParentInv <=> /\ pc = "add" => \A fd \in StartFds : Object(os, fd) = fd
                    /\ Saved => All
  BY DEF ParentInv, Saved, Comes, Is
<1>2. ParentInv' <=>
        /\ pc' = "add" => \A fd \in StartFds : Object(os', fd) = fd
        /\ Saved' => All'
  BY DEF ParentInv, Saved, Comes, Is
<1> HIDE DEF All
<1>3. ASSUME Pending' = {}, \A fd \in StartFds : Object(os', fd) = fd
      PROVE  ParentInv'
  BY <1>2, <1>3 DEF All, Is
<1>4. CASE ListCall
  <2>1. pc = "add" /\ pc' = "add" /\ UNCHANGED spawnVars /\ saved = <<>>
    BY <1>4, ListCallEffect DEF PlaceInv
  <2>2. Pending' = {}
    BY <2>1 DEF Pending, spawnVars
  <2> QED
    BY <1>1, <1>3, <2>1, <2>2 DEF spawnVars
<1>5. CASE Begin
  <2>1. pc = "add" /\ saved' = <<>> /\ \A fd \in StartFds : Object(os, fd) = fd
    BY <1>1, <1>5, BeginEffect DEF PlaceInv
  <2>2. Pending' = {}
    BY <2>1 DEF Pending
  <2>3. CASE os' = os
    BY <1>3, <2>1, <2>2, <2>3
  <2>4. CASE \E h, g : Piped(h, g)
    <3>1. /\ os'.osfhnd = os.osfhnd
          /\ \A x \in Live(os) : os'.object[x] = os.object[x]
      BY <2>4, PipeEffect
    <3>2. ASSUME NEW fd \in StartFds
          PROVE  Object(os', fd) = fd
      <4>1. fd \in Fds /\ Object(os, fd) # None /\ Object(os, fd) = fd
        BY <2>1, StartFdIsFd
      <4>2. IsOpen(os, fd) /\ os.object[os.osfhnd[fd]] = fd
        BY <4>1, OpenIfObject
      <4>3. os.osfhnd[fd] \in Live(os)
        BY <2>1, <4>2 DEF OrderInv, InOrder, InOrderBut, IsOpen
      <4> QED
        BY <3>1, <4>2, <4>3 DEF Object, IsOpen
    <3> QED
      BY <1>3, <2>2, <3>2
  <2> QED
    BY <1>5, <2>3, <2>4, BeginEffect
<1>6. CASE Action
  <2>1. pc' # "add"
    BY <1>6, ActionAccounts DEF NextAction, Action
  <2> QED
    BY <1>2, <1>6, <2>1, ActionParent DEF All
<1>7. CASE CreateChild
  <2>1. /\ pc = "spawn" /\ i = 1 /\ failed \subseteq failed'
        /\ pc' = IF override = {} THEN "over" ELSE "restore"
        /\ UNCHANGED <<actions, os, override, saved, i>>
    BY <1>7 DEF CreateChild, listVars, PlaceInv, Fail
  <2>2. Saved' => Saved
    BY <2>1 DEF Saved, Orderly, NoSelfDup, SavedOnce
  <2>3. Pending' = Pending
    BY <2>1 DEF Pending
  <2>4. pc' = "over" => Pending = {}
    BY <2>1 DEF PlaceInv, Pending
  <2>5. ASSUME Saved', NEW fd \in StartFds
        PROVE  Comes(fd)' \/ Is(fd)'
    BY <1>1, <2>1, <2>2, <2>3, <2>4, <2>5 DEF All, Comes, Is
  <2> QED
    BY <1>2, <2>1, <2>5 DEF All
<1>8. CASE Restore
  <2>1. pc' # "add"
    BY <1>8, RestoreEffect
  <2> QED
    BY <1>2, <1>8, <2>1, RestoreParent DEF All
<1>9. CASE Return
  <2>1. /\ pc = "restore" /\ i = Len(actions) + 1 /\ pc' = "over"
        /\ UNCHANGED <<actions, saved, i, failed>>
        /\ os'.osfhnd = os.osfhnd
        /\ \A x \in Handles \ override : os'.object[x] = os.object[x]
    BY <1>9, ReturnEffect
  <2>2. Pending = {} /\ (Saved' => Saved)
    BY <2>1 DEF Pending, PlaceInv, Saved, Orderly, NoSelfDup, SavedOnce
  <2>3. ASSUME Saved', NEW fd \in StartFds
        PROVE  Is(fd)'
    <3>1. Object(os, fd) = fd /\ fd \in Fds /\ fd # None
      BY <1>1, <2>2, <2>3, StartFdIsFd DEF All, Comes, Is
    <3>2. IsOpen(os, fd) /\ os.object[os.osfhnd[fd]] = fd
      BY <3>1, OpenIfObject
    <3>3. os.osfhnd[fd] \in Handles \ override
      BY <2>1, <2>2, <2>3, <3>1, <3>2
         DEF Saved, OrderInv, PendingInv, InOrder, InOrderBut, IsOpen, Live
    <3>4. Object(os', fd) = fd
      BY <2>1, <3>2, <3>3 DEF Object, IsOpen
    <3> QED
      BY <2>1, <3>4 DEF Is
  <2> QED
    BY <1>2, <2>1, <2>3 DEF All
<1>10. CASE UNCHANGED vars
  BY <1>1, <1>2, <1>10
     DEF vars, listVars, spawnVars, All, Comes, Is, Pending, Saved, Orderly,
         NoSelfDup, SavedOnce
<1> QED
  BY <1>4, <1>5, <1>6, <1>7, <1>8, <1>9, <1>10, StepCases

-----------------------------------------------------------------------------

LEMMA StartIsSound ==
  ASSUME Init
  PROVE  /\ Sound(os) /\ Live(os) = {fd + 1 : fd \in StartFds}
         /\ os.protect = {}
         /\ \A fd \in Fds : os.osfhnd[fd] = IF fd \in StartFds THEN fd + 1
                                            ELSE None
         /\ \A fd \in StartFds : os.object[fd + 1] = fd
<1> DEFINE L == {fd + 1 : fd \in StartFds}
<1>1. /\ os.osfhnd = [fd \in Fds |-> IF fd \in StartFds THEN fd + 1 ELSE None]
      /\ os.object = [h \in Handles |->
                        IF h - 1 \in StartFds THEN h - 1 ELSE None]
      /\ os.inherit = {fd + 1 : fd \in StartFds \ NoInherit}
      /\ os.protect = {}
      /\ os = [osfhnd |-> os.osfhnd, object |-> os.object,
               inherit |-> os.inherit, protect |-> os.protect]
  BY DEF Init
<1>2. L \subseteq Handles /\ StartFds \subseteq Fds /\ Fds \subseteq Nat
      /\ Handles \subseteq Nat \ {0} /\ NoInherit \subseteq StartFds
  BY SpawnAssumption
<1>3. Live(os) = L
  <2>1. \A h \in Handles : os.object[h] # None <=> h - 1 \in StartFds
    BY <1>1, <1>2 DEF None
  <2>2. \A h \in Handles : h - 1 \in StartFds <=> h \in L
    BY <1>2
  <2> HIDE DEF L
  <2> QED
    BY <1>2, <2>1, <2>2 DEF Live
<1>4. IsFiniteSet(L)
  <2>1. IsFiniteSet(StartFds)
    BY SpawnAssumption, FS_Subset
  <2> DEFINE f == [fd \in StartFds |-> fd + 1]
  <2>2. f \in Surjection(StartFds, L)
    BY DEF Surjection
  <2> QED
    BY <2>1, <2>2, FS_Surjection
<1>5. os \in Tables
  <2>1. os.osfhnd \in [Fds -> Handles \cup {None}]
    BY <1>1, <1>2
  <2>2. os.object \in [Handles -> Objects \cup {None}]
    BY <1>1 DEF Objects
  <2>3. os.inherit \subseteq Handles
    BY <1>1, <1>2
  <2> QED
    BY <1>1, <2>1, <2>2, <2>3 DEF Tables
<1>6. \A fd \in StartFds : os.object[fd + 1] = fd
  BY <1>1, <1>2
<1>7. \A fd \in Fds : os.osfhnd[fd] = IF fd \in StartFds THEN fd + 1 ELSE None
  BY <1>1
<1> QED
  BY <1>1, <1>3, <1>4, <1>5, <1>6, <1>7 DEF Sound

LEMMA StartInv == Init => PlaceInv /\ OpenInv /\ OrderInv /\ ParentInv
<1> SUFFICES ASSUME Init
             PROVE  PlaceInv /\ OpenInv /\ OrderInv /\ ParentInv
  OBVIOUS
<1>1. /\ pc = "add" /\ actions = <<>> /\ override = {} /\ saved = <<>>
      /\ i = 1 /\ failed = {}
  BY DEF Init
<1>2. PlaceInv
  BY <1>1, StartIsSound, SpawnAssumption DEF PlaceInv
<1>3. None \notin Nat
  BY DEF None
<1>4. OpenInv
  <2>1. \A fd \in Fds \ StartFds : os.osfhnd[fd] = None
    BY StartIsSound
  <2>2. \A h \in Live(os) : \E fd \in Fds : os.osfhnd[fd] = h
    BY StartIsSound, SpawnAssumption
  <2> QED
    BY <1>1, <2>1, <2>2, StartIsSound DEF OpenInv, Accounted
<1>5. InOrder(os, {}, {})
  <2>1. \A fd \in Fds : os.osfhnd[fd] # None => os.osfhnd[fd] \in Live(os)
    BY StartIsSound
  <2>2. ASSUME NEW fd \in Fds, NEW g \in Fds, os.osfhnd[fd] = os.osfhnd[g],
               os.osfhnd[fd] # None
        PROVE  fd = g
    <3>1. fd \in StartFds /\ g \in StartFds /\ fd + 1 = g + 1
      BY <2>2, StartIsSound
    <3> QED
      BY <3>1, SpawnAssumption
  <2> QED
    BY <2>1, <2>2, StartIsSound DEF InOrder, InOrderBut
<1>6. OrderInv
  BY <1>1, <1>5 DEF OrderInv
<1>7. Pending = {}
  BY <1>1 DEF Pending
<1>8. \A fd \in StartFds : Object(os, fd) = fd
  BY <1>3, StartIsSound, SpawnAssumption DEF Object, IsOpen
<1>9. ParentInv
  BY <1>7, <1>8 DEF ParentInv
<1> QED
  BY <1>2, <1>4, <1>6, <1>9

LEMMA AlwaysInOrder ==
  ASSUME HandlesNeverEnd
  PROVE  Spec => [](PlaceInv /\ OpenInv /\ OrderInv /\ ParentInv)
<1> DEFINE I == PlaceInv /\ OpenInv /\ OrderInv /\ ParentInv
<1>1. I /\ [Next]_vars => I'
  BY PlaceStep, OpenStep, OrderStep, ParentStep
<1> QED
  BY <1>1, StartInv, PTL DEF Spec

\* posix_spawn returns with no handle protected from being closed, unless the
\* descriptor table was full or a dup2 changed nothing, and with nothing open
\* that was not open before or that the actions are not about: each handle it
\* protects, and each end of the pipe, is accounted for until it is closed.
THEOREM NothingIsLeft ==
  ASSUME HandlesNeverEnd
  PROVE  Spec => []NothingLeft
<1>1. PlaceInv /\ OpenInv /\ OrderInv => NothingLeft
  <2> SUFFICES ASSUME PlaceInv, OpenInv, OrderInv
               PROVE  NothingProtected /\ NothingElseOpen
    BY DEF NothingLeft
  <2>1. NothingProtected
    BY DEF NothingProtected, OrderInv, Orderly, Over
  <2>2. NothingElseOpen
    BY DEF NothingElseOpen, OpenInv, Over, Targets, SavedHandles, Live, IsOpen
  <2> QED
    BY <2>1, <2>2
<1> QED
  BY <1>1, AlwaysInOrder, PTL

\* The restoring loop of posix_spawn gives every descriptor of the parent its
\* file back, whichever of the opens and whether the spawn fails, if the list
\* has each descriptor once: a descriptor that is not its old self is always
\* one that is still to be put back, from a handle nothing else can close.
THEOREM ParentIsReset ==
  ASSUME HandlesNeverEnd
  PROVE  Spec => []ParentResetOnce
<1>1. ParentInv => ParentResetOnce
  BY DEF ParentInv, ParentResetOnce, Orderly, Over
<1> QED
  BY <1>1, AlwaysInOrder, PTL

-----------------------------------------------------------------------------
(* What the actions make of the descriptors of the child, action by action. *)

Given == [fd \in Fds |-> [object |-> Before[fd], inherit |-> fd \notin NoInherit]]

Makes(a, k, t) ==
  CASE a.type = "open" -> [object |-> Opened(k), inherit |-> TRUE]
    [] a.type = "close" -> [object |-> None, inherit |-> FALSE]
    [] a.type = "dup2" -> [object |-> t[a.fd].object, inherit |-> TRUE]

Stage(f, k) == IF k = 0 THEN Given
               ELSE [f[k - 1] EXCEPT ![Target(actions[k])] =
                       Makes(actions[k], k, f[k - 1])]
IsStages(f) == f = [k \in 0..Len(actions) |-> Stage(f, k)]
Stages == CHOOSE f : IsStages(f)

ChildFds == [Fds -> [object: Objects \cup {None}, inherit: BOOLEAN]]

LEMMA Induction ==
  ASSUME NEW S, 0 \in S, \A n \in Nat : n \in S => n + 1 \in S
  PROVE  Nat \subseteq S
<1> SUFFICES ASSUME Nat \ S # {} PROVE FALSE
  OBVIOUS
<1> DEFINE m == Min(Nat \ S)
<1>1. Min(Nat \ S) \in Nat \ S
  BY LeastNumber
<1>2. \A x \in Nat \ S : m <= x
  BY LeastNumber
<1> HIDE DEF m
<1>3. m \in Nat \ S /\ m # 0
  BY <1>1 DEF m
<1>4. m - 1 \in Nat /\ ~(m <= m - 1)
  BY <1>3
<1>5. m - 1 \in S
  BY <1>2, <1>4
<1> QED
  BY <1>3, <1>4, <1>5

LEMMA GivenIsTyped == Given \in ChildFds
<1>1. \A fd \in Fds : Before[fd] \in Objects \cup {None}
  BY DEF Before, Objects
<1> QED
  BY <1>1 DEF Given, ChildFds

LEMMA StageIsTyped ==
  ASSUME PlaceInv, NEW f, NEW k \in 0..Len(actions),
         k # 0 => f[k - 1] \in ChildFds
  PROVE  Stage(f, k) \in ChildFds
<1>1. CASE k = 0
  BY <1>1, GivenIsTyped DEF Stage
<1>2. CASE k # 0
  <2> DEFINE a == actions[k]
             t == f[k - 1]
  <2>1. a \in SpawnActions /\ k \in 1..MaxActions
    BY <1>2, SpawnAssumption DEF PlaceInv
  <2>2. Target(a) \in Fds /\ (a.type = "dup2" => a.fd \in Fds)
    BY <2>1, TargetIsFd
  <2>3. a.type \in {"open", "close", "dup2"}
    BY <2>1 DEF SpawnActions, Open, Close, Dup2
  <2>4. Opened(k) \in Objects /\ t \in ChildFds
    BY <1>2, <2>1 DEF Objects
  <2> HIDE DEF a, t
  <2>5. Makes(a, k, t) \in [object: Objects \cup {None}, inherit: BOOLEAN]
    <3>1. CASE a.type = "open"
      BY <2>4, <3>1 DEF Makes
    <3>2. CASE a.type = "close"
      BY <3>2 DEF Makes
    <3>3. CASE a.type = "dup2"
      <4>1. t[a.fd].object \in Objects \cup {None}
        BY <2>2, <2>4, <3>3 DEF ChildFds
      <4> QED
        BY <3>3, <4>1 DEF Makes
    <3> QED
      BY <2>3, <3>1, <3>2, <3>3
  <2>6. [t EXCEPT ![Target(a)] = Makes(a, k, t)] \in ChildFds
    BY <2>2, <2>4, <2>5 DEF ChildFds
  <2> QED
    BY <1>2, <2>6 DEF Stage, a, t
<1> QED
  BY <1>1, <1>2

\* There are such stages; they are the function that ActionsDone defines.
LEMMA StagesExist ==
  ASSUME PlaceInv
  PROVE  IsStages(Stages)
<1> DEFINE n == Len(actions)
           Good(f, m) == /\ f \in [0..m -> ChildFds]
                         /\ \A k \in 0..m : f[k] = Stage(f, k)
           S == {m \in Nat : m <= n => \E f : Good(f, m)}
<1>1. n \in Nat
  BY DEF PlaceInv
<1>2. 0 \in S
  <2> DEFINE f == [k \in 0..0 |-> Given]
  <2>1. Good(f, 0)
    BY GivenIsTyped DEF Stage
  <2> QED
    BY <2>1
<1>3. ASSUME NEW m \in Nat, m \in S
      PROVE  m + 1 \in S
  <2> SUFFICES ASSUME m + 1 <= n
               PROVE  \E f : Good(f, m + 1)
    OBVIOUS
  <2>1. m <= n
    BY <1>1
  <2>2. PICK f : Good(f, m)
    BY <1>3, <2>1
  <2> DEFINE g == [k \in 0..m + 1 |-> IF k = m + 1 THEN Stage(f, m + 1)
                                      ELSE f[k]]
  <2>3. /\ g[m + 1] = Stage(f, m + 1)
        /\ \A k \in 0..m : g[k] = f[k] /\ f[k] \in ChildFds
    BY <2>2
  <2>4. m + 1 \in 0..n /\ f[m + 1 - 1] \in ChildFds
    BY <1>1, <2>3
  <2>5. Stage(f, m + 1) \in ChildFds
    BY <1>1, <2>4, StageIsTyped
  <2>6. g \in [0..m + 1 -> ChildFds]
    BY <2>2, <2>5
  <2>7. ASSUME NEW k \in 0..m + 1
        PROVE  g[k] = Stage(g, k)
    <3> HIDE DEF g
    <3>1. CASE k = 0
      BY <2>2, <2>3, <3>1 DEF Stage
    <3>2. CASE k # 0
      <4>1. k - 1 \in 0..m /\ g[k - 1] = f[k - 1]
        BY <2>3, <3>2
      <4>2. Stage(g, k) = Stage(f, k)
        BY <4>1 DEF Stage
      <4>3. g[k] = Stage(f, k)
        BY <2>2, <2>3
      <4> QED
        BY <4>2, <4>3
    <3> QED
      BY <3>1, <3>2
  <2> HIDE DEF g
  <2>8. Good(g, m + 1)
    BY <2>6, <2>7
  <2> QED
    BY <2>8
<1>4. Nat \subseteq S
  <2> HIDE DEF S
  <2> QED
    BY <1>2, <1>3, Induction
<1>5. PICK f : Good(f, n)
  BY <1>1, <1>4
<1>6. IsStages(f)
  BY <1>5 DEF IsStages
<1> QED
  BY <1>6 DEF Stages

LEMMA StagesAre ==
  ASSUME PlaceInv, NEW k \in 0..Len(actions)
  PROVE  Stages[k] = Stage(Stages, k) /\ Stages[k] \in ChildFds
<1>1. \A m \in 0..Len(actions) : Stages[m] = Stage(Stages, m)
  BY StagesExist DEF IsStages
<1>2. Len(actions) \in Nat
  BY DEF PlaceInv
<1> DEFINE S == {m \in Nat : m <= Len(actions) => Stages[m] \in ChildFds}
<1>3. 0 \in S
  BY <1>1, <1>2, StageIsTyped
<1>4. ASSUME NEW m \in Nat, m \in S
      PROVE  m + 1 \in S
  <2> SUFFICES ASSUME m + 1 <= Len(actions)
               PROVE  Stages[m + 1] \in ChildFds
    OBVIOUS
  <2>1. m + 1 \in 0..Len(actions) /\ Stages[m + 1 - 1] \in ChildFds
    BY <1>2, <1>4
  <2>2. Stage(Stages, m + 1) \in ChildFds
    BY <2>1, StageIsTyped
  <2> QED
    BY <1>1, <2>1, <2>2
<1>5. Nat \subseteq S
  <2> HIDE DEF S
  <2> QED
    BY <1>3, <1>4, Induction
<1> QED
  BY <1>1, <1>2, <1>5

LEMMA ActionsDoneIsLast == ActionsDone = Stages[Len(actions)]
BY DEF ActionsDone, Stages, IsStages, Stage, Makes, Given

-----------------------------------------------------------------------------
(* The parent's descriptors are those of the last stage.                    *)

Agree(o, t) ==
  \A fd \in Fds :
    IF IsOpen(o, fd)
    THEN Object(o, fd) = t[fd].object
         /\ (o.osfhnd[fd] \in o.inherit <=> t[fd].inherit)
    ELSE t[fd].object = None

AgreeInv ==
  /\ pc = "add" => Agree(os, Given)
  /\ pc \in {"actions", "spawn"} /\ failed = {} /\ NoSelfDup =>
       /\ Agree(os, Stages[Len(saved)])
       /\ pc = "spawn" => Len(saved) = Len(actions)
  /\ pc \in {"add", "actions", "spawn"} => result = "none"
  /\ ChildHasActionsDone

LEMMA AgreeObject ==
  ASSUME NEW o, NEW t, Agree(o, t), NEW fd \in Fds
  PROVE  Object(o, fd) = t[fd].object
BY DEF Agree, Object

LEMMA ActionAgrees ==
  ASSUME HandlesNeverEnd, PlaceInv, OrderInv, AgreeInv, Action,
         failed' = {}, NoSelfDup'
  PROVE  Agree(os', Stages'[Len(saved')])
<1> DEFINE a == actions[i]
           g == Target(a)
           t == Stages[i - 1]
           u == Stages[i]
<1>1. Orderly'
  BY DEF Orderly
<1>2. /\ NextAction /\ PendingInv /\ pc = "actions" /\ failed \subseteq failed'
      /\ ActionGoes(a, PendingHandles, override)
  BY <1>1, ActionPending
<1>3. actions' = actions
  BY <1>2 DEF NextAction, listVars
<1>4. PICK back \in BOOLEAN :
        /\ Keep(g, back) /\ Begun(os', g, back, PendingHandles, override)
        /\ Becomes(a, g)
  BY <1>2 DEF ActionGoes
<1>5. g \in Fds /\ (back => IsOpen(os, g))
  BY <1>4, ActionAccounts DEF Begun
<1>6. Len(saved) = i - 1 /\ i \in 1..Len(actions) /\ Len(saved') = i
  <2> HIDE DEF g
  <2> QED
    BY <1>2, <1>4, <1>5, KeepPending
<1>7. Stages' = Stages
  BY <1>3 DEF Stages, IsStages, Stage
<1>8. /\ a \in SpawnActions /\ (a.type = "dup2" => a.fd \in Fds)
      /\ a.type \in {"open", "close", "dup2"}
  <2>1. a \in SpawnActions
    BY <1>6 DEF PlaceInv
  <2> QED
    BY <2>1, TargetIsFd DEF SpawnActions, Open, Close, Dup2
<1>9. Agree(os, t)
  BY <1>2, <1>3, <1>6 DEF AgreeInv, NoSelfDup
<1>10. i \in 0..Len(actions) /\ i - 1 \in 0..Len(actions) /\ i # 0
       /\ Len(actions) \in Nat
  BY <1>6 DEF PlaceInv
<1>11. t \in ChildFds /\ u = [t EXCEPT ![g] = Makes(a, i, t)]
  <2>1. t \in ChildFds
    BY <1>10, StagesAre
  <2>2. u = Stage(Stages, i)
    BY <1>10, StagesAre
  <2> QED
    BY <1>10, <2>1, <2>2 DEF Stage
<1> HIDE DEF a, g, t, u
<1>12. u[g] = Makes(a, i, t) /\ \A fd \in Fds \ {g} : u[fd] = t[fd]
  BY <1>5, <1>11 DEF ChildFds
<1>13. Others(os, os', g, PendingHandles)
  BY <1>4 DEF Begun
<1>14. Agree(os', u)
  <2> SUFFICES ASSUME NEW fd \in Fds
               PROVE  IF IsOpen(os', fd)
                      THEN Object(os', fd) = u[fd].object
                           /\ (os'.osfhnd[fd] \in os'.inherit
                                 <=> u[fd].inherit)
                      ELSE u[fd].object = None
    BY DEF Agree
  <2>1. CASE fd # g
    <3>3. Object(os', fd) = Object(os, fd)
      BY <1>13, <2>1, OtherObject
    <3>1. /\ u[fd] = t[fd] /\ os'.osfhnd[fd] = os.osfhnd[fd]
          /\ Object(os', fd) = Object(os, fd)
      BY <1>12, <1>13, <2>1, <3>3 DEF Others, SameBut
    <3>2. os.osfhnd[fd] # None =>
            (os.osfhnd[fd] \in os'.inherit <=> os.osfhnd[fd] \in os.inherit)
      BY <1>13, <2>1 DEF Others, SameHandle
    <3> QED
      BY <1>9, <3>1, <3>2 DEF Agree, IsOpen
  <2>2. CASE fd = g /\ a.type = "open"
    BY <1>4, <1>12, <2>2 DEF Becomes, Makes
  <2>3. CASE fd = g /\ a.type = "close"
    BY <1>4, <1>12, <2>3 DEF Becomes, Makes
  <2>4. CASE fd = g /\ a.type = "dup2"
    <3>1. Object(os, a.fd) = t[a.fd].object
      BY <1>8, <1>9, <2>4, AgreeObject
    <3> QED
      BY <1>4, <1>12, <2>4, <3>1 DEF Becomes, Makes
  <2> QED
    BY <1>8, <2>1, <2>2, <2>3, <2>4
<1> QED
  BY <1>6, <1>7, <1>14 DEF u

LEMMA AgreeStep ==
  ASSUME HandlesNeverEnd, PlaceInv, PlaceInv', OrderInv, AgreeInv, [Next]_vars
  PROVE  AgreeInv'
<1>1. actions' = actions => Stages' = Stages /\ ActionsDone' = ActionsDone
  <2>1. ActionsDone' = Stages'[Len(actions')]
    BY DEF ActionsDone, Stages, IsStages, Stage, Makes, Given
  <2>2. actions' = actions => Stages' = Stages
    BY DEF Stages, IsStages, Stage
  <2> QED
    BY <2>1, <2>2, ActionsDoneIsLast
<1>2. Given' = Given
  BY DEF Given, Before
<1>3. CASE ListCall
  <2>1. pc = "add" /\ pc' = "add" /\ UNCHANGED spawnVars
    BY <1>3, ListCallEffect
  <2> QED
    BY <1>2, <2>1
       DEF AgreeInv, spawnVars, ChildHasActionsDone, Agree, IsOpen, Object
<1>4. CASE Begin
  <2>1. /\ pc = "add" /\ UNCHANGED <<actions, saved, i, child, result>>
        /\ saved = <<>> /\ Agree(os, Given) /\ result = "none"
    BY <1>4, BeginEffect DEF AgreeInv, PlaceInv
  <2>2. Stages'[Len(saved')] = Given
    <3>1. 0 \in 0..Len(actions) /\ Len(saved') = 0
      BY <2>1 DEF PlaceInv
    <3> QED
      BY <1>1, <2>1, <3>1, StagesAre DEF Stage
  <2>3. CASE \E h, g : Piped(h, g)
    <3>1. PICK h, g : Piped(h, g)
      BY <2>3
    <3>2. /\ os'.osfhnd = os.osfhnd /\ os'.inherit = os.inherit
          /\ \A x \in Live(os) : os'.object[x] = os.object[x]
          /\ pc' = "actions"
      BY <3>1, PipeEffect DEF Piped
    <3>3. \A fd \in Fds : IsOpen(os, fd) => os.osfhnd[fd] \in Live(os)
      BY <2>1 DEF OrderInv, InOrder, InOrderBut, IsOpen
    <3>4. Agree(os', Given)
      BY <2>1, <3>2, <3>3 DEF Agree, IsOpen, Object
    <3> QED
      BY <2>1, <2>2, <3>2, <3>4 DEF AgreeInv, ChildHasActionsDone
  <2>4. CASE pc' = "spawn" /\ UNCHANGED os /\ (actions # <<>> => failed' # {})
    <3>1. actions = <<>> => Len(actions') = Len(saved')
      BY <2>1
    <3> QED
      BY <2>1, <2>2, <2>4, <3>1 DEF AgreeInv, ChildHasActionsDone
  <2> QED
    BY <1>4, <2>3, <2>4, BeginEffect
<1>5. CASE Action
  <2>1. /\ pc = "actions" /\ pc' \in {"actions", "spawn"} /\ result' = result
    BY <1>5, ActionAccounts DEF NextAction, Action
  <2>2. pc' = "spawn" => Len(saved)' = Len(actions)'
    <3>1. override' = override /\ override # {}
      BY <1>5, <2>1, ActionAccounts DEF NextAction, PlaceInv
    <3> QED
      BY <3>1 DEF PlaceInv
  <2> QED
    BY <1>5, <2>1, <2>2, ActionAgrees DEF AgreeInv, ChildHasActionsDone
<1>6. CASE CreateChild
  <2>1. /\ pc = "spawn" /\ failed \subseteq failed'
        /\ pc' \in {"over", "restore"}
        /\ UNCHANGED <<actions, os, override, saved, i>>
        /\ result' # "spawned" \/
             child' = [fd \in Fds |->
                         IF IsOpen(os, fd) /\ os.osfhnd[fd] \in os.inherit
                         THEN Object(os, fd) ELSE None]
    BY <1>6 DEF CreateChild, listVars, Fail
  <2>2. ASSUME result' = "spawned", failed' = {}, NoSelfDup', NEW fd \in Fds
        PROVE  child'[fd] = IF ActionsDone'[fd].inherit
                            THEN ActionsDone'[fd].object ELSE None
    <3> DEFINE t == Stages[Len(actions)]
    <3>1. Agree(os, t)
      BY <2>1, <2>2 DEF AgreeInv, NoSelfDup
    <3>2. ActionsDone' = t
      BY <1>1, <2>1, ActionsDoneIsLast
    <3>3. child'[fd] = IF IsOpen(os, fd) /\ os.osfhnd[fd] \in os.inherit
                       THEN Object(os, fd) ELSE None
      BY <2>1, <2>2
    <3> HIDE DEF t
    <3> QED
      BY <3>1, <3>2, <3>3 DEF Agree
  <2> QED
    BY <2>1, <2>2 DEF AgreeInv, ChildHasActionsDone
<1>7. CASE Restore
  <2>1. /\ pc' = "restore" /\ failed \subseteq failed'
        /\ UNCHANGED <<actions, child, result>>
    BY <1>7, RestoreEffect
  <2> QED
    BY <1>1, <2>1 DEF AgreeInv, ChildHasActionsDone, NoSelfDup
<1>8. CASE Return
  <2>1. /\ pc' = "over" /\ UNCHANGED <<actions, child, result, failed>>
    BY <1>8, ReturnEffect
  <2> QED
    BY <1>1, <2>1 DEF AgreeInv, ChildHasActionsDone, NoSelfDup
<1>9. CASE UNCHANGED vars
  BY <1>1, <1>2, <1>9
     DEF vars, listVars, spawnVars, AgreeInv, ChildHasActionsDone, NoSelfDup,
         Agree, IsOpen, Object
<1> QED
  BY <1>3, <1>4, <1>5, <1>6, <1>7, <1>8, <1>9, StepCases

LEMMA StartAgrees == Init => AgreeInv
<1> SUFFICES ASSUME Init PROVE AgreeInv
  OBVIOUS
<1>1. pc = "add" /\ result = "none" /\ os.inherit =
        {fd + 1 : fd \in StartFds \ NoInherit}
  BY DEF Init
<1>2. ASSUME NEW fd \in Fds
      PROVE  IF IsOpen(os, fd)
             THEN Object(os, fd) = Given[fd].object
                  /\ (os.osfhnd[fd] \in os.inherit <=> Given[fd].inherit)
             ELSE Given[fd].object = None
  <2>1. CASE fd \in StartFds
    <3>1. os.osfhnd[fd] = fd + 1 /\ os.object[fd + 1] = fd
      BY <2>1, StartIsSound
    <3>2. fd + 1 # None /\ (fd + 1 \in os.inherit <=> fd \notin NoInherit)
      BY <1>1, <2>1, SpawnAssumption DEF None
    <3>3. Given[fd].object = fd /\ Given[fd].inherit = (fd \notin NoInherit)
      BY <2>1 DEF Given, Before
    <3> QED
      BY <3>1, <3>2, <3>3 DEF IsOpen, Object
  <2>2. CASE fd \notin StartFds
    BY <2>2, StartIsSound DEF Given, Before, IsOpen
  <2> QED
    BY <2>1, <2>2
<1>3. Agree(os, Given)
  BY <1>2 DEF Agree
<1> QED
  BY <1>1, <1>3 DEF AgreeInv, ChildHasActionsDone

\* If no call fails the child of posix_spawn is given the descriptors that the
\* list of actions, done in its order on those of the parent, makes of them:
\* the placeholders and the temporary descriptors leave no trace.
THEOREM ChildIsGivenActionsDone ==
  ASSUME HandlesNeverEnd
  PROVE  Spec => []ChildHasActionsDone
<1> DEFINE I == PlaceInv /\ OrderInv /\ AgreeInv
<1>1. I /\ [Next]_vars => I'
  BY PlaceStep, OrderStep, AgreeStep
<1>2. Init => I
  BY StartInv, StartAgrees
<1>3. I => ChildHasActionsDone
  BY DEF AgreeInv
<1> QED
  BY <1>1, <1>2, <1>3, PTL DEF Spec
=============================================================================
