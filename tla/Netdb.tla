-------------------------------- MODULE Netdb -------------------------------
(***************************************************************************)
(* The network databases: services, hosts, networks and protocols.  Each   *)
(* is a text file read line by line into one static entry, by get...ent,   *)
(* which an application may call itself and which the lookups by name,     *)
(* number and address call in a loop after a rewind.  There is one file    *)
(* cursor per database for both.                                           *)
(*                                                                         *)
(* One thread of the application makes any calls, in any order, on one of  *)
(* the databases; the four share nothing.                                  *)
(*                                                                         *)
(* A line is the sequence of its words.  A word has a text and a form:     *)
(* "name", "comment" (it begins with #), "digits", "port" (number/protocol),*)
(* "addr" (an IPv4 address) or "dotted" (a name with a dot).               *)
(***************************************************************************)
EXTENDS Integers, Sequences, FiniteSets

CONSTANTS
  Databases,   \* of "services", "hosts", "networks" and "protocols"
  File,        \* the lines of each database's file
  Keys,        \* the names and numbers looked up
  Protos,      \* the protocols asked for, among them Any
  Any,         \* proto = NULL
  MaxAliases   \* the aliases an entry has room for; 31 in the code

Forms == {"name", "comment", "digits", "port", "addr", "dotted"}

ASSUME ConstantsAssumption ==
  /\ Databases \subseteq {"services", "hosts", "networks", "protocols"}
  /\ \A db \in Databases : Len(File[db]) \in Nat
  /\ \A db \in Databases : \A i \in DOMAIN File[db] :
       \A w \in DOMAIN File[db][i] : File[db][i][w].form \in Forms
  /\ MaxAliases \in Nat

VARIABLES
  db,       \* the database of this behaviour
  present,  \* its file can be opened
  cursor,   \* Closed, or the number of lines read of the open file
  entry,    \* the static entry
  call,     \* what the application has called; Idle between calls
  result    \* the last call's result: a line was found or not

netdbVars == <<db, present, cursor, entry, call, result>>

Closed == -1
Idle == [by |-> "none"]
GetNext == [by |-> "next"]             \* get...ent itself
Lookups == [by: {"name", "number"}, key: Keys, proto: Protos]
Nothing == "NULL"
Torn == "torn"    \* what a pointer into the line sees once the next is read
NoEntry == [name |-> Nothing, aliases |-> {}, number |-> Nothing,
            proto |-> Nothing]

NetdbTypeOK ==
  /\ cursor \in {Closed} \cup 0..Len(File[db])
  /\ DOMAIN entry = DOMAIN NoEntry
  /\ call \in {Idle, GetNext} \cup Lookups
  /\ {present, result} \subseteq BOOLEAN

NetdbInit ==
  /\ db \in Databases
  /\ present \in BOOLEAN
  /\ cursor = Closed
  /\ entry = NoEntry
  /\ call = Idle
  /\ result = FALSE

Lines == File[db]

-----------------------------------------------------------------------------
(* One line into the static entry.                                         *)

Blank(l) == l = <<>> \/ (l # <<>> /\ l[1].form = "comment")

\* The words of l from i on, up to the first of these forms; that word's
\* place, or 0.
Stop(l, i, forms) ==
  LET stops == {k \in i..Len(l) : l[k].form \in forms}
  IN IF stops = {} THEN 0 ELSE CHOOSE k \in stops : \A j \in stops : k <= j
Aliases(l, i, k) ==
  LET last == IF k = 0 THEN Len(l) ELSE k - 1
      room == IF last < i + MaxAliases - 1 THEN last ELSE i + MaxAliases - 1
  IN {l[j].text : j \in i..room}

\* fgets reads into the line the entry's pointers go to.
ReadOver(e) ==
  LET over(text) == IF text = Nothing THEN Nothing ELSE Torn
  IN [name |-> over(e.name), aliases |-> {Torn : a \in e.aliases},
      number |-> e.number, proto |-> over(e.proto)]

\* The entry after a line, and whether the line completes it.
Line(e, whole) == [entry |-> e, whole |-> whole]

\* Mutant of Named: the aliases of an earlier line are not ended.
NamedAfter(e, l, forms) ==
  LET k == Stop(l, 2, forms)
      number == IF k = 0 THEN e.number ELSE l[k].text
  IN Line([name |-> l[1].text, aliases |-> e.aliases \cup Aliases(l, 2, k),
           number |-> number, proto |-> e.proto], k # 0)

\* A named line: the name and the aliases are stored before the word that
\* ends them is looked for; a line without one is given up half stored.
Named(e, l, forms) ==
  LET k == Stop(l, 2, forms)
      number == IF k = 0 THEN e.number ELSE l[k].text
  IN Line([name |-> l[1].text, aliases |-> Aliases(l, 2, k),
           number |-> number, proto |-> e.proto], k # 0)

\* name alias ... port/protocol.  Words after the port are not read.
ServLine(e, l) ==
  LET k == Stop(l, 2, {"port"})
  IN Named([name |-> e.name, aliases |-> e.aliases, number |-> e.number,
            proto |-> IF k = 0 THEN e.proto ELSE l[k].proto], l, {"port"})

\* address name alias ...: the address is stored before there is a name
HostLine(e, l) ==
  LET number == IF l[1].form = "addr" THEN l[1].text ELSE Nothing
  IN IF l[1].form # "addr" \/ Len(l) < 2
     THEN Line([name |-> e.name, aliases |-> e.aliases, number |-> number,
                proto |-> e.proto], FALSE)
     ELSE Line([name |-> l[2].text, aliases |-> Aliases(l, 3, 0),
                number |-> number, proto |-> e.proto], TRUE)

\* name alias ... number, which has a digit first or a dot
NetLine(e, l) == Named(e, l, {"digits", "port", "addr", "dotted"})

\* name alias ... number
ProtoLine(e, l) == Named(e, l, {"digits", "port", "addr"})

Stored(d, e, l) ==
  LET over == ReadOver(e)
  IN IF Blank(l) THEN Line(over, FALSE)
     ELSE CASE d = "services" -> ServLine(over, l)
            [] d = "hosts" -> HostLine(over, l)
            [] d = "networks" -> NetLine(over, l)
            [] d = "protocols" -> ProtoLine(over, l)

-----------------------------------------------------------------------------
(* The calls.                                                              *)

\* Mutant of Rewind: only an open file that is at its end is rewound.
RewindAtEnd(c) == IF c = Len(Lines) THEN 0 ELSE c

\* set...ent: an open file is read from its beginning again
Rewind(c) == IF c = Closed THEN Closed ELSE 0

Set(d) ==
  /\ call = Idle /\ db = d
  /\ cursor' = Rewind(cursor)
  /\ UNCHANGED <<db, present, entry, call, result>>
setservent   == Set("services")
sethostent   == Set("hosts")
setnetent    == Set("networks")
setprotoent  == Set("protocols")

End(d) ==
  /\ call = Idle /\ db = d
  /\ cursor' = Closed
  /\ UNCHANGED <<db, present, entry, call, result>>
endservent   == End("services")
endhostent   == End("hosts")
endnetent    == End("networks")
endprotoent  == End("protocols")

\* The application calls get...ent.
Get(d) ==
  /\ call = Idle /\ db = d
  /\ call' = GetNext
  /\ UNCHANGED <<db, present, cursor, entry, result>>

\* ... or looks something up: set...ent first
LookUp(d, by, key, proto) ==
  /\ call = Idle /\ db = d
  /\ call' = [by |-> by, key |-> key, proto |-> proto]
  /\ cursor' = Rewind(cursor)
  /\ UNCHANGED <<db, present, entry, result>>
getservbyname(key, proto) == LookUp("services", "name", key, proto)
getservbyport(key, proto) == LookUp("services", "number", key, proto)
getnetbyname(key)         == LookUp("networks", "name", key, Any)
getnetbyaddr(key)         == LookUp("networks", "number", key, Any)
getprotobyname(key)       == LookUp("protocols", "name", key, Any)
getprotobynumber(key)     == LookUp("protocols", "number", key, Any)

\* The entry is what was looked up: by its name or an alias of it, or by its
\* number, and for a service by its protocol.
Matches(e, c) ==
  /\ IF c.by = "name" THEN e.name = c.key \/ c.key \in e.aliases
                      ELSE e.number = c.key
  /\ c.proto \in {Any, e.proto}

Return(found) ==
  /\ call' = Idle
  /\ result' = found

\* fopen, of the Windows file and then of the one in /etc
OpenFile ==
  /\ call # Idle /\ cursor = Closed
  /\ IF present THEN cursor' = 0 /\ UNCHANGED <<call, result>>
                ELSE Return(FALSE) /\ UNCHANGED cursor
  /\ UNCHANGED <<db, present, entry>>

\* fgets and what becomes of the line: get...ent goes on with the next one,
\* returns to the application, or returns to a lookup, which goes on or
\* returns the entry.
ReadLine ==
  /\ call # Idle /\ cursor \in 0..Len(Lines) - 1
  /\ LET line == Stored(db, entry, Lines[cursor + 1])
     IN /\ entry' = line.entry
        /\ IF line.whole /\ (call = GetNext \/ Matches(line.entry, call))
           THEN Return(TRUE) ELSE UNCHANGED <<call, result>>
  /\ cursor' = cursor + 1
  /\ UNCHANGED <<db, present>>

\* fgets finds the end of the file: NULL; the file stays open there
AtEnd ==
  /\ call # Idle /\ cursor = Len(Lines)
  /\ Return(FALSE)
  /\ UNCHANGED <<db, present, cursor, entry>>

Reading(d) == db = d /\ (OpenFile \/ ReadLine \/ AtEnd)
getservent  == Get("services") \/ Reading("services")
gethostent  == Get("hosts") \/ Reading("hosts")
getnetent   == Get("networks") \/ Reading("networks")
getprotoent == Get("protocols") \/ Reading("protocols")

NetdbNext ==
  \/ setservent \/ sethostent \/ setnetent \/ setprotoent
  \/ endservent \/ endhostent \/ endnetent \/ endprotoent
  \/ getservent \/ gethostent \/ getnetent \/ getprotoent
  \/ \E key \in Keys, proto \in Protos :
       getservbyname(key, proto) \/ getservbyport(key, proto)
  \/ \E key \in Keys :
       \/ getnetbyname(key) \/ getnetbyaddr(key)
       \/ getprotobyname(key) \/ getprotobynumber(key)

NetdbSpec == NetdbInit /\ [][NetdbNext]_netdbVars

-----------------------------------------------------------------------------
(* Properties.                                                             *)

\* The whole entries of the file, by their lines.
Entry(i) == Stored(db, NoEntry, Lines[i])
WholeLines == {i \in 1..Len(Lines) : Entry(i).whole}

\* What a call returns to the application is one line's entry: every field is
\* of that line, and none points into a line read over it, although the lines
\* given up half way were stored in the same place.
EntryIsOneLine ==
  [][ (call # Idle /\ call' = Idle /\ result') =>
        /\ cursor' \in WholeLines
        /\ entry' = Entry(cursor').entry ]_netdbVars

\* A lookup returns the first line of the file that matches, or NULL if none
\* does, wherever the enumeration of the application was, with the file
\* closed, in the middle or at its end.
LookupFindsFirst ==
  [][ (call \in Lookups /\ call' = Idle) =>
        LET found == {i \in WholeLines : Matches(Entry(i).entry, call)}
        IN IF present /\ found # {}
           THEN /\ result' /\ cursor' \in found
                /\ \A i \in found : cursor' <= i
           ELSE ~result' ]_netdbVars
=============================================================================
