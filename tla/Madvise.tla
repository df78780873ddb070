------------------------------ MODULE Madvise ------------------------------
(***************************************************************************)
(* madvise (addr, len, MADV_WILLNEED).  The caller walks the regions of    *)
(* the range twice: to count the entries of a table (address and number of *)
(* bytes, at most one stride each), and, when it has mapped memory for     *)
(* them, to fill it.  A detached thread then asks for the entries with     *)
(* PrefetchVirtualMemory or, where Windows has no such function, reads     *)
(* them from the mapped files, and unmaps the table.                       *)
(*                                                                         *)
(* Memory is a row of pages; an address is a number of units.  Between the *)
(* passes another thread may map or unmap a page.                          *)
(***************************************************************************)
EXTENDS Integers, Sequences, FiniteSets

CONSTANTS
  Top,          \* the pages of the address space
  Page,         \* units per page
  Stride,       \* memoryScanStride in units; 1 MB in the code
  SizeMax,      \* 2^w, for a size_t of w bits
  Layouts,      \* what the pages may be when madvise is called
  Ranges,       \* the ranges <<addr, len>> advised
  Multipliers   \* memoryScanStrideMultipliers; <<1024, 16, 1>> in the code

Pages == 0..Top - 1
\* "a", "b" and "c": committed, of different attributes; "block" and "table":
\* the memory madvise maps for itself.
PageKinds == {"free", "a", "b", "c", "block", "table"}

ASSUME ConstantsAssumption ==
  /\ {Top, Page, Stride, SizeMax} \subseteq Nat \ {0}
  /\ Layouts \subseteq [Pages -> PageKinds \ {"block", "table"}]
  /\ \A r \in Ranges : /\ r[1] \in 0..Top * Page - 1
                         /\ r[2] \in Nat /\ r[1] + r[2] <= Top * Page
  /\ Multipliers \in Seq(Nat \ {0}) /\ Multipliers # <<>>

VARIABLES
  addr, len,  \* the arguments
  mem,        \* what every page is
  pc,         \* where the caller is
  counted,    \* NumberOfEntries after the first pass
  block,      \* madvise_d_PrefetchVirtualMemory: mapped, or Null
  table,      \* VirtualAddresses: mapped, or Null
  entries,    \* the table's contents
  worker,     \* where the detached thread is
  m,          \* the index of the stride multiplier in use
  asked,      \* how often each entry was given to PrefetchVirtualMemory
  library,    \* kernel32.dll is loaded by dlopen and not closed
  names,      \* the buffers for file names that are allocated
  cur, name1, name2,      \* lpFilename, lpFilename1 and lpFilename2, or NoName
  fp,         \* the mapped file is open
  files,      \* history: the files opened and not closed
  max,        \* readMemMaxSize
  at,         \* the entry the reading has come to
  lpos, size, \* the bytes to be read next: lpos and readMemSize
  region,     \* lpBuffer
  baseaddr,   \* where the open file's region begins
  largest,    \* history: the longest read into the buffer
  changed,    \* history: another thread has changed the memory
  fault,      \* history: a NULL pointer was used, or a buffer freed twice
  early       \* history: the worker gave up in the middle

caller == <<addr, len, pc, counted, block, table, entries>>
naming == <<names, cur, name1, name2>>
file == <<fp, files>>
reading == <<max, at, lpos, size, region, baseaddr, largest, file>>
vars == <<caller, mem, worker, m, asked, library, naming, reading, changed,
          fault, early>>

NoName == 0   \* a NULL pointer
NoRegion == [base |-> 0, size |-> 0, kind |-> "free"]

Init ==
  /\ \E r \in Ranges : addr = r[1] /\ len = r[2]
  /\ mem \in Layouts
  /\ pc = "count" /\ counted = 0
  /\ block = "none" /\ table = "none"
  /\ entries = <<>>
  /\ worker = "none" /\ m = 1 /\ asked = <<>> /\ library = FALSE
  /\ names = {} /\ cur = NoName /\ name1 = NoName /\ name2 = NoName
  /\ fp = FALSE /\ files = 0 /\ max = 0 /\ at = 1 /\ lpos = 0 /\ size = 0
  /\ region = NoRegion /\ baseaddr = 0 /\ largest = 0
  /\ changed = FALSE /\ fault = FALSE /\ early = FALSE

-----------------------------------------------------------------------------
(* The walk over the regions.                                              *)

\* VirtualQuery: from the page of address a on, the pages of one kind.
Query(a) ==
  LET p == a \div Page
      n == CHOOSE k \in 1..Top - p :
             /\ \A q \in p..p + k - 1 : mem[q] = mem[p]
             /\ p + k = Top \/ mem[p + k] # mem[p]
  IN [base |-> p * Page, size |-> n * Page, kind |-> mem[p]]
Exists(a) == a < Top * Page

Committed(r) == r.kind # "free"

Ceil(n) == n \div Stride + (IF n % Stride # 0 THEN 1 ELSE 0)

\* The part of the first region the code takes for advised: for an address
\* inside a page, the offset is added and not taken off.
FirstSize == addr - Query(addr).base + Query(addr).size

\* lpAddress + sizeLeft in the loop over the other regions.
WalkEnd == Query(addr).base + Query(addr).size + len - FirstSize

\* The entries of the loop over the other regions with so many bytes left.
CountRest[left \in 0..len - FirstSize] ==
  IF left = 0 \/ ~Exists(WalkEnd - left) THEN 0
  ELSE LET r == Query(WalkEnd - left) IN
       (IF ~Committed(r) THEN 0
        ELSE IF r.size < left THEN Ceil(r.size) ELSE Ceil(left))
       + (IF r.size < left THEN CountRest[left - r.size] ELSE 0)

\* Mutant of EntryCount: the loop over the regions stops before the last.
EntryCountFirst ==
  IF FirstSize < len THEN Ceil(FirstSize) ELSE Ceil(len)

\* NumberOfEntries of the first pass
EntryCount ==
  IF FirstSize < len THEN Ceil(FirstSize) + CountRest[len - FirstSize]
                     ELSE Ceil(len)

\* Mutant of Chunks: addresses one chunk too far.
ChunksLate(a, n, last) ==
  [k \in 1..Ceil(n) |->
     [at |-> a + k * Stride,
      bytes |-> IF k <= n \div Stride THEN Stride ELSE last]]

\* The entries of n bytes from a on; the last has so many bytes.
Chunks(a, n, last) ==
  [k \in 1..Ceil(n) |->
     [at |-> a + (k - 1) * Stride,
      bytes |-> IF k <= n \div Stride THEN Stride ELSE last]]

\* The entries of a region that lies in the range.
Middle(r) == Chunks(r.base, r.size, r.size % Stride)

\* ... and of the last region, with so many bytes left: its entries begin at
\* addr, and the last one's bytes are those of the first region's rule.
Last(r, left) == Chunks(addr, left, (addr - r.base + r.size) % Stride)

\* The two blocks madvise has mapped itself are left out.
FillRest[left \in 0..len - FirstSize] ==
  IF left = 0 \/ ~Exists(WalkEnd - left) THEN <<>>
  ELSE LET r == Query(WalkEnd - left) IN
       (IF ~Committed(r) \/ r.kind \in {"block", "table"} THEN <<>>
        ELSE IF r.size < left THEN Middle(r) ELSE Last(r, left))
       \o (IF r.size < left THEN FillRest[left - r.size] ELSE <<>>)

\* VirtualAddresses after the second pass
Filled ==
  IF FirstSize < len
  THEN Chunks(addr, FirstSize, FirstSize % Stride) \o FillRest[len - FirstSize]
  ELSE Last(Query(addr), len)

-----------------------------------------------------------------------------
(* The caller.                                                             *)

workerVars == <<worker, m, asked, library, naming, reading, early>>

\* mmap (NULL, n, ..., MAP_PRIVATE | MAP_ANONYMOUS, -1, 0): VirtualAlloc of
\* a free page (the size madvise asks for is one page here), or NULL, which is
\* not MAP_FAILED.
Mmap(kind, result) ==
  \/ result = "Null" /\ UNCHANGED mem
  \/ /\ result = "mapped"
     /\ \E p \in Pages : mem[p] = "free" /\ mem' = [mem EXCEPT ![p] = kind]

\* munmap; of NULL it changes nothing
Without(kinds) == [p \in Pages |-> IF mem[p] \in kinds THEN "free" ELSE mem[p]]

\* Lines 409 to 466.
Count ==
  /\ pc = "count"
  /\ counted' = EntryCount
  /\ pc' = "block"
  /\ UNCHANGED <<addr, len, mem, block, table, entries, workerVars, changed,
                 fault>>

MapBlock ==
  /\ pc = "block"
  /\ block' \in {"mapped", "Null"} /\ Mmap("block", block')
  /\ pc' = "table"
  /\ UNCHANGED <<addr, len, counted, table, entries, workerVars, changed,
                 fault>>

\* VirtualAlloc of no bytes fails
MapTable ==
  /\ pc = "table"
  /\ table' \in {"mapped", "Null"} /\ Mmap("table", table')
  /\ counted = 0 => table' = "Null"
  /\ pc' = "fill"
  /\ UNCHANGED <<addr, len, counted, block, entries, workerVars, changed,
                 fault>>

\* The second pass, and the two fields of the block.
Fill ==
  /\ pc = "fill" /\ ~fault
  /\ entries' = Filled
  /\ fault' = (block = "Null" \/ (table = "Null" /\ entries' # <<>>))
  /\ pc' = "create"
  /\ UNCHANGED <<addr, len, mem, counted, block, table, workerVars, changed>>

\* pthread_create and pthread_detach
Create ==
  /\ pc = "create" /\ ~fault
  /\ worker' = "start" /\ pc' = "returned"
  /\ UNCHANGED <<addr, len, mem, counted, block, table, entries, m, asked,
                 library, naming, reading, early, changed, fault>>

\* Mutant of CreateFails: the block is unmapped, and with it the pointer to
\* the table is lost.
CreateFailsKeeps ==
  /\ pc = "create" /\ ~fault
  /\ pc' = "returned"
  /\ mem' = Without({"block"})
  /\ UNCHANGED <<addr, len, counted, block, table, entries, workerVars,
                 changed, fault>>

CreateFails ==
  /\ pc = "create" /\ ~fault
  /\ pc' = "returned"
  /\ mem' = Without({"block", "table"})
  /\ UNCHANGED <<addr, len, counted, block, table, entries, workerVars,
                 changed, fault>>

\* Another thread maps or unmaps a page, once, while madvise is between its
\* passes.
OtherThread ==
  /\ pc \in {"block", "table", "fill"} /\ ~changed
  /\ changed' = TRUE
  /\ \E p \in Pages, k \in {"free", "c"} :
       /\ mem[p] \notin {k, "block", "table"}
       /\ mem' = [mem EXCEPT ![p] = k]
  /\ UNCHANGED <<caller, workerVars, fault>>

-----------------------------------------------------------------------------
(* The detached thread: madvise_PrefetchVirtualMemory.                     *)

Worker(from) ==
  /\ worker = from /\ ~fault
  /\ UNCHANGED <<caller, changed>>
Entries == Len(entries)
Multiplier == Multipliers[m]

\* The calls of PrefetchVirtualMemory for n entries, k at a time.
Calls(n, k) ==
  {[first |-> i * k, count |-> k] : i \in 0..(n \div k) - 1}
  \cup (IF n % k # 0 THEN {[first |-> (n \div k) * k, count |-> n % k]}
        ELSE {})

Starts ==
  /\ Worker("start")
  /\ library' = TRUE
  /\ worker' \in {"prefetch", "names"}  \* dlsym finds the function or not
  /\ asked' = [i \in DOMAIN entries |-> 0]
  /\ UNCHANGED <<mem, m, naming, reading, fault, early>>

\* One of the five equal rounds with one multiplier.
Prefetch ==
  /\ Worker("prefetch")
  /\ asked' = [i \in DOMAIN entries |->
                 asked[i] + Cardinality({c \in Calls(Entries, Multiplier) :
                                           i - 1 \in c.first..c.first + c.count - 1})]
  /\ fault' = (\E c \in Calls(Entries, Multiplier) : c.first + c.count > Entries)
  /\ IF m < Len(Multipliers)
     THEN m' = m + 1 /\ UNCHANGED <<worker, library>>
     ELSE worker' = "unmap" /\ library' = FALSE /\ UNCHANGED m
  /\ UNCHANGED <<mem, naming, reading, early>>

NewName == IF names = {} THEN 1 ELSE 1 + CHOOSE n \in names : \A k \in names : k <= n

\* GetMappedFileName into the buffer c, behind the root's name.  A buffer too
\* small is freed and a larger one allocated.
NameFits(c) == c # NoName /\ UNCHANGED names /\ cur' = c
NameGrows(c) ==
  /\ cur' = NewName
  /\ names' = (names \ {c}) \cup {NewName}

\* malloc has given NULL, and Windows writes to the address after it.  It may
\* as well find the buffer too small first: the name then grows.
NameFaults(c) == c = NoName /\ fault' = TRUE

\* There is no memory for the larger buffer, or no name at all: return 0
GivesUp(c) ==
  /\ names' \in {names, names \ {c}, (names \ {c}) \cup {NewName}}
  /\ worker' = "ended" /\ early' = TRUE
  /\ UNCHANGED <<cur, name1, name2, file, baseaddr, fault>>

\* Mutant of Opens: the file open before stays open.
OpensAnother(closed) ==
  /\ fp' \in BOOLEAN
  /\ files' = files + (IF fp' THEN 1 ELSE 0)

\* fopen, whose result is not looked at; closed: fclose of the file open before
\* precedes it.
Opens(closed) ==
  /\ fp' \in BOOLEAN
  /\ files' = files - (IF closed THEN 1 ELSE 0) + (IF fp' THEN 1 ELSE 0)

\* Lines 97 to 102: two buffers, of which neither is looked at.
AllocateNames ==
  /\ Worker("names")
  /\ cur' \in {1, NoName} /\ name2' \in {2, NoName}
  /\ names' = {cur', name2'} \ {NoName}
  /\ worker' = "open"
  /\ UNCHANGED <<mem, m, asked, library, name1, reading, fault, early>>

\* Lines 103 to 137.  Without an entry there is no table to look at.
OpenFile ==
  /\ Worker("open")
  /\ IF entries = <<>>
     THEN fault' = TRUE /\ UNCHANGED <<worker, naming, file, region, baseaddr,
                                       early>>
     ELSE /\ region' = Query(entries[1].at)
          /\ \/ /\ NameFits(cur) \/ NameGrows(cur)
                /\ name1' = cur' /\ UNCHANGED name2
                /\ baseaddr' = region'.base
                /\ Opens(FALSE)
                /\ worker' = "buffer"
                /\ UNCHANGED <<fault, early>>
             \/ NameFaults(cur) /\ UNCHANGED <<worker, naming, file, baseaddr, early>>
             \/ GivesUp(cur)
  /\ UNCHANGED <<mem, m, asked, library, max, at, lpos, size, largest>>

\* malloc of the read buffer
GetBuffer ==
  /\ Worker("buffer")
  /\ \/ /\ max' = entries[1].bytes * Multiplier
        /\ worker' = "read" /\ at' = 1 /\ size' = 0
        /\ lpos' = entries[1].at
        /\ UNCHANGED m
     \/ /\ IF m < Len(Multipliers) THEN m' = m + 1 /\ UNCHANGED worker
                                   ELSE worker' = "unmap" /\ UNCHANGED m
        /\ UNCHANGED <<max, at, lpos, size>>
  /\ UNCHANGED <<mem, asked, library, naming, region, baseaddr, largest, file,
                 fault, early>>

\* Mutant of GroupEnd: the group is one entry too long.
GroupEndLate(i) ==
  LET e == ((i - 1) \div Multiplier + 1) * Multiplier + 1
  IN IF e < Entries THEN e ELSE Entries

\* The last entry of the group entry i is in: the code reads by groups of
\* the multiplier's size, the last of which may be shorter.
GroupEnd(i) ==
  LET e == ((i - 1) \div Multiplier + 1) * Multiplier
  IN IF e < Entries THEN e ELSE Entries

Longest(n) == IF n > largest THEN n ELSE largest

\* Mutant of ExchangeNames: the spare pointer gets the new name as well.
ExchangeNamesTwo(c) == name2' = c /\ name1' = c

\* The name differs from the last one: that buffer is the spare one now.
ExchangeNames(c) == name2' = name1 /\ name1' = c

\* One turn of the loops at 162 and 277: take the entry into the read, and
\* read if it does not touch the next one or leaves the region.
ReadEntry ==
  /\ Worker("read") /\ at <= Entries
  /\ LET full == size > max
         l == IF full THEN lpos + max ELSE lpos
         s == ((IF full THEN (max - size) % SizeMax ELSE size)
               + entries[at].bytes) % SizeMax
         last == at = GroupEnd(at)
         apart == ~last /\ \/ l + s # entries[at + 1].at
                           \/ l + s > baseaddr + region.size
         flush == last \/ apart
     IN /\ fault' = ((full \/ flush) /\ ~fp)
        /\ largest' = IF flush THEN Longest(s) ELSE largest
        /\ size' = IF flush THEN 0 ELSE s
        /\ lpos' = IF flush /\ at < Entries THEN entries[at + 1].at ELSE l
        /\ worker' = IF apart THEN "rename" ELSE "read"
  /\ at' = at + 1
  /\ UNCHANGED <<mem, m, asked, library, naming, max, region, baseaddr, file,
                 early>>

\* Lines 198 to 257: the region and the file's name at lpos, in the spare
\* buffer; another file is opened in place of the last.
Rename ==
  /\ Worker("rename")
  /\ region' = Query(lpos)
  /\ \/ /\ NameFits(name2) \/ NameGrows(name2)
        /\ \/ /\ name2' = cur'                  \* the same file
              /\ UNCHANGED <<name1, baseaddr, file>>
           \/ /\ ExchangeNames(cur')
              /\ baseaddr' = region'.base
              /\ Opens(TRUE)
        /\ worker' = "read"
        /\ UNCHANGED <<fault, early>>
     \/ NameFaults(name2) /\ UNCHANGED <<worker, naming, file, baseaddr, early>>
     \/ GivesUp(name2)
  /\ UNCHANGED <<mem, m, asked, library, max, at, lpos, size, largest>>

\* free (readMemLoc), free (lpFilename1), free (lpFilename2): the file, and the
\* library, stay open.
ReadEnds ==
  /\ Worker("read") /\ at > Entries
  /\ fault' = (name1 = name2 \/ ~({name1, name2} \subseteq names \cup {NoName}))
  /\ names' = names \ {name1, name2}
  /\ worker' = "unmap"
  /\ UNCHANGED <<mem, m, asked, library, cur, name1, name2, reading, early>>

Unmap ==
  /\ Worker("unmap")
  /\ mem' = Without({"block", "table"})
  /\ worker' = "ended"
  /\ UNCHANGED <<m, asked, library, naming, reading, fault, early>>

madvise_PrefetchVirtualMemory ==
  \/ Starts \/ Prefetch \/ AllocateNames \/ OpenFile \/ GetBuffer
  \/ ReadEntry \/ Rename \/ ReadEnds \/ Unmap

Next ==
  \/ Count \/ MapBlock \/ MapTable \/ Fill \/ Create \/ CreateFails
  \/ OtherThread
  \/ madvise_PrefetchVirtualMemory

Spec == Init /\ [][Next]_vars

-----------------------------------------------------------------------------
(* Properties.                                                             *)

Ready == pc \in {"create", "returned"}

\* The table has room for what the second pass writes, although the first
\* has counted it before two blocks were mapped, perhaps in the range itself.
\* (When another thread maps memory in between, it may not.)
TableFits == Ready /\ ~changed => Len(entries) <= counted

\* Every entry begins in the advised range and goes less than a stride
\* beyond its end.
EntriesInRange ==
  Ready => \A i \in DOMAIN entries :
             /\ entries[i].at \in addr..addr + len - 1
             /\ entries[i].at + entries[i].bytes < addr + len + Stride

\* A unit of the range is in an entry.
Advised(u) ==
  \E i \in DOMAIN entries :
    u \in entries[i].at..entries[i].at + entries[i].bytes - 1

\* For an advised range that begins with a page, all committed memory of the
\* regions before the last is in the table.
RegionsCovered ==
  pc = "create" /\ addr % Page = 0 /\ FirstSize < len =>
    \A u \in addr..addr + len - 1 :
      LET r == Query(u) IN
      r.base + r.size < addr + len /\ r.kind \in {"a", "b", "c"} => Advised(u)

\* A range in one region is in the table up to its last whole stride.
StridesCovered ==
  pc = "create" /\ FirstSize >= len =>
    \A u \in addr..addr + (len \div Stride) * Stride - 1 : Advised(u)

\* What the table can be relied on for: it names no memory far from the range,
\* and it has the memory asked for except in two places.  These are the last
\* region of a range that has several, whose entries begin at __addr in place of
\* its base (lines 583 and 594), and what is left of a range in one region after
\* its last whole stride, whose size is taken from the region (lines 637 to
\* 641).  RangeAdvised says what is lost there.
CoversAllButTheLast == EntriesInRange /\ RegionsCovered /\ StridesCovered

\* What MADV_WILLNEED promises, "will need these pages" (include/sys/mman.h:54):
\* all committed memory of a range that begins with a page is in the table.
\* The code does not keep it, in the two places.
RangeAdvised ==
  pc = "create" /\ ~fault /\ addr % Page = 0 /\ ~changed =>
    \A u \in addr..addr + len - 1 : Query(u).kind \in {"a", "b", "c"} => Advised(u)

\* When the call and its thread are over, neither block is mapped, no file name
\* is allocated unless there was no read buffer for any multiplier, and the
\* library and all files are closed, but for one leak that the code has: the
\* thread that reads the files itself leaves the library of line 29 loaded and
\* the last file open (lines 379 to 387).  A thread that gives up in the middle
\* (lines 119, 129, 219, 233, 334 and 348) gives nothing back; it is left out.
ReadsFiles == name1 # NoName
Released ==
  pc = "returned" /\ worker \in {"none", "ended"} /\ ~early =>
    /\ \A p \in Pages : mem[p] \notin {"block", "table"}
    /\ names = {} \/ max = 0
    /\ library \/ files # 0 => ReadsFiles
    /\ files <= 1

\* A NULL pointer is used or a buffer freed twice only where a result has not
\* been looked at: mmap gave NULL, or the range was empty; the file could not be
\* opened; malloc gave NULL for the first name (line 99) or for the spare one
\* (line 102), which is used when a second region's name is asked for.
FaultsExplained ==
  fault => \/ block = "Null" \/ table = "Null"
           \/ worker \in {"read", "rename"} /\ ~fp
           \/ worker = "open" /\ cur = NoName
           \/ worker = "rename" /\ name2 = NoName

\* No read is longer than the buffer, if the first entry, from which the
\* buffer has its size, is the longest.
ReadsFit ==
  (\A i \in DOMAIN entries : entries[i].bytes <= entries[1].bytes)
     => largest <= max
=============================================================================
