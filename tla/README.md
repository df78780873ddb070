# Verification of libmingw32_extended

libmingw32_extended adds POSIX functions to MinGW: each file of `src/source`
implements one function, or a few, over the Windows API and the C runtime.
Most are translations of one call. This project models the parts
that keep state between calls or share it between threads, checks them with TLC
on small instances and proves the main results with TLAPS for all instances.

The repository has no tests. What the code promises is in the headers under
`src/include`, in the internal header
`src/source/__436F64657252436C69626D696E677733325F657874656E646564.h` (called
*the internal header* below) and in comments. The target is 64-bit Windows, where
`long` has 32 bits, and the makefile builds with `-O2`, so a race on a plain field is
a race.

## Inventory

| Component | State | Operations | What is hard | What makes it correct |
|---|---|---|---|---|
| asynchronous I/O (`aio_*.c`, `aio.h`) | `struct aiocb`, one thread per request, the file offset of each descriptor | `aio_read`, `aio_write`, `aio_fsync`, `aio_error`, `aio_return`, `aio_cancel`, `aio_suspend` | threads on one file offset; plain fields as the only synchronization; cancelling a thread at any moment | transfers at `aio_offset`; file offset unmoved; one outcome per request, delivered once; no thread left afterwards; every request ends |
| list I/O (`lio_listio.c`) | the requests of the list | `lio_listio` | several requests of which one fails or is refused; threads that are joined twice | LIO_WAIT returns when all accepted requests have ended; no call waits for ever |
| global lock (the internal `.c` file) | `critical_section`, its flag | `init_lock`, `delete_lock`, `lock`, `unlock` | lazy initialization without synchronization | mutual exclusion |
| Winsock loading (17 socket functions) | `ws2_32_handle`; whether Winsock was started | one per function | double-checked locking; failure between two steps | one start, balanced loads, nothing called before it is ready |
| password database (`getpw*.c`, `setpwent.c`, `endpwent.c`) | `netapi32_handle`, `current_passwd`, `passwd_index`, a static record per file | seven functions | handle under the lock, record outside; long call sequences; failing allocations | balanced loads, strings owned once, no use of what is gone |
| group database | a static index | `getgrent` … | nothing allocates or fails | – |
| waiting for processes (`wait*.c`) | process and thread handles of one call | `wait`, `waitid`, `waitpid` | 64 handles per wait: a chain of helper threads over one snapshot, structs on each other's stacks | the child reported has exited; one thread at a time walks the snapshot; no helper outlives the call; handles closed |
| spawning processes (`posix_spawn*.c`) | the parent's descriptors during the call; the action list | `posix_spawn`, `posix_spawnp`, file actions | undoing steps, in the right order, when one fails | the child has the actions done; the parent's descriptors come back; the list fits its block |
| polling (`poll.c`, `ppoll.c`) | the answers of one call, the sockets, the handles it waits for | `poll`, `ppoll` | pipes and sockets waited for one after the other, while bytes come and go and descriptors are closed | the count is right, what was ready is reported, the time is bounded |
| network databases (`get*ent.c`, `get*by*.c`) | open file and static entry of each database | `set…`, `get…`, `end…`, lookups | one cursor for enumeration and lookups; lines given up half way leave fields behind | a returned entry is one line's; a lookup finds the first match |
| address resolution | static handles of `ws2_32.dll` | `getaddrinfo`, `getnameinfo` | lazy load without the lock | as for Winsock |
| scatter and gather I/O | positions in two vectors | `readv`, `writev`, `process_vm_readv`, `process_vm_writev`, `sendmsg` | elements end at different bytes; two ways to write; short calls | bytes moved in order and counted; blocks given back |
| memory mapping | the table of `madvise` and its thread | `madvise`, `mmap`, `munmap`, `msync`, `mlock`, … | `madvise` walks memory twice, maps its table between, and hands it to a detached thread | the table fits, and has what was advised but for its end, where the code goes wrong; blocks and names are given back, of files all but one, and not the library |
| dynamic loading | – | `dlopen`, `dlsym`, `dlclose` … | a NULL or stale handle | – |
| name patterns | – | `fnmatch`, `glob` | recursion | – |
| spawn attributes, catalogs, stubs (`dbm_*`, `mq_*`), locale, addresses, `pipe`, `ftok` | one structure or none | getters, conversions, failing stubs | – | – |

How they interact. The socket functions and the password functions share the
global lock and each other's lazily loaded handles through the internal header;
they load libraries with the component "dynamic loading". `lio_listio` calls
`aio_read` and `aio_write` and joins their threads, as `aio_return` does. All
asynchronous requests on a descriptor share its file offset with the
application. The lookups of a network database call its `set…`, `get…` and `end…`. `madvise` maps
its table with the library's own `mmap`. `posix_spawn` changes the descriptors the whole process uses. There
are no callbacks: `sigevent` is not used.

## Modules

| Module | Models |
|---|---|
| `AioRequest` | what asynchronous I/O promises about one control block (abstract) |
| `Aio` | `aio_read.c`, `aio_write.c`, `aio_fsync.c`, `aio_return.c`, `aio_cancel.c`, `aio_suspend.c` |
| `MCAio` | instances of `Aio` for TLC |
| `AioProofs` | theorems about `Aio` and `AioListio`, and that `Aio` implements `AioRequest` |
| `AioListio` | `lio_listio.c`, composed with the workers, `aio_return` and `aio_cancel` of `Aio` |
| `MCAioListio` | its lists for TLC |
| `GlobalLock` | the critical section of the internal header; it is extended by the two modules that take the lock |
| `Winsock` | the sequence the 17 socket functions begin with, on top of `GlobalLock` |
| `NetworkProofs` | theorems about `GlobalLock` with `Winsock`, and about `Netdb` |
| `Passwd` | the seven password functions, on top of `GlobalLock` |
| `MCPasswd` | instances of `Passwd` for TLC |
| `PasswdProofs` | theorems about `Passwd` |
| `WaitChild` | `wait.c`, `waitpid.c`, `waitid.c` |
| `WaitChildProofs` | theorems about `WaitChild` |
| `SpawnFds` | `posix_spawn.c`, `posix_spawnp.c` and the file actions |
| `SpawnProofs` | theorems about `SpawnFds` |
| `Poll` | `poll.c` |
| `MCPoll`, `PollProofs` | its arguments for TLC; theorems about it |
| `Madvise` | `madvise.c`, with the parts of `mmap.c` and `munmap.c` it uses |
| `MCMadvise`, `MadviseProofs` | its memory layouts for TLC; theorems about it |
| `Netdb` | the `set`, `get`, `end` and lookup functions of services, hosts, networks and protocols |
| `MCNetdb` | its files for TLC |
| `Vectors` | `readv.c`, `writev.c`, `process_vm_readv.c`, `process_vm_writev.c`, and what `sendmsg.c` does with its buffers |
| `VectorsProofs` | theorems about `Vectors` |

### Aio

For every control block there is an owner, the application thread that queues
and collects it (`owner`); a worker, the thread `pthread_create` starts
(`thread`, with its locals `oldOffset` and `result`); and a canceller, an
application thread in `aio_cancel`. One more application thread calls
`aio_suspend` (`suspender`). `state`, `error` and `return` are the fields
`_aio_state`, `_aio_error` and `_aio_return`; `pos` is the file offset the C
library keeps for a descriptor.

The worker is one action per call it makes: `SaveOffset` (lseek), `SeekTo`
(lseek), `Transfer` (read or write), `RestoreOffset` (lseek), or `Commit` for
`aio_fsync`. Each may fail, except that the result of the last lseek is ignored
by the code and `RestoreOffset` is assumed to succeed. The outcome is then stored in
two or three plain fields: the compiler may exchange such stores, so `stores`
holds those that have not reached memory and `Store` takes any of them. The stores
of `aio_cancel` are treated alike (`cstores`). `pthread_join` is a
synchronization, so `Join` waits for a worker whose stores have all arrived.

`pthread_cancel` succeeds on a thread that has not been joined. The worker then
ends inside the call that is a cancellation point, or never notices (`Killed`).
`Killed` makes no transfer: a write that is interrupted half way is not
modelled. `pthread_cancel` may or may not report a thread that has ended but
was not joined, hence the overlap of `CancelThread` and `CancelMisses`. A failed
`pthread_create` returns its error and leaves `errno` alone, so `_aio_error`
takes any value. A negative `aio_fildes` is refused with EINVAL before anything is
stored (`Refuse`): the call changes nothing, and its caller knows. A NULL
control block is refused the same way and left out.

`aio_return` blocks in `pthread_join`; it is four actions. `aio_suspend` is the
loop over the list, the look at the clock and the sleep. Its timeout may be over
at any look: the arithmetic on the clock is not in this module.

What the application is assumed to do, because the interface asks it to: it
collects a request before it uses the control block again, with one thread; it
does not queue a control block that another of its threads is cancelling or
waiting for; it cancels a request at most once; `aio_suspend` is called with
requests that are outstanding. The control block starts zeroed.

`aio_error` reads one field; what it can see is the field's value in the states
of the model. `aio_cancel (fd, NULL)` returns without looking at any request.

### GlobalLock and Winsock

`initialized` is `critical_section_initialized`, `section` is the owner of the
critical section and `at` is where a thread is between `lock ()` and
`unlock ()`. The two tests of the flag, the initialization and the store of the flag
are separate steps. Initializing a section that somebody owns makes it free, which
is one of the things Windows may do. The main thread calls `init_lock` before
there are threads if `InitLockFirst`, and `delete_lock` when no thread is in a
call any more (`Cleanup`).

`Winsock` is the text that the 17 files share: `Check` without the lock, `Lock`,
`Recheck`, `Open` (dlopen), `Startup` (WSAStartup), `Close` and `Clear` when that
fails, `Fail` and `Unlock`, then `Symbol` (dlsym) and `Call`. Every function has an action of its
own which is this sequence: they differ in what is called at the end. `loads`
and `startups` count what Windows counts. `Symbol` reads the handle again, or, on
the fast path, uses the value of the first look, as the compiler is free
to do. A NULL or unloaded handle there is an access violation ("crashed").
The sequence is modelled from socket.c; accept.c and the others were read against it.

### Passwd

A function is a route through stages (`Route`), in the order of its code. The
stage "load" is the double-checked load of netapi32.dll, where the loader also
makes its own static record the current one (`SetRecord`), and "unload" is what `endpwent`
does under the lock. The other stages are one action each, for the part of the function that
reads or changes shared state between two points where another thread can
change it, and with every early return. Strings are blocks that `malloc` hands out:
`fields` are the three strings a static record points to, `mine` those a function
has allocated and not handed over yet, `live` all that are allocated. `pw` and
`memory` are what a function has read from the current record before it frees
it. A use of a library that is not loaded, a write through a NULL
`current_passwd`, a block that is freed twice and a NULL name end a thread with a
fault.

With `Serialized`, the program calls a function that is not reentrant only when
no other thread is in one of the seven; reentrant functions run together. This is
what POSIX asks of a program. Lines that only build text (paths, the
conversion of a name, the gecos field) are not modelled: `malloc` and conversions
that end the function are (`Convert`, `MakeStrings`). Temporary wide strings are
freed by the function that made them and are left out.

`MakeStrings` allocates `home_dir` and `shell`. When one of them cannot be had, the
code frees what it has and returns (`OutOfMemory`), except in `getpwuid`, which on
one path forgets the shell it has copied (`ShellLost`). `allocator`
is a history variable: the function and the field each block was allocated for, so
that a property can name what may be lost.

### WaitChild

Thread `Main` is in the function; the others run `WaitForProcesses`, the function
`waitid` starts threads on when its handles are used up. `pc` is where each
thread is. All of them walk one snapshot, whose position is `next`. `handles` and
`helper` are a thread's `hHandles` and the last element of it; `creator` is
the thread it was created by. A helper reports through a pointer to its
creator's `wfpsCopy`: `info[t]` is this struct of thread t, and `info[NoThread]` is
`wfps` of `waitid` itself. The text of `waitid` and that of `WaitForProcesses` are
the same but for their ends, so `Scan`, `Create`, `Wait`, `Join`, `Close`, `Last` and
`LastWait` take the thread as a parameter. `Wait` is atomic: of its two
stores the helper only reads `wfpsCopy.done`, and the creator reads the other, into `*wfps`, after
the thread has ended.

A child that cannot be opened is passed over (`Scan`, `OpenFirst`). A wait that
fails has an action of its own without fairness (`WaitFails`, `LastWaitFails`,
`WaitOneFails`). `failed` and `opened` are history variables the properties need
to say which calls have failed and how many children were opened.

One call is modelled, since the functions keep nothing between calls. Children
exit at any time and are never reused. The look at the threads of a child
(WUNTRACED) is one step with every outcome. Exit codes, `errno` and the
other fields of `siginfo_t` are left out. `wait` ignores the result of `_cwait` and reports the child
either way, and leaves its snapshot open; the properties exempt both by name.

### SpawnFds

`actions`, `allocated` and `block` are the list: its elements, `__allocated`, and
the size of the block `realloc` gave. `os` holds the tables: the handle of
each descriptor, the object of each handle, and the handles' two flags. `open`, `close`,
`dup2`, `_open_osfhandle`, `CloseHandle` and `SetHandleInformation` are functions
from tables to tables, external and modelled from the way the code relies on
them: the lowest free descriptor is taken, `dup2` closes its target first and its new
handle can be inherited, and closing a descriptor whose handle is protected frees the
descriptor and keeps the handle. `saved` is what `posix_spawn` keeps per action, its arrays `restore`,
`dwFlags` and `fds`.

`Begin` is the allocation of these arrays and the pipe; `Action` one round of
the first loop (`ActionOpen`, `ActionClose`, `ActionDup2`); `CreateChild` the child, which gets the
descriptors whose handles it can inherit; `Restore` one round of the second
loop; `Return` the end. Each call may fail where the code goes on after it. A
file is named by what it was at the start or by the action that opened it.

The process has one thread and spawns once from one list. The command line, the
environment, the attributes, the search for the program, the path copies and the
text mode of descriptors are not modelled.

### AioListio

One more thread, in `lio_listio`, works through a list (`lister`, `lio`, `i`): `ListSubmit`
is the call of `aio_read` or `aio_write`, with a thread or without; `ListRefused` is that
call for an entry whose `aio_fildes` is negative, which stores nothing; `ListNop`,
`ListSkip` and `ListUnknown` are the other entries; `ListJoin` is one round of the
loop of LIO_WAIT. Everybody else takes the steps of `Aio`: this is the composition of the two.
After LIO_WAIT has joined a worker the application still collects the request,
and `aio_return` joins a thread that is gone (`JoinAgain`). POSIX leaves this
undefined; the model assumes that `pthread_join` finds no such thread and
returns, as the pthreads of MinGW do. An application that learns only that some request failed
collects those that got no thread, too. A refused control block it may collect like the others,
or take back without (`Abandon`); `refused` is a history variable of these. Its
`_aio_thread` is what an earlier use left there or was never set, and joining it is assumed to
return at once, too. One thread at a time is in `lio_listio`,
nobody queues a control block that a list has, and `aio_suspend`, which changes no control
block, is left out.

### Poll

`Scan` is one round of the first pass: each descriptor's kind is found out and
asked once. `WaitStarts` collects handles of pipes, `WaitSignalled`, `WaitTimesOut` and
`WaitFails` are the ends of the wait, in a helper thread or (when it cannot be created) in the
caller; `BuildSets`, the actions named `Select…` and `Collect` are the sockets; `Wake` is the
end of the final sleep. `env` is what others change: bytes arrive and
are taken, peers hang up, another thread closes a descriptor. `now` is the clock; a
wait under way holds it at its `deadline`. `untouched` and `early` are history variables. POLLRDNORM
and POLLWRNORM are the same as POLLIN and POLLOUT for the code and left out. A behaviour is one call, the first
of its program (the static flag of `load_winsock_functions` is not set yet). Left out is
the call without memory for its cached sockets (lines 129 to 133): it
returns -1 before it has looked at a descriptor or changed one.

### Madvise

Memory is a row of pages and an address counts units, so that pages, strides and ranges
that do not begin with a page are small numbers. The caller's actions are the two walks (each is
one step: it only reads), the two `mmap`s, and `pthread_create`;
in between another thread may change a page, which `changed` remembers. Blocks that
`madvise` maps occupy pages, so the second walk meets them. The detached thread is
either the one that calls `PrefetchVirtualMemory` or the one that reads, with its
two name buffers, its file and its read buffer. The buffers are two `malloc`s whose results are
not looked at: each name may be NULL from the start (`AllocateNames`), and
Windows is then told to write behind NULL (`NameFaults`). `library` is the library of line 29
and `files` the number of files open, history for what is given back. `largest`, `fault` and `early` say
whether a read was too long, a NULL was used, or the thread gave up.

### Netdb

All four databases have the same three functions and similar lookups; a behaviour is
about one of them. `cursor` is its file, `entry` the static structure with the pointers
that the last lines left in it. A line is a sequence of words, and a word has a form that
decides what the parsers make of it. `ServLine`, `HostLine`, `NetLine` and `ProtoLine` are the
parsers: the entry after the line, and whether the line was whole. A pointer kept from an earlier
line points into a buffer that has been read over (`Torn`). `OpenFile`, `ReadLine` and `AtEnd` are the
steps of every call, a lookup being a rewind and a loop of them. One thread makes all the
calls: these functions are not reentrant. `NetdbInit`, `NetdbNext` and `NetdbSpec` have the module's name so that
`NetworkProofs` can extend it beside `Winsock`. The early returns of lookups for a NULL argument
are left out: they change nothing.

### Vectors

A byte is named by its element and its place there, and `moved` collects
pairs of such names, so that order and position are visible while contents are not. The
actions are the calls the functions make: one copy of `process_vm_…` (`VmCopy`), one
`read` or `write`, the write of the gathered block, `WSASendMsg`. The length past the end
of a vector, which `process_vm_…` reads, is any. `gap` is a history variable: a call for one element
moved less than asked and the code went on with the next.

## Runs

| Run | Instance | What it shows |
|---|---|---|
| `private` | a read with offset 2 and an fsync, a descriptor each, each queued twice, no cancel | `TransferAtOffset`, `OffsetPreserved`: transfers at their offset, the file offset comes back; `RequestSpec`: `Aio` implements `AioRequest`, its liveness included |
| `cancel` | one write, queued twice, cancelled at any time; one thread in `aio_suspend` | `NoThreadAfterReturn`, `ReturnMatchesTransfer`: `aio_return` delivers its own transfer's count and leaves no thread; `RequestEnds`, `SuspendReturns` |
| `list` | three lists: NULL, a write, a read; a read with a negative `aio_fildes`, a write; LIO_NOP, an unknown opcode; both modes; the write is cancelled at any time | `WaitMeansEnded`: LIO_WAIT returns with every accepted request ended and no worker left; `ListReturns`: neither `lio_listio` nor a later `aio_return` waits for ever |
| `started` | three threads, two calls each, `init_lock` first | `LockExclusive`, `LoadsBalanced`, `ReadyAfterLock`, `CallReturns` |
| `published` (violation) | two threads, `init_lock` first | `NonNullIsInitialized`: the fast path uses Winsock before WSAStartup |
| `passwd` | two threads, two calls each, four blocks, serialized | `NoFault`, `RecordOwnsStrings`: nothing is used that is gone and each string is owned once; `OnlyTheseAreLost`: three kinds of strings, and no other, are lost on error paths; `HandleMeansRecord` |
| `wait_child` | four children, three handles per wait | `ReportsExited`, `NoHelperLeft`; `HandlesInOrder`: handles fit `hHandles` and are closed; `NothingOnlyWhenFull`; `Returns` |
| `spawn` | three descriptors, two open, one of them not inherited; three actions | `ChildHasActionsDone`; `ParentResetOnce`; `NothingLeft`: nothing stays protected or open |
| `poll` | two descriptors in seven combinations of kinds, one handle per wait, timeouts -1, 0 and 1 | `CountMatches`, `ReadyAtCallIsReported`, `WaitsBounded`, `SocketsAnswerInTheEnd`, `Returns` |
| `madvise` | six pages of two units, four layouts, six ranges | `TableFits`; `CoversAllButTheLast`: the table is in the range and misses nothing before its last region or last whole stride; `Released`: all is given back but one file and the library; `FaultsExplained`: NULL is used only where one of five results is not looked at; `ReadsFit` |
| `netdb` | a file of up to six lines for each database, one alias | `EntryIsOneLine`, `LookupFindsFirst` |
| `vectors` | all pairs of vectors of up to three elements of up to two bytes | `BytesInOrder`, `CountsWhatMoved`, `Released` |

The violation is the entry of "findings" in `PROJECT.json`, with the line that promises the
opposite.

What the code does not promise, and the properties therefore assume or exempt. Each of these can be seen with TLC by
taking the assumption away:

- Two requests on one descriptor transfer at each other's offsets: `FdOf <- MCSharedFdOf` in
  `MCAio_private.cfg`, with the read and a write, breaks `TransferAtOffset`.
- A request whose transfer was made may be collected with ECANCELED. `ReturnMatchesTransfer`
  speaks of counts only.
- `lio_listio` with LIO_WAIT leaves the state of an entry that was refused as it was: a zeroed control block with a
  negative descriptor is pending when the call returns, with no request behind it, and `aio_suspend` would wait for it.
  `WaitMeansEnded` speaks of accepted requests; add `PROPERTY WaitLeavesNonePending` to `MCAioListio.cfg` to see it.
- Without `init_lock` two threads get into the critical section: `InitLockFirst = FALSE` in
  `Winsock_started.cfg` breaks `LockExclusive`.
- Password functions that are not reentrant and overlap leave the handle set and
  `current_passwd` NULL, for good: `Serialized = FALSE` in `MCPasswd_serialized.cfg` breaks
  `HandleMeansRecord` and `NoFault`.
- Three kinds of strings are lost when a function fails (`Lost`): the name of `getpwnam` and of `getpwuid`, when netapi32 cannot be
  loaded (`getpwnam` also when the name cannot be converted), and the copied shell of `getpwuid`, when there is no memory for the
  home directory (`getpwuid.c` lines 411 to 420). `getpwnam` frees its shell on the same path, and `getpwent` everything.
- `dup2` of a descriptor onto itself makes the parent lose it (`NoSelfDup`), and two actions on one
  descriptor are undone in the wrong order (`SavedOnce`).
- `madvise`: when another thread maps memory between the walks the table may be too small (`changed`);
  NULL from `mmap`, from `fopen` and from the `malloc`s of lines 99 and 102 is used; a thread that gives up leaves its table; a
  later entry longer than the first does not fit the read buffer.
- `madvise` also advises the wrong memory at the end of the range. The entries of the last of several regions begin at `__addr`, not
  at the region's base (lines 583 and 594), and the last sizes are taken from the region and not from what is left of the range
  (lines 597 to 601 and 637 to 641): the last region, or what is left of a range in one region after its last whole stride, is not asked
  for. `CoversAllButTheLast` leaves out just these two places; add `INVARIANT RangeAdvised` to `MCMadvise.cfg` to see the loss.
- The thread of `madvise` that reads the files itself never closes the last of them, nor the library of line 29. `Released` says
  that this is one file, and that the other branch closes its library and opens none.
- `readv` and `process_vm_…` go on after a short or failed call and count bytes that were not
  moved (`gap`). An empty element ends `process_vm_…`.
- `poll` without a timeout and without sockets may return 0, on a pipe that was signalled for
  nothing.

Bounds, and why they are enough.

- `MaxSubmits` 2: what a first use of a control block leaves behind (fields, thread,
  offset) meets a second use; a third use starts in a state like the second.
- One request per descriptor in `private` and two in all: requests interact
  through descriptors only. The read's
  offset (2), the application's offset (1) and the other descriptor's (3)
  differ, so that each mix-up shows.
- `NBytesOf` 1: counts are 0, 1 and -1, the three the code tells apart.
- Three threads in `started`: one in the critical section, one that waits for
  it, one on the fast path. Two calls each: the call after a failed start and
  the call after a good one.
- Four blocks in `passwd`: a record holds three, and one more is the name the next call
  allocates; when they are used up allocation fails, which the code handles. Four calls in all make
  load, use, `endpwent`, load again.
- Four children and three handles in `wait_child`: two children fill a thread, so the first
  helper has two and fills up as well, and the second helper has none, which is the
  boundary that `NothingOnlyWhenFull` is about. Children that cannot be opened give the
  smaller numbers. With this bound a wait that fails does no harm to the result of
  `waitid`. It can with more children, and `ReportsExited` therefore exempts it: a helper left to itself
  creates a helper of its own while its creator asks another to end,
  copies that request, and later writes it over the struct the creator has meanwhile given
  to a third; process 0 is reported. It takes two failing waits and six helpers.
- Three descriptors in `spawn`: the one an action names, the one a temporary takes, and
  one that is free, or none, which is a full table. Three actions let the block grow twice
  (1, 2, 4) and let two actions name the same descriptor. Ten handles are enough that
  Windows never runs out, which the code does not handle either.
- `list` queues each control block once: that a control block is used again is in `private` and `cancel`, and
  the double join, which is what lists add, needs one use. The three lists have every kind of entry: one with a request that
  gets no thread, one with a refusal before a request, and one that ends with the unknown opcode, where LIO_WAIT joins nobody.
- Two descriptors in `poll`: every kind meets every wait, two of a kind share one, and with one handle
  per wait the second pipe finds no place. The timeout of one unit tells "at once" from
  "later" and three waits from one.
- A stride of three units and pages of two in `madvise`: entries end inside pages, at their ends and at the
  ends of regions. Six pages leave room for the two blocks before, in and behind the range, and no room.
  A `size_t` of 8 bits is wider than any address.
- `netdb`: comments, an empty line, lines without a number, and more aliases than fit, next to
  whole lines, with names that are another entry's alias. The order of calls is free, and the cursor and the entry are all the state:
  the run covers call sequences of any length.
- Three elements in `vectors`: the first, one that is neither first nor last, and the last; two bytes let an element end before,
  with and behind its counterpart; zero is a length.
- Threads and blocks are interchangeable in `Passwd` (symmetry); its run has no
  liveness property.

Runs set `CHECK_DEADLOCK FALSE` because the bounded application stops
calling, in `Passwd` a faulted thread stops, and `WaitChild`, `SpawnFds`, `Poll`, `Madvise` and `Vectors` are one call.
Only in `Netdb` the application can always go on. A thread that is stuck inside a call
is found by the liveness properties instead (`SuspendReturns`, `ListReturns`, `CallReturns`,
and `Returns` of `WaitChild` and of `Poll`).

The type invariants are properties of no run: `TypeCorrect`, `ListTypeCorrect`, `LoadedCorrectly` and `PasswdTypeCorrect`
prove those of `Aio`, `AioListio`, `Winsock` and `Passwd`, the inductive invariants of the other proofs contain as much of
them as they need, and TLC finds them to hold in the instances above (add `INVARIANT TypeOK`).

Every property of a passing run has a mutant in the modules: an operator next to the
code it changes, with a comment that says what the mistake is.

## Fairness

`Aio`: every thread that can take a step takes one in the end, which is what a
preemptive scheduler does. That the worker goes on presupposes that its
read, write or flush returns. Nobody has to queue, collect, suspend or cancel anything,
and a cancelled thread need not notice. `aio_suspend` returns with the timeout not
assumed to end: `SuspendReady` or `SuspendTimesOut` may be taken, and if neither ever is, the
loop reads a state that the worker, or whoever cancelled it, has set. That needs
`RequestEnds`, and hence that the canceller goes on to mark the request.

`Winsock`: a thread inside a socket function goes on. A critical section does not
promise a turn to a waiting thread; weak fairness suffices here because the
others make only `MaxCalls` calls. `CallReturns` therefore shows that every
path gives the lock back, not that the lock is fair.

`WaitChild`: every thread that can go on does; no child has to exit and no call has to
fail. A child that has exited does not make `waitid` return by itself: a thread waits for the
helper it created, which waits for children of its own. `Returns` says what does hold,
that the news of a child of the last thread reaches the caller.

`AioListio`: as in `Aio`, and the thread in `lio_listio` goes on, as does an `aio_return` whose thread is
gone. Nobody has to cancel. `ListReturns` includes the `aio_return` of a worker that was joined before.

`Poll`: the caller goes on when it can, and time passes up to the deadline of the wait under way. No pipe has to be
signalled, no byte has to come, and no call has to fail: with a timeout, `Returns` follows from the clock alone.

`SpawnFds`, `Madvise`, `Netdb` and `Vectors` run over finite lists without waiting for anybody: they have no liveness
property.

`Passwd` has no liveness property: its functions have no loops that wait, and
the lock is covered by `Winsock`.

## Proofs

| Theorem | Assumes | States |
|---|---|---|
| `TypeCorrect` | – | the type invariant of `Aio` |
| `ReturnFreesBlock` | – | `NoThreadAfterReturn` |
| `ReturnDeliversTransfer` | – | `ReturnMatchesTransfer` |
| `PrivateFdsSuffice` | no two requests share a descriptor | `TransferAtOffset` |
| `OffsetsComeBack` | the same, and nothing is cancelled | `OffsetPreserved` |
| `AioImplementsRequest` | nothing is cancelled | every behaviour of `Aio` is one of `AioRequest` (safety) |
| `ListTypeCorrect` | – | the type invariant of `AioListio` |
| `WaitEndsAll` | – | `WaitMeansEnded` |
| `LockExcludes` | `init_lock` is called first | `LockExclusive` |
| `LoadedCorrectly` | the same | types, `StartedOnce`, `LoadsBalanced`, `ReadyAfterLock` of `Winsock` |
| `ReadyThroughLock` | the same | `ReadyAfterLock` |
| `HandleIsFinal` | the same | `HandleStays` |
| `HandleBalanced` | the same | `LoadsBalanced` of `Passwd` |
| `PasswdTypeCorrect` | the same | the type invariant of `Passwd` |
| `RecordOwns` | the same, and the program is serialized | `RecordOwnsStrings` |
| `HandleHasRecord` | the same two | `HandleMeansRecord` |
| `FaultFree` | the same two | `NoFault` |
| `LossesAreKnown` | the same two | `OnlyTheseAreLost` |
| `SnapshotHasOneWalker` | – | `OneWalker` |
| `HelpersAreGone` | – | `NoHelperLeft` |
| `ReportedHasExited` | – | `ReportsExited` |
| `HandlesAreKept` | – | `HandlesInOrder` |
| `NothingOnlyAfterFullWaits` | – | `NothingOnlyWhenFull` |
| `ListAlwaysFits` | – | `ListFits` |
| `NothingIsLeft` | Windows does not run out of handles | `NothingLeft` |
| `ParentIsReset` | the same | `ParentResetOnce` |
| `ChildIsGivenActionsDone` | the same | `ChildHasActionsDone` |
| `CountIsRight` of `PollProofs` | – | `CountMatches` |
| `WaitsAreBounded` | – | `WaitsBounded` |
| `NothingAtCallIsMissed` | – | `ReadyAtCallIsReported` |
| `SocketsAnswer` | – | `SocketsAnswerInTheEnd` |
| `TableAlwaysFits` | – | `TableFits` |
| `TableCoversAllButTheLast` | – | `CoversAllButTheLast` |
| `AllButOneFileReleased` | – | `Released` of `Madvise` |
| `FaultsAreExplained` | – | `FaultsExplained` |
| `ReadsAlwaysFit` | – | `ReadsFit` |
| `EntriesAreLines` | – | `EntryIsOneLine` |
| `LookupsFindFirst` | – | `LookupFindsFirst` |
| `BytesStayInOrder` | – | `BytesInOrder` |
| `CountIsRight` of `VectorsProofs` | – | `CountsWhatMoved` |
| `ReleasedAlways` | – | `Released` of `Vectors` |

They hold for any number of control blocks, lists, descriptors, threads, calls, blocks of `malloc`, children, handles
per wait and file actions, any descriptor table, memory layout, range and stride, any offsets, lengths, timeouts, lines of
a file and vectors of buffers, under the named assumptions on the constants, which TLC
evaluates in the runs. The assumptions
of the theorems are the contracts listed under "Runs", where it is said how TLC breaks the property without them. One is
different: `HandlesNeverEnd` of `SpawnProofs` makes the set of handles infinite, because every call of `SpawnFds` that needs a
handle takes one that is free. Calls that fail for want of a handle are actions of the model all the same; what the code would do if `dup2`
found no handle is not.
`OneWalker`, `StartedOnce`, `HandleStays`, `ListFits` and `LoadsBalanced` of `Passwd` are proved and no longer
properties of a run.

The inductive invariants:

- `OwnInv`: for one control block, which of owner, worker and canceller still has
  something to do with it: no worker exists before it is queued or after the join, a worker that
  ended has stored everything unless it was cancelled. `NoThreadAfterReturn` only
  speaks of idle control blocks and says nothing of the states a step
  comes from.
- `ResInv` relates the stored fields to `result` for a worker that has
  stored them and was joined; it makes the value `aio_return` reads the right one.
- `SeekInv`: between the seek and the transfer the descriptor's offset is
  `aio_offset`. Only with private descriptors do other workers leave that alone.
- `HomeInv`: a descriptor is away from home only between a worker's seek and its
  restoring lseek, and this worker's `old_offset` is home. A cancelled worker breaks it, hence the
  second assumption.
- `ToldInv`: until the state is stored the request is pending; from then on the state tells
  whether the transfer failed. It gives the step of the abstract request that each step maps to.
- `AloneInv` and `PlaceInv` (lio_listio): `OwnInv` does not hold beside `lio_listio`, which joins workers without collecting
  their requests. What holds is weaker, and enough: a control block that is idle or joined has no worker, and an outstanding one whose
  worker is gone, or cancelled, has its state stored, or the canceller still has to store it, or was refused and never had a worker. The entries the loop has yet to come to are used by nobody; those
  it has passed are submitted, and without a worker once LIO_WAIT has joined them.
- `LockInv` (of `NetworkProofs` and of `PasswdProofs`): after `init_lock` nobody
  initializes the section any more, its owner is the one thread between `lock` and
  `unlock`, and whoever is loading is that thread.
- `LoadInv`: the place of the loading thread tells the state of the library, and
  with no thread loading it is one of the stable states. The counts alone are
  not inductive: that `dlclose` makes the count 0 and not -1 needs the place.
  In `Passwd` one more state is possible, the library that `endpwent` has withdrawn
  and not yet closed.
- `StageOK` and `PlaceOK` (of `PasswdProofs`): which stages of its route a thread has behind it. The other invariants of `Passwd` speak of
  stages behind and ahead, so that they need not list the seven routes.
- `SerialInv`, `PairInv`, `KnownInv`: one thread at a time is in a function that is not reentrant; handle and record are set
  together but for the two stages that set and clear them; and a thread that has seen the handle set still does.
- `FieldsInv` and `LocalsInv`: only the current record has strings, or the one `endpwent` is about to free; what a thread has read of the record is
  still there when it frees it; and what it has allocated is in no record. That every string has one owner, and
  therefore that none is freed twice, follows. `LostInv` adds that a live block is in a record, a thread's own, or was given up by a function for a field that `Lost` has.
- `ChainInv` (of `WaitChildProofs`): the live threads of `waitid` form a chain in the order of their creation,
  each but the last waiting for the one it created, and a thread's creator is waiting
  for it. `OneWalker` says nothing of the threads that do not walk and is not inductive.
  The invariant is stated for behaviours in which no wait has failed: a failing wait leaves
  the chain, as the properties say.
- `NewsInv`: what a struct tells is true, unless a thread further up already has its
  news and only asks its helper to end: `wfpsCopy.done` is set then without
  a process. The chain shows that such a struct is never copied upward, because the
  thread it would go to is the one that joins.
- `RoomInv` and `ClosedInv`: the handles of a thread are those of children before the snapshot's position, at most one less than `hHandles`
  takes while a helper may still come; `Main` has closed its own on every path but three.
- `SpreadInv` and `Count`: that nothing was found means that no thread has told its creator anything, and then every thread but the
  last of the chain has opened a full wait. The number of children opened is known modulo what one thread takes, which is what
  the boundary needs and all that can be said without a sum over the chain.
- `ListInv` (of `SpawnProofs`): the block has exactly `__allocated` elements.
- `OpenInv`: every handle that refers to something is a descriptor's, one that is saved, or an end of the pipe; and a descriptor that was not open
  at the start is open only if an action is about it. `NothingLeft` is what is left of it when nothing is saved any more.
- `OrderInv`, of a call in which no action duplicates a descriptor onto itself and neither `dup2` nor `_open_osfhandle` fails: the saved handles
  still to be put back are pairwise different and exactly the protected ones. So nothing the actions do in
  between closes one: the close of a descriptor with a protected handle frees the descriptor only.
- `ParentInv`, of a call in which also no handle was saved twice and `DuplicateHandle` did not fail: each of the parent's descriptors has its file, or is among those still to be put back from a handle that has it.
- `AgreeInv`: after k actions the descriptors of the parent, saved handles apart, are those that k actions, done one after the other, make of the ones at the start. That such a
  sequence of tables exists for a list of any length is a lemma of its own, by induction.
- `CountInv` (of `PollProofs`): `ready` is the number of descriptors with an answer at every moment, those the first pass has not
  come to have none, and nothing is ready while pipes are waited for. `CountMatches` only speaks of the end; the invariant is what
  makes each pass add exactly the answers it gives, because it gives them to descriptors that had none.
- `TimeInv`: every wait that is over has added at most the timeout to the clock, and the waits come in one order; after an answer of the first pass the
  only one left is a select that does not wait.
- `ReportInv`: a descriptor with bytes that nobody has touched either has its answer, or is one the passes to come will find: a cached
  socket without an answer, which is in the read set from the select on. `SurroundingsInv` says what others can have done meanwhile, and `ApartInv` that the pipes
  waited for are not among the cached sockets.
- `AnswerInv`: a select without a time limit leaves a socket in the sets, and the last pass has an answer for that one unless it was closed.
- `TableInv` (of `MadviseProofs`): the count is that of the memory without the two blocks, and the table is what the second walk makes of the memory with
  them. Both walks are recursive functions over what is left of the range; lemmas turn them into sums over regions. As blocks are mapped where memory is free, they split free regions
  only (`RegionsSplit`), which count nothing, and region by region the second walk writes no more than the first has counted (`FillsFitCounts`). `TableCovers` and `OneRegionCovers` are about the
  same sums.
- `WorkerInv`: the two names of the detached thread, either of which may be NULL, are the buffers there are, however often they were exchanged, until both are
  freed; one file is open if `fp` says so and none otherwise; and the library is closed at the end unless the thread reads files.
- `ReadInv`: what is to be read next is at most as many first entries long as the group has entries before this one. This needs the place
  in the group, `(at - 1) % Multiplier`; the length alone is not inductive.
- `CursorInv` (of `NetworkProofs`): a lookup under way has come to its place from the first line, and no line before it
  matched; the file is open only if it is present; and the entry has the shape of its database's. With the fact that a whole line writes every field its
  database uses, whatever the entry held before, this gives both theorems.
- `CopyInv` (of `VectorsProofs`): the two positions of `process_vm_…` are equally far from the beginnings of their vectors, which is the number
  of bytes counted; neither has passed an empty element; and `length` is what the shorter of the two elements has left. That both
  positions are right is what makes the place of a byte on one side that of its place on the other, and that no empty element was passed makes the end of the loop the
  reach of one of the vectors (`ReachIs`).
- `InOrder`, `StartInv`, `EachInv`, `GatherInv`: unless a call was cut short the first n bytes were moved and no others, and what n is at
  each place of `readv`, `writev` and `sendmsg`. `BytesInOrder` has the number of moved bytes for n, which says nothing of how far the loop is. `writev` without memory counts what
  it has moved even after a short write; for that `EachInv` adds that only bytes of elements passed were moved, so that those of the next are new.

What stays with TLC: liveness under fairness and ENABLED (`RequestEnds`, `SuspendReturns`, `ListReturns`, `CallReturns`,
`Returns` of `WaitChild` and of `Poll`, the fairness part of `RequestSpec`), which are outside the prover. Every other property
of a passing run is stated by a theorem.

Induction. The library's rules of induction take an operator as a parameter, which the provers cannot instantiate. Induction over numbers is done with sets
instead: a set of numbers that has 0, and n + 1 with n, has all of them (`Induction` and, from the end of memory, `FromTheEnd` of
`MadviseProofs`), which follows from the least element of its complement. In this way the recursive functions `ActionsDone`,
`CountRest`, `FillRest` and `Sums`, and the concatenation `Flat`, a `FlattenSeq` of the community modules, are shown to satisfy their
equations: first that there is a function that does (for `Sums` and `Flat` by the lemma `Recursion` of `VectorsProofs`), and then that the one
CHOOSE takes does. The byte at a place of the concatenation is then found from the sums of the lengths (`FlatIs`), by the same induction.
Nothing is proved about operators declared RECURSIVE, of which there are none.

## Plan

Done, in this order: `AioRequest` and `Aio` (the component with the most threads and
the least synchronization), `GlobalLock` with `Winsock`, `Passwd`, `WaitChild`, `SpawnFds`; then `AioListio` on top of
`Aio`, `Poll`, `Madvise`, `Netdb`, `Vectors`, and the theorems about `Poll` and `Netdb`;
then the theorems about every other safety property.

What would come next:

1. A second thread in `SpawnFds`, which opens and closes descriptors while `posix_spawn` has changed the table, and `aio_suspend`
   beside `AioListio`.
2. `socketpair`, with every step failing and a stranger that connects to the listener; the load of `getaddrinfo`.
3. The 32-bit nanoseconds of `aio_suspend` and the rounding of `ppoll`, as operators with reference definitions.

Next theorems: the safety properties of these extensions.

## Not modelled

- Address resolution: the load of `ws2_32.dll` in `getaddrinfo` and `getnameinfo` publishes its handle as `socket.c` does,
  which the run `published` is about, and the rest copies a list in one thread.
- `socketpair`: the construction of a pair by a listener and a connection to it. In two cases (a connection that failed, a
  descriptor that cannot be made) the code does nothing, and these are its hazards.
- `recvmsg`: it hands the array of `iovec`s to Windows as an array of WSABUFs, whose fields are in the other order, so that
  what is received where is undefined; and after a failed call it returns the byte count 0, like the end of a stream.
- `ppoll`, `glob` and `fnmatch`, dynamic loading, message catalogs, the group database, and the mapping functions but `madvise`:
  translations of one call, or functions without state between their steps.
- Spawn attributes, locale and formatting, addresses and interfaces, `pipe` and `ftok`, and the stubs `dbm_*` and `mq_*`:
  getters, tables, conversions and functions that fail: no property relates two of their steps.

`PROJECT.json` lists each component with its reason. Within the modelled components: the data transferred, texts, and the
descriptor that `socket` and `accept` make from a Windows socket.
