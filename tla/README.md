# Verification of the sysopy-homework programs

The repository is a set of exercises in systems programming: small C programs,
one per task, that use processes, signals, message queues, semaphores, shared
memory, threads and sockets. There is no common library; a *component* below is
one program, or the two or three that talk to each other. This directory holds
TLA+ models of those where several actors meet, the TLC runs that check them,
and TLAPS proofs about all of these. All line numbers are those of the files
under `src/`.

## 1. Inventory

| Component | State | Operations | Interaction | What is hard |
|---|---|---|---|---|
| Dining philosophers, `cw09/zad1/main.c` | `philo_state`, a mutex, a condition per philosopher | `use`, `put_back`, SIGINT handler, joins | shared memory in one process | grants and signals by neighbours, cancellation inside a wait |
| Aircraft carrier, `cw09/zad2/main.c` | three counters, `landingstrip`, two conditions | landing, take-off | shared memory in one process | woken planes against newcomers, counters under different mutexes, single signals |
| Producers and consumers, `cw07/zad1` | three System V semaphores, an array in shared memory | `init_sem`, `init_shm`, `producer`, `consumer` | shared memory between processes | startup races, killed processes, unbounded scans |
| Readers and writers, `cw07/zad2` | two named semaphores, an array, a `readcount` *per process* | `init_sem`, `init_shm`, `reader`, `writer` | as above | the same, and a count that is not shared |
| Chat, `cw10/zad2` | server: `master`, `readfds`, `biggest`; client: two threads | `handlereg`, `handlemsg`, `quit`, `th_stdin`, the receiving loop | stream sockets | descriptor sets, disconnects during a broadcast, full buffers |
| Primes, System V, `cw06/zad1` | `client_queues`, one queue for the server and one per client | register, request, report; signal handlers | message queues | ids, blocking sends, deaths and restarts, queues that stay behind |
| Primes, POSIX, `cw06/zad2` | `client_names`, the same queues, non-blocking | the same | message queues | lost messages, shared names, stale buffer |
| Record search, `cw08/zad1` (three versions) | a file offset, a mutex | read a chunk, search, cancel the others | shared memory, `pthread_cancel` | asynchronous and deferred cancellation, mutual cancellation |
| Signal exchange, `cw04/zad2` (a, b, c) | counters and flags set in handlers | send, count, answer | signals | merged signals, an answer that is too early |
| Linked list, `cw01` (a library and two drivers) | the links of the nodes | add, remove at both ends, find, sort, delete | calls | links that removals and sorts leave stale, the edges of an empty and of a one-node list |
| Record sort, `cw02/zad1` | a file | generate, sort | none | sequential |
| Directory search, `cw02/zad2` | none | walk and print | file system | none |
| Record locks, `cw02/zad3` | fcntl locks of a file | lock, unlock, list | kernel | a menu for one user |
| File counter, `cw03/zad2/fcounter.c` | counts per process | scan, stat, fork and exec, wait, exit | a process per directory, exit statuses | stats, forks and execs that fail, statuses of 8 bits |
| `fork`/`vfork`/`clone` timing, `cw03/zad1` | a counter | create processes one after another | exit | none |
| Letters under signals, `cw04/zad1` | a direction | SIGTSTP, SIGINT handlers | signals | none |
| Pipes and fifos, `cw05` | none | `popen`, one fifo | pipes | none |
| Signals in threads, division by zero, `cw08/zad2` | none | raise one signal | kernel | none |
| Calculator, `cw10/zad1` | none yet | draft: the server leaves after its setup, the client never sends | sockets | none |

The properties that make each component correct are listed with its module in
section 3; the hazards they are aimed at are in `PROJECT.json`, each at its line.

## 2. Plan

Order: first what has most interleavings per line and whose failure no test of
the programs would show.

1. *Done, models.* `Philosophers` with the abstract `DiningForks`; `CarrierDeck`;
   `ProducerConsumer` with the abstract `NumberTable`; `ReadersWriters`;
   `ChatServer`; `PrimeServer`; `PrimeServerPosix`; `RecordSearch`;
   `SignalExchange`; `PeopleList` with the abstract `Roster`; `FileCounter`.
2. *Done, proofs.* The types and safety properties of `Philosophers` (with the refinement
   of `DiningForks`), `CarrierDeck`, `ProducerConsumer` and `ReadersWriters` (from either
   start, with the refinement of `NumberTable`), `ChatServer`, `PrimeServer`,
   `PrimeServerPosix`, `RecordSearch`, `SignalExchange` and `FileCounter`; every step of
   the refinement of `Roster` by `PeopleList`; and for seven of them that the actors never
   all wait for each other, or in which cases they do.
3. *Open.* Messages that a stream splits (`ChatServer`, `recv` of a part, server.c:96
   and client.c:107). What remains without a proof is out of the prover's reach
   (end of section 5).

No module that is proved about, or is to be, declares a RECURSIVE operator;
constants have a named ASSUME, and there is one action per operation.

## 3. Modules

A module has the state of one component as VARIABLES (with the names of the
source), one action per critical step of the code, and its properties at the end.
Where two accesses are under a lock that nobody else can hold, the code between
two points at which another actor can see or change something is one step;
everywhere else a step is one call or one access. `pc` (in `RecordSearch` `place`) says where an actor is,
and the comment above its values gives the line. `PROJECT.json` maps every
definition to its lines.

Operators whose name is that of another one with a suffix (`CanEat_RightOnly`,
`Up_Twice`, `Close_KeepsBit`, ...) are *mutants*: the definition with one plausible
mistake in it. No specification uses them. Each property is known to fail when
the definition is replaced by its mutant, which shows that the property depends on
that line of the code (`mutants` in `PROJECT.json`).

### Philosophers, DiningForks (cw09/zad1)

`UseLock ... UseCheck` are `use`, `PutLock ... PutRight` are `put_back`,
`change_philo_state` is the function of that name, with the signal. `Relock` and
`Spurious` are what `pthread_cond_wait` does around them. `Interrupt` and
`CancelNext` are the handler's loop, which runs on main's thread, so `Join` waits
for it. Cancellation is deferred (the default): it acts in `usleep`
(`CancelSleep`) and in `pthread_cond_wait` (`CancelWait`, `CancelLock`,
`cleanup`), not in `pthread_mutex_lock`. A philosopher that dies eating keeps its
`philo_state`.

Properties: `NeighboursExclude`, `NoMissedGrant` (who waits at a free mutex has an
eating neighbour), `NoLostWakeup`, `MealsGoOn`, `ShutdownCompletes`, and
`ImplementsForks`: under the mapping of `philo_state` to forks every step is one of
sitting down, taking both forks, returning both, or nothing.

### CarrierDeck (cw09/zad2)

One action per locked region of `plane`. The two small mutexes
(`waiting_to_land_mutex`, `waiting_to_takeoff_mutex`) are held over one access
only, and over no call that blocks, so such an access is one step and the mutexes are
not variables. `landingstrip` is a variable, and a woken plane must get it
back (`RelockToLand`, `RelockToTakeOff`) in competition with newcomers.

Properties: `DeckHolds`, `CountersAgree`, `PriorityNotAsleep`, `TrafficGoesOn`. It
is *not* true that a sleeping plane's test always fails: nobody signals when a
waiting counter falls, so a plane may sleep on although it could go. What holds
is that the side the fill gives priority to is never left asleep.

### ProducerConsumer, NumberTable (cw07/zad1)

Both programs have the same `init_sem` and `init_shm`; the two rounds differ in
the semaphores' order and in what they do to the slot. The scan (line 103) is one
step, as it happens under the mutex; its other outcome is `overrun`. The one writer
that does not take the mutex is the creator clearing the array (line 93). It goes
through the slots in the order of the scan, so what it has cleared is always a first part
of the array; a scan that it accompanies may end at another slot than the one step
does, and which of the two makes no difference to the properties. `Kill` is a
kill: what the process had taken of a semaphore is gone, because
there is no SEM_UNDO. It may hit anywhere, the creator of the semaphores between its
`semget` and its two `semop`s included; only the process that clears the array of a
fresh system is spared (a bound: the zeros it leaves would be numbers for ever).
A behaviour begins
with a system nobody has used (`FreshInit`) or with what a first process that
has finished its initialisation leaves behind (`ReadyInit`); `fresh` says which.
In a fresh system a process can be at the array before its creator has cleared it,
and may then run past its end: `PermitsCovered` and `NoOverrun` are about the
other one.

Properties: `PermitsCovered`, `MutexExcludes`, `NoOverrun`, `ImplementsTable` (no
number is overwritten, taken twice or made up), `WorkGoesOn` (unless a permit went
down with a killed process), `StartupCompletes` (unless the creator of the semaphores died
before its first `semop`, `Orphaned`: `sem_otime` then stays 0 and the others poll for ever).

### ReadersWriters (cw07/zad2)

The scan and the write are slot by slot, since their atomicity is what the
semaphores are for. `readcount` is a function of the reader because each process
has its own: readers therefore exclude each other. `broken` are the processes that
opened `wrt` before it was made. The two starts are those of `ProducerConsumer`;
here a process may be killed anywhere.

Properties: `OneInside`, `CountRight`, and about the ways in which all work
stops: `CrossedForEver` (two readers that are crossed stay so until one of the two is
killed) and `WorkUnlessCrossed` (nothing but a crossing, a failed open and a semaphore that
went down with its process can stop the work).

### ChatServer (cw10/zad2)

The server's loop in its order: `select` copies the ready descriptors, they are
then looked at from the lowest, `handlereg` accepts, `handlemsg` receives, and the
broadcast goes through the descriptors one blocking `send` at a time. Descriptors are
the lowest free number, so they are reused. `peer` is the state of a connection as
the server will see it: TCP and unix sockets differ in what a send to a closed
peer returns, and both are modelled. `Exit` is the end of the process, by SIGINT, by
`error()` or by SIGPIPE. `connect`, `th_stdin` and `receive` are the client's two
threads. A message is a pair of its sender and a number.

Properties: `FdSetsRight`, `NoGaps`, `EveryoneElse`, `MessagesMove`, and
`DisconnectOnlyDrops`, which the code does not have (section 6).

### PrimeServer (cw06/zad1)

`Receive` takes a request and prepares the answer, `Answer` is the `msgsnd` that
may block, `AnswerFails` the one to a queue that is gone. `Open` fails while a
queue is left from an earlier server (IPC_EXCL), `Drain` is line 39. The client's
`OnId`, `OnNumber` and `OnReceipt` are the three branches of its loop;
`InterruptClient` is its handler, with `client_queue` still 0 before line 51.
The ids are numbered from 0 in the order of their making; that the first client
queue of the system might get id 0 is not distinguished.

Properties: `IdsAgree`, `OneInFlight`, `KeepsWorking`.

### PrimeServerPosix, MCPrimeServerPosix (cw06/zad2)

The same protocol over non-blocking queues: a send to a full queue is an
outcome, not a wait. `stale` and `first` are the server whose `buf` still
holds the tail of a long message it drained. A name is the second in which its
client started (`srand(time(NULL))`), so two clients may share one.

Properties, both about a server and its clients while they are `Undisturbed`: no client
has lost its queue or shares it, and none is a `Strangers`, that is one of an earlier
server. `SomeGoOn`: then all clients go on, or as many as `/server` holds messages.
`EndsOnlyOnLoss`: then the server does not end by itself. Without the condition neither holds:
clients of an earlier server fill `/server` with reports that the next one answers to the
wrong name or not at all. The MC module adds the symmetry of
clients and names, sound here because both properties are safety properties.

### RecordSearch (cw08/zad1)

`wersja` chooses the program; the three share their loop. `CancelPoints` says
where a pending cancellation acts: anywhere in wersja1 (asynchronous),
at `pthread_testcancel` in wersja2, never in wersja3. `CancelFaults` is
`pthread_cancel` of a thread main has not created yet (its entry is 0) or has already
joined (undefined: the call may also find nothing to do): the SIGSEGV handler ends the
process. A thread that has ended and is not joined yet can be cancelled without effect. `opened` is whether the file could be opened; the code does
not look, and then reads -1 for ever.

Properties: `NothingMissed` (of a search by at least one thread) and `SearchEnds`: all
three versions end, but for a wersja1 in which a thread was cancelled between its lock and
its unlock (`MutexLost`).

### SignalExchange (cw04/zad2)

Handlers run before the main loop goes on whenever a signal is pending, the lower
signal first. A standard signal that is pending absorbs a second one; a
real-time signal queues. `together` says whether the sender is in the receiver's process
group: a receiver that was sent nothing still has `pid` 0, and its last `kill` then goes to
that group (`SendGroup`), itself included.

Properties: `CountsRight`, and `ExchangeEnds`: both processes end in all variants and
for any number of signals, but for a sender of zad2b whose last answer came before it set
`wait` (`TooEarly`), and one of another group that sends nothing (`NotTold`).

### PeopleList, Roster (cw01)

Every function of list.c is an action with its assignments to `next`, `prev` and
the caller's `head` (which can hold one of `Pointers`), and the calls come in any order, those of the two drivers among
them. Sorting is stepped: `sortLoop` is one `removeMax` and the insertion in front
of the second list. `Along` is a walk along a link, `Chain` the one along `next`, and `TailOf` its last node. What is
removed stays allocated (only `deleteList` frees), with its links. `crashed` is
a NULL that was dereferenced. `zad1` and `zad2` hold the same list.c; the map gives
the first for the pointers and the second for what they amount to.

Property: `ImplementsRoster`. `Roster` is a sequence of people that grows and shrinks
at its ends, is searched from the front and sorted; taking away the only person
ends the program, and a newcomer at the tail of an empty roster is lost, since that
is what the code does and nothing in the repository denies it. The mapping reads
the sequence off the links, and during a sort off both lists.

### FileCounter, MCFileCounter (cw03/zad2)

A process is a member of `Pids`, which are all the system allows: a `fork` fails when
none is free. The child copies its parent and then `Exec`s, or its exec fails
(`ExecFails`) and it goes on with its parent's loop and counts. Where `stat` fails,
`my_stat` is that of the entry before, or was never written, and the entry is taken for a
directory, a file or neither (`StatFails`); a file that is taken for a directory gets a
child, which faults on it like on a directory that cannot be opened. `Wait` is one turn of
line 76-80: `Reap`, or `NoChild` with the status of the turn before, or one that was
never written. `ExitStatus` keeps eight bits (`Byte`). `dir`, `left`, `target`: the
directory a process is in, what `readdir` has not returned yet, and where its exec
will go. `failed` records where a stat, a fork or an exec has failed. What a process should count
is a set: `FilesUnder(d)` are the files in the directories `Below(d)`, those that every set
with `d` that is `Closed` under subdirectories has.

Properties: `StatusRight` (a process tells its parent the right number modulo 256
if nothing failed below its directory, whatever failed elsewhere) and `CountEnds`.

## 4. Runs

| Run | Instance | Why it is enough |
|---|---|---|
| `Philosophers` | N = 4 | with 4 the two neighbours of a place differ and have a common far neighbour; 3 would make everybody a neighbour. The code has 5; the invariants are proved for all N |
| `CarrierDeck` | 5 planes, N = 4, K = 3 | more planes than the deck holds, and landings and take-offs on both sides of K. With K = 2 and few planes one side is always empty; K > N would deadlock, the code has K < N |
| `ProducerConsumer` | 2 producers, a consumer, all mortal, MAX = 2, numbers 0 and 7, both starts | three processes: one makes the semaphores, one the memory, one finds both; two of one side compete, and either side can block and be killed while the other works; 0 is what shared memory starts with |
| `ReadersWriters` | 2 readers, a writer, a reader and the writer mortal, MAX = 3, TOP = 1, both starts | all orders of the `sem_open` calls; readers cross, a slot is changed behind and ahead of a scan. More readers or writers only queue at the same semaphores, and the invariants are proved for all |
| `ChatServer`, `ChatServerHangup` | 2 unix clients and one over TCP, 2 lines each from 2 of them, buffers of 1 message, 2 mortal | every kind of connection is broadcast to and from, closes during a pass, fills its buffer |
| `PrimeServer` | 3 clients, queues of 2, one restart | more clients than messages fit |
| `PrimeServerPosix` | 3 clients, 3 names, queues of 2, 2 servers | as above, with a shared name and clients of an earlier server |
| `RecordSearch` | 3 threads, 3 records, one a chunk, every set of hits | two finders and one bystander |
| `SignalExchange` | 0 to 6 signals, the three variants, one process group or two | merging of the first, of the last and of several signals |
| `PeopleList` | 4 nodes, one field, 2 keys | a maximum at the head, inside and at the tail, with equals before and behind it, and a removed node whose links still point into the list |
| `FileCounter` | 4 directories three deep with 7 files, one unreadable, 3 processes, statuses of 2 bits, 2 failing stats or execs | one process short for the whole tree; the count overflows; failures at the root and below |

Bounds that are not in the code: `LINES`, `CAP` (buffers, much larger in reality),
`QUEUE` (409 of these messages by default), `MAXMSG` (10), `RESTARTS`, `RUNS`,
`MAXSIGNALS`, `TOP` (10), `MaxNodes`, `Byte` (256), `MaxFailures`, and the numbers of processes.

Deadlock is checked except where a system may stop: a search, an exchange or a count
that is over (`RecordSearch`, `SignalExchange`, `FileCounter`), a list that dereferenced
NULL (`PeopleList`), and crossed readers (`ReadersWriters`).

Modules without a `TypeOK` are checked for their types through their properties
only: a type invariant was kept for the modules that were proved about first
and for the array of `ReadersWriters`, whose values are a question of their own. The
other proofs carry the types in their invariants (`Types`, `MessageTypes`, `SearchTypes`).

### Fairness

Weak fairness per thread or process: the scheduler runs who can run. Which of
several threads gets a mutex, and which of several senders the room in a queue, is
open, and one of them may wait for ever. Besides that:

- spurious wakeups and kills are not the only things that ever happen (`<>[][...]`);
- killed processes of `ProducerConsumer` and `ReadersWriters` are started again;
- a sort of `PeopleList` runs on to its end, which waits for nothing;
- in `ChatServer` only the server's loop and the clients' receiving threads are
  fair; nobody has to connect, to type or to leave. In `PrimeServerPosix` nothing is fair.

## 5. Proofs

TLAPS checks the following for every value of the constants that satisfies the module's
ASSUME. In each module the conjunction `IInv` is inductive: it holds in `Init`, every action
preserves it (a lemma per action, or per group of actions with the same effect), and the
properties follow.

- **`Philosophers_proofs`** (every N >= 2): `TypeOK`, `NeighboursExclude`, `NoMissedGrant`,
  `NoLostWakeup`. None of them is inductive: `MutexHeld` says who is between a lock and an
  unlock, `StateAt` ties `philo_state` to the place in the code (which gives
  `NoLostWakeup`), and `Offered` says that a philosopher who waits has an eating neighbour
  *or* somebody on the way to look at his place (which gives `NoMissedGrant` when the mutex
  is free). `Neighbours` is the arithmetic modulo N. `Refinement` is `ImplementsForks`:
  `PutThink` is a `Return`, since the neighbours of an eater do not eat, a grant is a
  `Take`, and every step that leaves `philo_state` alone is a stutter. `NeverStuck` adds
  `Cancels`: main has cancelled whom it is joining, and only the cancelled end. So the mutex
  has an owner who goes on; and if all others are asleep, one of them has an eating
  neighbour (`Offered`), who does not sleep.
- **`CarrierAndList_proofs`**, two programs in a module (the specification of the list has
  names of its own, `ListSpec`). The carrier (every finite set of planes, N > 0, K): `DeckHolds`,
  `CountersAgree`, `TypeOK`. `RunwayHeld` is the mutex; `Room` says that a plane that has
  passed the test of line 46 still finds room, because nobody else can land before it does.
  `PriorityAwake` is `PriorityNotAsleep` for K <= N: `DeckAttended` says that while a plane
  sleeps on the deck at most K are aboard, with K somebody is on the way to take off, and
  nobody who would make it more lands; `AirAttended` says the same of the air and of K - 1.
  From it and the counters follows `NeverStuck`: the last plane that would go to sleep
  leaves the side with priority without anybody awake. For K > N neither holds, and the
  system stops. The list (any number of nodes, fields and keys): `ListFollowsRoster`, which
  is `ImplementsRoster` but for `SortsEnd`: the initial state and each step map to those of
  `Roster`, one lemma per call (`InsertStep`, `RemoveStep`, `ClearStep`, `FindStep`,
  `SortStep`) and one for each part of a sort (`LoopStep`, `ReturnStep`). The invariant
  `ListInv`, a theorem of its own (`ListLinked`), says that the links make up two lists
  `TwoWay`, forwards and backwards, with no node in common (`Shape`), and that those on the
  second are in order and belong behind all on the first (`Ordered`). The prev links have to
  be in it, since `removeMax` and `removeAtTail` go by them.
  `ChainIs` says that the walk of `Chain` returns the nodes that are linked, and `Pushed`,
  `Appended` and `TakenOut` what the assignments of the code do to a list, wherever the node
  is. They are proved without an induction schema: `Least` gives the shortest walk that
  would go wrong, or the shortest list without a first maximum (`FirstLargest`).
- **`ProducerConsumer_proofs`** (finite sets of processes, MAX > 0, any killed wherever
  `Kill` allows): from both starts `MutexExcludes` and `TypeOK`, by the invariant `SInv`, in
  which what `MUTEX` and `EMPTY` offer and what is held of them is bounded by what the
  creator has posted so far; in a system that was initialised `PermitsCovered` and
  `NoOverrun`. `Found` says what a process knows of its slot; `PermitsCovered` needs it, and
  `NoOverrun` needs `PermitsCovered`: a process in the scan is one of `Holding`, so there is
  a slot for it. `Refinement` is `ImplementsTable`, from either start. While the array is
  still being cleared, the zeros that its creator has not reached look like numbers
  (`Building`); so a producer cannot choose such a slot and lose what it puts there, and no
  permit of `FILL` leads a consumer to one, since each stands for a number in the part that
  is done (`Filled`, the theorem `NoPermitForZeros`). A consumer has read the very number it
  is going to clear (`FoundMade`). In a system that was initialised, the two sides wait for
  each other only when permits, or the mutex, went down with a process (`OnlyLossStops`),
  and that happens exactly when one is killed inside its round, and nothing undoes it
  (`LostByKill`).
- **`ReadersWriters_proofs`** (all processes, MAX > 0, TOP > 0, any killed at any point,
  both starts): `OneInside`, `CountRight` and `TypeOK`. `Held` says of either semaphore that
  one process has it, or it is free, or it was lost, or it does not exist yet;
  `CountsItself` that a reader's own `readcount` is 1 exactly while it is inside, which
  makes lines 78 and 93 its lock and its unlock. `CrossedStays` is `CrossedForEver`.
  `OnlyTheseStop` completes it: crossed readers, a process that could open only one
  semaphore, and a semaphore that went down with a process are all that can stop everybody
  (`Named`: nobody waits at a semaphore that was never made), and `LostByDeath` says when
  one goes down.
- **`EndingPrograms_proofs`**, three programs in a module. The exchange (any number of
  signals, all variants): `CountsRight`. `Phases` orders the ends of the two processes after
  what they have sent; `CountsA`, `CountsB`, `CountsC` say for each variant where the
  signals are that have been sent and not yet counted: merged but never all lost, one at a
  time or its answer, or queued. The search (any number of threads, any file, all versions;
  its variables and its specification have names of their own, `SearchSpec`, so that the
  module can extend them): `NothingMissed`. A record that was read is found or still with
  the thread that read it, alive or cancelled (`NoneDropped`); only threads that found
  something cancel (`OnlyFinders`), main ends after all of them (`Joined`), and one that was
  not cancelled has read to the end (`Emptied`, `Exhausted`). Two finders may cancel each
  other, but what they have found is printed before. `HangsOnlyOnDeath` (with `Owned`, of
  the mutex, and `Made`, of the threads that exist): only wersja1 can hang, and only after a
  thread was cancelled between lock and unlock. The file counter (any tree, any number of
  processes, any failures): `StatusesRight` is `StatusRight`, by the invariant `CInv`. A
  process in a directory where nothing failed waits as often as it has children (`Turns`),
  and its children share out the subdirectories it has read, one each (`Shared`); the rest
  of `CInv` is what these need: who is whose child (`Family`), where everybody is
  (`Placed`), and that nobody is his own ancestor (`Youngest`). Then what it knows and what
  is still pending below it add up, modulo 256, to the files under its directory
  (`Accounted`), through every scan, fork, exec, death and wait. The lemmas from `BelowIs`
  to `FilesApart` say that the files under a directory are its own and those under its
  subdirectories, each once; they argue with the closed sets of `Below` in place of a
  recursion. Those from `NoMultiple` to `ModAdd` are the arithmetic of remainders.
  `StaleOnlyAfterFailure`: a turn of the waits that adds a status of an earlier turn, or
  one never written, is one of a process in a directory where something failed.
  `CountNeverStuck`: as long as the first process has not ended, one can go on, the
  youngest of those that are left.
- **`PrimeServer_proofs`** (any clients, queue sizes, kills and restarts): `IdsAgree` and
  `OneInFlight`. `Asked` says that the owners of the requests in the server's queue are all
  different and that nothing is on its way to any of them; `Waiting` that an answer is one
  its client can use; `Table` that the server's table has each client once; `Ids` follows
  them over a client's `client_id`, and `Attached` confines all of it to clients of the
  server that runs, so that a restart forgets the others. `OneInFlight` is the sum that
  these allow, and shows that no reply ever waits for room. `Baton` is the other half: a
  client of the server that runs has a message on its way (`NothingLost`), so exactly one;
  hence server and clients never all wait (`NeverStuck`), even with queues of one message.
- **`PrimeServerPosix_proofs`** (any clients, names, queue sizes and numbers of servers):
  `SomeGoOn` and `EndsOnlyOnLoss`, both while nobody has left, no two share a name and no
  client of an earlier server is about (`Undisturbed`). `OneRequest` and `OneAnswer` say
  that a client has one message on its way at most and that the id it sends is that of its
  entry; `Heard` that whoever the server knows of works; `Started` ties names to clients. An
  answer therefore always finds room and its queue, and only `/server` can lose a message,
  when it is full: as many clients as it then holds messages of go on. Without `Strangers =
  {}` it is false; section 6 has the reason.
- **`ChatServer_proofs`** (any clients, lines, buffers, deaths): `FdSetsRight`. It needs
  `Backlogs` (whoever waits to be accepted waits once and has no descriptor), since `accept`
  has a free descriptor only because every client has one at most (`FreeFd`, by the
  pigeonhole principle), and `Connected` (a listening socket that is still to be looked at
  in this pass has somebody to accept). On top of it `Messages`: the lines on their way to
  the server carry on from the last one it took (`Numbered`), the one it broadcasts is that
  last one and goes to others (`Broadcasting`), a client not yet accepted was sent nothing
  (`Fresh`), whoever has something of a client has all since, but the line being broadcast
  (`UpToDate`, the theorem `NobodyBehind`), and those already passed have that one last
  (`Delivered`). They give `NoGaps`, and `EveryoneElse` for the step that ends a broadcast.

The theorems that actors never all wait, or only in certain cases, state with predicates of
their own (`Blocked`, `Stuck`, `ServerBlocked`) when an actor has no step, from the guards
of its actions: ENABLED is out of the prover's reach. That `Blocked` is the negation of
ENABLED was checked with TLC on the instances of section 4. They are the safety half of the
liveness properties of the same programs.

Only model-checked:

- the liveness properties: they need ENABLED and fairness (`MealsGoOn`,
  `ShutdownCompletes`, `TrafficGoesOn`, `WorkGoesOn`, `StartupCompletes`,
  `WorkUnlessCrossed`, `MessagesMove`, `KeepsWorking`, `SearchEnds`, `ExchangeEnds`,
  `CountEnds`, and of `ImplementsRoster` the part `SortsEnd`, that a sort comes to its end).

Every invariant, every action property and every step of the three refinements has a
theorem.

## 6. What the checks showed

*Finding.* `cw10/zad2/server.c:109-114` treats a `send` that fails as a client
that has disconnected and goes on with the others. A send to a closed connection
however raises SIGPIPE, which the server does not handle, and the server is
killed. Run `ChatServerHangup`.

*Observed, and denied by no document of the repository*, so that the models have
it and the properties are stated with it:

- a chat server whose broadcast closes a descriptor that the same `select` had
  reported calls `recv` on it and exits (server.c:96-97, `RecvFails`);
- a process that attaches to the shared memory before its creator has cleared it
  can run past the array (`cw07/zad1`, `overrun` in `ProducerConsumer`);
- if the process that creates the semaphores there is killed before its first `semop`,
  all later ones poll for ever (`Orphaned`);
- two readers can block each other and everybody else (`cw07/zad2`,
  reader.c:77-78, 91), and a process can open only one of the two semaphores;
- a prime server ends when a client dies before its registration is answered, and
  leaves a queue with which the next one cannot start (`cw06/zad1`);
- a POSIX prime client that loses a message to a full queue waits for ever;
- clients of an earlier POSIX server go on sending to the next one's `/server`, fill
  it and so make it lose messages of all its own clients, where queues are short
  (`cw06/zad2`; found when `SomeGoOn` without `Undisturbed` could not be proved, and
  confirmed by TLC with queues of one message);
- wersja1 can hang when a thread is cancelled with the mutex, and a search can end
  with the SIGSEGV handler because it cancels a thread that does not exist yet or any more;
- a search with no threads (an argument that is not a positive number) ends in peace and
  reports nothing, whatever is in the file (`NothingMissed` has that hypothesis);
- zad2b's sender hangs on an answer that comes before `wait = 1`; with no signals
  the last `kill` of a receiver goes to its own process group, and a sender outside it waits
  for ever;
- the list faults when its only node is removed, and loses what is inserted at
  the tail of an empty list;
- a file counter whose stat, fork or exec failed returns a wrong number without a word, and
  any count above 255 is cut to its last eight bits.

## 7. Not modelled

- `cw02/zad1`, the sort of a record file: one process and its own file. What is
  surprising in it is seen by reading: `max_record[0]` starts as 0 and is
  compared with `>`, so records with key 0, which belong in front, are left at the
  end; a kill between the shifts of lines 49-55 and the write of line 59 loses a record.
- `cw02/zad2`, `cw05`, `cw08/zad2`: straight-line I/O, or one call whose result is the
  kernel's. `cw02/zad3`: a menu that keeps no state; its locks are the kernel's and
  its own reads and writes do not ask for them.
- `cw03/zad1`: creates processes one after another and prints times.
  `cw04/zad1`: two handlers that change what is printed next.
- `cw10/zad1`: a draft that leaves after its setup (`get_socket` of AF_INET loops over
  an empty list and exits) and whose client never sends.

In the modelled ones: what is printed, argument checks, failures of calls that only
print an error and go on, the primality test and the comparison of words
(their results are open), a second SIGINT, the 100-entry tables of the prime
servers (assumed large enough), messages that a stream splits, and a
`ReadersWriters` array larger than the page its `sizeof(data)` maps.
