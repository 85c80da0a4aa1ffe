---------------------------- MODULE ReadersWriters ----------------------------
(***************************************************************************)
(* cw07/zad2: reader.c and writer.c share an array and two named POSIX     *)
(* semaphores, WRT and MUTEX.  readcount is a plain variable of each       *)
(* reader process, not shared: every reader takes WRT for itself.          *)
(* Nothing is unlinked, so a killed process takes what it held with it.    *)
(***************************************************************************)
EXTENDS Integers, FiniteSets

CONSTANTS
  Readers, Writers,  \* processes that may run
  Mortals,           \* those that may be killed (and started again)
  MAX,               \* slots of the array
  TOP                \* the largest number that is looked for (10 in the code)

ASSUME ArrayAssumption ==
  Readers \cap Writers = {} /\ MAX \in Nat \ {0} /\ TOP \in Nat \ {0}

VARIABLES
  fresh,      \* nobody had used the system before this behaviour
  names,      \* the semaphores that exist
  sem,        \* their values
  shm,        \* the shared memory exists
  data,       \* the array
  pc,         \* where each process is
  broken,     \* processes whose sems[WRT] is SEM_FAILED
  readcount,  \* of each reader
  search,     \* searched_value of each reader
  count,      \* of each reader
  positions,  \* of each writer: the slots it is going to write
  i           \* loop counter of each process

vars == <<fresh, names, sem, shm, data, pc, broken, readcount, search, count, positions, i>>

Processes == Readers \cup Writers
Slots == 0 .. MAX - 1

WRT   == 0
MUTEX == 1

(***************************************************************************)
(* off, idle         not running; asleep between two rounds                *)
(* openM, openW, reopen   the sem_open calls of lines 40, 41 and 43-44     *)
(* shm, clear        shm_open; the loop of line 58                         *)
(* enter, first      a reader at lines 76 and 78                           *)
(* begin, scan       posting MUTEX at line 79; the loop of line 84         *)
(* leave, last, end  a reader at lines 91, 93 and 94                       *)
(* wait, write, done a writer at lines 86, 87 and 104                      *)
(* crashed           sem_wait(SEM_FAILED)                                  *)
(***************************************************************************)
PC == {"off", "openM", "openW", "reopen", "shm", "clear", "idle", "crashed",
       "enter", "first", "begin", "scan", "leave", "last", "end",
       "wait", "write", "done"}

NobodyRuns ==
  /\ pc = [p \in Processes |-> "off"]
  /\ broken = {}
  /\ readcount = [r \in Readers |-> 0]
  /\ search = [r \in Readers |-> 0]
  /\ count = [r \in Readers |-> 0]
  /\ positions = [w \in Writers |-> {}]
  /\ i = [p \in Processes |-> 0]

\* No process has run yet.
FreshInit ==
  /\ fresh = TRUE
  /\ names = {}
  /\ sem = [s \in {WRT, MUTEX} |-> 0]
  /\ shm = FALSE
  /\ data = [s \in Slots |-> 0]
  /\ NobodyRuns

\* A first process has done its initialisation and is gone.
ReadyInit ==
  /\ fresh = FALSE
  /\ names = {WRT, MUTEX}
  /\ sem = [s \in {WRT, MUTEX} |-> 1]
  /\ shm = TRUE
  /\ data = [s \in Slots |-> -1]
  /\ NobodyRuns

Init == FreshInit \/ ReadyInit

---------------------------------------------------------------------------

ipc   == <<names, sem, shm, data>>
local == <<readcount, search, count, positions, i>>

At(p, from, to) == pc[p] = from /\ pc' = [pc EXCEPT ![p] = to]

sem_down_NoWait(p, s, from, to) ==
  /\ At(p, from, to)
  /\ sem' = [sem EXCEPT ![s] = IF @ > 0 THEN @ - 1 ELSE 0]

\* sem_wait blocks at 0, and faults on a semaphore that could not be opened.
sem_down(p, s, from, to) ==
  \/ /\ ~(s = WRT /\ p \in broken)
     /\ sem[s] > 0
     /\ At(p, from, to)
     /\ sem' = [sem EXCEPT ![s] = @ - 1]
  \/ /\ s = WRT /\ p \in broken
     /\ At(p, from, "crashed")
     /\ UNCHANGED sem

sem_up(s) == sem' = [sem EXCEPT ![s] = @ + 1]

Start(p) ==
  /\ At(p, "off", "openM")
  /\ UNCHANGED <<fresh, ipc, local, broken>>

\* The variables of a round go out of scope with it.
Forget(p) ==
  /\ i' = [i EXCEPT ![p] = 0]
  /\ IF p \in Readers
       THEN /\ search' = [search EXCEPT ![p] = 0]
            /\ count' = [count EXCEPT ![p] = 0]
            /\ UNCHANGED positions
       ELSE /\ positions' = [positions EXCEPT ![p] = {}]
            /\ UNCHANGED <<search, count>>

\* The process is gone, with what it knew; the array and the semaphores stay.
Kill(p) ==
  /\ p \in Mortals
  /\ pc[p] # "off"
  /\ pc' = [pc EXCEPT ![p] = "off"]
  /\ broken' = broken \ {p}
  /\ readcount' = IF p \in Readers THEN [readcount EXCEPT ![p] = 0] ELSE readcount
  /\ Forget(p)
  /\ UNCHANGED <<fresh, ipc>>

---------------------------------------------------------------------------

Create(p, s, from, to) ==
  /\ \/ /\ s \notin names
        /\ names' = names \cup {s}
        /\ sem' = [sem EXCEPT ![s] = 1]
        /\ At(p, from, to)
     \/ /\ s \in names
        /\ At(p, from, "reopen")
        /\ UNCHANGED <<names, sem>>
  /\ UNCHANGED <<shm, data, local, broken>>

OpenMutex(p) == Create(p, MUTEX, "openM", "openW")
OpenWrt(p)   == Create(p, WRT, "openW", "shm")

\* Both semaphores are opened without O_CREAT; the creator of "mutex" may not
\* have created "wrt" yet.
Reopen(p) ==
  /\ At(p, "reopen", "shm")
  /\ broken' = IF WRT \in names THEN broken ELSE broken \cup {p}
  /\ UNCHANGED <<ipc, local>>

OpenShm(p) ==
  /\ \/ ~shm /\ At(p, "shm", "clear")
     \/ shm /\ At(p, "shm", "idle")
  /\ shm' = TRUE
  /\ UNCHANGED <<names, sem, data, local, broken>>

Clear(p) ==
  /\ pc[p] = "clear"
  /\ \/ /\ i[p] < MAX
        /\ data' = [data EXCEPT ![i[p]] = -1]
        /\ i' = [i EXCEPT ![p] = @ + 1]
        /\ UNCHANGED pc
     \/ /\ i[p] = MAX
        /\ i' = [i EXCEPT ![p] = 0]
        /\ pc' = [pc EXCEPT ![p] = "idle"]
        /\ UNCHANGED data
  /\ UNCHANGED <<names, sem, shm, readcount, search, count, positions, broken>>

---------------------------------------------------------------------------

WakeReader(r) ==
  /\ At(r, "idle", "enter")
  /\ UNCHANGED <<ipc, local, broken>>

Enter(r) ==
  /\ sem_down(r, MUTEX, "enter", IF readcount[r] + 1 = 1 THEN "first" ELSE "begin")
  /\ readcount' = [readcount EXCEPT ![r] = @ + 1]
  /\ UNCHANGED <<names, shm, data, search, count, positions, i, broken>>

First(r) ==
  /\ sem_down(r, WRT, "first", "begin")
  /\ UNCHANGED <<names, shm, data, local, broken>>

Begin(r) ==
  /\ At(r, "begin", "scan")
  /\ sem_up(MUTEX)
  /\ \E v \in 0 .. TOP : search' = [search EXCEPT ![r] = v]
  /\ count' = [count EXCEPT ![r] = 0]
  /\ i' = [i EXCEPT ![r] = 0]
  /\ UNCHANGED <<names, shm, data, readcount, positions, broken>>

Scan(r) ==
  /\ pc[r] = "scan"
  /\ \/ /\ i[r] < MAX
        /\ count' = [count EXCEPT ![r] = IF data[i[r]] = search[r] THEN @ + 1 ELSE @]
        /\ i' = [i EXCEPT ![r] = @ + 1]
        /\ UNCHANGED pc
     \/ /\ i[r] = MAX
        /\ pc' = [pc EXCEPT ![r] = "leave"]
        /\ UNCHANGED <<count, i>>
  /\ UNCHANGED <<ipc, readcount, search, positions, broken>>

Leave_NoMutex(r) ==
  /\ At(r, "leave", IF readcount[r] - 1 = 0 THEN "last" ELSE "end")
  /\ readcount' = [readcount EXCEPT ![r] = @ - 1]
  /\ UNCHANGED <<ipc, search, count, positions, i, broken>>

Leave(r) ==
  /\ sem_down(r, MUTEX, "leave", IF readcount[r] - 1 = 0 THEN "last" ELSE "end")
  /\ readcount' = [readcount EXCEPT ![r] = @ - 1]
  /\ UNCHANGED <<names, shm, data, search, count, positions, i, broken>>

Last_Skipped(r) ==
  /\ At(r, "last", "end")
  /\ UNCHANGED <<ipc, local, broken>>

Last(r) ==
  /\ At(r, "last", "end")
  /\ sem_up(WRT)
  /\ UNCHANGED <<names, shm, data, local, broken>>

End(r) ==
  /\ At(r, "end", "idle")
  /\ sem_up(MUTEX)
  /\ Forget(r)
  /\ UNCHANGED <<names, shm, data, readcount, broken>>

---------------------------------------------------------------------------

\* rand() % MAX / 2 different slots.
Choose(w) ==
  /\ At(w, "idle", "wait")
  /\ \E P \in SUBSET Slots :
       /\ Cardinality(P) <= (MAX - 1) \div 2
       /\ positions' = [positions EXCEPT ![w] = P]
  /\ UNCHANGED <<ipc, readcount, search, count, i, broken>>

StartWriting(w) ==
  /\ sem_down(w, WRT, "wait", "write")
  /\ i' = [i EXCEPT ![w] = 0]
  /\ UNCHANGED <<names, shm, data, readcount, search, count, positions, broken>>

NewValues_OffByOne(old) == IF old = -1 THEN 0 .. TOP - 1 ELSE {old + 1}

\* What a written slot may become.
NewValues(old) ==
  IF old = -1 THEN 0 .. TOP - 1 ELSE IF old < TOP THEN {old + 1} ELSE {old}

WriteSlot(w) ==
  /\ pc[w] = "write"
  /\ \/ /\ i[w] < MAX
        /\ IF i[w] \in positions[w]
             THEN \E v \in NewValues(data[i[w]]) : data' = [data EXCEPT ![i[w]] = v]
             ELSE UNCHANGED data
        /\ i' = [i EXCEPT ![w] = @ + 1]
        /\ UNCHANGED pc
     \/ /\ i[w] = MAX
        /\ pc' = [pc EXCEPT ![w] = "done"]
        /\ UNCHANGED <<data, i>>
  /\ UNCHANGED <<names, sem, shm, readcount, search, count, positions, broken>>

StopWriting(w) ==
  /\ At(w, "done", "idle")
  /\ sem_up(WRT)
  /\ Forget(w)
  /\ UNCHANGED <<names, shm, data, readcount, broken>>

---------------------------------------------------------------------------

init(p) ==
  /\ OpenMutex(p) \/ OpenWrt(p) \/ Reopen(p) \/ OpenShm(p) \/ Clear(p)
  /\ UNCHANGED fresh

reader(r) ==
  /\ \/ WakeReader(r) \/ Enter(r) \/ First(r) \/ Begin(r) \/ Scan(r)
     \/ Leave(r) \/ Last(r) \/ End(r)
  /\ UNCHANGED fresh

writer(w) ==
  /\ Choose(w) \/ StartWriting(w) \/ WriteSlot(w) \/ StopWriting(w)
  /\ UNCHANGED fresh

Next ==
  \/ \E p \in Processes : Start(p) \/ Kill(p) \/ init(p)
  \/ \E r \in Readers : reader(r)
  \/ \E w \in Writers : writer(w)

Spec == Init /\ [][Next]_vars

\* Every process is started, again when it was killed, and kills end; a process
\* that can run does run.
Fairness ==
  /\ \A r \in Readers : WF_vars(Start(r) \/ init(r) \/ reader(r))
  /\ \A w \in Writers : WF_vars(Start(w) \/ init(w) \/ writer(w))
  /\ <>[][\A p \in Processes : ~Kill(p)]_vars

FairSpec == Spec /\ Fairness

---------------------------------------------------------------------------

TypeOK ==
  /\ fresh \in BOOLEAN
  /\ names \subseteq {WRT, MUTEX}
  /\ sem \in [{WRT, MUTEX} -> 0 .. 1]
  /\ shm \in BOOLEAN
  /\ data \in [Slots -> -1 .. TOP]
  /\ pc \in [Processes -> PC]
  /\ broken \subseteq Processes
  /\ readcount \in [Readers -> 0 .. 1]
  /\ search \in [Readers -> 0 .. TOP]
  /\ count \in [Readers -> 0 .. MAX]
  /\ positions \in [Writers -> SUBSET Slots]
  /\ i \in [Processes -> 0 .. MAX]

\* The processes that have taken WRT and not posted it.
Inside == {p \in Processes : pc[p] \in {"begin", "scan", "leave", "last", "write", "done"}}

\* One process is at the array, reader or writer: as readcount is not shared,
\* the readers exclude each other as well.
OneInside == Cardinality(Inside) <= 1

\* What a reader has counted is true of the array as it is now: no writer gets
\* in during a scan, whoever was killed before.  (In a fresh system readers may
\* be at work while the creator of the array still clears it.)
CountRight ==
  ~fresh => \A r \in Readers : pc[r] \in {"scan", "leave"} =>
    count[r] = Cardinality({s \in Slots : s < i[r] /\ data[s] = search[r]})

\* One reader has the array and waits for MUTEX to leave it, another has MUTEX
\* and waits for the array.
Crossed ==
  \E r, s \in Readers :
    pc[r] = "leave" /\ pc[s] = "first" /\ s \notin broken /\ sem = [t \in {WRT, MUTEX} |-> 0]

KillCrossed == \E p \in Mortals : pc[p] \in {"leave", "first"} /\ Kill(p)

\* From a crossing nobody gets anywhere any more, unless one of the two is
\* killed.
CrossedForEver == [][Crossed => Crossed' \/ KillCrossed]_vars

\* A killed process took a semaphore with it.
SemaphoreLost ==
  /\ \E p \in Mortals : pc[p] = "off"
  /\ \/ WRT \in names /\ sem[WRT] = 0 /\ Inside = {}
     \/ /\ MUTEX \in names /\ sem[MUTEX] = 0
        /\ \A r \in Readers : pc[r] \notin {"first", "begin", "last", "end"}

\* The array is read and written for ever, unless two readers get crossed, a
\* process opened the semaphores between the creation of the first and of the
\* second, or one was killed with a semaphore: these are the only ways to stop.
WorkUnlessCrossed ==
  []<>(Inside # {}) \/ <>Crossed \/ <>(broken # {}) \/ <>SemaphoreLost

=============================================================================
