--------------------------- MODULE ProducerConsumer ---------------------------
(***************************************************************************)
(* cw07/zad1: producer.c and consumer.c share an array of MAX numbers and  *)
(* three System V semaphores.  Nothing is removed when a process ends and  *)
(* semop is called without SEM_UNDO: what a killed process held is lost,   *)
(* and a process started later goes on with what it finds.                 *)
(***************************************************************************)
EXTENDS Integers, FiniteSets

CONSTANTS
  Producers, Consumers,  \* processes that may run
  Mortals,               \* those that may be killed (and started again)
  MAX,                   \* slots of the array
  Numbers                \* what a producer may draw; contains 0

ASSUME BufferAssumption ==
  /\ IsFiniteSet(Producers) /\ IsFiniteSet(Consumers)
  /\ Producers \cap Consumers = {}
  /\ MAX \in Nat \ {0}
  /\ Numbers \subseteq Nat /\ 0 \in Numbers

VARIABLES
  fresh,     \* nobody had used the system before this behaviour
  semset,    \* the semaphores: "none", "new" (sem_otime is 0) or "used"
  sem,       \* the values of EMPTY, FILL and MUTEX
  shm,       \* the shared memory exists
  data,      \* the array
  pc,        \* where each process is
  number,    \* to_add or to_check of each process
  index      \* i of each process

vars == <<fresh, semset, sem, shm, data, pc, number, index>>

Processes == Producers \cup Consumers
Slots == 0 .. MAX - 1
Vacant == -1
Unset == -2      \* number and index before they are assigned

EMPTY == 0
FILL  == 1
MUTEX == 2

(***************************************************************************)
(* off                 not running                                         *)
(* semget, first, second, otime   in init_sem: lines 40, 51, 52 and 44     *)
(* shmget, clearing    in init_shm: line 80 and the loop of line 93        *)
(* idle                asleep between two rounds                           *)
(* down, lock, scan, change, unlock, up   about to do that in the loop     *)
(* overrun             ran past the end of the array                       *)
(***************************************************************************)
Starting == {"semget", "first", "second", "otime", "shmget", "clearing"}
Critical == {"scan", "change", "unlock"}
PC == Starting \cup Critical \cup {"off", "idle", "down", "lock", "up", "overrun"}

\* No process has run yet.
FreshInit ==
  /\ fresh = TRUE
  /\ semset = "none"
  /\ sem = [s \in {EMPTY, FILL, MUTEX} |-> 0]
  /\ shm = FALSE
  /\ data = [s \in Slots |-> 0]
  /\ pc = [p \in Processes |-> "off"]
  /\ number = [p \in Processes |-> Unset]
  /\ index = [p \in Processes |-> Unset]

\* A first process has done its initialisation and is gone.
ReadyInit ==
  /\ fresh = FALSE
  /\ semset = "used"
  /\ sem = [s \in {EMPTY, FILL, MUTEX} |->
              CASE s = EMPTY -> MAX [] s = FILL -> 0 [] s = MUTEX -> 1]
  /\ shm = TRUE
  /\ data = [s \in Slots |-> Vacant]
  /\ pc = [p \in Processes |-> "off"]
  /\ number = [p \in Processes |-> Unset]
  /\ index = [p \in Processes |-> Unset]

Init == FreshInit \/ ReadyInit

---------------------------------------------------------------------------

At(p, from, to) == pc[p] = from /\ pc' = [pc EXCEPT ![p] = to]

change_sem_NoWait(s, val) ==
  sem' = [sem EXCEPT ![s] = IF @ + val >= 0 THEN @ + val ELSE 0]

\* semop blocks while the value would become negative.
change_sem(s, val) == sem[s] + val >= 0 /\ sem' = [sem EXCEPT ![s] = @ + val]

sem_down(s) == change_sem(s, -1)
sem_up(s)   == change_sem(s, 1)

Start(p) ==
  /\ At(p, "off", "semget")
  /\ UNCHANGED <<fresh, semset, sem, shm, data, number, index>>

\* SIGKILL or SIGINT, at any point; but the process that clears the array of a
\* fresh system is spared (bound).
Kill(p) ==
  /\ p \in Mortals
  /\ pc[p] \notin {"off", "clearing"}
  /\ pc' = [pc EXCEPT ![p] = "off"]
  /\ number' = [number EXCEPT ![p] = Unset]
  /\ index' = [index EXCEPT ![p] = Unset]
  /\ UNCHANGED <<fresh, semset, sem, shm, data>>

\* IPC_CREAT | IPC_EXCL: one process creates the semaphores.
SemGet(p) ==
  /\ \/ semset = "none" /\ semset' = "new" /\ At(p, "semget", "first")
     \/ semset # "none" /\ UNCHANGED semset /\ At(p, "semget", "otime")
  /\ UNCHANGED <<sem, shm, data, number, index>>

SemFirst(p) ==
  /\ At(p, "first", "second")
  /\ change_sem(MUTEX, 1)
  /\ semset' = "used"
  /\ UNCHANGED <<shm, data, number, index>>

SemSecond(p) ==
  /\ At(p, "second", "shmget")
  /\ change_sem(EMPTY, MAX)
  /\ UNCHANGED <<semset, shm, data, number, index>>

SemOtime_Inverted(p) ==
  /\ semset = "new"
  /\ At(p, "otime", "shmget")
  /\ UNCHANGED <<semset, sem, shm, data, number, index>>

\* The others poll until the creator has done its first semop.
SemOtime(p) ==
  /\ semset = "used"
  /\ At(p, "otime", "shmget")
  /\ UNCHANGED <<semset, sem, shm, data, number, index>>

\* The array starts as zeros; its creator need not be that of the semaphores.
ShmGet(p) ==
  /\ \/ ~shm /\ shm' = TRUE /\ At(p, "shmget", "clearing") /\ index' = [index EXCEPT ![p] = 0]
     \/ shm /\ At(p, "shmget", "idle") /\ UNCHANGED <<shm, index>>
  /\ UNCHANGED <<semset, sem, data, number>>

ShmClear(p) ==
  /\ pc[p] = "clearing"
  /\ data' = [data EXCEPT ![index[p]] = Vacant]
  /\ \/ /\ index[p] < MAX - 1
        /\ index' = [index EXCEPT ![p] = @ + 1]
        /\ UNCHANGED pc
     \/ /\ index[p] = MAX - 1
        /\ index' = [index EXCEPT ![p] = Unset]
        /\ pc' = [pc EXCEPT ![p] = "idle"]
  /\ UNCHANGED <<semset, sem, shm, number>>

---------------------------------------------------------------------------

\* s is the first slot, from 0 up, that is vacant (or that is not).
First(s, vacant) ==
  /\ (data[s] = Vacant) = vacant
  /\ \A t \in Slots : t < s => (data[t] = Vacant) # vacant

\* sleep returns; a producer draws its next number.
Wake(p) ==
  /\ At(p, "idle", "down")
  /\ IF p \in Producers
       THEN \E n \in Numbers : number' = [number EXCEPT ![p] = n]
       ELSE UNCHANGED number
  /\ UNCHANGED <<semset, sem, shm, data, index>>

Down(p) ==
  /\ At(p, "down", "lock")
  /\ sem_down(IF p \in Producers THEN EMPTY ELSE FILL)
  /\ UNCHANGED <<semset, shm, data, number, index>>

LockMutex_Skipped(p) ==
  /\ At(p, "lock", "scan")
  /\ UNCHANGED <<semset, sem, shm, data, number, index>>

LockMutex(p) ==
  /\ At(p, "lock", "scan")
  /\ sem_down(MUTEX)
  /\ UNCHANGED <<semset, shm, data, number, index>>

\* The scanning loop ends at the first slot that suits; a consumer then reads it.
FindSlot(p) ==
  /\ \/ \E s \in Slots :
          /\ First(s, p \in Producers)
          /\ At(p, "scan", "change")
          /\ index' = [index EXCEPT ![p] = s]
          /\ number' = IF p \in Producers THEN number
                       ELSE [number EXCEPT ![p] = data[s]]
     \/ /\ \A s \in Slots : (data[s] = Vacant) # (p \in Producers)
        /\ At(p, "scan", "overrun")
        /\ UNCHANGED <<index, number>>
  /\ UNCHANGED <<semset, sem, shm, data>>

ChangeSlot(p) ==
  /\ At(p, "change", "unlock")
  /\ data' = [data EXCEPT ![index[p]] = IF p \in Producers THEN number[p] ELSE Vacant]
  /\ UNCHANGED <<semset, sem, shm, number, index>>

UnlockMutex(p) ==
  /\ At(p, "unlock", "up")
  /\ sem_up(MUTEX)
  /\ UNCHANGED <<semset, shm, data, number, index>>

Up_SameSide(p) ==
  /\ At(p, "up", "idle")
  /\ sem_up(EMPTY)
  /\ number' = [number EXCEPT ![p] = Unset]
  /\ index' = [index EXCEPT ![p] = Unset]
  /\ UNCHANGED <<semset, shm, data>>

Up_Twice(p) ==
  /\ At(p, "up", "idle")
  /\ change_sem(IF p \in Producers THEN FILL ELSE EMPTY, 2)
  /\ number' = [number EXCEPT ![p] = Unset]
  /\ index' = [index EXCEPT ![p] = Unset]
  /\ UNCHANGED <<semset, shm, data>>

\* The last semop of the round; the printf that follows uses number and index
\* a last time.
Up(p) ==
  /\ At(p, "up", "idle")
  /\ sem_up(IF p \in Producers THEN FILL ELSE EMPTY)
  /\ number' = [number EXCEPT ![p] = Unset]
  /\ index' = [index EXCEPT ![p] = Unset]
  /\ UNCHANGED <<semset, shm, data>>

---------------------------------------------------------------------------

init(p) ==
  /\ \/ SemGet(p) \/ SemFirst(p) \/ SemSecond(p) \/ SemOtime(p) \/ ShmGet(p) \/ ShmClear(p)
  /\ UNCHANGED fresh

round(p) ==
  /\ \/ Wake(p) \/ Down(p) \/ LockMutex(p) \/ FindSlot(p) \/ ChangeSlot(p)
     \/ UnlockMutex(p) \/ Up(p)
  /\ UNCHANGED fresh

Next == \E p \in Processes : Start(p) \/ Kill(p) \/ init(p) \/ round(p)

Spec == Init /\ [][Next]_vars

\* Every process is started, again when it was killed, and kills end; a process
\* that can run does run.
Fairness ==
  /\ \A p \in Processes : WF_vars(Start(p) \/ init(p) \/ round(p))
  /\ <>[][\A p \in Processes : ~Kill(p)]_vars

FairSpec == Spec /\ Fairness

---------------------------------------------------------------------------

TypeOK ==
  /\ fresh \in BOOLEAN
  /\ semset \in {"none", "new", "used"}
  /\ sem[EMPTY] \in 0 .. MAX /\ sem[FILL] \in 0 .. MAX /\ sem[MUTEX] \in 0 .. 1
  /\ shm \in BOOLEAN
  /\ data \in [Slots -> Numbers \cup {Vacant}]
  /\ pc \in [Processes -> PC]
  /\ number \in [Processes -> Numbers \cup {Unset}]
  /\ index \in [Processes -> Slots \cup {Unset}]

\* The processes of P that hold a permit they have not used on the array yet,
\* and those that have used it and owe the other side one.
Holding(P) == {p \in P : pc[p] \in {"lock", "scan", "change"}}
Owing(P)   == {p \in P : pc[p] \in {"unlock", "up"}}

\* Whoever was killed and wherever: for every permit that a semaphore still
\* offers, that a process holds or that a process will post, there is a slot
\* on the right side.  (In a fresh system a process may be at the array before
\* its creator has cleared it, and the zeros count as numbers.)
PermitsCovered ==
  ~fresh =>
    /\ sem[EMPTY] + Cardinality(Holding(Producers)) + Cardinality(Owing(Consumers))
         <= Cardinality({s \in Slots : data[s] = Vacant})
    /\ sem[FILL] + Cardinality(Holding(Consumers)) + Cardinality(Owing(Producers))
         <= Cardinality({s \in Slots : data[s] # Vacant})

\* One process at a time looks at the array.
MutexExcludes ==
  \A p, q \in Processes : pc[p] \in Critical /\ pc[q] \in Critical => p = q

\* The unbounded loops of producer.c:103 and consumer.c:103 find a slot before
\* the array ends, once the array has been cleared.
NoOverrun == ~fresh => \A p \in Processes : pc[p] # "overrun"

\* The array as a table of numbers: a slot that its creator has not cleared
\* yet counts as vacant.
array ==
  [s \in Slots |->
     IF ~shm \/ \E p \in Processes : pc[p] = "clearing" /\ index[p] <= s
       THEN Vacant ELSE data[s]]

\* A producer has its number until it has put it down, a consumer from then on.
Hand(p) ==
  IF \/ p \in Producers /\ pc[p] \in {"down", "lock", "scan", "change"}
     \/ p \in Consumers /\ pc[p] \in {"unlock", "up"}
    THEN number[p] ELSE Unset

hands == [p \in Processes |-> Hand(p)]

Table == INSTANCE NumberTable WITH table <- array, hand <- hands

\* No number is overwritten before it is taken, taken twice, or taken without
\* having been put there.
ImplementsTable == Table!Spec

\* A permit, or the mutex, went down with a killed process.
PermitLost ==
  \/ sem[EMPTY] + sem[FILL]
       + Cardinality({p \in Processes : pc[p] \in {"lock", "up", "overrun"} \cup Critical})
         < MAX
  \/ sem[MUTEX] = 0 /\ \A p \in Processes : pc[p] \notin Critical \cup {"overrun"}

\* Numbers are put and taken for ever, unless a process was killed inside its
\* round: nothing else can stop the two loops of an initialised system.
WorkGoesOn ==
  \/ fresh = TRUE
  \/ []<>(\E p \in Consumers : pc[p] = "unlock")
  \/ <>PermitLost

\* The creator of the semaphores died before its first semop: sem_otime stays 0.
Orphaned == semset = "new" /\ \A p \in Processes : pc[p] # "first"

\* Every process gets through init_sem and init_shm, whichever of them creates
\* what and whoever is killed meanwhile; only the death of the creator between
\* semget and its first semop keeps the others polling (producer.c 43-46) for ever.
StartupCompletes == (\A p \in Processes : <>(pc[p] = "idle")) \/ <>[]Orphaned

=============================================================================
