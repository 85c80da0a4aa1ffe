---------------------------- MODULE Philosophers ----------------------------
(***************************************************************************)
(* cw09/zad1/main.c: N philosopher threads share one mutex and one         *)
(* condition variable each.  SIGINT makes the main thread cancel them all; *)
(* the cancellation type is the default one (deferred), so a pending       *)
(* request acts only at a cancellation point: usleep, printf and           *)
(* pthread_cond_wait, never pthread_mutex_lock.                            *)
(***************************************************************************)
EXTENDS Integers

CONSTANT N              \* number of philosophers

ASSUME NAssumption == N \in Nat /\ N >= 2

VARIABLES
  philo_state,  \* philo_state[i], THINK / WAIT / EAT
  mutex,        \* the thread that holds the mutex, or Free
  pc,           \* where each thread is
  cancelled,    \* threads for which pthread_cancel has been called
  handler,      \* next index of the SIGINT handler's loop; -1 before SIGINT
  joined        \* how many threads main has joined

vars == <<philo_state, mutex, pc, cancelled, handler, joined>>

THINK == 0
WAIT  == 1
EAT   == 2

Philo == 0 .. N - 1
Free  == -1
Left(i)  == (i + N - 1) % N
Right(i) == (i + 1) % N

(***************************************************************************)
(* think, eat      in usleep (eat: also the printf before it)              *)
(* lock1, lock2    about to lock the mutex in use, in put_back             *)
(* use, try, check holding the mutex in use: lines 33, 34 and 35           *)
(* asleep, relock  inside pthread_cond_wait: blocked, then woken and about *)
(*                 to get the mutex back                                   *)
(* put, putL, putR holding the mutex in put_back: lines 43, 44 and 45      *)
(* quit, cleanup   cancelled inside pthread_cond_wait: about to get the    *)
(*                 mutex back, then running the cleanup handler            *)
(* dead            the thread has terminated                               *)
(***************************************************************************)
PC == {"think", "lock1", "use", "try", "check", "asleep", "relock", "eat",
       "lock2", "put", "putL", "putR", "quit", "cleanup", "dead"}

Init ==
  /\ philo_state = [i \in Philo |-> THINK]
  /\ mutex = Free
  /\ pc = [i \in Philo |-> "think"]
  /\ cancelled = {}
  /\ handler = -1
  /\ joined = 0

---------------------------------------------------------------------------

At(i, from, to) == pc[i] = from /\ pc' = [pc EXCEPT ![i] = to]

Lock(i, from, to) ==
  /\ mutex = Free
  /\ mutex' = i
  /\ At(i, from, to)
  /\ UNCHANGED <<philo_state, cancelled, handler, joined>>

CanEat_RightOnly(i) ==
  /\ philo_state[i] = WAIT
  /\ philo_state[Right(i)] # EAT

CanEat(i) ==
  /\ philo_state[i] = WAIT
  /\ philo_state[Left(i)] # EAT
  /\ philo_state[Right(i)] # EAT

\* pcs is where the threads are after the caller's step; signalling condition
\* i wakes thread i if it is blocked there and is lost otherwise.
change_philo_state_NoSignal(i, pcs) ==
  /\ philo_state' = IF CanEat(i) THEN [philo_state EXCEPT ![i] = EAT] ELSE philo_state
  /\ pc' = pcs

change_philo_state(i, pcs) ==
  \/ /\ CanEat(i)
     /\ philo_state' = [philo_state EXCEPT ![i] = EAT]
     /\ pc' = [pcs EXCEPT ![i] = IF @ = "asleep" THEN "relock" ELSE @]
  \/ ~CanEat(i) /\ UNCHANGED philo_state /\ pc' = pcs

\* usleep returns; a thread with a pending cancellation does not get past it.
Wake(i) ==
  /\ i \notin cancelled
  /\ At(i, "think", "lock1") \/ At(i, "eat", "lock2")
  /\ UNCHANGED <<philo_state, mutex, cancelled, handler, joined>>

UseLock(i) == Lock(i, "lock1", "use")

UseWait(i) ==
  /\ At(i, "use", "try")
  /\ philo_state' = [philo_state EXCEPT ![i] = WAIT]
  /\ UNCHANGED <<mutex, cancelled, handler, joined>>

UseTry(i) ==
  /\ pc[i] = "try"
  /\ change_philo_state(i, [pc EXCEPT ![i] = "check"])
  /\ UNCHANGED <<mutex, cancelled, handler, joined>>

\* The while loop: pthread_cond_wait gives the mutex up, and so does the
\* cleanup handler that pthread_cleanup_pop(1) runs.
UseCheck(i) ==
  /\ \/ philo_state[i] = WAIT /\ At(i, "check", "asleep")
     \/ philo_state[i] # WAIT /\ At(i, "check", "eat")
  /\ mutex' = Free
  /\ UNCHANGED <<philo_state, cancelled, handler, joined>>

Relock(i) == Lock(i, "relock", "check")

\* pthread_cond_wait may return although nobody signalled (a pending
\* cancellation acts instead).
Spurious(i) ==
  /\ i \notin cancelled
  /\ At(i, "asleep", "relock")
  /\ UNCHANGED <<philo_state, mutex, cancelled, handler, joined>>

PutLock(i) == Lock(i, "lock2", "put")

PutThink(i) ==
  /\ At(i, "put", "putL")
  /\ philo_state' = [philo_state EXCEPT ![i] = THINK]
  /\ UNCHANGED <<mutex, cancelled, handler, joined>>

PutLeft_Skipped(i) ==
  /\ At(i, "putL", "putR")
  /\ UNCHANGED <<philo_state, mutex, cancelled, handler, joined>>

PutLeft(i) ==
  /\ pc[i] = "putL"
  /\ change_philo_state(Left(i), [pc EXCEPT ![i] = "putR"])
  /\ UNCHANGED <<mutex, cancelled, handler, joined>>

PutRight(i) ==
  /\ pc[i] = "putR"
  /\ change_philo_state(Right(i), [pc EXCEPT ![i] = "think"])
  /\ mutex' = Free
  /\ UNCHANGED <<cancelled, handler, joined>>

\* A pending cancellation acts in usleep: the thread ends where it is, and
\* its philo_state stays what it was.
CancelSleep(i) ==
  /\ i \in cancelled
  /\ At(i, "think", "dead") \/ At(i, "eat", "dead")
  /\ UNCHANGED <<philo_state, mutex, cancelled, handler, joined>>

\* ... or in pthread_cond_wait, which gets the mutex back before the cleanup
\* handler runs.
CancelWait(i) ==
  /\ i \in cancelled
  /\ At(i, "asleep", "quit")
  /\ UNCHANGED <<philo_state, mutex, cancelled, handler, joined>>

CancelLock(i) == Lock(i, "quit", "cleanup")

cleanup_KeepsMutex(i) ==
  /\ At(i, "cleanup", "dead")
  /\ UNCHANGED <<philo_state, mutex, cancelled, handler, joined>>

cleanup(i) ==
  /\ At(i, "cleanup", "dead")
  /\ mutex' = Free
  /\ UNCHANGED <<philo_state, cancelled, handler, joined>>

---------------------------------------------------------------------------

Interrupt ==
  /\ handler = -1
  /\ joined < N
  /\ handler' = 0
  /\ UNCHANGED <<philo_state, mutex, pc, cancelled, joined>>

\* One turn of the handler's loop.  It runs on the main thread.
CancelNext ==
  /\ handler \in Philo
  /\ cancelled' = cancelled \cup {handler}
  /\ handler' = handler + 1
  /\ UNCHANGED <<philo_state, mutex, pc, joined>>

Join_OffByOne ==
  /\ handler \notin Philo
  /\ joined <= N
  /\ pc[joined % N] = "dead"
  /\ joined' = joined + 1
  /\ UNCHANGED <<philo_state, mutex, pc, cancelled, handler>>

Join ==
  /\ handler \notin Philo
  /\ joined < N
  /\ pc[joined] = "dead"
  /\ joined' = joined + 1
  /\ UNCHANGED <<philo_state, mutex, pc, cancelled, handler>>

\* main has returned: the only state in which nothing is left to do.
Ended == joined = N /\ UNCHANGED vars

---------------------------------------------------------------------------

Thread(i) ==
  \/ Wake(i) \/ UseLock(i) \/ UseWait(i) \/ UseTry(i) \/ UseCheck(i)
  \/ Relock(i) \/ PutLock(i) \/ PutThink(i) \/ PutLeft(i) \/ PutRight(i)
  \/ CancelSleep(i) \/ CancelWait(i) \/ CancelLock(i) \/ cleanup(i)

Next ==
  \/ \E i \in Philo : Thread(i) \/ Spurious(i)
  \/ Interrupt \/ CancelNext \/ Join \/ Ended

Spec == Init /\ [][Next]_vars

\* Threads that can run do run, and spurious wakeups are not the only thing
\* that ever happens.  Nothing is assumed of SIGINT or of the mutex: a thread
\* that finds it taken again and again may wait for ever.
Fairness ==
  /\ \A i \in Philo : WF_vars(Thread(i))
  /\ WF_vars(CancelNext)
  /\ WF_vars(Join)
  /\ <>[][\A i \in Philo : ~Spurious(i)]_vars

FairSpec == Spec /\ Fairness

---------------------------------------------------------------------------

TypeOK ==
  /\ philo_state \in [Philo -> {THINK, WAIT, EAT}]
  /\ mutex \in Philo \cup {Free}
  /\ pc \in [Philo -> PC]
  /\ cancelled \subseteq Philo
  /\ handler \in -1 .. N
  /\ joined \in 0 .. N

\* No two neighbours have their forks at the same time, whether they hold
\* them (EAT) or were given them in their sleep, and also when one of them
\* was cancelled in the middle of a meal (change_philo_state).
NeighboursExclude ==
  \A i \in Philo : ~(philo_state[i] = EAT /\ philo_state[Right(i)] = EAT)

\* Whenever the mutex is free, a philosopher who waits has a neighbour who
\* eats: put_back offers the forks to both sides and use tries before it
\* sleeps, so nobody is left waiting at a free place.
NoMissedGrant ==
  mutex = Free =>
    \A i \in Philo : philo_state[i] = WAIT =>
      philo_state[Left(i)] = EAT \/ philo_state[Right(i)] = EAT

\* A philosopher who was given the forks is never left blocked in
\* pthread_cond_wait: the grant and the signal go together, and the signal
\* cannot come between the test and the wait.
NoLostWakeup ==
  \A i \in Philo : pc[i] = "asleep" => philo_state[i] = WAIT

\* Meals go on for ever, until SIGINT: the monitor neither deadlocks nor
\* spends all its time waking threads that go back to sleep.
MealsGoOn == []<>(handler >= 0 \/ \E i \in Philo : pc[i] = "lock2")

\* After SIGINT every thread ends and main joins them all: a thread that is
\* cancelled inside pthread_cond_wait gives the mutex back (cleanup).
ShutdownCompletes == (handler >= 0) ~> (joined = N)

\* The monitor implements the table with forks: philo_state says who holds
\* which fork.
Forks == INSTANCE DiningForks WITH
  seat <- philo_state,
  fork <- [f \in Philo |-> IF philo_state[f] = EAT THEN f
                           ELSE IF philo_state[Right(f)] = EAT THEN Right(f)
                           ELSE -1]

\* Every step of the threads, cancelled or not, takes both forks from the
\* table, returns both, sits a philosopher down, or moves no fork.
ImplementsForks == Forks!Spec

=============================================================================
