------------------------- MODULE Philosophers_proofs -------------------------
(***************************************************************************)
(* Proofs about the dining monitor, for every number N >= 2 of             *)
(* philosophers: its type invariant, the exclusion of neighbours, the      *)
(* absence of missed grants and of lost wakeups, the table it implements,  *)
(* and that the threads and main never all wait.                           *)
(***************************************************************************)
EXTENDS Philosophers, TLAPS

\* The thread is between a lock and an unlock of the mutex.
Holds(i) == pc[i] \in {"use", "try", "check", "put", "putL", "putR", "cleanup"}

MutexHeld == \A i \in Philo : Holds(i) <=> mutex = i

\* What a thread's place says of its philo_state.
StateAt ==
  \A i \in Philo :
    /\ pc[i] \in {"think", "lock1", "use", "putL", "putR"} => philo_state[i] = THINK
    /\ pc[i] \in {"try", "asleep"} => philo_state[i] = WAIT
    /\ pc[i] \in {"check", "relock", "quit", "cleanup"} => philo_state[i] # THINK
    /\ pc[i] \in {"eat", "lock2", "put"} => philo_state[i] = EAT

\* A philosopher who waits has an eating neighbour, or the thread that will
\* look at his place is on its way to it.
Offered ==
  \A i \in Philo : philo_state[i] = WAIT =>
    \/ philo_state[Left(i)] = EAT \/ philo_state[Right(i)] = EAT
    \/ pc[i] = "try"
    \/ pc[Right(i)] = "putL"
    \/ pc[Left(i)] \in {"putL", "putR"}

IInv == TypeOK /\ MutexHeld /\ StateAt /\ NeighboursExclude /\ Offered

---------------------------------------------------------------------------

LEMMA Neighbours ==
  ASSUME NEW i \in Philo
  PROVE  /\ Left(i) \in Philo /\ Left(i) # i
         /\ Right(i) \in Philo /\ Right(i) # i
         /\ Left(Right(i)) = i /\ Right(Left(i)) = i
<1>1. Left(i) = IF i = 0 THEN N - 1 ELSE i - 1
  BY NAssumption DEF Left, Philo
<1>2. Right(i) = IF i = N - 1 THEN 0 ELSE i + 1
  BY NAssumption DEF Right, Philo
<1>3. Left(i) \in Philo /\ Right(i) \in Philo
  BY <1>1, <1>2, NAssumption DEF Philo
<1>4. Left(Right(i)) = IF Right(i) = 0 THEN N - 1 ELSE Right(i) - 1
  BY <1>3, NAssumption DEF Left, Philo
<1>5. Right(Left(i)) = IF Left(i) = N - 1 THEN 0 ELSE Left(i) + 1
  BY <1>3, NAssumption DEF Right, Philo
<1> QED
  BY <1>1, <1>2, <1>3, <1>4, <1>5, NAssumption DEF Philo

\* What offering place k does: k may go from WAIT to EAT, and then wakes up
\* if it was blocked; nothing else changes.
LEMMA Offer ==
  ASSUME TypeOK, NEW k \in Philo, NEW pcs \in [Philo -> PC],
         change_philo_state(k, pcs)
  PROVE  /\ philo_state' \in [Philo -> {THINK, WAIT, EAT}]
         /\ pc' \in [Philo -> PC]
         /\ \A i \in Philo \ {k} : philo_state'[i] = philo_state[i] /\ pc'[i] = pcs[i]
         /\ \/ /\ CanEat(k)
               /\ philo_state'[k] = EAT
               /\ pc'[k] = IF pcs[k] = "asleep" THEN "relock" ELSE pcs[k]
            \/ /\ ~CanEat(k)
               /\ philo_state'[k] = philo_state[k]
               /\ pc'[k] = pcs[k]
BY DEF TypeOK, change_philo_state, PC

LEMMA InitIInv == Init => IInv
BY NAssumption, Neighbours
   DEF Init, IInv, TypeOK, MutexHeld, StateAt, NeighboursExclude, Offered,
       Holds, Philo, PC, THINK, WAIT, EAT, Free

\* A step of thread i that leaves every philo_state alone.
LEMMA QuietStep ==
  ASSUME IInv, NEW i \in Philo,
         \/ Wake(i) \/ UseLock(i) \/ UseCheck(i) \/ Relock(i) \/ Spurious(i)
         \/ PutLock(i) \/ CancelSleep(i) \/ CancelWait(i) \/ CancelLock(i)
         \/ cleanup(i)
  PROVE  IInv'
<1> USE Neighbours DEF IInv
<1>1. TypeOK'
  BY DEF TypeOK, PC, Philo, Free, Wake, UseLock, UseCheck, Relock, Spurious, PutLock,
         CancelSleep, CancelWait, CancelLock, cleanup, Lock, At
<1>2. MutexHeld'
  <2>1. \A j \in Philo \ {i} : pc'[j] = pc[j]
    BY DEF TypeOK, Wake, UseLock, UseCheck, Relock, Spurious, PutLock,
           CancelSleep, CancelWait, CancelLock, cleanup, Lock, At
  <2>2. CASE UseLock(i) \/ Relock(i) \/ PutLock(i) \/ CancelLock(i)
    <3>1. mutex = Free /\ mutex' = i /\ Holds(i)'
      BY <2>2 DEF TypeOK, Holds, UseLock, Relock, PutLock, CancelLock, Lock, At
    <3> QED
      BY <2>1, <3>1 DEF MutexHeld, Holds, Philo, Free
  <2>3. CASE UseCheck(i) \/ cleanup(i)
    <3>1. Holds(i) /\ mutex' = Free /\ ~Holds(i)'
      BY <2>3 DEF TypeOK, Holds, UseCheck, cleanup, At
    <3> QED
      BY <2>1, <3>1 DEF MutexHeld, Holds, Philo, Free
  <2>4. CASE Wake(i) \/ Spurious(i) \/ CancelSleep(i) \/ CancelWait(i)
    <3>1. ~Holds(i) /\ mutex' = mutex /\ ~Holds(i)'
      BY <2>4 DEF TypeOK, Holds, Wake, Spurious, CancelSleep, CancelWait, At
    <3> QED
      BY <2>1, <3>1 DEF MutexHeld, Holds
  <2> QED
    BY <2>2, <2>3, <2>4
<1>3. StateAt'
  BY DEF TypeOK, StateAt, PC, THINK, WAIT, EAT, Wake, UseLock, UseCheck, Relock,
         Spurious, PutLock, CancelSleep, CancelWait, CancelLock, cleanup, Lock, At
<1>4. NeighboursExclude'
  BY DEF NeighboursExclude, Wake, UseLock, UseCheck, Relock,
         Spurious, PutLock, CancelSleep, CancelWait, CancelLock, cleanup, Lock, At
<1>5. Offered'
  BY DEF TypeOK, Offered, Wake, UseLock, UseCheck, Relock,
         Spurious, PutLock, CancelSleep, CancelWait, CancelLock, cleanup, Lock, At
<1> QED
  BY <1>1, <1>2, <1>3, <1>4, <1>5

\* use, line 33.
LEMMA UseWaitStep ==
  ASSUME IInv, NEW i \in Philo, UseWait(i)
  PROVE  IInv'
<1> USE Neighbours DEF IInv, UseWait, At
<1>1. TypeOK'
  BY DEF TypeOK, PC
<1>2. MutexHeld'
  BY DEF TypeOK, MutexHeld, Holds
<1>3. StateAt'
  BY DEF TypeOK, StateAt, THINK, WAIT, EAT
<1>4. NeighboursExclude'
  BY DEF TypeOK, NeighboursExclude, WAIT, EAT
<1>5. Offered'
  BY DEF TypeOK, Offered, StateAt, THINK, WAIT, EAT
<1> QED
  BY <1>1, <1>2, <1>3, <1>4, <1>5

\* put_back, line 43.
LEMMA PutThinkStep ==
  ASSUME IInv, NEW i \in Philo, PutThink(i)
  PROVE  IInv'
<1> USE Neighbours DEF IInv, PutThink, At
<1>1. TypeOK'
  BY DEF TypeOK, PC
<1>2. MutexHeld'
  BY DEF TypeOK, MutexHeld, Holds
<1>3. StateAt'
  BY DEF TypeOK, StateAt, THINK, WAIT, EAT
<1>4. NeighboursExclude'
  BY DEF TypeOK, NeighboursExclude, THINK, EAT
<1>5. Offered'
  BY DEF TypeOK, Offered, THINK, WAIT, EAT
<1> QED
  BY <1>1, <1>2, <1>3, <1>4, <1>5

\* use, line 34: thread i offers its own place.
LEMMA UseTryStep ==
  ASSUME IInv, NEW i \in Philo, UseTry(i)
  PROVE  IInv'
<1> DEFINE pcs == [pc EXCEPT ![i] = "check"]
<1> USE Neighbours DEF IInv
<1>1. pcs \in [Philo -> PC]
  BY DEF TypeOK, PC
<1>2. change_philo_state(i, pcs) /\ pc[i] = "try"
      /\ UNCHANGED <<mutex, cancelled, handler, joined>>
  BY DEF UseTry
<1>3. /\ philo_state' \in [Philo -> {THINK, WAIT, EAT}]
      /\ pc' \in [Philo -> PC]
      /\ \A j \in Philo \ {i} : philo_state'[j] = philo_state[j] /\ pc'[j] = pc[j]
      /\ pc'[i] = "check"
      /\ \/ CanEat(i) /\ philo_state'[i] = EAT
         \/ ~CanEat(i) /\ philo_state'[i] = philo_state[i]
  <2> HIDE DEF pcs
  <2>1. /\ philo_state' \in [Philo -> {THINK, WAIT, EAT}]
        /\ pc' \in [Philo -> PC]
        /\ \A j \in Philo \ {i} : philo_state'[j] = philo_state[j] /\ pc'[j] = pcs[j]
        /\ \/ /\ CanEat(i)
              /\ philo_state'[i] = EAT
              /\ pc'[i] = IF pcs[i] = "asleep" THEN "relock" ELSE pcs[i]
           \/ /\ ~CanEat(i)
              /\ philo_state'[i] = philo_state[i]
              /\ pc'[i] = pcs[i]
    BY <1>1, <1>2, Offer
  <2> QED
    BY <2>1 DEF pcs, TypeOK
<1>4. TypeOK'
  BY <1>2, <1>3 DEF TypeOK
<1>5. MutexHeld'
  BY <1>2, <1>3 DEF MutexHeld, Holds
<1>6. StateAt'
  BY <1>2, <1>3 DEF StateAt, CanEat, THINK, WAIT, EAT
<1>7. NeighboursExclude'
  BY <1>3 DEF NeighboursExclude, CanEat
<1>8. Offered'
  <2> SUFFICES ASSUME NEW j \in Philo, philo_state'[j] = WAIT
               PROVE  \/ philo_state'[Left(j)] = EAT \/ philo_state'[Right(j)] = EAT
                      \/ pc'[j] = "try"
                      \/ pc'[Right(j)] = "putL"
                      \/ pc'[Left(j)] \in {"putL", "putR"}
    BY DEF Offered
  <2>1. CASE j = i
    BY <1>2, <1>3, <2>1 DEF StateAt, CanEat, WAIT, EAT
  <2>2. CASE j # i
    BY <1>2, <1>3, <2>2 DEF Offered, StateAt, CanEat, WAIT, EAT
  <2> QED
    BY <2>1, <2>2
<1> QED
  BY <1>4, <1>5, <1>6, <1>7, <1>8

\* put_back, lines 44 and 45: thread i offers the place of a neighbour k.
LEMMA OfferNeighbour ==
  ASSUME IInv, NEW i \in Philo, pc[i] \in {"putL", "putR"},
         NEW k \in Philo \ {i}, NEW to \in {"putR", "think"},
         change_philo_state(k, [pc EXCEPT ![i] = to])
  PROVE  /\ philo_state' \in [Philo -> {THINK, WAIT, EAT}]
         /\ pc' \in [Philo -> PC]
         /\ pc'[i] = to
         /\ \A j \in Philo \ {i, k} : pc'[j] = pc[j]
         /\ pc'[k] = pc[k] \/ (pc[k] = "asleep" /\ pc'[k] = "relock")
         /\ \A j \in Philo \ {k} : philo_state'[j] = philo_state[j]
         /\ \/ CanEat(k) /\ philo_state'[k] = EAT
            \/ ~CanEat(k) /\ philo_state'[k] = philo_state[k]
         /\ StateAt'
         /\ NeighboursExclude'
<1> DEFINE pcs == [pc EXCEPT ![i] = to]
<1>1. pcs \in [Philo -> PC]
  BY DEF IInv, TypeOK, PC
<1>2. /\ philo_state' \in [Philo -> {THINK, WAIT, EAT}]
      /\ pc' \in [Philo -> PC]
      /\ \A j \in Philo \ {k} : philo_state'[j] = philo_state[j] /\ pc'[j] = pcs[j]
      /\ \/ /\ CanEat(k)
            /\ philo_state'[k] = EAT
            /\ pc'[k] = IF pcs[k] = "asleep" THEN "relock" ELSE pcs[k]
         \/ /\ ~CanEat(k)
            /\ philo_state'[k] = philo_state[k]
            /\ pc'[k] = pcs[k]
  <2> HIDE DEF pcs
  <2> QED
    BY <1>1, Offer DEF IInv, pcs
<1>3. /\ pcs[i] = to /\ pcs[k] = pc[k]
      /\ \A j \in Philo \ {i} : pcs[j] = pc[j]
  BY DEF IInv, TypeOK
<1> HIDE DEF pcs
<1>4. CanEat(k) => pc[k] \in {"asleep", "relock", "quit", "dead"}
  <2>1. mutex = i
    BY DEF IInv, MutexHeld, Holds
  <2>2. ~Holds(k)
    BY <2>1 DEF IInv, MutexHeld
  <2> QED
    BY <2>2 DEF IInv, TypeOK, PC, StateAt, Holds, CanEat, THINK, WAIT, EAT
<1>5. /\ philo_state[i] = THINK /\ philo_state'[i] = THINK
      /\ \A j \in Philo : philo_state'[j] # THINK <=> philo_state[j] # THINK
  BY <1>2 DEF IInv, StateAt, CanEat, THINK, WAIT, EAT
<1>6. StateAt'
  <2> SUFFICES ASSUME NEW j \in Philo
      PROVE  /\ pc'[j] \in {"think", "lock1", "use", "putL", "putR"} => philo_state'[j] = THINK
             /\ pc'[j] \in {"try", "asleep"} => philo_state'[j] = WAIT
             /\ pc'[j] \in {"check", "relock", "quit", "cleanup"} => philo_state'[j] # THINK
             /\ pc'[j] \in {"eat", "lock2", "put"} => philo_state'[j] = EAT
    BY DEF StateAt
  <2>1. CASE j = i
    BY <1>2, <1>3, <1>5, <2>1
  <2>2. CASE j = k
    <3>1. CASE CanEat(k)
      BY <1>2, <1>3, <1>4, <2>2, <3>1 DEF CanEat, THINK, WAIT, EAT
    <3>2. CASE ~CanEat(k)
      BY <1>2, <1>3, <2>2, <3>2 DEF IInv, StateAt
    <3> QED
      BY <3>1, <3>2
  <2>3. CASE j \notin {i, k}
    BY <1>2, <1>3, <2>3 DEF IInv, StateAt
  <2> QED
    BY <2>1, <2>2, <2>3
<1>7. NeighboursExclude'
  BY <1>2, Neighbours DEF IInv, NeighboursExclude, CanEat
<1> QED
  BY <1>2, <1>3, <1>6, <1>7

LEMMA PutLeftStep ==
  ASSUME IInv, NEW i \in Philo, PutLeft(i)
  PROVE  IInv'
<1> DEFINE k == Left(i)
<1>1. /\ k \in Philo \ {i} /\ i = Right(k)
      /\ pc[i] = "putL"
      /\ change_philo_state(k, [pc EXCEPT ![i] = "putR"])
      /\ UNCHANGED <<mutex, cancelled, handler, joined>>
  BY Neighbours DEF PutLeft
<1> HIDE DEF k
<1>2. /\ philo_state' \in [Philo -> {THINK, WAIT, EAT}]
      /\ pc' \in [Philo -> PC]
      /\ pc'[i] = "putR"
      /\ \A j \in Philo \ {i, k} : pc'[j] = pc[j]
      /\ pc'[k] = pc[k] \/ (pc[k] = "asleep" /\ pc'[k] = "relock")
      /\ \A j \in Philo \ {k} : philo_state'[j] = philo_state[j]
      /\ \/ CanEat(k) /\ philo_state'[k] = EAT
         \/ ~CanEat(k) /\ philo_state'[k] = philo_state[k]
      /\ StateAt'
      /\ NeighboursExclude'
  BY <1>1, OfferNeighbour
<1>3. TypeOK'
  BY <1>1, <1>2 DEF IInv, TypeOK
<1>4. MutexHeld'
  BY <1>1, <1>2 DEF IInv, MutexHeld, Holds
<1>5. Offered'
  <2> SUFFICES ASSUME NEW j \in Philo, philo_state'[j] = WAIT
               PROVE  \/ philo_state'[Left(j)] = EAT \/ philo_state'[Right(j)] = EAT
                      \/ pc'[j] = "try"
                      \/ pc'[Right(j)] = "putL"
                      \/ pc'[Left(j)] \in {"putL", "putR"}
    BY DEF Offered
  <2>1. CASE j = k
    BY <1>1, <1>2, <2>1, Neighbours DEF CanEat, WAIT, EAT
  <2>2. CASE j # k
    BY <1>1, <1>2, <2>2, Neighbours DEF IInv, Offered, CanEat, WAIT, EAT
  <2> QED
    BY <2>1, <2>2
<1> QED
  BY <1>2, <1>3, <1>4, <1>5 DEF IInv

LEMMA PutRightStep ==
  ASSUME IInv, NEW i \in Philo, PutRight(i)
  PROVE  IInv'
<1> DEFINE k == Right(i)
<1>1. /\ k \in Philo \ {i} /\ i = Left(k)
      /\ pc[i] = "putR"
      /\ change_philo_state(k, [pc EXCEPT ![i] = "think"])
      /\ mutex' = Free
      /\ UNCHANGED <<cancelled, handler, joined>>
  BY Neighbours DEF PutRight
<1> HIDE DEF k
<1>2. /\ philo_state' \in [Philo -> {THINK, WAIT, EAT}]
      /\ pc' \in [Philo -> PC]
      /\ pc'[i] = "think"
      /\ \A j \in Philo \ {i, k} : pc'[j] = pc[j]
      /\ pc'[k] = pc[k] \/ (pc[k] = "asleep" /\ pc'[k] = "relock")
      /\ \A j \in Philo \ {k} : philo_state'[j] = philo_state[j]
      /\ \/ CanEat(k) /\ philo_state'[k] = EAT
         \/ ~CanEat(k) /\ philo_state'[k] = philo_state[k]
      /\ StateAt'
      /\ NeighboursExclude'
  BY <1>1, OfferNeighbour
<1>3. TypeOK'
  BY <1>1, <1>2 DEF IInv, TypeOK
<1>4. MutexHeld'
  <2>1. mutex = i
    BY <1>1 DEF IInv, MutexHeld, Holds
  <2> QED
    BY <1>1, <1>2, <2>1 DEF IInv, MutexHeld, Holds, Philo, Free
<1>5. Offered'
  <2> SUFFICES ASSUME NEW j \in Philo, philo_state'[j] = WAIT
               PROVE  \/ philo_state'[Left(j)] = EAT \/ philo_state'[Right(j)] = EAT
                      \/ pc'[j] = "try"
                      \/ pc'[Right(j)] = "putL"
                      \/ pc'[Left(j)] \in {"putL", "putR"}
    BY DEF Offered
  <2>1. CASE j = k
    BY <1>1, <1>2, <2>1, Neighbours DEF CanEat, WAIT, EAT
  <2>2. CASE j # k
    BY <1>1, <1>2, <2>2, Neighbours DEF IInv, Offered, CanEat, WAIT, EAT
  <2> QED
    BY <2>1, <2>2
<1> QED
  BY <1>2, <1>3, <1>4, <1>5 DEF IInv

LEMMA MainStep ==
  ASSUME IInv, Interrupt \/ CancelNext \/ Join \/ UNCHANGED vars
  PROVE  IInv'
<1>1. TypeOK'
  <2>1. CASE Interrupt
    BY <2>1, NAssumption DEF IInv, TypeOK, Interrupt
  <2>2. CASE CancelNext
    <3>1. cancelled' \subseteq Philo
      BY <2>2 DEF IInv, TypeOK, CancelNext
    <3>2. handler' \in -1 .. N
      BY <2>2, NAssumption DEF CancelNext, Philo
    <3> QED
      BY <2>2, <3>1, <3>2 DEF IInv, TypeOK, CancelNext
  <2>3. CASE Join
    BY <2>3, NAssumption DEF IInv, TypeOK, Join
  <2>4. CASE UNCHANGED vars
    BY <2>4 DEF IInv, TypeOK, vars
  <2> QED
    BY <2>1, <2>2, <2>3, <2>4
<1>2. UNCHANGED <<philo_state, mutex, pc>>
  BY DEF Interrupt, CancelNext, Join, vars
<1>3. MutexHeld' /\ StateAt' /\ NeighboursExclude' /\ Offered'
  BY <1>2 DEF IInv, MutexHeld, Holds, StateAt, NeighboursExclude, Offered
<1> QED
  BY <1>1, <1>3 DEF IInv

---------------------------------------------------------------------------

\* The whole inductive invariant.
THEOREM Invariance == Spec => []IInv
<1>1. IInv /\ [Next]_vars => IInv'
  <2> SUFFICES ASSUME IInv, [Next]_vars
               PROVE  IInv'
    OBVIOUS
  <2>1. ASSUME NEW i \in Philo, Thread(i) \/ Spurious(i)
        PROVE  IInv'
    BY <2>1, QuietStep, UseWaitStep, UseTryStep, PutThinkStep, PutLeftStep, PutRightStep
       DEF Thread
  <2>2. CASE Interrupt \/ CancelNext \/ Join \/ Ended \/ UNCHANGED vars
    BY <2>2, MainStep DEF Ended
  <2> QED
    BY <2>1, <2>2 DEF Next
<1> QED
  BY <1>1, InitIInv, PTL DEF Spec

\* Every variable of the monitor and of the shutdown has its type, for any
\* number of philosophers.
THEOREM TypeCorrect == Spec => []TypeOK
<1>1. IInv => TypeOK
  BY DEF IInv
<1> QED
  BY <1>1, Invariance, PTL

\* No two neighbours ever have their forks at the same time (cw09/zad1,
\* change_philo_state), for any number of philosophers and any interrupts.
THEOREM Exclusion == Spec => []NeighboursExclude
<1>1. IInv => NeighboursExclude
  BY DEF IInv
<1> QED
  BY <1>1, Invariance, PTL

\* While the mutex is free, nobody waits at a place both of whose neighbours
\* leave their forks on the table (use and put_back).
THEOREM Grants == Spec => []NoMissedGrant
<1>1. IInv => NoMissedGrant
  <2> SUFFICES ASSUME IInv, mutex = Free, NEW i \in Philo, philo_state[i] = WAIT
               PROVE  philo_state[Left(i)] = EAT \/ philo_state[Right(i)] = EAT
    BY DEF NoMissedGrant
  <2>1. \A j \in Philo : ~Holds(j)
    BY DEF IInv, MutexHeld, Philo, Free
  <2> QED
    BY <2>1, Neighbours DEF IInv, Offered, Holds
<1> QED
  BY <1>1, Invariance, PTL

\* A thread blocked in pthread_cond_wait has not been given its forks yet.
THEOREM Wakeups == Spec => []NoLostWakeup
<1>1. IInv => NoLostWakeup
  BY DEF IInv, StateAt, NoLostWakeup
<1> QED
  BY <1>1, Invariance, PTL

---------------------------------------------------------------------------
\* The monitor implements the table with forks.

Fork(f) == IF philo_state[f] = EAT THEN f
           ELSE IF philo_state[Right(f)] = EAT THEN Right(f) ELSE -1

\* The refinement mapping sees no step that leaves philo_state alone.
LEMMA SameForks ==
  ASSUME philo_state' = philo_state
  PROVE  UNCHANGED <<philo_state, [f \in Philo |-> Fork(f)]>>
BY DEF Fork

LEMMA SitStep ==
  ASSUME IInv, NEW i \in Philo, UseWait(i)
  PROVE  Forks!Sit(i)
<1>1. philo_state[i] = THINK /\ philo_state' = [philo_state EXCEPT ![i] = WAIT]
  BY DEF IInv, StateAt, UseWait, At
<1>2. \A f \in Philo : Fork(f)' = Fork(f)
  BY <1>1, Neighbours DEF Fork, IInv, TypeOK, THINK, WAIT, EAT
<1> QED
  BY <1>1, <1>2 DEF Forks!Sit, Fork, THINK, WAIT

LEMMA TakeStep ==
  ASSUME IInv, NEW k \in Philo, CanEat(k), philo_state' = [philo_state EXCEPT ![k] = EAT]
  PROVE  Forks!Take(k)
<1>1. /\ Left(k) \in Philo /\ Left(k) # k /\ Right(k) \in Philo /\ Right(k) # k
      /\ Right(Left(k)) = k
  BY Neighbours
<1>2. Fork(k) = -1 /\ Fork(Left(k)) = -1
  BY <1>1 DEF CanEat, Fork, WAIT, EAT
<1>3. \A f \in Philo : Fork(f)' = IF f = k \/ f = Left(k) THEN k ELSE Fork(f)
  <2> SUFFICES ASSUME NEW f \in Philo
               PROVE  Fork(f)' = IF f = k \/ f = Left(k) THEN k ELSE Fork(f)
    OBVIOUS
  <2>1. Right(f) = k <=> f = Left(k)
    BY <1>1, Neighbours
  <2> QED
    BY <1>1, <2>1, Neighbours DEF Fork, CanEat, IInv, TypeOK, WAIT, EAT
<1>4. [f \in Philo |-> Fork(f)]'
        = [[f \in Philo |-> Fork(f)] EXCEPT ![k] = k, ![Left(k)] = k]
  BY <1>1, <1>3
<1> QED
  BY <1>1, <1>2, <1>4
     DEF Forks!Take, Forks!Table, Forks!LeftOf, Left, Fork, CanEat, WAIT, EAT

LEMMA ReturnStep ==
  ASSUME IInv, NEW i \in Philo, PutThink(i)
  PROVE  Forks!Return(i)
<1>1. philo_state[i] = EAT /\ philo_state' = [philo_state EXCEPT ![i] = THINK]
  BY DEF IInv, StateAt, PutThink, At
<1>2. /\ Left(i) \in Philo /\ Left(i) # i /\ Right(i) \in Philo /\ Right(i) # i
      /\ Right(Left(i)) = i
  BY Neighbours
<1>3. philo_state[Left(i)] # EAT /\ philo_state[Right(i)] # EAT
  BY <1>1, <1>2 DEF IInv, NeighboursExclude
<1>4. Fork(i) = i /\ Fork(Left(i)) = i
  BY <1>1, <1>2, <1>3 DEF Fork
<1>5. \A f \in Philo : Fork(f)' = IF f = i \/ f = Left(i) THEN -1 ELSE Fork(f)
  <2> SUFFICES ASSUME NEW f \in Philo
               PROVE  Fork(f)' = IF f = i \/ f = Left(i) THEN -1 ELSE Fork(f)
    OBVIOUS
  <2>1. Right(f) = i <=> f = Left(i)
    BY <1>2, Neighbours
  <2> QED
    BY <1>1, <1>2, <1>3, <2>1, Neighbours DEF Fork, IInv, TypeOK, THINK, EAT
<1>6. [f \in Philo |-> Fork(f)]'
        = [[f \in Philo |-> Fork(f)] EXCEPT ![i] = -1, ![Left(i)] = -1]
  BY <1>2, <1>5
<1> QED
  BY <1>1, <1>2, <1>4, <1>6
     DEF Forks!Return, Forks!Table, Forks!LeftOf, Left, Fork, THINK, EAT

LEMMA ForksStep ==
  IInv /\ [Next]_vars => [Forks!Next]_<<philo_state, [f \in Philo |-> Fork(f)]>>
<1> SUFFICES ASSUME IInv, [Next]_vars, philo_state' # philo_state
             PROVE  Forks!Next
  BY SameForks
<1>1. PICK i \in Philo : UseWait(i) \/ UseTry(i) \/ PutThink(i) \/ PutLeft(i) \/ PutRight(i)
  BY DEF Next, Thread, vars, Wake, UseLock, UseCheck, Relock, Spurious, PutLock, CancelSleep,
         CancelWait, CancelLock, cleanup, Lock, Interrupt, CancelNext, Join, Ended
<1>2. CASE UseWait(i)
  BY <1>2, SitStep DEF Forks!Next, Forks!Philo, Philo
<1>3. CASE PutThink(i)
  BY <1>3, ReturnStep DEF Forks!Next, Forks!Philo, Philo
<1>4. CASE UseTry(i) \/ PutLeft(i) \/ PutRight(i)
  <2>1. PICK k \in Philo : CanEat(k) /\ philo_state' = [philo_state EXCEPT ![k] = EAT]
    BY <1>4, Neighbours DEF UseTry, PutLeft, PutRight, change_philo_state
  <2> QED
    BY <2>1, TakeStep DEF Forks!Next, Forks!Philo, Philo
<1> QED
  BY <1>1, <1>2, <1>3, <1>4

\* Whatever the threads do, cancelled or not, philosophers take both their
\* forks at once from the table and return both at once (use, put_back,
\* change_philo_state).
THEOREM Refinement == Spec => ImplementsForks
<1>1. Init => Forks!Init
  BY Neighbours DEF Init, Forks!Init, Forks!Philo, Forks!Table, Philo, THINK, EAT
<1>2. IInv /\ [Next]_vars
        => [Forks!Next]_<<philo_state, [f \in Philo |-> IF philo_state[f] = EAT THEN f
                           ELSE IF philo_state[Right(f)] = EAT THEN Right(f) ELSE -1]>>
  BY ForksStep DEF Fork
<1> QED
  BY <1>1, <1>2, Invariance, PTL DEF Spec, ImplementsForks, Forks!Spec

---------------------------------------------------------------------------
\* Nobody ever waits for everybody, before and during the shutdown.

\* Who has been cancelled, and that only they end.
Cancels ==
  /\ cancelled = {i \in Philo : i < handler}
  /\ \A i \in Philo : pc[i] \in {"quit", "cleanup", "dead"} => i \in cancelled

\* A thread that cannot take its next step, unless it is woken for nothing.
Blocked(i) ==
  \/ pc[i] = "dead"
  \/ pc[i] = "asleep" /\ i \notin cancelled
  \/ pc[i] \in {"lock1", "relock", "lock2", "quit"} /\ mutex # Free

\* The same of main, in the handler or at a join.
MainBlocked == handler \notin Philo /\ pc[joined] # "dead"

LEMMA ThreadCancels ==
  ASSUME IInv, Cancels, NEW i \in Philo, Thread(i) \/ Spurious(i)
  PROVE  Cancels'
<1> DEFINE Ends == {"quit", "cleanup", "dead"}
<1>1. cancelled' = cancelled /\ handler' = handler
  BY DEF Thread, Wake, UseLock, UseWait, UseTry, UseCheck, Relock, Spurious, PutLock,
         PutThink, PutLeft, PutRight, CancelSleep, CancelWait, CancelLock, cleanup, Lock
<1>2. \A j \in Philo : pc'[j] \in Ends => pc[j] \in Ends \/ j \in cancelled
  <2>1. CASE UseTry(i) \/ PutLeft(i) \/ PutRight(i)
    <3>1. PICK k \in Philo, to \in {"check", "putR", "think"} :
            change_philo_state(k, [pc EXCEPT ![i] = to])
      BY <2>1, Neighbours DEF UseTry, PutLeft, PutRight
    <3>2. [pc EXCEPT ![i] = to] \in [Philo -> PC]
      BY DEF IInv, TypeOK, PC
    <3>3. \A j \in Philo :
            \/ pc'[j] = [pc EXCEPT ![i] = to][j]
            \/ pc'[j] = "relock"
      BY <3>1, <3>2 DEF change_philo_state
    <3> QED
      BY <3>3 DEF IInv, TypeOK
  <2>2. CASE ~UseTry(i) /\ ~PutLeft(i) /\ ~PutRight(i)
    <3>1. \A j \in Philo \ {i} : pc'[j] = pc[j]
      BY <2>2 DEF IInv, TypeOK, Thread, Wake, UseLock, UseWait, UseCheck, Relock, Spurious,
         PutLock, PutThink, CancelSleep, CancelWait, CancelLock, cleanup, Lock, At
    <3>2. pc'[i] \in Ends => pc[i] \in Ends \/ i \in cancelled
      BY <2>2 DEF IInv, TypeOK, Thread, Wake, UseLock, UseWait, UseCheck, Relock, Spurious,
         PutLock, PutThink, CancelSleep, CancelWait, CancelLock, cleanup, Lock, At
    <3> QED
      BY <3>1, <3>2
  <2> QED
    BY <2>1, <2>2
<1> QED
  BY <1>1, <1>2 DEF Cancels

LEMMA MainCancels ==
  ASSUME IInv, Cancels, Interrupt \/ CancelNext \/ Join \/ UNCHANGED vars
  PROVE  Cancels'
<1>1. CASE Interrupt
  BY <1>1 DEF Cancels, Interrupt, Philo
<1>2. CASE CancelNext
  <2>1. cancelled' = {i \in Philo : i < handler'}
    BY <1>2 DEF Cancels, CancelNext, Philo
  <2> QED
    BY <1>2, <2>1 DEF Cancels, CancelNext
<1>3. CASE Join \/ UNCHANGED vars
  BY <1>3 DEF Cancels, Join, vars
<1> QED
  BY <1>1, <1>2, <1>3

\* For every number of philosophers, until main has joined them all some thread
\* or main can go on: at the table nobody sleeps without a neighbour who eats,
\* and in the shutdown whoever is cancelled asleep gives the mutex back
\* (cw09/zad1, use and cleanup).
THEOREM NeverStuck ==
  Spec => [](joined < N => ~MainBlocked \/ \E i \in Philo : ~Blocked(i))
<1>1. Init => Cancels
  BY NAssumption DEF Init, Cancels, Philo
<1>2. IInv /\ Cancels /\ [Next]_vars => Cancels'
  BY ThreadCancels, MainCancels DEF Next, Ended
<1>3. ASSUME IInv, Cancels, joined < N, MainBlocked
      PROVE  \E i \in Philo : ~Blocked(i)
  <2>1. CASE mutex \in Philo
    <3>1. Holds(mutex)
      BY <1>3, <2>1 DEF IInv, MutexHeld
    <3> QED
      BY <2>1, <3>1 DEF Holds, Blocked
  <2>2. CASE mutex = Free /\ handler = -1
    <3>1. cancelled = {}
      BY <1>3, <2>2 DEF Cancels, Philo
    <3>2. 0 \in Philo
      BY NAssumption DEF Philo
    <3>3. CASE pc[0] # "asleep"
      BY <1>3, <2>2, <3>1, <3>2, <3>3 DEF Cancels, Blocked
    <3>4. CASE pc[0] = "asleep"
      <4>1. PICK j \in Philo : philo_state[j] = EAT
        <5>1. \A j \in Philo : ~Holds(j)
          BY <1>3, <2>2 DEF IInv, MutexHeld, Philo, Free
        <5> QED
          BY <1>3, <3>2, <3>4, <5>1, Neighbours DEF IInv, StateAt, Offered, Holds
      <4>2. pc[j] # "asleep"
        BY <1>3, <4>1 DEF IInv, StateAt, WAIT, EAT
      <4> QED
        BY <1>3, <2>2, <3>1, <4>2 DEF Cancels, Blocked
    <3> QED
      BY <3>3, <3>4
  <2>3. CASE mutex = Free /\ handler # -1
    <3>1. joined \in Philo /\ handler = N
      BY <1>3, <2>3, NAssumption DEF IInv, TypeOK, MainBlocked, Philo
    <3>2. joined \in cancelled /\ pc[joined] # "dead"
      BY <1>3, <3>1, NAssumption DEF Cancels, MainBlocked, Philo
    <3> QED
      BY <2>3, <3>1, <3>2 DEF Blocked
  <2> QED
    BY <1>3, <2>1, <2>2, <2>3 DEF IInv, TypeOK
<1> QED
  BY <1>1, <1>2, <1>3, Invariance, PTL DEF Spec

=============================================================================
