------------------------- MODULE ReadersWriters_proofs -------------------------
(***************************************************************************)
(* Proofs about the readers and writers, for all sets of processes, any of *)
(* which may be killed at any point, and every size of the array: one      *)
(* process at a time is inside, and what a reader has counted is true.     *)
(***************************************************************************)
EXTENDS ReadersWriters, FiniteSetTheorems, TLAPS

\* Where a process has WRT, and where a reader has MUTEX.
HasWrt   == {"begin", "scan", "leave", "last", "write", "done"}
HasMutex == {"first", "begin", "last", "end"}

\* A semaphore that processes have at the places A: one has it, or it can be
\* had, or it went down with a process, or it has not been made.
Held(s, A) ==
  /\ \A p, q \in Processes : pc[p] \in A /\ pc[q] \in A => p = q
  /\ sem[s] = 1 => \A p \in Processes : pc[p] \notin A
  /\ s \notin names => sem[s] = 0 /\ \A p \in Processes : pc[p] \notin A

\* readcount is 1 exactly while its only reader is between lines 77 and 92.
CountsItself ==
  \A r \in Readers :
    /\ pc[r] \in {"first", "begin", "scan", "leave"} => readcount[r] = 1
    /\ pc[r] \in {"off", "openM", "openW", "reopen", "shm", "clear", "idle",
                  "enter", "last", "end"} => readcount[r] = 0

\* A reader has counted at most the slots it has looked at.
CountBelow == \A r \in Readers : pc[r] = "scan" => count[r] <= i[r]

IInv ==
  TypeOK /\ Held(WRT, HasWrt) /\ Held(MUTEX, HasMutex) /\ CountsItself /\ CountBelow

\* The creating halves of init_sem and init_shm are over for good.
Ready ==
  /\ fresh = FALSE
  /\ names = {WRT, MUTEX} /\ shm = TRUE
  /\ \A p \in Processes : pc[p] # "clear"

---------------------------------------------------------------------------

LEMMA InitIInv == Init => IInv
<1> SUFFICES ASSUME Init
             PROVE  IInv
  OBVIOUS
<1> USE DEF Init
<1>1. NobodyRuns
  BY DEF FreshInit, ReadyInit
<1>2. TypeOK
  <2>1. /\ pc \in [Processes -> PC] /\ broken \subseteq Processes
        /\ positions \in [Writers -> SUBSET Slots]
    BY <1>1 DEF NobodyRuns, PC
  <2>2. /\ readcount \in [Readers -> 0 .. 1] /\ search \in [Readers -> 0 .. TOP]
        /\ count \in [Readers -> 0 .. MAX] /\ i \in [Processes -> 0 .. MAX]
    BY <1>1, ArrayAssumption DEF NobodyRuns
  <2>3. /\ names \subseteq {WRT, MUTEX}
        /\ shm \in BOOLEAN /\ fresh \in BOOLEAN
        /\ sem \in [{WRT, MUTEX} -> 0 .. 1]
    <3>1. CASE FreshInit
      <4>1. sem = [s \in {WRT, MUTEX} |-> 0] /\ 0 \in 0 .. 1
        BY <3>1 DEF FreshInit
      <4> QED
        BY <3>1, <4>1 DEF FreshInit
    <3>2. CASE ReadyInit
      <4>1. sem = [s \in {WRT, MUTEX} |-> 1] /\ 1 \in 0 .. 1
        BY <3>2 DEF ReadyInit
      <4> QED
        BY <3>2, <4>1 DEF ReadyInit
    <3> QED
      BY <3>1, <3>2
  <2>4. data \in [Slots -> -1 .. TOP]
    BY ArrayAssumption DEF FreshInit, ReadyInit
  <2> QED
    BY <2>1, <2>2, <2>3, <2>4 DEF TypeOK
<1>3. \A p \in Processes : pc[p] \notin HasWrt \cup HasMutex
  BY <1>1 DEF NobodyRuns, HasWrt, HasMutex
<1>4. \A s \in {WRT, MUTEX} : s \notin names => sem[s] = 0
  BY DEF FreshInit, ReadyInit
<1>5. Held(WRT, HasWrt) /\ Held(MUTEX, HasMutex)
  BY <1>3, <1>4 DEF Held
<1>6. CountsItself
  BY <1>1 DEF NobodyRuns, CountsItself, Processes
<1>7. CountBelow
  BY <1>1 DEF NobodyRuns, CountBelow, Processes
<1> QED
  BY <1>2, <1>5, <1>6, <1>7 DEF IInv

\* Process p moves and nobody else does.
Moves(p) == \A q \in Processes \ {p} : pc'[q] = pc[q]

\* Whoever has a semaphore finds it at 0, and so posts it to 1.
LEMMA HeldZero ==
  ASSUME IInv, NEW p \in Processes
  PROVE  /\ pc[p] \in HasWrt => sem[WRT] = 0
         /\ pc[p] \in HasMutex => sem[MUTEX] = 0
<1>1. sem[WRT] \in {0, 1} /\ sem[MUTEX] \in {0, 1}
  BY DEF IInv, TypeOK
<1> QED
  BY <1>1 DEF IInv, Held

\* What process p does.
Acts(p) ==
  /\ \/ Start(p) \/ Kill(p) \/ init(p)
     \/ p \in Readers /\ reader(p)
     \/ p \in Writers /\ writer(p)
  /\ UNCHANGED fresh

LEMMA MovesStep ==
  ASSUME TypeOK, NEW p \in Processes, Acts(p)
  PROVE  Moves(p)
<1>1. CASE Start(p)
  BY <1>1 DEF Start, At, ipc, local, TypeOK, Moves
<1>2. CASE Kill(p)
  BY <1>2 DEF Kill, Forget, ipc, TypeOK, Moves
<1>3. CASE OpenMutex(p)
  BY <1>3 DEF OpenMutex, Create, At, local, TypeOK, Moves
<1>4. CASE OpenWrt(p)
  BY <1>4 DEF OpenWrt, Create, At, local, TypeOK, Moves
<1>5. CASE Reopen(p)
  BY <1>5 DEF Reopen, At, ipc, local, TypeOK, Moves
<1>6. CASE OpenShm(p)
  BY <1>6 DEF OpenShm, At, local, TypeOK, Moves
<1>7. CASE Clear(p)
  BY <1>7 DEF Clear, TypeOK, Moves
<1>8. CASE p \in Readers /\ WakeReader(p)
  BY <1>8 DEF WakeReader, At, ipc, local, TypeOK, Moves
<1>9. CASE p \in Readers /\ Enter(p)
  BY <1>9 DEF Enter, sem_down, At, TypeOK, Moves
<1>10. CASE p \in Readers /\ First(p)
  BY <1>10 DEF First, sem_down, At, local, TypeOK, Moves
<1>11. CASE p \in Readers /\ Begin(p)
  BY <1>11 DEF Begin, sem_up, At, TypeOK, Moves
<1>12. CASE p \in Readers /\ Scan(p)
  BY <1>12 DEF Scan, ipc, TypeOK, Moves
<1>13. CASE p \in Readers /\ Leave(p)
  BY <1>13 DEF Leave, sem_down, At, TypeOK, Moves
<1>14. CASE p \in Readers /\ Last(p)
  BY <1>14 DEF Last, sem_up, At, local, TypeOK, Moves
<1>15. CASE p \in Readers /\ End(p)
  BY <1>15 DEF End, sem_up, At, Forget, TypeOK, Moves
<1>16. CASE p \in Writers /\ Choose(p)
  BY <1>16 DEF Choose, At, ipc, TypeOK, Moves
<1>17. CASE p \in Writers /\ StartWriting(p)
  BY <1>17 DEF StartWriting, sem_down, At, TypeOK, Moves
<1>18. CASE p \in Writers /\ WriteSlot(p)
  BY <1>18 DEF WriteSlot, TypeOK, Moves
<1>19. CASE p \in Writers /\ StopWriting(p)
  BY <1>19 DEF StopWriting, sem_up, At, Forget, TypeOK, Moves
<1> QED
  BY <1>1, <1>2, <1>3, <1>4, <1>5, <1>6, <1>7, <1>8, <1>9, <1>10, <1>11, <1>12, <1>13, <1>14, <1>15, <1>16, <1>17, <1>18, <1>19 DEF Acts, init, reader, writer

LEMMA TypeStep ==
  ASSUME IInv, NEW p \in Processes, Acts(p)
  PROVE  TypeOK'
<1>0. UNCHANGED fresh
  BY DEF Acts
<1> USE <1>0, ArrayAssumption DEF IInv, TypeOK
<1>1. CASE Start(p)
  BY <1>1 DEF Start, At, ipc, local, PC
<1>2. CASE Kill(p)
  BY <1>2 DEF Kill, Forget, ipc, PC
<1>3. CASE OpenMutex(p)
  BY <1>3 DEF OpenMutex, Create, At, local, PC
<1>4. CASE OpenWrt(p)
  BY <1>4 DEF OpenWrt, Create, At, local, PC
<1>5. CASE Reopen(p)
  BY <1>5 DEF Reopen, At, ipc, local, PC
<1>6. CASE OpenShm(p)
  BY <1>6 DEF OpenShm, At, local, PC
<1>7. CASE Clear(p)
  BY <1>7 DEF Clear, PC
<1>8. CASE p \in Readers /\ WakeReader(p)
  BY <1>8 DEF WakeReader, At, ipc, local, PC
<1>9. CASE p \in Readers /\ Enter(p)
  <2>1. sem' \in [{WRT, MUTEX} -> 0 .. 1]
    BY <1>9 DEF Enter, sem_down
  <2> QED
    BY <1>9, <2>1 DEF Enter, sem_down, At, CountsItself, PC
<1>10. CASE p \in Readers /\ First(p)
  <2>1. sem' \in [{WRT, MUTEX} -> 0 .. 1]
    BY <1>10 DEF First, sem_down
  <2> QED
    BY <1>10, <2>1 DEF First, sem_down, At, local, CountsItself, PC
<1>11. CASE p \in Readers /\ Begin(p)
  <2>1. sem[MUTEX] = 0
    BY <1>11, HeldZero DEF Begin, At, HasWrt, HasMutex
  <2>2. sem' \in [{WRT, MUTEX} -> 0 .. 1]
    BY <1>11, <2>1 DEF Begin, sem_up
  <2> QED
    BY <1>11, <2>2 DEF Begin, sem_up, At, PC
<1>12. CASE p \in Readers /\ Scan(p)
  <2>1. count' \in [Readers -> 0 .. MAX]
    BY <1>12 DEF Scan, CountBelow
  <2> QED
    BY <1>12, <2>1 DEF Scan, ipc, PC
<1>13. CASE p \in Readers /\ Leave(p)
  <2>1. sem' \in [{WRT, MUTEX} -> 0 .. 1]
    BY <1>13 DEF Leave, sem_down
  <2> QED
    BY <1>13, <2>1 DEF Leave, sem_down, At, CountsItself, PC
<1>14. CASE p \in Readers /\ Last(p)
  <2>1. sem[WRT] = 0
    BY <1>14, HeldZero DEF Last, At, HasWrt, HasMutex
  <2>2. sem' \in [{WRT, MUTEX} -> 0 .. 1]
    BY <1>14, <2>1 DEF Last, sem_up
  <2> QED
    BY <1>14, <2>2 DEF Last, sem_up, At, local, PC
<1>15. CASE p \in Readers /\ End(p)
  <2>1. sem[MUTEX] = 0
    BY <1>15, HeldZero DEF End, At, HasWrt, HasMutex
  <2>2. sem' \in [{WRT, MUTEX} -> 0 .. 1]
    BY <1>15, <2>1 DEF End, sem_up
  <2> QED
    BY <1>15, <2>2 DEF End, sem_up, At, Forget, PC
<1>16. CASE p \in Writers /\ Choose(p)
  BY <1>16 DEF Choose, At, ipc, PC
<1>17. CASE p \in Writers /\ StartWriting(p)
  <2>1. sem' \in [{WRT, MUTEX} -> 0 .. 1]
    BY <1>17 DEF StartWriting, sem_down
  <2> QED
    BY <1>17, <2>1 DEF StartWriting, sem_down, At, CountsItself, PC
<1>18. CASE p \in Writers /\ WriteSlot(p)
  <2>1. ASSUME NEW v \in NewValues(data[i[p]]), i[p] < MAX
        PROVE  v \in -1 .. TOP
    <3>1. data[i[p]] \in -1 .. TOP
      BY <2>1 DEF Slots
    <3> QED
      BY <2>1, <3>1 DEF NewValues
  <2>2. data' \in [Slots -> -1 .. TOP]
    BY <1>18, <2>1 DEF WriteSlot
  <2> QED
    BY <1>18, <2>2 DEF WriteSlot, PC
<1>19. CASE p \in Writers /\ StopWriting(p)
  <2>1. sem[WRT] = 0
    BY <1>19, HeldZero DEF StopWriting, At, HasWrt, HasMutex
  <2>2. sem' \in [{WRT, MUTEX} -> 0 .. 1]
    BY <1>19, <2>1 DEF StopWriting, sem_up
  <2> QED
    BY <1>19, <2>2 DEF StopWriting, sem_up, At, Forget, PC
<1> QED
  BY <1>1, <1>2, <1>3, <1>4, <1>5, <1>6, <1>7, <1>8, <1>9, <1>10, <1>11, <1>12, <1>13, <1>14, <1>15, <1>16, <1>17, <1>18, <1>19 DEF Acts, init, reader, writer

LEMMA CountsItselfStep ==
  ASSUME IInv, NEW p \in Processes, Acts(p)
  PROVE  CountsItself' /\ CountBelow'
<1> USE ArrayAssumption DEF IInv, TypeOK, CountsItself, CountBelow, Processes
<1>1. CASE Start(p)
  BY <1>1 DEF Start, At, ipc, local
<1>2. CASE Kill(p)
  BY <1>2 DEF Kill, Forget, ipc
<1>3. CASE OpenMutex(p)
  BY <1>3 DEF OpenMutex, Create, At, local
<1>4. CASE OpenWrt(p)
  BY <1>4 DEF OpenWrt, Create, At, local
<1>5. CASE Reopen(p)
  BY <1>5 DEF Reopen, At, ipc, local
<1>6. CASE OpenShm(p)
  BY <1>6 DEF OpenShm, At, local
<1>7. CASE Clear(p)
  BY <1>7 DEF Clear
<1>8. CASE p \in Readers /\ WakeReader(p)
  BY <1>8 DEF WakeReader, At, ipc, local
<1>9. CASE p \in Readers /\ Enter(p)
  BY <1>9 DEF Enter, sem_down, At
<1>10. CASE p \in Readers /\ First(p)
  BY <1>10 DEF First, sem_down, At, local
<1>11. CASE p \in Readers /\ Begin(p)
  BY <1>11 DEF Begin, sem_up, At
<1>12. CASE p \in Readers /\ Scan(p)
  BY <1>12 DEF Scan, ipc
<1>13. CASE p \in Readers /\ Leave(p)
  BY <1>13 DEF Leave, sem_down, At
<1>14. CASE p \in Readers /\ Last(p)
  BY <1>14 DEF Last, sem_up, At, local
<1>15. CASE p \in Readers /\ End(p)
  BY <1>15 DEF End, sem_up, At, Forget
<1>16. CASE p \in Writers /\ Choose(p)
  BY <1>16 DEF Choose, At, ipc
<1>17. CASE p \in Writers /\ StartWriting(p)
  BY <1>17 DEF StartWriting, sem_down, At
<1>18. CASE p \in Writers /\ WriteSlot(p)
  BY <1>18 DEF WriteSlot
<1>19. CASE p \in Writers /\ StopWriting(p)
  BY <1>19 DEF StopWriting, sem_up, At, Forget
<1> QED
  BY <1>1, <1>2, <1>3, <1>4, <1>5, <1>6, <1>7, <1>8, <1>9, <1>10, <1>11, <1>12, <1>13, <1>14, <1>15, <1>16, <1>17, <1>18, <1>19 DEF Acts, init, reader, writer

\* A process ends without giving back anything: it is killed, or waits on a
\* semaphore that it could not open.
Dies(p) == Kill(p) \/ (p \in broken /\ pc'[p] = "crashed")

\* What a step of process p may do to a semaphore that is held at the places A:
\* nothing, wait for it, post it, make it, or die with it.
Leaves(p, s, A) ==
  /\ sem'[s] = sem[s] /\ (s \in names' <=> s \in names) /\ (pc'[p] \in A <=> pc[p] \in A)

Takes(p, s, A) ==
  /\ sem[s] = 1 /\ sem'[s] = 0 /\ names' = names /\ pc[p] \notin A /\ pc'[p] \in A

Posts(p, s, A) ==
  /\ sem'[s] = 1 /\ names' = names /\ pc[p] \in A /\ pc'[p] \notin A \cup {"off", "crashed"}

Makes(p, s, A) ==
  /\ sem'[s] = 1 /\ s \notin names /\ s \in names' /\ pc[p] \notin A /\ pc'[p] \notin A

DiesWith(p, s, A) ==
  /\ sem'[s] = sem[s] /\ names' = names /\ pc[p] \in A /\ pc'[p] \notin A /\ Dies(p)

Uses(p, s, A) ==
  Leaves(p, s, A) \/ Takes(p, s, A) \/ Posts(p, s, A) \/ Makes(p, s, A) \/ DiesWith(p, s, A)

LEMMA UsesStep ==
  ASSUME IInv, NEW p \in Processes, Acts(p)
  PROVE  Uses(p, WRT, HasWrt) /\ Uses(p, MUTEX, HasMutex)
<1>0. /\ TypeOK /\ WRT # MUTEX
      /\ pc[p] \in HasWrt => sem[WRT] = 0
      /\ pc[p] \in HasMutex => sem[MUTEX] = 0
  BY HeldZero DEF IInv, WRT, MUTEX
<1> USE DEF TypeOK, HasWrt, HasMutex
<1>1. ASSUME sem' = sem, names' = names,
             pc'[p] \in HasWrt <=> pc[p] \in HasWrt,
             pc'[p] \in HasMutex <=> pc[p] \in HasMutex
      PROVE  Leaves(p, WRT, HasWrt) /\ Leaves(p, MUTEX, HasMutex)
  BY <1>1 DEF Leaves
<1>2. CASE Start(p)
  BY <1>0, <1>1, <1>2 DEF Start, At, ipc, Uses
<1>3. CASE Kill(p)
  <2>1. sem' = sem /\ names' = names /\ pc'[p] = "off" /\ Dies(p)
    BY <1>0, <1>3 DEF Kill, ipc, Dies
  <2> QED
    BY <2>1 DEF Uses, Leaves, DiesWith
<1>4. CASE OpenMutex(p)
  BY <1>0, <1>4 DEF OpenMutex, Create, At, Uses, Leaves, Makes
<1>5. CASE OpenWrt(p)
  BY <1>0, <1>5 DEF OpenWrt, Create, At, Uses, Leaves, Makes
<1>6. CASE Reopen(p) \/ OpenShm(p) \/ Clear(p)
  BY <1>0, <1>1, <1>6 DEF Reopen, OpenShm, Clear, At, ipc, Uses
<1>7. CASE p \in Readers /\ (WakeReader(p) \/ Scan(p))
  BY <1>0, <1>1, <1>7 DEF WakeReader, Scan, At, ipc, Uses
<1>8. CASE p \in Readers /\ Enter(p)
  <2>1. readcount[p] + 1 = 1
    BY <1>8 DEF Enter, sem_down, At, IInv, CountsItself, WRT, MUTEX
  <2>2. /\ names' = names /\ sem'[WRT] = sem[WRT] /\ sem[MUTEX] = 1 /\ sem'[MUTEX] = 0
        /\ pc[p] = "enter" /\ pc'[p] = "first"
    BY <1>0, <1>8, <2>1 DEF Enter, sem_down, At
  <2> QED
    BY <2>2 DEF Uses, Leaves, Takes
<1>9. CASE p \in Readers /\ First(p)
  <2>1. /\ names' = names /\ sem'[MUTEX] = sem[MUTEX] /\ pc[p] = "first"
        /\ \/ sem[WRT] = 1 /\ sem'[WRT] = 0 /\ pc'[p] = "begin"
           \/ sem' = sem /\ pc'[p] = "crashed" /\ Dies(p)
    BY <1>0, <1>9 DEF First, sem_down, At, Dies
  <2> QED
    BY <2>1 DEF Uses, Leaves, Takes, DiesWith
<1>10. CASE p \in Readers /\ Begin(p)
  <2>1. /\ names' = names /\ sem'[WRT] = sem[WRT] /\ sem'[MUTEX] = 1
        /\ pc[p] = "begin" /\ pc'[p] = "scan"
    BY <1>0, <1>10 DEF Begin, sem_up, At
  <2> QED
    BY <2>1 DEF Uses, Leaves, Posts
<1>11. CASE p \in Readers /\ Leave(p)
  <2>1. readcount[p] - 1 = 0
    BY <1>11 DEF Leave, sem_down, At, IInv, CountsItself, WRT, MUTEX
  <2>2. /\ names' = names /\ sem'[WRT] = sem[WRT] /\ sem[MUTEX] = 1 /\ sem'[MUTEX] = 0
        /\ pc[p] = "leave" /\ pc'[p] = "last"
    BY <1>0, <1>11, <2>1 DEF Leave, sem_down, At
  <2> QED
    BY <2>2 DEF Uses, Leaves, Takes
<1>12. CASE p \in Readers /\ Last(p)
  <2>1. /\ names' = names /\ sem'[MUTEX] = sem[MUTEX] /\ sem'[WRT] = 1
        /\ pc[p] = "last" /\ pc'[p] = "end"
    BY <1>0, <1>12 DEF Last, sem_up, At
  <2> QED
    BY <2>1 DEF Uses, Leaves, Posts
<1>13. CASE p \in Readers /\ End(p)
  <2>1. /\ names' = names /\ sem'[WRT] = sem[WRT] /\ sem'[MUTEX] = 1
        /\ pc[p] = "end" /\ pc'[p] = "idle"
    BY <1>0, <1>13 DEF End, sem_up, At
  <2> QED
    BY <2>1 DEF Uses, Leaves, Posts
<1>14. CASE p \in Writers /\ (Choose(p) \/ WriteSlot(p))
  BY <1>0, <1>1, <1>14 DEF Choose, WriteSlot, At, ipc, Uses
<1>15. CASE p \in Writers /\ StartWriting(p)
  <2>1. /\ names' = names /\ sem'[MUTEX] = sem[MUTEX] /\ pc[p] = "wait"
        /\ \/ sem[WRT] = 1 /\ sem'[WRT] = 0 /\ pc'[p] = "write"
           \/ sem' = sem /\ pc'[p] = "crashed"
    BY <1>0, <1>15 DEF StartWriting, sem_down, At
  <2> QED
    BY <2>1 DEF Uses, Leaves, Takes
<1>16. CASE p \in Writers /\ StopWriting(p)
  <2>1. /\ names' = names /\ sem'[MUTEX] = sem[MUTEX] /\ sem'[WRT] = 1
        /\ pc[p] = "done" /\ pc'[p] = "idle"
    BY <1>0, <1>16 DEF StopWriting, sem_up, At
  <2> QED
    BY <2>1 DEF Uses, Leaves, Posts
<1> QED
  BY <1>2, <1>3, <1>4, <1>5, <1>6, <1>7, <1>8, <1>9, <1>10, <1>11, <1>12, <1>13, <1>14, <1>15, <1>16 DEF Acts, init, reader, writer

\* Whatever a process does to a semaphore, at most one process holds it.
LEMMA HeldMove ==
  ASSUME NEW p \in Processes, NEW s \in {WRT, MUTEX}, NEW A, Held(s, A), Moves(p), Uses(p, s, A)
  PROVE  Held(s, A)'
<1>1. CASE Leaves(p, s, A)
  BY <1>1 DEF Held, Moves, Leaves
<1>2. CASE Takes(p, s, A)
  BY <1>2 DEF Held, Moves, Takes
<1>3. CASE Posts(p, s, A)
  BY <1>3 DEF Held, Moves, Posts
<1>4. CASE Makes(p, s, A)
  BY <1>4 DEF Held, Moves, Makes
<1>5. CASE DiesWith(p, s, A)
  BY <1>5 DEF Held, Moves, DiesWith
<1> QED
  BY <1>1, <1>2, <1>3, <1>4, <1>5 DEF Uses

LEMMA HeldStep ==
  ASSUME IInv, NEW p \in Processes, Acts(p)
  PROVE  Held(WRT, HasWrt)' /\ Held(MUTEX, HasMutex)'
<1>1. Moves(p) /\ Held(WRT, HasWrt) /\ Held(MUTEX, HasMutex)
  BY MovesStep DEF IInv
<1> QED
  BY <1>1, UsesStep, HeldMove

LEMMA Step == IInv /\ [Next]_vars => IInv'
<1> SUFFICES ASSUME IInv, [Next]_vars
             PROVE  IInv'
  OBVIOUS
<1>1. CASE UNCHANGED vars
  BY <1>1 DEF vars, IInv, TypeOK, Held, CountsItself, CountBelow
<1>2. ASSUME NEW p \in Processes, Acts(p)
      PROVE  IInv'
  BY <1>2, TypeStep, CountsItselfStep, HeldStep DEF IInv
<1>3. UNCHANGED vars \/ \E p \in Processes : Acts(p)
  BY DEF Next, Acts, Processes, Start, Kill, init, reader, writer
<1> QED
  BY <1>1, <1>2, <1>3

LEMMA IInvOneInside == IInv => OneInside
<1> SUFFICES ASSUME IInv
             PROVE  Cardinality(Inside) <= 1
  BY DEF OneInside
<1>1. \A p, q \in Inside : p = q
  BY DEF IInv, Held, Inside, HasWrt
<1>2. CASE Inside = {}
  BY <1>2, FS_EmptySet
<1>3. CASE Inside # {}
  <2>1. PICK p \in Inside : Inside = {p}
    BY <1>1, <1>3
  <2> QED
    BY <2>1, FS_Singleton
<1> QED
  BY <1>2, <1>3

---------------------------------------------------------------------------

\* The set that CountRight counts.
Seen(r) == {s \in Slots : s < i[r] /\ data[s] = search[r]}

LEMMA SeenFinite ==
  ASSUME NEW r \in Readers
  PROVE  IsFiniteSet(Seen(r))
<1>1. IsFiniteSet(Slots)
  BY ArrayAssumption, FS_Interval DEF Slots
<1>2. Seen(r) \subseteq Slots
  BY DEF Seen
<1> QED
  BY <1>1, <1>2, FS_Subset

\* One turn of the reader's loop.
LEMMA ScanStep ==
  ASSUME IInv, CountRight, ~fresh, NEW r \in Readers, Scan(r)
  PROVE  CountRight'
<1>0. r \in Processes
  BY DEF Processes
<1>1. \A q \in Readers \ {r} : pc[q] \notin {"scan", "leave"}
  BY <1>0 DEF IInv, Held, HasWrt, Scan, Processes
<1>2. \A q \in Readers \ {r} : pc'[q] \notin {"scan", "leave"}
  BY <1>1, <1>0 DEF Scan, IInv, TypeOK, Processes
<1>3. count[r] = Cardinality(Seen(r))
  BY DEF CountRight, Scan, Seen
<1>4. count'[r] = Cardinality(Seen(r)')
  <2>1. CASE i[r] = MAX
    <3>1. count' = count /\ i' = i /\ data' = data /\ search' = search
      BY <2>1, ArrayAssumption DEF Scan, ipc
    <3> QED
      BY <3>1, <1>3 DEF Seen
  <2>2. CASE i[r] < MAX /\ data[i[r]] = search[r]
    <3>1. Seen(r)' = Seen(r) \cup {i[r]}
      BY <2>2, ArrayAssumption, <1>0 DEF Scan, IInv, TypeOK, Seen, ipc, Slots
    <3>2. i[r] \notin Seen(r)
      BY <1>0 DEF Seen, IInv, TypeOK
    <3>3. Cardinality(Seen(r)') = Cardinality(Seen(r)) + 1
      BY <3>1, <3>2, SeenFinite, FS_AddElement
    <3>4. count'[r] = count[r] + 1
      BY <2>2, ArrayAssumption, <1>0 DEF Scan, IInv, TypeOK
    <3> QED
      BY <3>3, <3>4, <1>3
  <2>3. CASE i[r] < MAX /\ data[i[r]] # search[r]
    <3>1. Seen(r)' = Seen(r)
      BY <2>3, ArrayAssumption, <1>0 DEF Scan, IInv, TypeOK, Seen, ipc, Slots
    <3>2. count'[r] = count[r]
      BY <2>3, ArrayAssumption, <1>0 DEF Scan, IInv, TypeOK
    <3> QED
      BY <3>1, <3>2, <1>3
  <2> QED
    BY <2>1, <2>2, <2>3 DEF Scan
<1> QED
  BY <1>2, <1>4 DEF CountRight, Seen

\* A reader that begins has counted nothing.
LEMMA BeginStep ==
  ASSUME IInv, CountRight, ~fresh, NEW r \in Readers, Begin(r)
  PROVE  CountRight'
<1>0. r \in Processes
  BY DEF Processes
<1>1. \A q \in Readers \ {r} : pc[q] \notin {"scan", "leave"}
  BY <1>0 DEF IInv, Held, HasWrt, Begin, At, Processes
<1>2. \A q \in Readers \ {r} : pc'[q] \notin {"scan", "leave"}
  BY <1>1, <1>0 DEF Begin, At, IInv, TypeOK, Processes
<1>3. Seen(r)' = {} /\ count'[r] = 0
  <2>1. count'[r] = 0 /\ i'[r] = 0
    BY <1>0 DEF Begin, IInv, TypeOK
  <2>2. \A s \in Slots : ~(s < 0)
    BY ArrayAssumption DEF Slots
  <2> QED
    BY <2>1, <2>2 DEF Seen
<1> QED
  BY <1>2, <1>3, FS_EmptySet DEF CountRight, Seen

\* All other steps leave alone what the readers in a scan look at: a process
\* that writes is inside itself, and nobody clears the array any more.
LEMMA OtherStep ==
  ASSUME IInv, Ready, CountRight, NEW p \in Processes,
         \/ Start(p) \/ Kill(p) \/ init(p)
         \/ p \in Readers /\ reader(p) /\ ~Scan(p) /\ ~Begin(p)
         \/ p \in Writers /\ writer(p)
  PROVE  CountRight'
<1> DEFINE Same(r) == /\ pc[r] \in {"scan", "leave"}
                      /\ count'[r] = count[r] /\ i'[r] = i[r] /\ search'[r] = search[r]
                      /\ data' = data
<1> SUFFICES ASSUME NEW r \in Readers, pc'[r] \in {"scan", "leave"}
             PROVE  Same(r)
  <2>1. \A r \in Readers : Same(r) => count'[r] = Cardinality(Seen(r)')
    BY DEF CountRight, Ready, Seen
  <2> QED
    BY <2>1 DEF CountRight, Seen
<1>1. r \in Processes
  BY DEF Processes
<1>2. CASE Start(p) \/ Kill(p)
  BY <1>1, <1>2 DEF Start, Kill, Forget, At, ipc, local, IInv, TypeOK
<1>3. CASE init(p)
  BY <1>1, <1>3 DEF init, OpenMutex, OpenWrt, Create, Reopen, OpenShm, Clear, At, ipc, local,
                    IInv, TypeOK, Ready
<1>4. CASE p \in Readers /\ reader(p) /\ ~Scan(p) /\ ~Begin(p)
  BY <1>1, <1>4 DEF reader, WakeReader, Enter, First, Leave, Last, End, Forget, sem_down, At,
                    ipc, local, IInv, TypeOK
<1>5. CASE p \in Writers /\ writer(p)
  <2>1. CASE Choose(p) \/ StartWriting(p) \/ StopWriting(p)
    BY <1>1, <1>5, <2>1, ArrayAssumption
       DEF Choose, StartWriting, StopWriting, Forget, sem_down, At, ipc, IInv, TypeOK
  <2>2. CASE WriteSlot(p)
    <3>1. p # r
      BY <1>5, ArrayAssumption
    <3>2. pc[r] \notin {"scan", "leave"}
      BY <1>1, <2>2, <3>1 DEF WriteSlot, IInv, Held, HasWrt
    <3> QED
      BY <1>1, <2>2, <3>1, <3>2 DEF WriteSlot, IInv, TypeOK
  <2> QED
    BY <1>5, <2>1, <2>2 DEF writer
<1> QED
  BY <1>2, <1>3, <1>4, <1>5

LEMMA ReadyStep == IInv /\ Ready /\ [Next]_vars => Ready'
<1> SUFFICES ASSUME IInv, Ready, [Next]_vars
             PROVE  Ready'
  OBVIOUS
<1>1. CASE UNCHANGED vars
  BY <1>1 DEF vars, Ready
<1>2. ASSUME NEW p \in Processes, Start(p) \/ Kill(p) \/ init(p)
      PROVE  Ready'
  BY <1>2 DEF Start, Kill, init, OpenMutex, OpenWrt, Create, Reopen, OpenShm, Clear, At,
              ipc, local, Ready, IInv, TypeOK
<1>3. ASSUME NEW r \in Readers, reader(r)
      PROVE  Ready'
  BY <1>3 DEF reader, WakeReader, Enter, First, Begin, Scan, Leave, Last, End, sem_down, At,
              ipc, local, Ready, IInv, TypeOK, Processes
<1>4. ASSUME NEW w \in Writers, writer(w)
      PROVE  Ready'
  BY <1>4 DEF writer, Choose, StartWriting, WriteSlot, StopWriting, sem_down, At,
              ipc, Ready, IInv, TypeOK, Processes
<1> QED
  BY <1>1, <1>2, <1>3, <1>4 DEF Next

LEMMA CountStep == IInv /\ Ready /\ CountRight /\ [Next]_vars => CountRight'
<1> SUFFICES ASSUME IInv, Ready, CountRight, [Next]_vars
             PROVE  CountRight'
  OBVIOUS
<1>1. CASE UNCHANGED vars
  BY <1>1 DEF vars, CountRight
<1>2. ASSUME NEW p \in Processes, Start(p) \/ Kill(p) \/ init(p)
      PROVE  CountRight'
  BY <1>2, OtherStep
<1>3. ASSUME NEW r \in Readers, reader(r)
      PROVE  CountRight'
  BY <1>3, ScanStep, BeginStep, OtherStep DEF Processes, Ready
<1>4. ASSUME NEW w \in Writers, writer(w)
      PROVE  CountRight'
  BY <1>4, OtherStep DEF Processes
<1> QED
  BY <1>1, <1>2, <1>3, <1>4 DEF Next

---------------------------------------------------------------------------

\* What holds of the semaphores holds from a system nobody has used, and also
\* from one that is initialised.
THEOREM Invariance == Spec => []IInv
BY InitIInv, Step, PTL DEF Spec

\* One process is at the array, whoever is killed and in whatever order the
\* semaphores are made (reader.c 74-97, writer.c).
THEOREM Exclusion == Spec => []OneInside
BY Invariance, IInvOneInside, PTL

\* What a reader has counted is true of the array as it is (reader.c 84).
THEOREM Counts == Spec => []CountRight
<1>1. Init => (~fresh => Ready /\ CountRight)
  BY DEF Init, FreshInit, ReadyInit, NobodyRuns, Ready, CountRight, Processes
<1>2. IInv /\ (~fresh => Ready /\ CountRight) /\ [Next]_vars => (~fresh => Ready /\ CountRight)'
  <2>1. [Next]_vars => fresh' = fresh
    BY DEF Next, vars, Start, Kill, init, reader, writer
  <2> QED
    BY <2>1, ReadyStep, CountStep
<1>3. (~fresh => Ready /\ CountRight) => CountRight
  BY DEF CountRight
<1> QED
  BY <1>1, <1>2, <1>3, Invariance, PTL DEF Spec

\* The variables keep their types.
THEOREM TypeCorrect == Spec => []TypeOK
<1>1. IInv => TypeOK
  BY DEF IInv
<1> QED
  BY <1>1, Invariance, PTL


---------------------------------------------------------------------------
\* Readers r and s are crossed: whoever else moves can post nothing, since it has
\* neither semaphore, and can make none, since both have been made.
LEMMA CrossedStep ==
  ASSUME IInv, NEW r \in Readers, NEW s \in Readers, NEW p \in Processes,
         pc[r] = "leave", pc[s] = "first", s \notin broken,
         sem = [t \in {WRT, MUTEX} |-> 0],
         Acts(p), pc[p] \in {"leave", "first"} => ~Kill(p)
  PROVE  sem' = sem /\ p # r /\ p # s /\ broken' \subseteq broken \cup {p}
<1>1. sem[WRT] = 0 /\ sem[MUTEX] = 0 /\ WRT # MUTEX
  BY DEF WRT, MUTEX
<1>2. r \in Processes /\ s \in Processes /\ WRT \in names /\ MUTEX \in names
  BY DEF Processes, IInv, Held, HasWrt, HasMutex
<1>3. /\ \A q \in Processes : pc[q] \in HasWrt => q = r
      /\ \A q \in Processes : pc[q] \in HasMutex => q = s
  BY <1>2 DEF IInv, Held, HasWrt, HasMutex
<1>4. pc[p] \notin {"begin", "scan", "last", "end", "write", "done"}
  <2>1. p # r /\ p # s => pc[p] \notin HasWrt /\ pc[p] \notin HasMutex
    BY <1>3
  <2> QED
    BY <2>1 DEF HasWrt, HasMutex
<1>5. CASE Start(p) \/ Kill(p)
  BY <1>5 DEF Start, Kill, At, ipc
<1>6. CASE OpenMutex(p) \/ OpenWrt(p)
  BY <1>2, <1>6 DEF OpenMutex, OpenWrt, Create, At
<1>7. CASE Reopen(p) \/ OpenShm(p) \/ Clear(p)
  BY <1>7 DEF Reopen, OpenShm, Clear, At, ipc
<1>8. CASE p \in Readers /\ (WakeReader(p) \/ Scan(p))
  BY <1>8 DEF WakeReader, Scan, At, ipc
<1>9. CASE p \in Readers /\ (Enter(p) \/ First(p) \/ Leave(p))
  <2>1. CASE Enter(p) \/ Leave(p)
    BY <1>1, <2>1 DEF Enter, Leave, sem_down
  <2>2. CASE First(p)
    <3>1. pc[p] = "first"
      BY <2>2 DEF First, sem_down, At
    <3>2. p = s
      BY <1>3, <3>1 DEF HasMutex
    <3> QED
      BY <1>1, <2>2, <3>2 DEF First, sem_down
  <2> QED
    BY <1>9, <2>1, <2>2
<1>10. CASE p \in Readers /\ (Begin(p) \/ Last(p) \/ End(p))
  BY <1>4, <1>10 DEF Begin, Last, End, At
<1>11. CASE p \in Writers /\ (Choose(p) \/ WriteSlot(p))
  BY <1>11 DEF Choose, WriteSlot, At, ipc
<1>12. CASE p \in Writers /\ StartWriting(p)
  <2>1. pc[p] = "wait" /\ p \in broken
    BY <1>1, <1>12 DEF StartWriting, sem_down, At
  <2> QED
    BY <1>1, <1>12, <2>1 DEF StartWriting, sem_down
<1>13. CASE p \in Writers /\ StopWriting(p)
  BY <1>4, <1>13 DEF StopWriting, At
<1> QED
  BY <1>5, <1>6, <1>7, <1>8, <1>9, <1>10, <1>11, <1>12, <1>13 DEF Acts, init, reader, writer

\* Two readers that are crossed, one with the array and one with MUTEX, stay so
\* until one of them is killed (reader.c 76-79, 91): no third process can help.
THEOREM CrossedStays == Spec => CrossedForEver
<1> DEFINE A == Crossed => Crossed' \/ KillCrossed
<1>1. IInv /\ [Next]_vars => [A]_vars
  <2> SUFFICES ASSUME IInv, Next, Crossed, ~KillCrossed
               PROVE  Crossed'
    OBVIOUS
  <2> PICK r \in Readers, s \in Readers :
             /\ pc[r] = "leave" /\ pc[s] = "first" /\ s \notin broken
             /\ sem = [t \in {WRT, MUTEX} |-> 0]
    BY DEF Crossed
  <2>1. PICK p \in Processes : Acts(p)
    BY DEF Next, Acts, Processes, Start, Kill, init, reader, writer
  <2>2. pc[p] \in {"leave", "first"} => ~Kill(p)
    BY DEF KillCrossed, Kill
  <2>3. sem' = sem /\ p # r /\ p # s /\ broken' \subseteq broken \cup {p}
    BY <2>1, <2>2, CrossedStep
  <2>4. pc'[r] = "leave" /\ pc'[s] = "first"
    BY <2>1, <2>3, MovesStep DEF IInv, Moves, Processes
  <2> QED
    BY <2>3, <2>4 DEF Crossed
<1>2. CrossedForEver <=> [][A]_vars
  BY DEF CrossedForEver
<1> HIDE DEF A
<1> QED
  BY <1>1, <1>2, Invariance, PTL DEF Spec


---------------------------------------------------------------------------
\* How the work can stop.

\* A process that goes on from sem_open has semaphores to ask for, but for wrt
\* when it was too early; and only readers read.
Named ==
  \A p \in Processes :
    /\ pc[p] \notin {"off", "openM"} => MUTEX \in names
    /\ pc[p] \notin {"off", "openM", "openW", "reopen"} => WRT \in names \/ p \in broken
    /\ pc[p] = "crashed" => p \in broken
    /\ pc[p] \in {"enter", "first", "begin", "scan", "leave", "last", "end"} => p \in Readers

\* A semaphore is there and at 0, and nobody has it.
Lost(s, A) == s \in names /\ sem[s] = 0 /\ \A p \in Processes : pc[p] \notin A

\* Somebody dies with it.
DiesAt(A) == \E p \in Processes : pc[p] \in A /\ Dies(p)

\* A process that cannot take its next step.
Blocked(p) ==
  \/ pc[p] = "crashed"
  \/ pc[p] \in {"enter", "leave"} /\ sem[MUTEX] = 0
  \/ pc[p] \in {"first", "wait"} /\ sem[WRT] = 0 /\ p \notin broken

\* Some run, and none of them can go on.
Stuck ==
  /\ \E p \in Processes : pc[p] # "off"
  /\ \A p \in Processes : pc[p] = "off" \/ Blocked(p)

LEMMA NamedStep ==
  ASSUME IInv, Named, NEW p \in Processes, Acts(p)
  PROVE  Named'
<1> USE DEF IInv, TypeOK, Named
<1>0. names \subseteq names'
  BY DEF Acts, init, reader, writer, Start, Kill, OpenMutex, OpenWrt, Create, Reopen, OpenShm,
     Clear, WakeReader, Enter, First, Begin, Scan, Leave, Last, End, Choose, StartWriting,
     WriteSlot, StopWriting, ipc
<1>1. CASE Start(p)
  BY <1>0, <1>1 DEF Start, At, ipc, local
<1>2. CASE Kill(p)
  BY <1>0, <1>2 DEF Kill, ipc
<1>3. CASE OpenMutex(p)
  BY <1>0, <1>3 DEF OpenMutex, Create, At
<1>4. CASE OpenWrt(p)
  BY <1>0, <1>4 DEF OpenWrt, Create, At
<1>5. CASE Reopen(p)
  BY <1>0, <1>5 DEF Reopen, At, ipc
<1>6. CASE OpenShm(p) \/ Clear(p)
  BY <1>0, <1>6 DEF OpenShm, Clear, At
<1>7. CASE p \in Readers /\ (WakeReader(p) \/ Scan(p))
  BY <1>0, <1>7 DEF WakeReader, Scan, At, ipc
<1>8. CASE p \in Readers /\ (Enter(p) \/ Leave(p))
  BY <1>0, <1>8 DEF Enter, Leave, sem_down, At, WRT, MUTEX
<1>9. CASE p \in Readers /\ First(p)
  BY <1>0, <1>9 DEF First, sem_down, At
<1>10. CASE p \in Readers /\ (Begin(p) \/ Last(p) \/ End(p))
  BY <1>0, <1>10 DEF Begin, Last, End, At
<1>11. CASE p \in Writers /\ (Choose(p) \/ WriteSlot(p) \/ StopWriting(p))
  BY <1>0, <1>11 DEF Choose, WriteSlot, StopWriting, At, ipc
<1>12. CASE p \in Writers /\ StartWriting(p)
  BY <1>0, <1>12 DEF StartWriting, sem_down, At
<1> QED
  BY <1>1, <1>2, <1>3, <1>4, <1>5, <1>6, <1>7, <1>8, <1>9, <1>10, <1>11, <1>12 DEF Acts, init, reader, writer

\* Nobody works without the semaphores it opened (reader.c 40-49).
THEOREM NamedAlways == Spec => []Named
<1>1. Init => Named
  BY DEF Init, FreshInit, ReadyInit, NobodyRuns, Named
<1>2. IInv /\ Named /\ [Next]_vars => Named'
  <2> SUFFICES ASSUME IInv, Named, [Next]_vars
               PROVE  Named'
    OBVIOUS
  <2>1. CASE UNCHANGED vars
    BY <2>1 DEF vars, Named
  <2>2. UNCHANGED vars \/ \E p \in Processes : Acts(p)
    BY DEF Next, Acts, Processes, Start, Kill, init, reader, writer
  <2> QED
    BY <2>1, <2>2, NamedStep
<1> QED
  BY <1>1, <1>2, Invariance, PTL DEF Spec

\* Nothing but these stops the processes that run: two readers are crossed
\* (reader.c 76-79, 91), somebody opened the semaphores between the creation of the
\* first and of the second (lines 40-44), or a semaphore went down with a process.
THEOREM OnlyTheseStop ==
  Spec => [](Stuck => Crossed \/ broken # {} \/ Lost(WRT, HasWrt) \/ Lost(MUTEX, HasMutex))
<1>1. ASSUME IInv, Named, Stuck, broken = {}, ~Lost(WRT, HasWrt), ~Lost(MUTEX, HasMutex)
      PROVE  Crossed
  <2>1. \A p \in Processes : Blocked(p) \/ pc[p] = "off"
    BY <1>1 DEF Stuck
  <2>2. sem[WRT] = 0 /\ WRT \in names => \E p \in Processes : pc[p] = "leave"
    <3>1. SUFFICES ASSUME sem[WRT] = 0, WRT \in names
                   PROVE  \E p \in Processes : pc[p] = "leave"
      OBVIOUS
    <3>2. PICK p \in Processes : pc[p] \in HasWrt
      BY <1>1, <3>1 DEF Lost
    <3> QED
      BY <2>1, <3>2 DEF Blocked, HasWrt
  <2>3. sem[MUTEX] = 0 /\ MUTEX \in names => \E p \in Processes : pc[p] = "first"
    <3>1. SUFFICES ASSUME sem[MUTEX] = 0, MUTEX \in names
                   PROVE  \E p \in Processes : pc[p] = "first"
      OBVIOUS
    <3>2. PICK p \in Processes : pc[p] \in HasMutex
      BY <1>1, <3>1 DEF Lost
    <3> QED
      BY <2>1, <3>2 DEF Blocked, HasMutex
  <2>4. \A p \in Processes : pc[p] = "leave" => sem[MUTEX] = 0 /\ MUTEX \in names /\ p \in Readers
    BY <1>1, <2>1 DEF Blocked, Named
  <2>5. \A p \in Processes : pc[p] = "first" => sem[WRT] = 0 /\ WRT \in names /\ p \in Readers
    BY <1>1, <2>1 DEF Blocked, Named
  <2>6. PICK p \in Processes : pc[p] # "off" /\ Blocked(p)
    BY <1>1 DEF Stuck
  <2>7. \/ sem[WRT] = 0 /\ WRT \in names
        \/ sem[MUTEX] = 0 /\ MUTEX \in names
    BY <1>1, <2>6 DEF Blocked, Named
  <2>8. PICK r \in Processes, s \in Processes : pc[r] = "leave" /\ pc[s] = "first"
    BY <2>2, <2>3, <2>4, <2>5, <2>7
  <2>9. sem[WRT] = 0 /\ sem[MUTEX] = 0 /\ r \in Readers /\ s \in Readers
    BY <2>4, <2>5, <2>8
  <2>10. sem = [t \in {WRT, MUTEX} |-> 0]
    BY <1>1, <2>9 DEF IInv, TypeOK
  <2> QED
    BY <1>1, <2>8, <2>9, <2>10 DEF Crossed
<1>2. IInv /\ Named =>
        (Stuck => Crossed \/ broken # {} \/ Lost(WRT, HasWrt) \/ Lost(MUTEX, HasMutex))
  BY <1>1
<1> QED
  BY <1>2, Invariance, NamedAlways, PTL

\* What a step does to a semaphore decides whether it gets lost.
LEMMA LostMove ==
  ASSUME NEW p \in Processes, NEW s \in {WRT, MUTEX}, NEW A, Held(s, A), Moves(p), Uses(p, s, A),
         "off" \notin A, "crashed" \notin A, sem[s] \in {0, 1},
         \A q \in Processes : Dies(q) => pc'[q] \in {"off", "crashed"}
  PROVE  Lost(s, A)' <=> Lost(s, A) \/ DiesAt(A)
<1>1. DiesAt(A) <=> pc[p] \in A /\ Dies(p)
  BY DEF DiesAt, Moves
<1>2. CASE Leaves(p, s, A)
  BY <1>1, <1>2 DEF Lost, Moves, Leaves
<1>3. CASE Takes(p, s, A)
  BY <1>1, <1>3 DEF Lost, Moves, Takes
<1>4. CASE Posts(p, s, A)
  BY <1>1, <1>4 DEF Lost, Moves, Posts
<1>5. CASE Makes(p, s, A)
  BY <1>1, <1>5 DEF Lost, Moves, Makes
<1>6. CASE DiesWith(p, s, A)
  BY <1>1, <1>6 DEF Lost, Held, Moves, DiesWith
<1> QED
  BY <1>2, <1>3, <1>4, <1>5, <1>6 DEF Uses

Loss ==
  /\ Lost(WRT, HasWrt)' <=> Lost(WRT, HasWrt) \/ DiesAt(HasWrt)
  /\ Lost(MUTEX, HasMutex)' <=> Lost(MUTEX, HasMutex) \/ DiesAt(HasMutex)

\* A semaphore is lost exactly when a process dies with it, and then for ever:
\* nothing undoes the sem_wait of a process that is gone.
THEOREM LostByDeath == Spec => [][Loss]_vars
<1>1. IInv /\ [Next]_vars => [Loss]_vars
  <2> SUFFICES ASSUME IInv, Next
               PROVE  Loss
    OBVIOUS
  <2>1. PICK p \in Processes : Acts(p)
    BY DEF Next, Acts, Processes, Start, Kill, init, reader, writer
  <2>2. Moves(p) /\ Uses(p, WRT, HasWrt) /\ Uses(p, MUTEX, HasMutex)
    BY <2>1, MovesStep, UsesStep DEF IInv
  <2>3. \A q \in Processes : Dies(q) => pc'[q] \in {"off", "crashed"}
    BY DEF Dies, Kill, IInv, TypeOK
  <2>4. /\ Held(WRT, HasWrt) /\ Held(MUTEX, HasMutex)
        /\ sem[WRT] \in {0, 1} /\ sem[MUTEX] \in {0, 1}
    BY DEF IInv, TypeOK
  <2>5. "off" \notin HasWrt \cup HasMutex /\ "crashed" \notin HasWrt \cup HasMutex
    BY DEF HasWrt, HasMutex
  <2>6. Lost(WRT, HasWrt)' <=> Lost(WRT, HasWrt) \/ DiesAt(HasWrt)
    BY <2>2, <2>3, <2>4, <2>5, LostMove
  <2>7. Lost(MUTEX, HasMutex)' <=> Lost(MUTEX, HasMutex) \/ DiesAt(HasMutex)
    BY <2>2, <2>3, <2>4, <2>5, LostMove
  <2> QED
    BY <2>6, <2>7 DEF Loss
<1> QED
  BY <1>1, Invariance, PTL DEF Spec

=============================================================================
