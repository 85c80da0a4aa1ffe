----------------------- MODULE ProducerConsumer_proofs -----------------------
(***************************************************************************)
(* Proofs about the bounded buffer, for any numbers of producers,          *)
(* consumers and slots, and with processes killed wherever Kill allows     *)
(* it: exclusion from any start, what the permits promise once the array  *)
(* has been initialised, and that from any start it is a table of numbers. *)
(***************************************************************************)
EXTENDS ProducerConsumer, FiniteSetTheorems, TLAPS

---------------------------------------------------------------------------
\* How the number of processes or slots in a given condition changes when one
\* of them changes.

Count(P, f, S) == Cardinality({q \in P : f[q] \in S})

In(x, S) == IF x \in S THEN 1 ELSE 0

\* What a change at p does to the number of members of P whose value is in S,
\* when no other member's value enters or leaves S.
LEMMA CountMove ==
  ASSUME NEW P, IsFiniteSet(P), NEW f, NEW g, NEW S, NEW p \in P,
         \A q \in P \ {p} : g[q] \in S <=> f[q] \in S
  PROVE  /\ Count(P, f, S) \in 0 .. Cardinality(P)
         /\ Count(P, g, S) \in 0 .. Cardinality(P)
         /\ Count(P, g, S) = Count(P, f, S) + In(g[p], S) - In(f[p], S)
<1> DEFINE F == {q \in P : f[q] \in S}
           G == {q \in P : g[q] \in S}
<1>1. /\ IsFiniteSet(F) /\ Cardinality(F) \in Nat /\ Cardinality(F) <= Cardinality(P)
      /\ IsFiniteSet(G) /\ Cardinality(G) \in Nat /\ Cardinality(G) <= Cardinality(P)
      /\ Cardinality(P) \in Nat
  <2>1. F \in SUBSET P /\ G \in SUBSET P
    OBVIOUS
  <2> HIDE DEF F, G
  <2> QED
    BY <2>1, FS_Subset, FS_CardinalityType
<1>2. /\ Count(P, f, S) = Cardinality(F) /\ Count(P, g, S) = Cardinality(G)
  BY DEF Count
<1>3. CASE f[p] \in S <=> g[p] \in S
  <2>1. F = G
    BY <1>3
  <2> HIDE DEF F, G
  <2> QED
    BY <1>2, <1>1, <1>3, <2>1 DEF In
<1>4. CASE f[p] \notin S /\ g[p] \in S
  <2>1. G = F \cup {p} /\ p \notin F
    BY <1>4
  <2>2. Cardinality(G) = Cardinality(F) + 1
    BY <1>1, <2>1, FS_AddElement
  <2> HIDE DEF F, G
  <2> QED
    BY <1>2, <1>1, <1>4, <2>2 DEF In
<1>5. CASE f[p] \in S /\ g[p] \notin S
  <2>1. F = G \cup {p} /\ p \notin G
    BY <1>5
  <2>2. Cardinality(F) = Cardinality(G) + 1
    BY <1>1, <2>1, FS_AddElement
  <2> HIDE DEF F, G
  <2> QED
    BY <1>2, <1>1, <1>5, <2>2 DEF In
<1> QED
  BY <1>3, <1>4, <1>5

\* A number of members is positive when there is one.
LEMMA CountPositive ==
  ASSUME NEW P, IsFiniteSet(P), NEW f, NEW S
  PROVE  /\ Count(P, f, S) \in Nat
         /\ Count(P, f, S) > 0 <=> \E q \in P : f[q] \in S
<1> DEFINE F == {q \in P : f[q] \in S}
<1>1. F \in SUBSET P /\ (F # {} <=> \E q \in P : f[q] \in S)
  OBVIOUS
<1>2. Count(P, f, S) = Cardinality(F)
  BY DEF Count
<1> HIDE DEF F
<1>3. Cardinality(F) \in Nat /\ (Cardinality(F) = 0 <=> F = {})
  BY <1>1, FS_Subset, FS_CardinalityType, FS_EmptySet
<1> QED
  BY <1>1, <1>2, <1>3

---------------------------------------------------------------------------

Inside == {"lock", "scan", "change"}
After  == {"unlock", "up"}

Types ==
  /\ sem \in [{EMPTY, FILL, MUTEX} -> Nat]
  /\ data \in [Slots -> Numbers \cup {Vacant}]
  /\ pc \in [Processes -> PC]
  /\ number \in [Processes -> Numbers \cup {Unset}]
  /\ index \in [Processes -> Slots \cup {Unset}]

\* The creating halves of init_sem and init_shm are over for good.
Initialised ==
  /\ fresh = FALSE
  /\ semset = "used" /\ shm = TRUE
  /\ \A p \in Processes : pc[p] \notin {"first", "second", "clearing"}

MutexHeld ==
  /\ sem[MUTEX] \in {0, 1}
  /\ sem[MUTEX] = 1 => \A p \in Processes : pc[p] \notin Critical

\* What a process knows of the slot it found, and a producer of its number.
Found ==
  \A p \in Processes :
    /\ p \in Producers /\ pc[p] \in Inside \cup {"down"} => number[p] \in Numbers
    /\ pc[p] = "change" => /\ index[p] \in Slots
                           /\ data[index[p]] = Vacant <=> p \in Producers

\* PermitsCovered, in terms of Count.
Covered ==
  /\ sem[EMPTY] + Count(Producers, pc, Inside) + Count(Consumers, pc, After)
       <= Count(Slots, data, {Vacant})
  /\ sem[FILL] + Count(Consumers, pc, Inside) + Count(Producers, pc, After)
       <= Count(Slots, data, Numbers)

IInv == Types /\ Initialised /\ MutexHeld /\ MutexExcludes /\ Found /\ Covered /\ NoOverrun

---------------------------------------------------------------------------

LEMMA Finite == IsFiniteSet(Slots) /\ Cardinality(Slots) = MAX
BY BufferAssumption, FS_Interval DEF Slots

LEMMA CoveredIff == Types /\ ~fresh => (Covered <=> PermitsCovered)
<1> SUFFICES ASSUME Types, ~fresh
             PROVE  Covered <=> PermitsCovered
  OBVIOUS
<1>1. {s \in Slots : data[s] \in {Vacant}} = {s \in Slots : data[s] = Vacant}
  OBVIOUS
<1>2. {s \in Slots : data[s] \in Numbers} = {s \in Slots : data[s] # Vacant}
  BY BufferAssumption DEF Types, Vacant
<1> QED
  BY <1>1, <1>2 DEF Covered, PermitsCovered, Count, Holding, Owing, Inside, After

LEMMA InitIInv == ReadyInit => IInv
<1> SUFFICES ASSUME ReadyInit
             PROVE  IInv
  OBVIOUS
<1>1. Types
  BY BufferAssumption DEF ReadyInit, Types, PC, EMPTY, FILL, MUTEX
<1>2. Initialised /\ MutexHeld /\ MutexExcludes /\ Found /\ NoOverrun
  BY DEF ReadyInit, Initialised, MutexHeld, MutexExcludes, Found, NoOverrun, Critical, Inside,
         EMPTY, FILL, MUTEX
<1>3. Covered
  <2>1. /\ Holding(Producers) = {} /\ Holding(Consumers) = {}
        /\ Owing(Producers) = {} /\ Owing(Consumers) = {}
    BY DEF ReadyInit, Holding, Owing, Processes
  <2>2. /\ {s \in Slots : data[s] = Vacant} = Slots
        /\ {s \in Slots : data[s] # Vacant} = {}
    BY DEF ReadyInit
  <2>3. sem[EMPTY] = MAX /\ sem[FILL] = 0
    BY DEF ReadyInit, EMPTY, FILL, MUTEX
  <2>4. PermitsCovered
    BY <2>1, <2>2, <2>3, Finite, FS_EmptySet, BufferAssumption DEF PermitsCovered
  <2> QED
    BY <1>1, <2>4, CoveredIff DEF ReadyInit
<1> QED
  BY <1>1, <1>2, <1>3 DEF IInv

\* The numbers of producers and of consumers at the places S when process p
\* moves.
LEMMA Holders ==
  ASSUME Types, NEW p \in Processes, NEW to \in PC, pc' = [pc EXCEPT ![p] = to],
         NEW S \in {Inside, After}
  PROVE  /\ Count(Producers, pc, S) \in Nat
         /\ Count(Consumers, pc, S) \in Nat
         /\ Count(Producers, pc', S) =
              Count(Producers, pc, S)
                + IF p \in Producers THEN In(to, S) - In(pc[p], S) ELSE 0
         /\ Count(Consumers, pc', S) =
              Count(Consumers, pc, S)
                + IF p \in Consumers THEN In(to, S) - In(pc[p], S) ELSE 0
<1>1. pc'[p] = to /\ \A q \in Processes \ {p} : pc'[q] = pc[q]
  BY DEF Types
<1>2. ASSUME NEW P, P = Producers \/ P = Consumers
      PROVE  /\ Count(P, pc, S) \in Nat
             /\ Count(P, pc', S) = Count(P, pc, S)
                  + IF p \in P THEN In(to, S) - In(pc[p], S) ELSE 0
  <2>1. IsFiniteSet(P) /\ P \subseteq Processes
    BY <1>2, BufferAssumption DEF Processes
  <2>2. Count(P, pc, S) \in Nat
    BY ONLY <2>1, CountPositive
  <2>3. CASE p \in P
    <3>1. \A q \in P \ {p} : pc'[q] \in S <=> pc[q] \in S
      BY <1>1, <2>1
    <3>2. Count(P, pc', S) = Count(P, pc, S) + In(pc'[p], S) - In(pc[p], S)
      BY ONLY <2>1, <2>3, <3>1, CountMove
    <3> QED
      BY <1>1, <2>2, <2>3, <3>2 DEF In
  <2>4. CASE p \notin P
    <3>1. {q \in P : pc'[q] \in S} = {q \in P : pc[q] \in S}
      BY <1>1, <2>1, <2>4
    <3>2. Count(P, pc', S) = Count(P, pc, S)
      BY <3>1 DEF Count
    <3> QED
      BY <2>2, <2>4, <3>2
  <2> QED
    BY <2>2, <2>3, <2>4
<1> QED
  BY <1>2

\* The numbers of vacant and of full slots when slot s changes.
LEMMA SlotCounts ==
  ASSUME Types, NEW s \in Slots, NEW n \in Numbers \cup {Vacant},
         data' = [data EXCEPT ![s] = n]
  PROVE  /\ Count(Slots, data, {Vacant}) \in Nat
         /\ Count(Slots, data, Numbers) \in Nat
         /\ Count(Slots, data', {Vacant}) = Count(Slots, data, {Vacant})
              + In(n, {Vacant}) - In(data[s], {Vacant})
         /\ Count(Slots, data', Numbers) = Count(Slots, data, Numbers)
              + In(n, Numbers) - In(data[s], Numbers)
<1>1. data'[s] = n /\ \A t \in Slots \ {s} : data'[t] = data[t]
  BY DEF Types
<1>2. ASSUME NEW S
      PROVE  /\ Count(Slots, data, S) \in Nat
             /\ Count(Slots, data', S) = Count(Slots, data, S) + In(n, S) - In(data[s], S)
  <2>1. IsFiniteSet(Slots) /\ Cardinality(Slots) \in Nat
    BY Finite, FS_CardinalityType
  <2>2. \A t \in Slots \ {s} : data'[t] \in S <=> data[t] \in S
    BY <1>1
  <2>3. /\ Count(Slots, data, S) \in 0 .. Cardinality(Slots)
        /\ Count(Slots, data', S) = Count(Slots, data, S) + In(data'[s], S) - In(data[s], S)
    BY ONLY <2>1, <2>2, s \in Slots, CountMove
  <2> QED
    BY <1>1, <2>1, <2>3
<1> QED
  BY <1>2

\* A semaphore operation that does not block.
LEMMA ChangeSem ==
  ASSUME Types, NEW s \in {EMPTY, FILL, MUTEX}, NEW val \in Int, change_sem(s, val)
  PROVE  /\ sem' \in [{EMPTY, FILL, MUTEX} -> Nat]
         /\ sem[s] \in Nat /\ sem'[s] = sem[s] + val
         /\ \A t \in {EMPTY, FILL, MUTEX} \ {s} : sem'[t] = sem[t]
BY DEF Types, change_sem

\* What process p takes from the two semaphores, it holds or owes no more.
Gain(p, to, S) == In(to, S) - In(pc[p], S)

Pays(p, to) ==
  /\ sem'[EMPTY] \in Nat /\ sem'[FILL] \in Nat
  /\ p \in Producers =>
       /\ sem'[EMPTY] + Gain(p, to, Inside) <= sem[EMPTY]
       /\ sem'[FILL] + Gain(p, to, After) <= sem[FILL]
  /\ p \in Consumers =>
       /\ sem'[FILL] + Gain(p, to, Inside) <= sem[FILL]
       /\ sem'[EMPTY] + Gain(p, to, After) <= sem[EMPTY]

\* Covered is kept when process p moves and pays for it.
LEMMA CoveredMove ==
  ASSUME Types, Covered, NEW p \in Processes, NEW to \in PC,
         pc' = [pc EXCEPT ![p] = to], data' = data, Pays(p, to)
  PROVE  Covered'
<1>1. /\ Count(Slots, data', {Vacant}) = Count(Slots, data, {Vacant})
      /\ Count(Slots, data', Numbers) = Count(Slots, data, Numbers)
  BY DEF Count
<1>2. /\ Count(Slots, data, {Vacant}) \in Nat /\ Count(Slots, data, Numbers) \in Nat
      /\ sem[EMPTY] \in Nat /\ sem[FILL] \in Nat
  BY Finite, CountPositive DEF Types
<1>3. /\ Gain(p, to, Inside) \in -1 .. 1 /\ Gain(p, to, After) \in -1 .. 1
      /\ p \in Producers \/ (p \in Consumers /\ p \notin Producers)
      /\ p \in Producers => p \notin Consumers
  BY BufferAssumption DEF Gain, In, Processes
<1>4. \A S \in {Inside, After} :
         /\ Count(Producers, pc, S) \in Nat
         /\ Count(Consumers, pc, S) \in Nat
         /\ Count(Producers, pc', S) = Count(Producers, pc, S)
               + IF p \in Producers THEN Gain(p, to, S) ELSE 0
         /\ Count(Consumers, pc', S) = Count(Consumers, pc, S)
               + IF p \in Consumers THEN Gain(p, to, S) ELSE 0
  BY Holders DEF Gain
<1>5. CASE p \in Producers
  BY <1>1, <1>2, <1>3, <1>4, <1>5 DEF Covered, Pays
<1>6. CASE p \in Consumers
  BY <1>1, <1>2, <1>3, <1>4, <1>6 DEF Covered, Pays
<1> QED
  BY <1>3, <1>5, <1>6

\* A step of process p before its round, or outside the permits: it moves
\* nothing but itself.
LEMMA OutsideStep ==
  ASSUME IInv, NEW p \in Processes,
         Start(p) \/ Kill(p) \/ init(p) \/ Wake(p), UNCHANGED fresh
  PROVE  IInv'
<1> USE DEF IInv
<1>1. PICK to \in {"off", "semget", "otime", "shmget", "idle", "down"} :
         /\ pc' = [pc EXCEPT ![p] = to]
         /\ to = "down" => Wake(p)
         /\ to # "down" =>
              \/ UNCHANGED <<number, index>>
              \/ /\ number' = [number EXCEPT ![p] = Unset]
                 /\ index' = [index EXCEPT ![p] = Unset]
  BY DEF Initialised, Start, Kill, init, SemGet, SemFirst, SemSecond, SemOtime, ShmGet,
         ShmClear, Wake, At
<1>2. UNCHANGED <<semset, sem, shm, data>>
  BY DEF Initialised, Start, Kill, init, SemGet, SemFirst, SemSecond, SemOtime, ShmGet,
         ShmClear, Wake, At
<1>3. to \in PC /\ to \notin Inside /\ to \notin After /\ to \notin Critical
  BY DEF PC, Starting, Critical, Inside, After
<1>4. /\ pc'[p] = to
      /\ \A q \in Processes \ {p} : /\ pc'[q] = pc[q]
                                   /\ number'[q] = number[q] /\ index'[q] = index[q]
      /\ index' \in [Processes -> Slots \cup {Unset}]
      /\ number' \in [Processes -> Numbers \cup {Unset}]
      /\ to = "down" /\ p \in Producers => number'[p] \in Numbers
  BY <1>1 DEF Types, Wake
<1>5. Types'
  BY <1>1, <1>2, <1>3, <1>4 DEF Types
<1>6. Initialised' /\ MutexHeld' /\ MutexExcludes' /\ NoOverrun'
  BY <1>1, <1>2, <1>3, <1>4 DEF Initialised, MutexHeld, MutexExcludes, NoOverrun
<1>7. Found'
  BY <1>2, <1>3, <1>4 DEF Found, Inside
<1>8. Covered'
  <2>1. /\ sem'[EMPTY] \in Nat /\ sem'[FILL] \in Nat
        /\ Gain(p, to, Inside) \in {-1, 0} /\ Gain(p, to, After) \in {-1, 0}
    BY <1>2, <1>3 DEF Types, Gain, In
  <2>2. Pays(p, to)
    BY <1>2, <2>1 DEF Types, Pays
  <2> QED
    BY <1>1, <1>2, <1>3, <2>2, CoveredMove
<1> QED
  BY <1>5, <1>6, <1>7, <1>8

\* A process takes its permit and is Inside from then on.
LEMMA DownStep ==
  ASSUME IInv, NEW p \in Processes, Down(p), UNCHANGED fresh
  PROVE  IInv'
<1> USE DEF IInv
<1> DEFINE mine == IF p \in Producers THEN EMPTY ELSE FILL
           other == IF p \in Producers THEN FILL ELSE EMPTY
<1>1. /\ pc[p] = "down" /\ pc' = [pc EXCEPT ![p] = "lock"]
      /\ change_sem(mine, -1)
      /\ UNCHANGED <<semset, shm, data, number, index>>
  BY DEF Down, At, sem_down
<1>2. /\ sem' \in [{EMPTY, FILL, MUTEX} -> Nat]
      /\ sem[mine] \in Nat /\ sem'[mine] = sem[mine] - 1
      /\ sem'[other] = sem[other] /\ sem'[MUTEX] = sem[MUTEX]
  BY <1>1, ChangeSem DEF EMPTY, FILL, MUTEX
<1>3. Types'
  BY <1>1, <1>2 DEF Types, PC
<1>4. Initialised' /\ MutexHeld' /\ MutexExcludes' /\ NoOverrun' /\ Found'
  BY <1>1, <1>2 DEF Types, Initialised, MutexHeld, MutexExcludes, NoOverrun, Found,
                    Critical, Inside
<1>5. Covered'
  <2>1. /\ "lock" \in PC /\ Gain(p, "lock", Inside) = 1 /\ Gain(p, "lock", After) = 0
        /\ sem[EMPTY] \in Nat /\ sem[FILL] \in Nat
        /\ sem'[EMPTY] \in Nat /\ sem'[FILL] \in Nat
        /\ p \in Consumers => p \notin Producers
    BY <1>1, <1>2, BufferAssumption DEF Types, PC, Gain, In, Inside, After
  <2>2. Pays(p, "lock")
    BY <1>1, <1>2, <2>1 DEF Pays
  <2> QED
    BY <1>1, <2>1, <2>2, CoveredMove
<1> QED
  BY <1>3, <1>4, <1>5

LEMMA LockStep ==
  ASSUME IInv, NEW p \in Processes, LockMutex(p), UNCHANGED fresh
  PROVE  IInv'
<1> USE DEF IInv
<1>1. /\ pc[p] = "lock" /\ pc' = [pc EXCEPT ![p] = "scan"]
      /\ change_sem(MUTEX, -1)
      /\ UNCHANGED <<semset, shm, data, number, index>>
  BY DEF LockMutex, At, sem_down
<1>2. /\ sem' \in [{EMPTY, FILL, MUTEX} -> Nat]
      /\ sem'[EMPTY] = sem[EMPTY] /\ sem'[FILL] = sem[FILL]
      /\ sem[MUTEX] = 1 /\ sem'[MUTEX] = 0
  BY <1>1, ChangeSem DEF MutexHeld, EMPTY, FILL, MUTEX
<1>3. Types'
  BY <1>1, <1>2 DEF Types, PC, Critical
<1>4. Initialised' /\ MutexHeld' /\ MutexExcludes' /\ NoOverrun' /\ Found'
  BY <1>1, <1>2 DEF Types, Initialised, MutexHeld, MutexExcludes, NoOverrun, Found,
                    Critical, Inside
<1>5. Covered'
  <2>1. /\ "scan" \in PC /\ Gain(p, "scan", Inside) = 0 /\ Gain(p, "scan", After) = 0
        /\ sem[EMPTY] \in Nat /\ sem[FILL] \in Nat
    BY <1>1 DEF Types, PC, Critical, Gain, In, Inside, After
  <2>2. Pays(p, "scan")
    BY <1>1, <1>2, <2>1 DEF Pays
  <2> QED
    BY <1>1, <2>1, <2>2, CoveredMove
<1> QED
  BY <1>3, <1>4, <1>5

\* Whoever scans the array holds a permit, so the slot it looks for is there.
LEMMA SlotThere ==
  ASSUME IInv, NEW p \in Processes, pc[p] = "scan"
  PROVE  \E s \in Slots : (data[s] = Vacant) = (p \in Producers)
<1> USE DEF IInv
<1>1. /\ sem[EMPTY] \in Nat /\ sem[FILL] \in Nat
      /\ IsFiniteSet(Producers) /\ IsFiniteSet(Consumers) /\ IsFiniteSet(Slots)
      /\ pc[p] \in Inside
  BY BufferAssumption, Finite DEF Types, Inside
<1>2. CASE p \in Producers
  <2>1. Count(Producers, pc, Inside) \in Nat /\ Count(Producers, pc, Inside) > 0
    BY <1>1, <1>2, CountPositive
  <2>2. Count(Slots, data, {Vacant}) \in Nat /\ Count(Slots, data, {Vacant}) > 0
    BY <1>1, <2>1, CountPositive DEF Covered
  <2> QED
    BY <1>1, <1>2, <2>2, CountPositive
<1>3. CASE p \in Consumers /\ p \notin Producers
  <2>1. Count(Consumers, pc, Inside) \in Nat /\ Count(Consumers, pc, Inside) > 0
    BY <1>1, <1>3, CountPositive
  <2>2. Count(Slots, data, Numbers) \in Nat /\ Count(Slots, data, Numbers) > 0
    BY <1>1, <2>1, CountPositive DEF Covered
  <2>3. \E s \in Slots : data[s] \in Numbers
    BY <1>1, <2>2, CountPositive
  <2> QED
    BY <1>3, <2>3, BufferAssumption DEF Vacant
<1> QED
  BY <1>2, <1>3 DEF Processes

LEMMA FindStep ==
  ASSUME IInv, NEW p \in Processes, FindSlot(p), UNCHANGED fresh
  PROVE  IInv'
<1> USE DEF IInv
<1>1. pc[p] = "scan"
  BY DEF FindSlot, At
<1>2. PICK s \in Slots :
         /\ (data[s] = Vacant) = (p \in Producers)
         /\ pc' = [pc EXCEPT ![p] = "change"]
         /\ index' = [index EXCEPT ![p] = s]
         /\ number' = IF p \in Producers THEN number ELSE [number EXCEPT ![p] = data[s]]
         /\ UNCHANGED <<semset, sem, shm, data>>
  BY <1>1, SlotThere DEF FindSlot, First, At
<1>3. /\ data[s] \in Numbers \/ p \in Producers
      /\ pc'[p] = "change" /\ index'[p] = s
      /\ \A q \in Processes \ {p} : /\ pc'[q] = pc[q]
                                   /\ number'[q] = number[q] /\ index'[q] = index[q]
      /\ p \in Producers => number'[p] = number[p]
  BY <1>2 DEF Types
<1>4. Types'
  BY <1>2, <1>3 DEF Types, PC, Critical
<1>5. Initialised' /\ MutexHeld' /\ MutexExcludes' /\ NoOverrun'
  BY <1>1, <1>2, <1>3 DEF Initialised, MutexHeld, MutexExcludes, NoOverrun, Critical
<1>6. Found'
  BY <1>1, <1>2, <1>3 DEF Found, Inside
<1>7. Covered'
  <2>1. /\ "change" \in PC /\ Gain(p, "change", Inside) = 0 /\ Gain(p, "change", After) = 0
        /\ sem[EMPTY] \in Nat /\ sem[FILL] \in Nat
    BY <1>1 DEF Types, PC, Critical, Gain, In, Inside, After
  <2>2. Pays(p, "change")
    BY <1>1, <1>2, <2>1 DEF Pays
  <2>3. pc' = [pc EXCEPT ![p] = "change"] /\ data' = data
    BY <1>2
  <2> QED
    BY <2>1, <2>2, <2>3, CoveredMove
<1> QED
  BY <1>4, <1>5, <1>6, <1>7

\* The permit is used: one slot changes sides as its process leaves Inside.
LEMMA ChangeStep ==
  ASSUME IInv, NEW p \in Processes, ChangeSlot(p), UNCHANGED fresh
  PROVE  IInv'
<1> USE DEF IInv
<1> DEFINE s == index[p]
           n == IF p \in Producers THEN number[p] ELSE Vacant
<1>1. /\ pc[p] = "change" /\ pc' = [pc EXCEPT ![p] = "unlock"]
      /\ data' = [data EXCEPT ![s] = n]
      /\ UNCHANGED <<semset, sem, shm, number, index>>
  BY DEF ChangeSlot, At
<1>2. /\ s \in Slots /\ n \in Numbers \cup {Vacant}
      /\ data[s] \in Numbers \cup {Vacant}
      /\ p \in Producers => n \in Numbers /\ data[s] = Vacant
      /\ p \notin Producers => n = Vacant /\ data[s] \in Numbers
  BY <1>1 DEF Types, Found, Inside
<1> HIDE DEF s, n
<1>3. Types'
  BY <1>1, <1>2 DEF Types, PC, Critical
<1>4. Initialised' /\ MutexHeld' /\ MutexExcludes' /\ NoOverrun'
  BY <1>1 DEF Types, Initialised, MutexHeld, MutexExcludes, NoOverrun, Critical
<1>5. Found'
  <2>1. \A q \in Processes \ {p} : pc[q] # "change"
    BY <1>1 DEF MutexExcludes, Critical
  <2> QED
    BY <1>1, <2>1 DEF Types, Found, Inside
<1>6. Covered'
  <2>1. /\ In(n, {Vacant}) - In(data[s], {Vacant}) = IF p \in Producers THEN -1 ELSE 1
        /\ In(n, Numbers) - In(data[s], Numbers) = IF p \in Producers THEN 1 ELSE -1
    BY <1>2, BufferAssumption DEF In, Vacant
  <2>2. /\ Count(Slots, data, {Vacant}) \in Nat
        /\ Count(Slots, data, Numbers) \in Nat
        /\ In(n, {Vacant}) \in {0, 1} /\ In(data[s], {Vacant}) \in {0, 1}
        /\ In(n, Numbers) \in {0, 1} /\ In(data[s], Numbers) \in {0, 1}
        /\ Count(Slots, data', {Vacant}) = Count(Slots, data, {Vacant})
              + In(n, {Vacant}) - In(data[s], {Vacant})
        /\ Count(Slots, data', Numbers) = Count(Slots, data, Numbers)
              + In(n, Numbers) - In(data[s], Numbers)
    BY <1>1, <1>2, SlotCounts DEF In
  <2>3. /\ "unlock" \in PC /\ In("unlock", Inside) = 0 /\ In(pc[p], Inside) = 1
        /\ In("unlock", After) = 1 /\ In(pc[p], After) = 0
        /\ sem[EMPTY] \in Nat /\ sem[FILL] \in Nat
        /\ p \in Consumers <=> p \notin Producers
    BY <1>1, BufferAssumption DEF Types, PC, Critical, In, Inside, After, Processes
  <2>4. \A S \in {Inside, After} :
           /\ Count(Producers, pc, S) \in Nat
           /\ Count(Consumers, pc, S) \in Nat
           /\ Count(Producers, pc', S) = Count(Producers, pc, S)
                + IF p \in Producers THEN In("unlock", S) - In(pc[p], S) ELSE 0
           /\ Count(Consumers, pc', S) = Count(Consumers, pc, S)
                + IF p \in Consumers THEN In("unlock", S) - In(pc[p], S) ELSE 0
    BY <1>1, <2>3, Holders
  <2> QED
    BY <1>1, <2>1, <2>2, <2>3, <2>4 DEF Covered
<1> QED
  BY <1>3, <1>4, <1>5, <1>6

LEMMA UnlockStep ==
  ASSUME IInv, NEW p \in Processes, UnlockMutex(p), UNCHANGED fresh
  PROVE  IInv'
<1> USE DEF IInv
<1>1. /\ pc[p] = "unlock" /\ pc' = [pc EXCEPT ![p] = "up"]
      /\ change_sem(MUTEX, 1)
      /\ UNCHANGED <<semset, shm, data, number, index>>
  BY DEF UnlockMutex, At, sem_up
<1>2. /\ sem' \in [{EMPTY, FILL, MUTEX} -> Nat]
      /\ sem'[EMPTY] = sem[EMPTY] /\ sem'[FILL] = sem[FILL] /\ sem'[MUTEX] = 1
  <2>1. sem[MUTEX] = 0
    BY <1>1 DEF MutexHeld, Critical
  <2> QED
    BY <1>1, <2>1, ChangeSem DEF EMPTY, FILL, MUTEX
<1>3. Types'
  BY <1>1, <1>2 DEF Types, PC
<1>4. Initialised' /\ MutexHeld' /\ MutexExcludes' /\ NoOverrun' /\ Found'
  BY <1>1, <1>2 DEF Types, Initialised, MutexHeld, MutexExcludes, NoOverrun, Found,
                    Critical, Inside
<1>5. Covered'
  <2>1. /\ "up" \in PC /\ Gain(p, "up", Inside) = 0 /\ Gain(p, "up", After) = 0
        /\ sem[EMPTY] \in Nat /\ sem[FILL] \in Nat
    BY <1>1 DEF Types, PC, Gain, In, Inside, After
  <2>2. Pays(p, "up")
    BY <1>1, <1>2, <2>1 DEF Pays
  <2> QED
    BY <1>1, <2>1, <2>2, CoveredMove
<1> QED
  BY <1>3, <1>4, <1>5

\* The other side gets a permit for the slot that has changed sides, in front
\* of which nobody else can have got one.
LEMMA UpStep ==
  ASSUME IInv, NEW p \in Processes, Up(p), UNCHANGED fresh
  PROVE  IInv'
<1> USE DEF IInv
<1> DEFINE mine == IF p \in Producers THEN EMPTY ELSE FILL
           other == IF p \in Producers THEN FILL ELSE EMPTY
<1>1. /\ pc[p] = "up" /\ pc' = [pc EXCEPT ![p] = "idle"]
      /\ change_sem(other, 1)
      /\ number' = [number EXCEPT ![p] = Unset]
      /\ index' = [index EXCEPT ![p] = Unset]
      /\ UNCHANGED <<semset, shm, data>>
  BY DEF Up, At, sem_up
<1>2. /\ sem' \in [{EMPTY, FILL, MUTEX} -> Nat]
      /\ sem[other] \in Nat /\ sem'[other] = sem[other] + 1
      /\ sem'[mine] = sem[mine] /\ sem'[MUTEX] = sem[MUTEX]
  BY <1>1, ChangeSem DEF EMPTY, FILL, MUTEX
<1>3. Types'
  BY <1>1, <1>2 DEF Types, PC
<1>4. Initialised' /\ MutexHeld' /\ MutexExcludes' /\ NoOverrun' /\ Found'
  BY <1>1, <1>2 DEF Types, Initialised, MutexHeld, MutexExcludes, NoOverrun, Found,
                    Critical, Inside
<1>5. Covered'
  <2>1. /\ "idle" \in PC /\ Gain(p, "idle", Inside) = 0 /\ Gain(p, "idle", After) = -1
        /\ sem[EMPTY] \in Nat /\ sem[FILL] \in Nat
        /\ sem'[EMPTY] \in Nat /\ sem'[FILL] \in Nat
        /\ p \in Consumers => p \notin Producers
    BY <1>1, <1>2, BufferAssumption DEF Types, PC, Gain, In, Inside, After
  <2>2. Pays(p, "idle")
    BY <1>1, <1>2, <2>1 DEF Pays
  <2> QED
    BY <1>1, <2>1, <2>2, CoveredMove
<1> QED
  BY <1>3, <1>4, <1>5

LEMMA Stutter ==
  ASSUME IInv, UNCHANGED vars
  PROVE  IInv'
BY DEF IInv, Types, Initialised, MutexHeld, MutexExcludes, Found, Covered, NoOverrun, Count, vars

---------------------------------------------------------------------------

LEMMA NextStep == IInv /\ [Next]_vars => IInv'
<1> SUFFICES ASSUME IInv, [Next]_vars
             PROVE  IInv'
  OBVIOUS
<1>1. ASSUME NEW p \in Processes, Start(p) \/ Kill(p) \/ init(p)
      PROVE  IInv'
  BY <1>1, OutsideStep DEF Start, Kill, init
<1>2. ASSUME NEW p \in Processes, round(p)
      PROVE  IInv'
  BY <1>2, OutsideStep, DownStep, LockStep, FindStep, ChangeStep, UnlockStep, UpStep DEF round
<1> QED
  BY <1>1, <1>2, Stutter DEF Next

\* The whole inductive invariant.
THEOREM Invariance == Spec => [](~fresh => IInv)
<1>2. Init => (~fresh => IInv)
  BY InitIInv DEF Init, FreshInit
<1>3. (~fresh => IInv) /\ [Next]_vars => (~fresh => IInv)'
  <2>1. [Next]_vars => fresh' = fresh
    BY DEF Next, vars, Start, Kill, init, round
  <2> QED
    BY <2>1, NextStep
<1> QED
  BY <1>2, <1>3, PTL DEF Spec

\* The scanning loops, which test no bound, stay inside the array, whatever was
\* killed before (producer.c:103, consumer.c:103).
THEOREM ScansStayInside == Spec => []NoOverrun
<1>1. (~fresh => IInv) => NoOverrun
  BY DEF IInv, NoOverrun
<1> QED
  BY <1>1, Invariance, PTL

\* The semaphores never promise more vacant or full slots than there are.
THEOREM PermitsHold == Spec => []PermitsCovered
<1>1. (~fresh => IInv) => PermitsCovered
  BY CoveredIff DEF IInv, PermitsCovered
<1> QED
  BY <1>1, Invariance, PTL

---------------------------------------------------------------------------
\* What holds from the first start on, whichever process creates what.

InRound == Critical \cup {"lock", "up", "overrun"}

\* Until the semaphores have been used, nobody is past init_sem and no
\* semaphore has a value; between the two semops of their creator, only MUTEX.
Startup ==
  /\ semset \in {"none", "new", "used"}
  /\ semset = "none" => \A p \in Processes : pc[p] \in {"off", "semget"}
  /\ semset = "new" => \A p \in Processes : pc[p] \in {"off", "semget", "otime", "first"}
  /\ semset # "used" => sem[EMPTY] = 0 /\ sem[FILL] = 0 /\ sem[MUTEX] = 0
  /\ semset = "used" => \A p \in Processes : pc[p] # "first"
  /\ \A p, q \in Processes :
       pc[p] \in {"first", "second"} /\ pc[q] \in {"first", "second"} => p = q
  /\ (\E p \in Processes : pc[p] = "second") =>
       sem[EMPTY] = 0 /\ sem[FILL] = 0 /\ \A q \in Processes : pc[q] \notin InRound

\* No permit is made after that: each is offered or with a process, or lost.
Conserved == sem[EMPTY] + sem[FILL] + Count(Processes, pc, InRound) <= MAX

SInv ==
  /\ Types /\ shm \in BOOLEAN /\ fresh \in BOOLEAN
  /\ Startup /\ MutexHeld /\ MutexExcludes /\ Conserved
  /\ \A p \in Processes :
       /\ pc[p] \in {"clearing", "change"} => index[p] \in Slots
       /\ p \in Producers /\ pc[p] \in Inside \cup {"down"} => number[p] \in Numbers

LEMMA InitSInv == Init => SInv
<1> SUFFICES ASSUME Init
             PROVE  SInv
  OBVIOUS
<1>1. /\ pc = [p \in Processes |-> "off"]
      /\ sem \in [{EMPTY, FILL, MUTEX} -> Nat]
      /\ sem[EMPTY] + sem[FILL] <= MAX /\ sem[MUTEX] \in {0, 1}
      /\ data \in [Slots -> Numbers \cup {Vacant}]
      /\ number = [p \in Processes |-> Unset] /\ index = [p \in Processes |-> Unset]
      /\ sem[EMPTY] \in Nat /\ sem[FILL] \in Nat
      /\ shm \in BOOLEAN /\ fresh \in BOOLEAN
      /\ semset \in {"none", "used"}
      /\ semset # "used" => sem[EMPTY] = 0 /\ sem[FILL] = 0 /\ sem[MUTEX] = 0
  <2>0. MAX \in Nat /\ 0 \in Numbers
    BY BufferAssumption
  <2>1. CASE FreshInit
    <3>1. sem[EMPTY] = 0 /\ sem[FILL] = 0 /\ sem[MUTEX] = 0
      BY <2>1 DEF FreshInit
    <3>2. sem \in [{EMPTY, FILL, MUTEX} -> Nat]
      BY <2>1 DEF FreshInit
    <3>3. data \in [Slots -> Numbers \cup {Vacant}]
      BY <2>0, <2>1 DEF FreshInit
    <3>4. fresh \in BOOLEAN /\ shm \in BOOLEAN
      BY <2>1 DEF FreshInit
    <3> QED
      BY <2>0, <2>1, <3>1, <3>2, <3>3, <3>4 DEF FreshInit
  <2>2. CASE ReadyInit
    <3>1. sem[EMPTY] = MAX /\ sem[FILL] = 0 /\ sem[MUTEX] = 1
      BY <2>2 DEF ReadyInit, EMPTY, FILL, MUTEX
    <3>2. sem \in [{EMPTY, FILL, MUTEX} -> Nat]
      BY <2>2, InitIInv DEF IInv, Types
    <3>3. data \in [Slots -> Numbers \cup {Vacant}]
      BY <2>2 DEF ReadyInit
    <3>4. fresh \in BOOLEAN /\ shm \in BOOLEAN
      BY <2>2 DEF ReadyInit
    <3>5. sem[EMPTY] + sem[FILL] <= MAX /\ sem[MUTEX] \in {0, 1}
      BY <2>0, <3>1
    <3>6. sem[EMPTY] \in Nat /\ sem[FILL] \in Nat
      BY <2>0, <3>1
    <3>7. semset = "used"
      BY <2>2 DEF ReadyInit
    <3>8. /\ pc = [p \in Processes |-> "off"]
          /\ number = [p \in Processes |-> Unset] /\ index = [p \in Processes |-> Unset]
      BY <2>2 DEF ReadyInit
    <3> QED
      BY <3>2, <3>3, <3>4, <3>5, <3>6, <3>7, <3>8
  <2> QED
    BY <2>1, <2>2 DEF Init
<1>2. Types /\ Startup /\ MutexHeld /\ MutexExcludes
  BY <1>1 DEF Types, Startup, MutexHeld, MutexExcludes, PC, Critical, InRound
<1>3. Conserved
  <2>1. {p \in Processes : pc[p] \in InRound} = {}
    BY <1>1 DEF InRound, Critical
  <2>2. Count(Processes, pc, InRound) = 0
    BY <2>1, FS_EmptySet DEF Count
  <2> QED
    BY <1>1, <2>2 DEF Conserved
<1> QED
  BY <1>1, <1>2, <1>3 DEF SInv, Inside

\* Who is in its round, when process p moves.
LEMMA RoundMove ==
  ASSUME Types, NEW p \in Processes, NEW to \in PC, pc' = [pc EXCEPT ![p] = to]
  PROVE  /\ Count(Processes, pc, InRound) \in Nat
         /\ Count(Processes, pc', InRound) =
              Count(Processes, pc, InRound) + In(to, InRound) - In(pc[p], InRound)
<1>1. ASSUME NEW P, P = Processes, NEW S, S = InRound
      PROVE  /\ Count(P, pc, S) \in Nat
             /\ Count(P, pc', S) = Count(P, pc, S) + In(to, S) - In(pc[p], S)
  <2>1. IsFiniteSet(P) /\ p \in P
    BY <1>1, BufferAssumption, FS_Union DEF Processes
  <2>2. pc'[p] = to /\ \A q \in P \ {p} : pc'[q] \in S <=> pc[q] \in S
    BY <1>1 DEF Types
  <2>3. Count(P, pc', S) = Count(P, pc, S) + In(pc'[p], S) - In(pc[p], S)
    BY ONLY <2>1, <2>2, CountMove
  <2> QED
    BY <2>1, <2>2, <2>3, CountPositive
<1> QED
  BY <1>1

\* Steps that move nothing between the semaphores and the rounds.
LEMMA ConservedQuiet ==
  ASSUME SInv, NEW p \in Processes, NEW to \in PC, pc' = [pc EXCEPT ![p] = to],
         sem'[EMPTY] = sem[EMPTY], sem'[FILL] = sem[FILL],
         to \in InRound => pc[p] \in InRound
  PROVE  Conserved'
<1> USE DEF SInv, Types
<1>1. /\ Count(Processes, pc, InRound) \in Nat
      /\ Count(Processes, pc', InRound) =
           Count(Processes, pc, InRound) + In(to, InRound) - In(pc[p], InRound)
  BY RoundMove
<1>2. /\ In(to, InRound) \in Int /\ In(pc[p], InRound) \in Int
      /\ In(to, InRound) <= In(pc[p], InRound)
      /\ sem[EMPTY] \in Nat /\ sem[FILL] \in Nat
  BY DEF In
<1> QED
  BY <1>1, <1>2, BufferAssumption DEF Conserved

LEMMA StartupStep ==
  ASSUME SInv, NEW p \in Processes,
         Start(p) \/ Kill(p) \/ SemGet(p) \/ SemOtime(p) \/ ShmGet(p) \/ Wake(p),
         UNCHANGED fresh
  PROVE  SInv'
<1> USE DEF SInv, Types
<1>1. PICK to \in {"off", "semget", "first", "otime", "shmget", "clearing", "idle", "down"} :
         /\ pc' = [pc EXCEPT ![p] = to]
         /\ to = "first" => semset = "none" /\ semset' = "new"
         /\ to # "first" => semset' = semset
         /\ to = "otime" => semset # "none"
         /\ to \in {"shmget", "clearing", "idle", "down"} => semset = "used"
         /\ to = "clearing" => index'[p] \in Slots
         /\ to = "down" /\ p \in Producers => number'[p] \in Numbers
         /\ sem' = sem /\ data' = data /\ shm' \in BOOLEAN
         /\ number' \in [Processes -> Numbers \cup {Unset}]
         /\ index' \in [Processes -> Slots \cup {Unset}]
         /\ \A q \in Processes \ {p} : number'[q] = number[q] /\ index'[q] = index[q]
  <2>1. 0 \in Slots
    BY BufferAssumption DEF Slots
  <2>2. CASE Start(p)
    BY <2>2 DEF Start, At
  <2>3. CASE Kill(p)
    BY <2>3 DEF Kill
  <2>4. CASE SemGet(p)
    BY <2>4 DEF SemGet, At, Startup
  <2>5. CASE SemOtime(p)
    BY <2>5 DEF SemOtime, At
  <2>6. CASE ShmGet(p)
    BY <2>1, <2>6 DEF ShmGet, At, Startup
  <2>7. CASE Wake(p)
    BY <2>7 DEF Wake, At, Startup
  <2> QED
    BY <2>2, <2>3, <2>4, <2>5, <2>6, <2>7
<1>2. to \in PC /\ to \notin InRound /\ to \notin Critical /\ to \notin Inside
  BY DEF PC, Starting, Critical, InRound, Inside
<1>3. pc'[p] = to /\ \A q \in Processes \ {p} : pc'[q] = pc[q]
  BY <1>1
<1>4. Types' /\ MutexHeld' /\ MutexExcludes'
  BY <1>1, <1>2, <1>3 DEF MutexHeld, MutexExcludes
<1>5. Conserved'
  BY <1>1, <1>2, ConservedQuiet
<1>6. Startup'
  BY <1>1, <1>2, <1>3 DEF Startup
<1>7. \A q \in Processes :
        /\ pc'[q] \in {"clearing", "change"} => index'[q] \in Slots
        /\ q \in Producers /\ pc'[q] \in Inside \cup {"down"} => number'[q] \in Numbers
  BY <1>1, <1>2, <1>3 DEF Inside
<1> QED
  BY <1>1, <1>4, <1>5, <1>6, <1>7

LEMMA CreateStep ==
  ASSUME SInv, NEW p \in Processes, SemFirst(p) \/ SemSecond(p) \/ ShmClear(p), UNCHANGED fresh
  PROVE  SInv'
<1> USE DEF SInv, Types
<1>1. CASE SemFirst(p)
  <2>1. /\ pc[p] = "first" /\ pc' = [pc EXCEPT ![p] = "second"] /\ semset' = "used"
        /\ change_sem(MUTEX, 1) /\ UNCHANGED <<shm, data, number, index>>
    BY <1>1 DEF SemFirst, At
  <2>2. semset = "new" /\ sem[MUTEX] = 0
    BY <2>1 DEF Startup
  <2>3. /\ sem' \in [{EMPTY, FILL, MUTEX} -> Nat]
        /\ sem'[EMPTY] = sem[EMPTY] /\ sem'[FILL] = sem[FILL] /\ sem'[MUTEX] = 1
    BY <2>1, <2>2, ChangeSem DEF EMPTY, FILL, MUTEX
  <2>4. /\ pc'[p] = "second" /\ \A q \in Processes \ {p} : pc'[q] = pc[q]
        /\ "second" \in PC /\ "second" \notin InRound
    BY <2>1 DEF PC, Starting, Critical, InRound
  <2>5. Types' /\ MutexHeld' /\ MutexExcludes'
    BY <2>1, <2>2, <2>3, <2>4 DEF MutexHeld, MutexExcludes, Startup, Critical
  <2>6. Conserved'
    BY <2>1, <2>3, <2>4, ConservedQuiet
  <2>7. Startup'
    BY <2>1, <2>2, <2>3, <2>4 DEF Startup, InRound, Critical
  <2> QED
    BY <2>1, <2>4, <2>5, <2>6, <2>7 DEF Inside
<1>2. CASE SemSecond(p)
  <2>1. /\ pc[p] = "second" /\ pc' = [pc EXCEPT ![p] = "shmget"]
        /\ change_sem(EMPTY, MAX) /\ UNCHANGED <<semset, shm, data, number, index>>
    BY <1>2 DEF SemSecond, At
  <2>2. sem[EMPTY] = 0 /\ sem[FILL] = 0 /\ semset = "used"
    BY <2>1 DEF Startup
  <2>3. /\ sem' \in [{EMPTY, FILL, MUTEX} -> Nat]
        /\ sem'[EMPTY] = MAX /\ sem'[FILL] = 0 /\ sem'[MUTEX] = sem[MUTEX]
    BY <2>1, <2>2, ChangeSem, BufferAssumption DEF EMPTY, FILL, MUTEX
  <2>4. /\ pc'[p] = "shmget" /\ \A q \in Processes \ {p} : pc'[q] = pc[q]
        /\ "shmget" \in PC /\ "shmget" \notin InRound
    BY <2>1 DEF PC, Starting, Critical, InRound
  <2>5. Types' /\ MutexHeld' /\ MutexExcludes'
    BY <2>1, <2>3, <2>4 DEF MutexHeld, MutexExcludes, Critical
  <2>6. Conserved'
    <3>1. {q \in Processes : pc'[q] \in InRound} = {}
      BY <2>1, <2>4 DEF Startup
    <3>2. Count(Processes, pc', InRound) = 0
      BY <3>1, FS_EmptySet DEF Count
    <3> QED
      BY <2>3, <3>2, BufferAssumption DEF Conserved
  <2>7. Startup'
    BY <2>1, <2>2, <2>3, <2>4 DEF Startup
  <2> QED
    BY <2>1, <2>4, <2>5, <2>6, <2>7 DEF Inside
<1>3. CASE ShmClear(p)
  <2>1. PICK to \in {"clearing", "idle"} :
           /\ pc' = [pc EXCEPT ![p] = to]
           /\ to = "clearing" => index'[p] \in Slots
    <3>1. pc[p] = "clearing" /\ index[p] \in 0 .. MAX - 1
      BY <1>3 DEF ShmClear, Slots
    <3>2. CASE index[p] < MAX - 1 /\ index' = [index EXCEPT ![p] = @ + 1] /\ UNCHANGED pc
      <4>1. index'[p] = index[p] + 1 /\ index'[p] \in Slots
        BY <3>1, <3>2, BufferAssumption DEF Slots
      <4>2. pc' = [pc EXCEPT ![p] = "clearing"]
        BY <3>1, <3>2
      <4> QED
        BY <4>1, <4>2
    <3>3. CASE pc' = [pc EXCEPT ![p] = "idle"]
      BY <3>3
    <3> QED
      BY <1>3, <3>2, <3>3 DEF ShmClear
  <2>2. /\ pc[p] = "clearing" /\ index[p] \in Slots
        /\ data' = [data EXCEPT ![index[p]] = Vacant]
        /\ UNCHANGED <<semset, sem, shm, number>>
        /\ index' \in [Processes -> Slots \cup {Unset}]
        /\ \A q \in Processes \ {p} : index'[q] = index[q]
    <3>1. /\ pc[p] = "clearing" /\ index[p] \in Slots
          /\ index' = index \/ \E k \in Slots \cup {Unset} : index' = [index EXCEPT ![p] = k]
      <4>1. index[p] \in 0 .. MAX - 1
        BY <1>3 DEF ShmClear, Slots
      <4>2. index[p] < MAX - 1 => index[p] + 1 \in Slots
        BY <4>1, BufferAssumption DEF Slots
      <4> QED
        BY <1>3, <4>2 DEF ShmClear
    <3> QED
      BY <1>3, <3>1 DEF ShmClear
  <2>3. /\ pc'[p] = to /\ \A q \in Processes \ {p} : pc'[q] = pc[q]
        /\ to \in PC /\ to \notin InRound
    BY <2>1 DEF PC, Starting, Critical, InRound
  <2>4. Types' /\ MutexHeld' /\ MutexExcludes'
    <3>1. to \notin Critical /\ pc[p] \notin Critical
      BY <2>1, <2>2 DEF Critical
    <3>2. Types'
      BY <2>1, <2>2, <2>3
    <3>3. MutexHeld'
      BY <2>1, <2>2, <2>3, <3>1 DEF MutexHeld
    <3>4. MutexExcludes'
      BY <2>3, <3>1 DEF MutexExcludes
    <3> QED
      BY <3>2, <3>3, <3>4
  <2>5. Conserved'
    BY <2>1, <2>2, <2>3, ConservedQuiet
  <2>6. Startup'
    BY <2>1, <2>2, <2>3 DEF Startup
  <2> QED
    BY <2>1, <2>2, <2>3, <2>4, <2>5, <2>6 DEF Inside
<1> QED
  BY <1>1, <1>2, <1>3

\* The steps of a round.
LEMMA RoundStep ==
  ASSUME SInv, NEW p \in Processes,
         \/ Down(p) \/ LockMutex(p) \/ FindSlot(p) \/ ChangeSlot(p) \/ UnlockMutex(p) \/ Up(p),
         UNCHANGED fresh
  PROVE  SInv'
<1> USE DEF SInv, Types
<1>0. /\ {"lock", "scan", "change", "unlock", "up", "overrun"} = InRound
      /\ InRound \subseteq PC /\ "idle" \in PC /\ "idle" \notin InRound
      /\ pc[p] \in InRound \cup {"down"}
  BY DEF PC, Critical, InRound, Down, LockMutex, FindSlot, ChangeSlot, UnlockMutex, Up, At
<1>1. /\ semset = "used" /\ \A q \in Processes : pc[q] \notin {"first"}
      /\ UNCHANGED <<semset, shm>>
  BY <1>0 DEF Startup, Down, LockMutex, FindSlot, ChangeSlot, UnlockMutex, Up, InRound, Critical
<1>2. CASE Down(p)
  <2> DEFINE mine == IF p \in Producers THEN EMPTY ELSE FILL
             other == IF p \in Producers THEN FILL ELSE EMPTY
  <2>1. /\ pc[p] = "down" /\ pc' = [pc EXCEPT ![p] = "lock"]
        /\ change_sem(mine, -1) /\ UNCHANGED <<data, number, index>>
    BY <1>2 DEF Down, At, sem_down
  <2>2. /\ sem' \in [{EMPTY, FILL, MUTEX} -> Nat]
        /\ sem[mine] \in Nat /\ sem'[mine] \in Nat /\ sem'[mine] = sem[mine] - 1
        /\ sem'[other] = sem[other] /\ sem'[MUTEX] = sem[MUTEX]
    BY <2>1, ChangeSem DEF EMPTY, FILL, MUTEX
  <2>3. pc'[p] = "lock" /\ \A q \in Processes \ {p} : pc'[q] = pc[q]
    BY <2>1
  <2>4. \A q \in Processes : pc[q] # "second"
    BY <2>2 DEF Startup
  <2>5. Types' /\ MutexHeld' /\ MutexExcludes'
    BY <1>0, <2>1, <2>2, <2>3 DEF MutexHeld, MutexExcludes, Critical
  <2>6. Conserved'
    <3>1. /\ Count(Processes, pc, InRound) \in Nat
          /\ Count(Processes, pc', InRound) = Count(Processes, pc, InRound) + 1
      <4>1. "lock" \in PC /\ In("lock", InRound) = 1 /\ In(pc[p], InRound) = 0
        BY <2>1 DEF PC, InRound, Critical, In
      <4>2. /\ Count(Processes, pc, InRound) \in Nat
            /\ Count(Processes, pc', InRound) =
                 Count(Processes, pc, InRound) + In("lock", InRound) - In(pc[p], InRound)
        BY <2>1, <4>1, RoundMove
      <4> QED
        BY <4>1, <4>2
    <3>2. sem'[EMPTY] + sem'[FILL] = sem[EMPTY] + sem[FILL] - 1
      BY <2>2 DEF EMPTY, FILL
    <3> QED
      BY <2>2, <3>1, <3>2, BufferAssumption DEF Conserved
  <2>7. Startup'
    BY <1>1, <2>3, <2>4 DEF Startup
  <2> QED
    BY <1>1, <2>1, <2>3, <2>5, <2>6, <2>7 DEF Inside
<1>3. CASE LockMutex(p) \/ FindSlot(p) \/ ChangeSlot(p) \/ UnlockMutex(p)
  <2>1. PICK to \in InRound :
           /\ pc' = [pc EXCEPT ![p] = to]
           /\ pc[p] \in InRound
           /\ to = "change" => index'[p] \in Slots
           /\ to \in Inside /\ p \in Producers => pc[p] \in Inside /\ number'[p] = number[p]
           /\ to \in Critical <=> pc[p] = "lock" \/ to \in {"scan", "change", "unlock"}
    <3>1. CASE LockMutex(p)
      BY <1>0, <3>1 DEF LockMutex, At, Inside, Critical
    <3>2. CASE FindSlot(p)
      BY <1>0, <3>2 DEF FindSlot, At, Inside, Critical
    <3>3. CASE ChangeSlot(p)
      BY <1>0, <3>3 DEF ChangeSlot, At, Inside, Critical
    <3>4. CASE UnlockMutex(p)
      BY <1>0, <3>4 DEF UnlockMutex, At, Inside, Critical
    <3> QED
      BY <1>3, <3>1, <3>2, <3>3, <3>4
  <2>2. /\ pc'[p] = to
        /\ \A q \in Processes \ {p} :
             pc'[q] = pc[q] /\ number'[q] = number[q] /\ index'[q] = index[q]
        /\ number' \in [Processes -> Numbers \cup {Unset}]
        /\ index' \in [Processes -> Slots \cup {Unset}]
    BY <1>3, <2>1 DEF LockMutex, FindSlot, First, ChangeSlot, UnlockMutex, Vacant
  <2>3. data' \in [Slots -> Numbers \cup {Vacant}]
    BY <1>3 DEF LockMutex, FindSlot, ChangeSlot, UnlockMutex, At, Inside
  <2>4. /\ sem' \in [{EMPTY, FILL, MUTEX} -> Nat]
        /\ sem'[EMPTY] = sem[EMPTY] /\ sem'[FILL] = sem[FILL]
        /\ MutexHeld' /\ MutexExcludes'
    <3>1. CASE LockMutex(p)
      <4>1. change_sem(MUTEX, -1) /\ pc[p] = "lock" /\ pc'[p] = "scan"
        BY <3>1 DEF LockMutex, sem_down, At
      <4>2. /\ sem' \in [{EMPTY, FILL, MUTEX} -> Nat]
            /\ sem'[EMPTY] = sem[EMPTY] /\ sem'[FILL] = sem[FILL]
            /\ sem[MUTEX] = 1 /\ sem'[MUTEX] = 0
        BY <4>1, ChangeSem DEF MutexHeld, EMPTY, FILL, MUTEX
      <4> QED
        BY <2>2, <4>2 DEF MutexHeld, MutexExcludes
    <3>2. CASE FindSlot(p) \/ ChangeSlot(p)
      BY <2>2, <3>2 DEF FindSlot, ChangeSlot, At, MutexHeld, MutexExcludes, Critical
    <3>3. CASE UnlockMutex(p)
      <4>1. change_sem(MUTEX, 1) /\ pc[p] = "unlock" /\ pc'[p] = "up" /\ sem[MUTEX] = 0
        BY <3>3 DEF UnlockMutex, sem_up, At, MutexHeld, Critical
      <4>2. /\ sem' \in [{EMPTY, FILL, MUTEX} -> Nat]
            /\ sem'[EMPTY] = sem[EMPTY] /\ sem'[FILL] = sem[FILL] /\ sem'[MUTEX] = 1
        BY <4>1, ChangeSem DEF EMPTY, FILL, MUTEX
      <4> QED
        BY <2>2, <4>1, <4>2 DEF MutexHeld, MutexExcludes, Critical
    <3> QED
      BY <1>3, <3>1, <3>2, <3>3
  <2>5. Types'
    BY <1>0, <2>1, <2>2, <2>3, <2>4
  <2>6. Conserved'
    BY <1>0, <2>1, <2>4, ConservedQuiet
  <2>7. Startup'
    BY <1>0, <1>1, <2>1, <2>2, <2>4 DEF Startup
  <2>8. \A q \in Processes :
          /\ pc'[q] \in {"clearing", "change"} => index'[q] \in Slots
          /\ q \in Producers /\ pc'[q] \in Inside \cup {"down"} => number'[q] \in Numbers
    BY <1>0, <2>1, <2>2
  <2> QED
    BY <1>1, <2>4, <2>5, <2>6, <2>7, <2>8
<1>4. CASE Up(p)
  <2> DEFINE mine == IF p \in Producers THEN EMPTY ELSE FILL
             other == IF p \in Producers THEN FILL ELSE EMPTY
  <2>1. /\ pc[p] = "up" /\ pc' = [pc EXCEPT ![p] = "idle"]
        /\ change_sem(other, 1) /\ data' = data
        /\ number' = [number EXCEPT ![p] = Unset]
        /\ index' = [index EXCEPT ![p] = Unset]
    BY <1>4 DEF Up, At, sem_up
  <2>2. /\ sem' \in [{EMPTY, FILL, MUTEX} -> Nat]
        /\ sem[other] \in Nat /\ sem'[other] = sem[other] + 1
        /\ sem'[mine] = sem[mine] /\ sem'[MUTEX] = sem[MUTEX]
    BY <2>1, ChangeSem DEF EMPTY, FILL, MUTEX
  <2>3. pc'[p] = "idle" /\ \A q \in Processes \ {p} : pc'[q] = pc[q]
    BY <2>1
  <2>4. \A q \in Processes : pc[q] # "second"
    BY <1>0, <2>1 DEF Startup
  <2>5. Types' /\ MutexHeld' /\ MutexExcludes'
    BY <1>0, <2>1, <2>2, <2>3 DEF MutexHeld, MutexExcludes, Critical
  <2>6. Conserved'
    <3>1. /\ Count(Processes, pc, InRound) \in Nat
          /\ Count(Processes, pc', InRound) = Count(Processes, pc, InRound) - 1
      <4>1. "idle" \in PC /\ In("idle", InRound) = 0 /\ In(pc[p], InRound) = 1
        BY <2>1 DEF PC, InRound, Critical, In
      <4>2. /\ Count(Processes, pc, InRound) \in Nat
            /\ Count(Processes, pc', InRound) =
                 Count(Processes, pc, InRound) + In("idle", InRound) - In(pc[p], InRound)
        BY <2>1, <4>1, RoundMove
      <4> QED
        BY <4>1, <4>2
    <3>2. sem'[EMPTY] + sem'[FILL] = sem[EMPTY] + sem[FILL] + 1
      BY <2>2 DEF EMPTY, FILL
    <3> QED
      BY <2>2, <3>1, <3>2, BufferAssumption DEF Conserved
  <2>7. Startup'
    BY <1>1, <2>3, <2>4 DEF Startup
  <2> QED
    BY <1>1, <2>1, <2>3, <2>5, <2>6, <2>7 DEF Inside
<1> QED
  BY <1>2, <1>3, <1>4

\* The inductive invariant that holds from any start.
THEOREM StartInvariance == Spec => []SInv
<1>1. SInv /\ [Next]_vars => SInv'
  <2> SUFFICES ASSUME SInv, [Next]_vars
               PROVE  SInv'
    OBVIOUS
  <2>1. CASE UNCHANGED vars
    BY <2>1 DEF SInv, Types, Startup, MutexHeld, MutexExcludes, Conserved, Count, vars
  <2>2. ASSUME NEW p \in Processes, Start(p) \/ Kill(p)
        PROVE  SInv'
    BY <2>2, StartupStep DEF Start, Kill
  <2>3. ASSUME NEW p \in Processes, init(p)
        PROVE  SInv'
    BY <2>3, StartupStep, CreateStep DEF init
  <2>4. ASSUME NEW p \in Processes, round(p)
        PROVE  SInv'
    BY <2>4, StartupStep, RoundStep DEF round
  <2> QED
    BY <2>1, <2>2, <2>3, <2>4 DEF Next
<1> QED
  BY <1>1, InitSInv, PTL DEF Spec

\* One process at a time looks at the array, from the first start on.
THEOREM Exclusion == Spec => []MutexExcludes
<1>1. SInv => MutexExcludes
  BY DEF SInv
<1> QED
  BY <1>1, StartInvariance, PTL

\* Every variable has its type; in particular EMPTY and FILL never exceed MAX.
THEOREM TypeCorrect == Spec => []TypeOK
<1>1. SInv => TypeOK
  <2> SUFFICES ASSUME SInv
               PROVE  TypeOK
    OBVIOUS
  <2>1. Count(Processes, pc, InRound) \in Nat
    BY BufferAssumption, FS_Union, CountPositive DEF Processes
  <2>2. sem[EMPTY] \in 0 .. MAX /\ sem[FILL] \in 0 .. MAX
    BY <2>1, BufferAssumption DEF SInv, Types, Conserved
  <2> QED
    BY <2>2 DEF SInv, Types, Startup, MutexHeld, TypeOK
<1> QED
  BY <1>1, StartInvariance, PTL

---------------------------------------------------------------------------
\* The array implements the table of numbers, from any start: also while its
\* creator is still clearing it and others are at work on the part that is done.

\* Slot s has been made: cleared, or there before.
Made(s) == shm /\ \A q \in Processes : pc[q] = "clearing" => s < index[q]

\* Nobody is at work on an array that does not exist, one process at most clears
\* it, and the zeros of the part it has not reached look like numbers.
Building ==
  /\ ~shm => \A p \in Processes :
       pc[p] \in {"off", "semget", "first", "second", "otime", "shmget"}
  /\ \A p, q \in Processes : pc[p] = "clearing" /\ pc[q] = "clearing" => p = q
  /\ \A s \in Slots : ~Made(s) => data[s] \in Numbers

\* What a process has found is in the part that is made, and a consumer has read
\* the slot it is going to clear.
FoundMade ==
  \A p \in Processes, s \in Slots :
    pc[p] = "change" /\ index[p] = s =>
      /\ Made(s)
      /\ data[s] = Vacant <=> p \in Producers
      /\ p \in Consumers => number[p] = data[s]

\* The half of Covered that holds from any start, of the part that is made: no
\* permit leads a consumer to one of the zeros.
Filled ==
  sem[FILL] + Count(Consumers, pc, Inside) + Count(Producers, pc, After)
    <= Count(Slots, array, Numbers)

TInv == Building /\ FoundMade /\ Filled

LEMMA ArrayIs ==
  SInv => array = [s \in Slots |-> IF Made(s) THEN data[s] ELSE Vacant]
<1> SUFFICES ASSUME SInv, NEW s \in Slots
             PROVE  (~shm \/ \E p \in Processes : pc[p] = "clearing" /\ index[p] <= s) <=> ~Made(s)
  BY DEF array
<1>1. \A p \in Processes : pc[p] = "clearing" => index[p] \in Int
  BY DEF SInv, Slots
<1>2. s \in Int
  BY DEF Slots
<1> QED
  BY <1>1, <1>2 DEF Made

LEMMA InitTInv == Init => TInv
<1> SUFFICES ASSUME Init
             PROVE  TInv
  OBVIOUS
<1>1. pc = [p \in Processes |-> "off"] /\ sem[FILL] = 0
  BY DEF Init, FreshInit, ReadyInit, EMPTY, FILL, MUTEX
<1>2. Building
  <2>1. CASE FreshInit
    BY <1>1, <2>1, BufferAssumption DEF FreshInit, Building
  <2>2. CASE ReadyInit
    BY <1>1, <2>2 DEF ReadyInit, Building, Made
  <2> QED
    BY <2>1, <2>2 DEF Init
<1>3. FoundMade
  BY <1>1 DEF FoundMade
<1>4. Filled
  <2>1. /\ {q \in Consumers : pc[q] \in Inside} = {}
        /\ {q \in Producers : pc[q] \in After} = {}
    BY <1>1 DEF Processes, Inside, After
  <2>2. Count(Consumers, pc, Inside) = 0 /\ Count(Producers, pc, After) = 0
    BY <2>1, FS_EmptySet DEF Count
  <2>3. Count(Slots, array, Numbers) \in Nat
    BY Finite, CountPositive
  <2> QED
    BY <1>1, <2>2, <2>3 DEF Filled
<1> QED
  BY <1>2, <1>3, <1>4 DEF TInv

\* Every step but ChangeSlot, ShmClear and the shmget that creates the array.
Elsewhere(p) ==
  \/ Start(p) \/ Kill(p) \/ SemGet(p) \/ SemFirst(p) \/ SemSecond(p) \/ SemOtime(p)
  \/ shm /\ ShmGet(p)
  \/ Wake(p) \/ Down(p) \/ LockMutex(p) \/ FindSlot(p) \/ UnlockMutex(p) \/ Up(p)

LEMMA ElsewhereMoves ==
  ASSUME SInv, NEW p \in Processes, Elsewhere(p)
  PROVE  /\ pc[p] # "clearing" /\ pc'[p] # "clearing" /\ pc[p] \in PC /\ pc'[p] \in PC
         /\ pc' = [pc EXCEPT ![p] = pc'[p]]
         /\ \A q \in Processes \ {p} :
              pc'[q] = pc[q] /\ number'[q] = number[q] /\ index'[q] = index[q]
         /\ data' = data /\ shm' = shm
<1> USE DEF SInv, Types
<1>1. CASE Start(p) \/ Kill(p)
  BY <1>1 DEF Start, Kill, At, PC, Starting
<1>2. CASE SemGet(p) \/ SemFirst(p) \/ SemSecond(p) \/ SemOtime(p) \/ (shm /\ ShmGet(p))
  BY <1>2 DEF SemGet, SemFirst, SemSecond, SemOtime, ShmGet, At, PC, Starting
<1>3. CASE Wake(p) \/ Down(p) \/ LockMutex(p) \/ UnlockMutex(p) \/ Up(p)
  BY <1>3 DEF Wake, Down, LockMutex, UnlockMutex, Up, At, PC, Critical
<1>4. CASE FindSlot(p)
  BY <1>4 DEF FindSlot, At, PC, Critical
<1> QED
  BY <1>1, <1>2, <1>3, <1>4 DEF Elsewhere

\* The table is changed by ChangeSlot alone; the part that is made only grows.
LEMMA ArrayKept ==
  ASSUME SInv, SInv', TInv, NEW p \in Processes, Elsewhere(p) \/ ShmGet(p) \/ ShmClear(p)
  PROVE  /\ array' = array /\ Building'
         /\ \A s \in Slots : Made(s) => Made(s)' /\ data'[s] = data[s]
<1>0. /\ array = [s \in Slots |-> IF Made(s) THEN data[s] ELSE Vacant]
      /\ array' = [s \in Slots |-> IF Made(s)' THEN data'[s] ELSE Vacant]
  <2>1. (SInv => array = [s \in Slots |-> IF Made(s) THEN data[s] ELSE Vacant])'
    BY ArrayIs, PTL
  <2> QED
    BY <2>1, ArrayIs
<1> USE DEF SInv, Types, TInv
<1>1. CASE Elsewhere(p)
  <2>1. /\ pc[p] # "clearing" /\ pc'[p] # "clearing"
        /\ \A q \in Processes \ {p} : pc'[q] = pc[q] /\ index'[q] = index[q]
        /\ data' = data /\ shm' = shm
    BY <1>1, ElsewhereMoves
  <2>2. \A s \in Slots : Made(s)' <=> Made(s)
    BY <2>1 DEF Made
  <2>3. ~shm' => \A q \in Processes :
          pc'[q] \in {"off", "semget", "first", "second", "otime", "shmget"}
    <3> SUFFICES ASSUME ~shm
                 PROVE  pc'[p] \in {"off", "semget", "first", "second", "otime", "shmget"}
      BY <2>1 DEF Building
    <3>1. pc[p] \in {"off", "semget", "first", "second", "otime", "shmget"}
      BY DEF Building
    <3>2. CASE Start(p) \/ Kill(p)
      BY <3>1, <3>2 DEF Start, Kill, At
    <3>3. CASE SemGet(p) \/ SemFirst(p) \/ SemSecond(p) \/ SemOtime(p)
      BY <3>1, <3>3 DEF SemGet, SemFirst, SemSecond, SemOtime, At
    <3>4. ~(Wake(p) \/ Down(p) \/ LockMutex(p) \/ FindSlot(p) \/ UnlockMutex(p) \/ Up(p))
      BY <3>1 DEF Wake, Down, LockMutex, FindSlot, UnlockMutex, Up, At
    <3> QED
      BY <1>1, <3>2, <3>3, <3>4 DEF Elsewhere
  <2> QED
    BY <1>0, <2>1, <2>2, <2>3 DEF Building
<1>2. CASE ShmGet(p) /\ ~shm
  <2>1. /\ pc[p] = "shmget" /\ pc' = [pc EXCEPT ![p] = "clearing"] /\ shm' = TRUE
        /\ index' = [index EXCEPT ![p] = 0] /\ data' = data
    BY <1>2 DEF ShmGet, At
  <2>2. \A s \in Slots : ~Made(s) /\ ~Made(s)'
    <3>1. index'[p] = 0 /\ pc'[p] = "clearing"
      BY <2>1
    <3> QED
      BY <1>2, <3>1, BufferAssumption DEF Made, Slots
  <2>3. \A q \in Processes : pc'[q] = "clearing" => q = p
    BY <1>2, <2>1 DEF Building
  <2> QED
    BY <1>0, <2>1, <2>2, <2>3 DEF Building
<1>3. CASE ShmClear(p)
  <2> PICK k \in Slots : k = index[p]
    BY <1>3 DEF ShmClear
  <2>1. /\ pc[p] = "clearing" /\ data' = [data EXCEPT ![k] = Vacant] /\ shm' = shm
    BY <1>3 DEF ShmClear
  <2>2. \A q \in Processes : pc[q] = "clearing" => q = p
    BY <2>1 DEF Building
  <2>3. \A s \in Slots : Made(s) <=> s < k
    BY <2>1, <2>2 DEF Made, Building
  <2>4. \A s \in Slots : Made(s)' <=> s < k + 1
    <3>1. CASE k < MAX - 1
      <4>1. index'[p] = k + 1 /\ UNCHANGED pc
        BY <1>3, <3>1, BufferAssumption DEF ShmClear, Slots
      <4> QED
        BY <2>1, <2>2, <2>3, <4>1 DEF Made, Building
    <3>2. CASE k = MAX - 1
      <4>1. pc' = [pc EXCEPT ![p] = "idle"]
        BY <1>3, <3>2, BufferAssumption DEF ShmClear
      <4>2. \A q \in Processes : pc'[q] # "clearing"
        BY <2>2, <4>1
      <4> QED
        BY <2>1, <3>2, <4>2, BufferAssumption DEF Made, Building, Slots
    <3> QED
      BY <3>1, <3>2, BufferAssumption DEF Slots
  <2>5. \A q \in Processes : pc'[q] = "clearing" => q = p
    BY <1>3, <2>2 DEF ShmClear
  <2>6. shm
    BY <2>1 DEF Building
  <2>7. array' = array
    <3> SUFFICES ASSUME NEW s \in Slots
                 PROVE  (IF Made(s)' THEN data'[s] ELSE Vacant) = IF Made(s) THEN data[s] ELSE Vacant
      BY <1>0
    <3> QED
      BY <2>1, <2>3, <2>4 DEF Slots
  <2>8. Building'
    BY <2>1, <2>3, <2>4, <2>5, <2>6 DEF Building, Slots
  <2> QED
    BY <2>1, <2>3, <2>4, <2>7, <2>8 DEF Slots
<1> QED
  BY <1>1, <1>2, <1>3 DEF Elsewhere

\* Filled is kept when process p moves, as long as the part of the table that is
\* made grows by the numbers that p owes for it.
LEMMA FilledMove ==
  ASSUME Types, Filled, NEW p \in Processes, NEW to \in PC, pc' = [pc EXCEPT ![p] = to],
         NEW d \in -1 .. 1,
         Count(Slots, array', Numbers) = Count(Slots, array, Numbers) + d,
         sem'[FILL] \in Nat,
         p \in Producers => sem'[FILL] + Gain(p, to, After) <= sem[FILL] + d,
         p \in Consumers => sem'[FILL] + Gain(p, to, Inside) <= sem[FILL] + d
  PROVE  Filled'
<1>1. Count(Slots, array, Numbers) \in Nat /\ sem[FILL] \in Nat
  BY Finite, CountPositive DEF Types
<1>2. /\ Gain(p, to, Inside) \in -1 .. 1 /\ Gain(p, to, After) \in -1 .. 1
      /\ p \in Producers \/ (p \in Consumers /\ p \notin Producers)
      /\ p \in Producers => p \notin Consumers
  BY BufferAssumption DEF Gain, In, Processes
<1>3. \A S \in {Inside, After} :
         /\ Count(Producers, pc, S) \in Nat
         /\ Count(Consumers, pc, S) \in Nat
         /\ Count(Producers, pc', S) = Count(Producers, pc, S)
               + IF p \in Producers THEN Gain(p, to, S) ELSE 0
         /\ Count(Consumers, pc', S) = Count(Consumers, pc, S)
               + IF p \in Consumers THEN Gain(p, to, S) ELSE 0
  BY Holders DEF Gain
<1>4. CASE p \in Producers
  BY <1>1, <1>2, <1>3, <1>4 DEF Filled
<1>5. CASE p \in Consumers
  BY <1>1, <1>2, <1>3, <1>5 DEF Filled
<1> QED
  BY <1>2, <1>4, <1>5

\* What a process finds is made: the first vacant slot because the rest holds no
\* Vacant, the first number because there is one in the part that is made.
LEMMA FindMade ==
  ASSUME SInv, TInv, NEW p \in Processes, pc[p] = "scan", NEW s \in Slots,
         First(s, p \in Producers)
  PROVE  Made(s)
<1> USE DEF SInv, Types, TInv
<1>1. CASE p \in Producers
  BY <1>1, BufferAssumption DEF First, Building, Vacant
<1>2. CASE p \notin Producers
  <2>1. p \in Consumers /\ pc[p] \in Inside
    BY <1>2 DEF Processes, Inside
  <2>2. Count(Consumers, pc, Inside) \in Nat /\ Count(Consumers, pc, Inside) > 0
    BY <2>1, BufferAssumption, CountPositive
  <2>3. Count(Producers, pc, After) \in Nat /\ sem[FILL] \in Nat
    BY BufferAssumption, CountPositive
  <2>4. Count(Slots, array, Numbers) \in Nat /\ Count(Slots, array, Numbers) > 0
    BY <2>2, <2>3, Finite, CountPositive DEF Filled
  <2> PICK t \in Slots : array[t] \in Numbers
    BY <2>4, Finite, CountPositive
  <2>5. Made(t) /\ data[t] # Vacant
    BY ArrayIs, BufferAssumption DEF Vacant
  <2>6. s <= t
    BY <1>2, <2>5 DEF First, Slots
  <2>7. \A q \in Processes : pc[q] = "clearing" => index[q] \in Int
    BY DEF Slots
  <2> QED
    BY <2>5, <2>6, <2>7 DEF Made, Slots
<1> QED
  BY <1>1, <1>2

LEMMA FoundMadeStep ==
  ASSUME SInv, SInv', TInv, NEW p \in Processes,
         Elsewhere(p) \/ ShmGet(p) \/ ShmClear(p) \/ ChangeSlot(p)
  PROVE  FoundMade'
<1> USE DEF SInv, Types, TInv
<1> SUFFICES ASSUME NEW q \in Processes, NEW s \in Slots, pc'[q] = "change", index'[q] = s
             PROVE  /\ Made(s)'
                    /\ data'[s] = Vacant <=> q \in Producers
                    /\ q \in Consumers => number'[q] = data'[s]
  BY DEF FoundMade
<1>1. CASE FindSlot(p) /\ q = p
  <2>1. pc[p] = "scan"
    BY <1>1 DEF FindSlot, At
  <2>2. /\ First(s, p \in Producers) /\ data' = data
        /\ p \in Consumers => number'[p] = data[s]
    BY <1>1, BufferAssumption DEF FindSlot, At
  <2>3. Elsewhere(p) /\ Made(s)
    BY <1>1, <2>1, <2>2, FindMade DEF Elsewhere
  <2>4. Made(s)'
    BY <2>3, ArrayKept
  <2> QED
    BY <1>1, <2>2, <2>4 DEF First
<1>2. CASE ChangeSlot(p)
  <2>1. pc[p] = "change" /\ pc' = [pc EXCEPT ![p] = "unlock"]
    BY <1>2 DEF ChangeSlot, At
  <2>2. p # q /\ pc[q] = "change"
    BY <2>1
  <2> QED
    BY <2>1, <2>2 DEF MutexExcludes, Critical
<1>3. CASE (Elsewhere(p) \/ ShmGet(p) \/ ShmClear(p)) /\ ~(FindSlot(p) /\ q = p)
  <2>1. p # q /\ pc[q] = "change" /\ index'[q] = index[q] /\ number'[q] = number[q]
    <3>1. CASE Elsewhere(p)
      <4>1. p # q
        BY <1>3, <3>1 DEF Elsewhere, Start, Kill, SemGet, SemFirst, SemSecond, SemOtime, ShmGet,
                          Wake, Down, LockMutex, UnlockMutex, Up, At
      <4> QED
        BY <3>1, <4>1, ElsewhereMoves
    <3>2. CASE ShmGet(p) \/ ShmClear(p)
      BY <3>2 DEF ShmGet, ShmClear, At
    <3> QED
      BY <1>3, <3>1, <3>2
  <2>2. /\ Made(s)
        /\ data[s] = Vacant <=> q \in Producers
        /\ q \in Consumers => number[q] = data[s]
    BY <2>1 DEF FoundMade
  <2>3. Made(s)' /\ data'[s] = data[s]
    BY <1>3, <2>2, ArrayKept
  <2> QED
    BY <2>1, <2>2, <2>3
<1> QED
  BY <1>1, <1>2, <1>3

\* What ChangeSlot does to the table: it puts a number on a vacant slot, or
\* takes one away.
LEMMA ChangeMade ==
  ASSUME SInv, SInv', TInv, NEW p \in Processes, ChangeSlot(p)
  PROVE  /\ pc[p] = "change" /\ pc' = [pc EXCEPT ![p] = "unlock"] /\ number' = number
         /\ UNCHANGED <<sem, shm, index>>
         /\ Building'
         /\ \E k \in Slots, n \in Numbers :
              /\ p \in Producers => /\ number[p] = n /\ array[k] = Vacant
                                    /\ array' = [array EXCEPT ![k] = n]
              /\ p \in Consumers => /\ number[p] = n /\ array[k] = n
                                    /\ array' = [array EXCEPT ![k] = Vacant]
<1> USE DEF SInv, Types, TInv
<1>0. /\ array = [s \in Slots |-> IF Made(s) THEN data[s] ELSE Vacant]
      /\ array' = [s \in Slots |-> IF Made(s)' THEN data'[s] ELSE Vacant]
  <2>1. (SInv => array = [s \in Slots |-> IF Made(s) THEN data[s] ELSE Vacant])'
    BY ArrayIs, PTL
  <2> QED
    BY <2>1, ArrayIs
<1>1. /\ pc[p] = "change" /\ pc' = [pc EXCEPT ![p] = "unlock"]
      /\ UNCHANGED <<sem, shm, index, number>>
      /\ data' = [data EXCEPT ![index[p]] = IF p \in Producers THEN number[p] ELSE Vacant]
  BY DEF ChangeSlot, At
<1> PICK k \in Slots : k = index[p]
  BY <1>1
<1>2. /\ Made(k)
      /\ data[k] = Vacant <=> p \in Producers
      /\ p \in Consumers => number[p] = data[k]
  BY <1>1 DEF FoundMade
<1>3. \A q \in Processes : pc'[q] = "clearing" <=> pc[q] = "clearing"
  BY <1>1
<1>4. \A s \in Slots : Made(s)' <=> Made(s)
  BY <1>1, <1>3 DEF Made
<1>5. Building'
  <2>1. ~shm' => \A q \in Processes :
          pc'[q] \in {"off", "semget", "first", "second", "otime", "shmget"}
    BY <1>1, <1>2 DEF Made
  <2>2. \A s \in Slots : ~Made(s)' => data'[s] \in Numbers
    BY <1>1, <1>2, <1>4 DEF Building
  <2> QED
    BY <1>3, <2>1, <2>2 DEF Building
<1>6. CASE p \in Producers
  <2>1. p \notin Consumers /\ number[p] \in Numbers
    BY <1>1, <1>6, BufferAssumption DEF Inside
  <2>2. array[k] = Vacant /\ array' = [array EXCEPT ![k] = number[p]]
    BY <1>0, <1>1, <1>2, <1>4, <1>6
  <2> QED
    BY <1>1, <1>5, <2>1, <2>2
<1>7. CASE p \in Consumers /\ p \notin Producers
  <2>1. data[k] \in Numbers /\ number[p] = data[k]
    BY <1>2, <1>7
  <2>2. array[k] = data[k] /\ array' = [array EXCEPT ![k] = Vacant]
    BY <1>0, <1>1, <1>2, <1>4, <1>7
  <2> QED
    BY <1>1, <1>5, <1>7, <2>1, <2>2
<1> QED
  BY <1>6, <1>7 DEF Processes

LEMMA FilledStep ==
  ASSUME SInv, SInv', TInv, NEW p \in Processes,
         Elsewhere(p) \/ ShmGet(p) \/ ShmClear(p) \/ ChangeSlot(p)
  PROVE  Filled'
<1> USE DEF SInv, Types, TInv
<1>0. /\ sem[FILL] \in Nat /\ sem'[FILL] \in Nat
      /\ p \in Producers => p \notin Consumers
      /\ p \in Producers \/ p \in Consumers
  BY BufferAssumption DEF Processes
<1>1. CASE ChangeSlot(p)
  <2>1. /\ pc[p] = "change" /\ pc' = [pc EXCEPT ![p] = "unlock"] /\ sem' = sem
    BY <1>1, ChangeMade
  <2>2. PICK k \in Slots, n \in Numbers :
          /\ p \in Producers => array[k] = Vacant /\ array' = [array EXCEPT ![k] = n]
          /\ p \in Consumers => array[k] = n /\ array' = [array EXCEPT ![k] = Vacant]
    BY <1>1, ChangeMade
  <2>3. array = [s \in Slots |-> IF Made(s) THEN data[s] ELSE Vacant]
    BY ArrayIs
  <2> PICK f : f = array
    OBVIOUS
  <2> PICK g : g = array'
    OBVIOUS
  <2>4. /\ \A s \in Slots \ {k} : g[s] = f[s]
        /\ p \in Producers => f[k] \notin Numbers /\ g[k] \in Numbers
        /\ p \in Consumers => f[k] \in Numbers /\ g[k] \notin Numbers
    BY <1>0, <2>2, <2>3, BufferAssumption DEF Vacant
  <2>5. \A s \in Slots \ {k} : g[s] \in Numbers <=> f[s] \in Numbers
    BY <2>4
  <2>6. Count(Slots, g, Numbers) = Count(Slots, f, Numbers) + In(g[k], Numbers) - In(f[k], Numbers)
    BY <2>5, Finite, CountMove
  <2>7. Count(Slots, f, Numbers) \in Nat
    BY Finite, CountPositive
  <2>8. /\ "unlock" \in PC /\ Gain(p, "unlock", Inside) = -1 /\ Gain(p, "unlock", After) = 1
    BY <2>1 DEF PC, Critical, Gain, In, Inside, After
  <2>9. CASE p \in Producers
    <3>1. Count(Slots, array', Numbers) = Count(Slots, array, Numbers) + 1
      BY <2>4, <2>6, <2>7, <2>9 DEF In
    <3>2. /\ p \in Producers => sem'[FILL] + Gain(p, "unlock", After) <= sem[FILL] + 1
          /\ p \in Consumers => sem'[FILL] + Gain(p, "unlock", Inside) <= sem[FILL] + 1
      BY <1>0, <2>1, <2>8, <2>9
    <3> HIDE DEF SInv, Types, TInv
    <3> QED
      BY <1>0, <2>1, <2>8, <3>1, <3>2, FilledMove, 1 \in -1 .. 1 DEF SInv, TInv
  <2>10. CASE p \in Consumers
    <3>1. Count(Slots, array', Numbers) = Count(Slots, array, Numbers) + (-1)
      BY <2>4, <2>6, <2>7, <2>10 DEF In
    <3>2. /\ p \in Producers => sem'[FILL] + Gain(p, "unlock", After) <= sem[FILL] + (-1)
          /\ p \in Consumers => sem'[FILL] + Gain(p, "unlock", Inside) <= sem[FILL] + (-1)
      BY <1>0, <2>1, <2>8, <2>10
    <3> HIDE DEF SInv, Types, TInv
    <3> QED
      BY <1>0, <2>1, <2>8, <3>1, <3>2, FilledMove, -1 \in -1 .. 1 DEF SInv, TInv
  <2> QED
    BY <1>0, <2>9, <2>10
<1>2. CASE Elsewhere(p) \/ ShmGet(p) \/ ShmClear(p)
  <2>1. array' = array
    BY <1>2, ArrayKept
  <2>2. Count(Slots, array', Numbers) = Count(Slots, array, Numbers) + 0
    BY <2>1, Finite, CountPositive
  <2>3. PICK to \in PC : pc' = [pc EXCEPT ![p] = to]
    <3>1. CASE Elsewhere(p)
      BY <3>1, ElsewhereMoves
    <3>2. CASE ShmGet(p) \/ ShmClear(p)
      <4>1. \/ pc' = [pc EXCEPT ![p] = "clearing"] \/ pc' = [pc EXCEPT ![p] = "idle"]
        BY <3>2 DEF ShmGet, ShmClear, At
      <4> QED
        BY <4>1 DEF PC, Starting
    <3> QED
      BY <1>2, <3>1, <3>2
  <2>4. pc'[p] = to
    BY <2>3
  <2>5. /\ p \in Producers => sem'[FILL] + Gain(p, to, After) <= sem[FILL] + 0
        /\ p \in Consumers => sem'[FILL] + Gain(p, to, Inside) <= sem[FILL] + 0
    <3>1. CASE Start(p) \/ Kill(p) \/ SemGet(p) \/ SemOtime(p) \/ ShmGet(p) \/ ShmClear(p) \/ Wake(p)
      <4>1. sem' = sem /\ to \notin Inside /\ to \notin After
        BY <2>4, <3>1 DEF Start, Kill, SemGet, SemOtime, ShmGet, ShmClear, Wake, At, Inside, After
      <4> QED
        BY <1>0, <4>1 DEF Gain, In
    <3>2. CASE FindSlot(p)
      <4>1. sem' = sem /\ pc[p] \in Inside /\ to \notin After
        BY <2>4, <3>2 DEF FindSlot, At, Inside, After
      <4> QED
        BY <1>0, <4>1 DEF Gain, In
    <3>3. CASE SemFirst(p) \/ SemSecond(p) \/ LockMutex(p) \/ UnlockMutex(p)
      <4>1. \E s \in {EMPTY, MUTEX}, val \in Int : change_sem(s, val)
        BY <3>3, BufferAssumption DEF SemFirst, SemSecond, LockMutex, UnlockMutex, sem_down, sem_up
      <4>2. sem'[FILL] = sem[FILL]
        BY <4>1, ChangeSem DEF EMPTY, FILL, MUTEX
      <4>3. /\ to \in Inside => pc[p] \in Inside
            /\ to \in After => pc[p] \in After
        BY <2>4, <3>3 DEF SemFirst, SemSecond, LockMutex, UnlockMutex, At, Inside, After
      <4> QED
        BY <1>0, <4>2, <4>3 DEF Gain, In
    <3>4. CASE Down(p)
      <4>1. Gain(p, to, Inside) = 1 /\ Gain(p, to, After) = 0
        BY <2>4, <3>4 DEF Down, At, Gain, In, Inside, After
      <4>2. change_sem(IF p \in Producers THEN EMPTY ELSE FILL, -1)
        BY <3>4 DEF Down, sem_down
      <4>3. sem'[FILL] = IF p \in Producers THEN sem[FILL] ELSE sem[FILL] - 1
        BY <4>2, ChangeSem DEF EMPTY, FILL, MUTEX
      <4> QED
        BY <1>0, <4>1, <4>3
    <3>5. CASE Up(p)
      <4>1. Gain(p, to, Inside) = 0 /\ Gain(p, to, After) = -1
        BY <2>4, <3>5 DEF Up, At, Gain, In, Inside, After
      <4>2. change_sem(IF p \in Producers THEN FILL ELSE EMPTY, 1)
        BY <3>5 DEF Up, sem_up
      <4>3. sem'[FILL] = IF p \in Producers THEN sem[FILL] + 1 ELSE sem[FILL]
        BY <4>2, ChangeSem DEF EMPTY, FILL, MUTEX
      <4> QED
        BY <1>0, <4>1, <4>3
    <3> QED
      BY <1>2, <3>1, <3>2, <3>3, <3>4, <3>5 DEF Elsewhere
  <2> HIDE DEF SInv, Types, TInv
  <2> QED
    BY <1>0, <2>2, <2>3, <2>5, FilledMove, 0 \in -1 .. 1 DEF SInv, TInv
<1> QED
  BY <1>1, <1>2

\* A step that leaves the table alone changes the hand of p only.
LEMMA HandStep ==
  ASSUME SInv, array' = array, NEW p \in Processes, Elsewhere(p) \/ ShmGet(p) \/ ShmClear(p)
  PROVE  [Table!Next]_<<array, hands>>
<1> USE DEF SInv, Types
<1>2. \A q \in Processes \ {p} : pc'[q] = pc[q] /\ number'[q] = number[q]
  <2>1. CASE Elsewhere(p)
    BY <2>1, ElsewhereMoves
  <2>2. CASE ShmGet(p) \/ ShmClear(p)
    BY <2>2 DEF ShmGet, ShmClear, At
  <2> QED
    BY <2>1, <2>2
<1>3. \A q \in Processes \ {p} : Hand(q)' = Hand(q)
  BY <1>2 DEF Hand
<1>4. hands' = [hands EXCEPT ![p] = Hand(p)']
  BY <1>3 DEF hands
<1>5. CASE Wake(p) /\ p \in Producers
  <2>1. Hand(p) = Unset /\ Hand(p)' \in Numbers
    BY <1>5, BufferAssumption DEF Hand, Wake, At
  <2> QED
    BY <1>4, <1>5, <2>1
       DEF Table!Next, Table!Draw, Table!Nothing, hands, Unset
<1>6. CASE Hand(p)' = Unset
  BY <1>4, <1>6 DEF Table!Next, Table!Drop, Table!Nothing, Unset, Processes
<1>7. CASE ~(Wake(p) /\ p \in Producers) /\ Hand(p)' # Unset
  <2>1. Hand(p)' = Hand(p)
    <3>1. CASE Start(p) \/ Kill(p)
      BY <1>7, <3>1 DEF Hand, Start, Kill, At
    <3>2. CASE SemGet(p) \/ SemFirst(p) \/ SemSecond(p) \/ SemOtime(p) \/ ShmGet(p) \/ ShmClear(p)
      BY <1>7, <3>2 DEF Hand, SemGet, SemFirst, SemSecond, SemOtime, ShmGet, ShmClear, At
    <3>3. CASE Wake(p)
      BY <1>7, <3>3 DEF Hand, Wake, At
    <3>4. CASE Down(p) \/ LockMutex(p) \/ UnlockMutex(p) \/ Up(p)
      BY <1>7, <3>4 DEF Hand, Down, LockMutex, UnlockMutex, Up, At
    <3>5. CASE FindSlot(p)
      BY <1>7, <3>5, BufferAssumption DEF Hand, FindSlot, At
    <3> QED
      BY <3>1, <3>2, <3>3, <3>4, <3>5 DEF Elsewhere
  <2> QED
    BY <1>3, <2>1 DEF hands
<1> QED
  BY <1>5, <1>6, <1>7

\* The step that uses the permit puts a producer's number on a vacant slot, or
\* takes a consumer's from its slot.
LEMMA PutOrTakeStep ==
  ASSUME SInv, SInv', TInv, NEW p \in Processes, ChangeSlot(p)
  PROVE  Table!Next
<1>1. pc[p] = "change" /\ pc' = [pc EXCEPT ![p] = "unlock"] /\ number' = number
  BY ChangeMade
<1>2. PICK k \in Slots, n \in Numbers :
        /\ p \in Producers => number[p] = n /\ array[k] = Vacant /\ array' = [array EXCEPT ![k] = n]
        /\ p \in Consumers => number[p] = n /\ array[k] = n /\ array' = [array EXCEPT ![k] = Vacant]
  BY ChangeMade
<1>3. pc'[p] = "unlock" /\ \A q \in Processes \ {p} : pc'[q] = pc[q]
  BY <1>1 DEF SInv, Types
<1>4. \A q \in Processes \ {p} : Hand(q)' = Hand(q)
  BY <1>1, <1>3 DEF Hand
<1>5. hands' = [hands EXCEPT ![p] = Hand(p)'] /\ DOMAIN array = Slots /\ hands[p] = Hand(p)
  BY <1>4 DEF hands, array
<1>6. CASE p \in Producers
  <2>1. p \notin Consumers
    BY <1>6, BufferAssumption
  <2>2. Hand(p) = n /\ Hand(p)' = Unset /\ n # Unset
    BY <1>1, <1>2, <1>3, <1>6, <2>1, BufferAssumption DEF Hand, Unset
  <2>3. Table!Put(p)
    BY <1>2, <1>5, <1>6, <2>2 DEF Table!Put, Table!Nothing, Table!Vacant, Unset, Vacant
  <2> QED
    BY <1>6, <2>3 DEF Table!Next
<1>7. CASE p \in Consumers /\ p \notin Producers
  <2>1. Hand(p) = Unset /\ Hand(p)' = n /\ n # Vacant
    BY <1>1, <1>2, <1>3, <1>7, BufferAssumption DEF Hand, Vacant
  <2>2. Table!Take(p)
    BY <1>2, <1>5, <1>7, <2>1 DEF Table!Take, Table!Nothing, Table!Vacant, Unset, Vacant
  <2> QED
    BY <1>7, <2>2 DEF Table!Next
<1> QED
  BY <1>6, <1>7 DEF Processes

LEMMA TableStep ==
  SInv /\ SInv' /\ TInv /\ [Next]_vars => TInv' /\ [Table!Next]_<<array, hands>>
<1> SUFFICES ASSUME SInv, SInv', TInv, [Next]_vars
             PROVE  TInv' /\ [Table!Next]_<<array, hands>>
  OBVIOUS
<1>1. CASE UNCHANGED vars
  <2>1. array' = array /\ hands' = hands
    BY <1>1 DEF vars, array, hands, Hand
  <2>2. Building' /\ FoundMade'
    BY <1>1 DEF vars, TInv, Building, FoundMade, Made
  <2>3. Filled'
    BY <1>1, <2>1 DEF vars, TInv, Filled, Count
  <2> QED
    BY <2>1, <2>2, <2>3 DEF TInv
<1>2. ASSUME NEW p \in Processes, Elsewhere(p) \/ ShmGet(p) \/ ShmClear(p)
      PROVE  TInv' /\ [Table!Next]_<<array, hands>>
  BY <1>2, ArrayKept, FoundMadeStep, FilledStep, HandStep DEF TInv
<1>3. ASSUME NEW p \in Processes, ChangeSlot(p)
      PROVE  TInv' /\ Table!Next
  BY <1>3, ChangeMade, FoundMadeStep, FilledStep, PutOrTakeStep DEF TInv
<1>4. UNCHANGED vars \/ \E p \in Processes :
        Elsewhere(p) \/ ShmGet(p) \/ ShmClear(p) \/ ChangeSlot(p)
  BY DEF Next, init, round, Elsewhere
<1> QED
  BY <1>1, <1>2, <1>3, <1>4

\* The invariant of the table, from any start.
THEOREM TableInvariance == Spec => []TInv
<1>1. SInv /\ SInv' /\ TInv /\ [Next]_vars => TInv'
  BY TableStep
<1> QED
  BY <1>1, InitTInv, StartInvariance, PTL DEF Spec

\* While the array is still being cleared, too, every permit a consumer can have
\* stands for a number that a producer has put there (consumer.c:99-104).
THEOREM NoPermitForZeros == Spec => []Filled
<1>1. TInv => Filled
  BY DEF TInv
<1> QED
  BY <1>1, TableInvariance, PTL

\* No number is overwritten, taken twice or made up, whoever is killed and
\* whichever process creates what (producer.c:104, consumer.c:104).
THEOREM Refinement == Spec => ImplementsTable
<1>1. Init => Table!Init
  <2> SUFFICES ASSUME Init
               PROVE  array = [s \in Slots |-> Vacant] /\ hands = [p \in Processes |-> Unset]
    BY DEF Table!Init, Table!Vacant, Table!Nothing, Vacant, Unset, Slots, Processes
  <2>1. hands = [p \in Processes |-> Unset]
    BY DEF Init, FreshInit, ReadyInit, hands, Hand
  <2>2. array = [s \in Slots |-> Vacant]
    BY DEF Init, FreshInit, ReadyInit, array
  <2> QED
    BY <2>1, <2>2
<1>2. SInv /\ SInv' /\ TInv /\ [Next]_vars => [Table!Next]_<<array, hands>>
  BY TableStep
<1> QED
  BY <1>1, <1>2, StartInvariance, TableInvariance, PTL DEF Spec, ImplementsTable, Table!Spec


---------------------------------------------------------------------------
\* How the work of an initialised system can stop.

\* The permits that are offered or with a process.
Total == sem[EMPTY] + sem[FILL] + Count(Processes, pc, InRound)

\* The mutex is taken and nobody has it.
MutexLost == sem[MUTEX] = 0 /\ \A p \in Processes : pc[p] \notin Critical \cup {"overrun"}

KilledInRound == \E p \in Processes : pc[p] \in InRound /\ Kill(p)

LossOfPermit == ~fresh => (PermitLost' <=> PermitLost \/ KilledInRound)

\* A process that cannot take its next step.
Blocked(p) ==
  \/ pc[p] = "down" /\ sem[IF p \in Producers THEN EMPTY ELSE FILL] = 0
  \/ pc[p] = "lock" /\ sem[MUTEX] = 0

\* Both sides run, and no process can go on.
Stuck ==
  /\ \E p \in Producers : pc[p] # "off"
  /\ \E p \in Consumers : pc[p] # "off"
  /\ \A p \in Processes : pc[p] = "off" \/ Blocked(p)

LEMMA LostIff == PermitLost <=> Total < MAX \/ MutexLost
<1>1. {"lock", "up", "overrun"} \cup Critical = InRound
  BY DEF InRound
<1> QED
  BY <1>1 DEF PermitLost, Total, MutexLost, Count

\* When both sides wait for each other, the permits that are missing on both
\* went down with processes.
THEOREM OnlyLossStops == Spec => [](~fresh /\ Stuck => PermitLost)
<1>1. ASSUME IInv, Stuck
      PROVE  PermitLost
  <2>1. \A p \in Processes : pc[p] \in {"off", "down", "lock"}
    BY <1>1 DEF Stuck, Blocked
  <2>2. \A p \in Processes : pc[p] \notin Critical \cup {"overrun"}
    BY <2>1 DEF Critical
  <2>3. CASE sem[MUTEX] = 0
    BY <2>2, <2>3, LostIff DEF MutexLost
  <2>4. CASE sem[MUTEX] # 0
    <3>1. \A p \in Processes : pc[p] \in {"off", "down"}
      BY <1>1, <2>4 DEF Stuck, Blocked
    <3>2. sem[EMPTY] = 0 /\ sem[FILL] = 0
      <4>1. PICK p \in Producers : pc[p] # "off"
        BY <1>1 DEF Stuck
      <4>2. PICK c \in Consumers : pc[c] # "off"
        BY <1>1 DEF Stuck
      <4>3. p \in Processes /\ c \in Processes /\ c \notin Producers
        BY BufferAssumption DEF Processes
      <4> QED
        BY <1>1, <2>4, <4>1, <4>2, <4>3 DEF Stuck, Blocked
    <3>3. Count(Processes, pc, InRound) = 0
      <4>1. {p \in Processes : pc[p] \in InRound} = {}
        BY <3>1 DEF InRound, Critical
      <4> QED
        BY <4>1, FS_EmptySet DEF Count
    <3>4. Total < MAX
      BY <3>2, <3>3, BufferAssumption DEF Total
    <3> QED
      BY <3>4, LostIff
  <2> QED
    BY <2>3, <2>4
<1> QED
  BY <1>1, Invariance, PTL

\* A step of process p that keeps the permits together.
LEMMA KeptTotal ==
  ASSUME SInv, NEW p \in Processes, NEW to \in PC, pc' = [pc EXCEPT ![p] = to],
         sem'[EMPTY] \in Nat, sem'[FILL] \in Nat,
         sem'[EMPTY] + sem'[FILL] + In(to, InRound) = sem[EMPTY] + sem[FILL] + In(pc[p], InRound)
  PROVE  Total' = Total
<1>1. /\ Count(Processes, pc, InRound) \in Nat
      /\ Count(Processes, pc', InRound) =
           Count(Processes, pc, InRound) + In(to, InRound) - In(pc[p], InRound)
  BY RoundMove DEF SInv
<1>2. /\ In(to, InRound) \in Int /\ In(pc[p], InRound) \in Int
      /\ sem[EMPTY] \in Nat /\ sem[FILL] \in Nat
  BY DEF In, SInv, Types
<1> QED
  BY <1>1, <1>2 DEF Total

\* Nobody but a killed process takes a permit or the mutex with it.
LEMMA LossStep ==
  ASSUME SInv, IInv, NoOverrun', NEW p \in Processes, Start(p) \/ init(p) \/ round(p)
  PROVE  Total' = Total /\ (MutexLost' <=> MutexLost) /\ pc'[p] \notin {pc[p], "off"}
<1> USE DEF SInv, Types
<1>0. ~fresh /\ ~fresh'
  BY DEF IInv, Initialised, Start, init, round
<1>1. CASE Start(p) \/ SemGet(p) \/ SemOtime(p) \/ ShmGet(p) \/ Wake(p)
  <2>1. PICK to \in {"semget", "otime", "shmget", "idle", "down"} :
           pc' = [pc EXCEPT ![p] = to] /\ sem' = sem
    BY <1>1 DEF Start, SemGet, SemOtime, ShmGet, Wake, At, IInv, Initialised
  <2>2. pc[p] \in {"off", "semget", "otime", "shmget", "idle"}
    BY <1>1 DEF Start, SemGet, SemOtime, ShmGet, Wake, At
  <2>3. /\ to \in PC /\ to \notin InRound /\ to \notin Critical \cup {"overrun"}
        /\ pc[p] \notin InRound /\ pc[p] \notin Critical \cup {"overrun"}
    BY <2>2 DEF PC, Starting, Critical, InRound
  <2>4. Total' = Total
    BY <2>1, <2>3, KeptTotal DEF In
  <2>5. MutexLost' <=> MutexLost
    BY <2>1, <2>3 DEF MutexLost
  <2>6. pc'[p] # pc[p] /\ pc'[p] # "off"
    BY <1>1 DEF Start, SemGet, SemOtime, ShmGet, Wake, At, IInv, Initialised
  <2> QED
    BY <2>4, <2>5, <2>6
<1>2. CASE SemFirst(p) \/ SemSecond(p) \/ ShmClear(p)
  BY <1>2 DEF SemFirst, SemSecond, ShmClear, At, IInv, Initialised
<1>3. CASE Down(p)
  <2> DEFINE s == IF p \in Producers THEN EMPTY ELSE FILL
  <2>1. change_sem(s, -1) /\ pc[p] = "down" /\ pc' = [pc EXCEPT ![p] = "lock"]
    BY <1>3 DEF Down, At, sem_down
  <2>2. sem'[s] = sem[s] - 1 /\ sem'[s] \in Nat
        /\ \A t \in {EMPTY, FILL, MUTEX} \ {s} : sem'[t] = sem[t]
    BY <2>1, ChangeSem
  <2>3. /\ sem'[EMPTY] \in Nat /\ sem'[FILL] \in Nat /\ sem'[MUTEX] = sem[MUTEX]
        /\ sem'[EMPTY] + sem'[FILL] + 1 = sem[EMPTY] + sem[FILL]
    BY <2>2 DEF EMPTY, FILL, MUTEX
  <2>4. In("lock", InRound) = 1 /\ In("down", InRound) = 0 /\ "lock" \in PC
    BY DEF In, InRound, Critical, PC
  <2>5. Total' = Total
    <3>1. sem'[EMPTY] + sem'[FILL] + In("lock", InRound) = sem[EMPTY] + sem[FILL] + In(pc[p], InRound)
      BY <2>1, <2>3, <2>4
    <3>2. "lock" \in PC /\ pc' = [pc EXCEPT ![p] = "lock"] /\ sem'[EMPTY] \in Nat /\ sem'[FILL] \in Nat
      BY <2>1, <2>3, <2>4
    <3> QED
      BY <3>1, <3>2, KeptTotal
  <2>6. MutexLost' <=> MutexLost
    BY <2>1, <2>3 DEF MutexLost, Critical
  <2> QED
    BY <2>1, <2>5, <2>6
<1>4. CASE LockMutex(p)
  <2>1. change_sem(MUTEX, -1) /\ pc[p] = "lock" /\ pc' = [pc EXCEPT ![p] = "scan"]
    BY <1>4 DEF LockMutex, At, sem_down
  <2>2. /\ sem'[EMPTY] = sem[EMPTY] /\ sem'[FILL] = sem[FILL] /\ sem'[MUTEX] = sem[MUTEX] - 1
        /\ sem'[MUTEX] \in Nat
    BY <2>1, ChangeSem DEF EMPTY, FILL, MUTEX
  <2>3. In("lock", InRound) = 1 /\ In("scan", InRound) = 1 /\ "scan" \in PC
    BY DEF In, InRound, Critical, PC
  <2>4. Total' = Total
    BY <2>1, <2>2, <2>3, KeptTotal
  <2>5. ~MutexLost /\ ~MutexLost'
    BY <2>1, <2>2 DEF MutexLost, Critical
  <2> QED
    BY <2>1, <2>4, <2>5
<1>5. CASE FindSlot(p) \/ ChangeSlot(p)
  <2>1. PICK to \in {"change", "unlock", "overrun"} :
           /\ pc' = [pc EXCEPT ![p] = to] /\ sem' = sem /\ pc[p] \in {"scan", "change"}
    BY <1>5 DEF FindSlot, ChangeSlot, At
  <2>2. /\ to \in PC /\ to \in InRound /\ to \in Critical \cup {"overrun"}
        /\ pc[p] \in InRound /\ pc[p] \in Critical \cup {"overrun"}
    BY <2>1 DEF PC, Critical, InRound
  <2>3. Total' = Total
    BY <2>1, <2>2, KeptTotal DEF In
  <2>4. ~MutexLost /\ ~MutexLost'
    BY <2>1, <2>2 DEF MutexLost
  <2>5. pc'[p] # pc[p] /\ pc'[p] # "off"
    BY <1>5 DEF FindSlot, ChangeSlot, At
  <2> QED
    BY <2>3, <2>4, <2>5
<1>6. CASE UnlockMutex(p)
  <2>1. change_sem(MUTEX, 1) /\ pc[p] = "unlock" /\ pc' = [pc EXCEPT ![p] = "up"]
    BY <1>6 DEF UnlockMutex, At, sem_up
  <2>2. /\ sem'[EMPTY] = sem[EMPTY] /\ sem'[FILL] = sem[FILL] /\ sem'[MUTEX] = sem[MUTEX] + 1
        /\ sem[MUTEX] \in Nat
    BY <2>1, ChangeSem DEF EMPTY, FILL, MUTEX
  <2>3. In("unlock", InRound) = 1 /\ In("up", InRound) = 1 /\ "up" \in PC
    BY DEF In, InRound, Critical, PC
  <2>4. Total' = Total
    BY <2>1, <2>2, <2>3, KeptTotal
  <2>5. ~MutexLost /\ ~MutexLost'
    BY <2>1, <2>2 DEF MutexLost, Critical
  <2> QED
    BY <2>1, <2>4, <2>5
<1>7. CASE Up(p)
  <2> DEFINE s == IF p \in Producers THEN FILL ELSE EMPTY
  <2>1. change_sem(s, 1) /\ pc[p] = "up" /\ pc' = [pc EXCEPT ![p] = "idle"]
    BY <1>7 DEF Up, At, sem_up
  <2>2. sem'[s] = sem[s] + 1 /\ sem[s] \in Nat
        /\ \A t \in {EMPTY, FILL, MUTEX} \ {s} : sem'[t] = sem[t]
    BY <2>1, ChangeSem
  <2>3. /\ sem'[EMPTY] \in Nat /\ sem'[FILL] \in Nat /\ sem'[MUTEX] = sem[MUTEX]
        /\ sem'[EMPTY] + sem'[FILL] = sem[EMPTY] + sem[FILL] + 1
    BY <2>2 DEF EMPTY, FILL, MUTEX
  <2>4. In("up", InRound) = 1 /\ In("idle", InRound) = 0 /\ "idle" \in PC
    BY DEF In, InRound, Critical, PC
  <2>5. Total' = Total
    <3>1. sem'[EMPTY] + sem'[FILL] + In("idle", InRound) = sem[EMPTY] + sem[FILL] + In(pc[p], InRound)
      BY <2>1, <2>3, <2>4
    <3>2. "idle" \in PC /\ pc' = [pc EXCEPT ![p] = "idle"] /\ sem'[EMPTY] \in Nat /\ sem'[FILL] \in Nat
      BY <2>1, <2>3, <2>4
    <3> QED
      BY <3>1, <3>2, KeptTotal
  <2>6. MutexLost' <=> MutexLost
    BY <2>1, <2>3 DEF MutexLost, Critical
  <2> QED
    BY <2>1, <2>5, <2>6
<1> QED
  BY <1>1, <1>2, <1>3, <1>4, <1>5, <1>6, <1>7 DEF init, round

\* A kill takes the permit of a process that is in its round, and the mutex with
\* it if it is there, and nothing of any other.
LEMMA KillStep ==
  ASSUME SInv, IInv, NEW p \in Processes, Kill(p)
  PROVE  /\ Total' = IF pc[p] \in InRound THEN Total - 1 ELSE Total
         /\ pc[p] \notin InRound => (MutexLost' <=> MutexLost)
         /\ Total \in Int /\ Total <= MAX
         /\ MutexLost => MutexLost'
<1> USE DEF SInv, Types
<1>1. pc' = [pc EXCEPT ![p] = "off"] /\ sem' = sem /\ "off" \in PC
  BY DEF Kill, PC
<1>2. /\ Count(Processes, pc, InRound) \in Nat
      /\ Count(Processes, pc', InRound) =
           Count(Processes, pc, InRound) + In("off", InRound) - In(pc[p], InRound)
  BY <1>1, RoundMove
<1>3. /\ In("off", InRound) = 0 /\ In(pc[p], InRound) = (IF pc[p] \in InRound THEN 1 ELSE 0)
  BY DEF In, InRound, Critical
<1>4. sem[EMPTY] \in Nat /\ sem[FILL] \in Nat
  OBVIOUS
<1>5. Total' = (IF pc[p] \in InRound THEN Total - 1 ELSE Total) /\ Total \in Int
  BY <1>1, <1>2, <1>3, <1>4 DEF Total
<1>6. Total <= MAX
  BY DEF Conserved, Total
<1>7. /\ pc[p] \notin InRound => (MutexLost' <=> MutexLost)
      /\ MutexLost => MutexLost'
  BY <1>1 DEF MutexLost, InRound, Critical
<1> QED
  BY <1>5, <1>6, <1>7

\* A permit, or the mutex, is lost exactly when a process is killed inside its
\* round (there is no SEM_UNDO: producer.c 31), and then for ever.
THEOREM LostByKill == Spec => [][LossOfPermit]_vars
<1>1. SInv /\ (~fresh => IInv) /\ (~fresh => IInv)' /\ [Next]_vars => [LossOfPermit]_vars
  <2> SUFFICES ASSUME SInv, ~fresh, IInv, (~fresh => IInv)', Next
               PROVE  PermitLost' <=> PermitLost \/ KilledInRound
    BY DEF LossOfPermit
  <2>0. (PermitLost <=> Total < MAX \/ MutexLost) /\ (PermitLost' <=> Total' < MAX \/ MutexLost')
    <3>1. {"lock", "up", "overrun"} \cup Critical = InRound
      BY DEF InRound
    <3> QED
      BY <3>1 DEF PermitLost, Total, MutexLost, Count
  <2>1. PICK p \in Processes : Start(p) \/ Kill(p) \/ init(p) \/ round(p)
    BY DEF Next
  <2>2. CASE Kill(p)
    <3>1. KilledInRound <=> pc[p] \in InRound
      BY <2>2 DEF KilledInRound, Kill, SInv, Types, InRound, Critical
    <3> QED
      BY <2>0, <2>2, <3>1, KillStep, BufferAssumption
  <2>3. CASE Start(p) \/ init(p) \/ round(p)
    <3>1. NoOverrun'
      BY DEF IInv, NoOverrun
    <3>2. Total' = Total /\ (MutexLost' <=> MutexLost) /\ pc'[p] \notin {pc[p], "off"}
      BY <2>3, <3>1, LossStep
    <3>3. ~KilledInRound
      BY <3>2 DEF KilledInRound, Kill, SInv, Types
    <3> QED
      BY <2>0, <3>2, <3>3
  <2> QED
    BY <2>1, <2>2, <2>3
<1> QED
  BY <1>1, StartInvariance, Invariance, PTL DEF Spec

=============================================================================
