------------------------ MODULE CarrierAndList_proofs -------------------------
(***************************************************************************)
(* Proofs about two programs that have nothing in common but this module.  *)
(* The carrier, for any finite set of planes and any N, K: the counters    *)
(* say what the planes do, the deck is never over-full, the side with      *)
(* priority has somebody awake, and the planes never all wait.             *)
(* The list of people, for any number of nodes, fields and keys: its links *)
(* always make up the sequence that the calls of the roster describe.      *)
(***************************************************************************)
EXTENDS CarrierDeck, PeopleList, SequenceTheorems, FiniteSetTheorems,
        WellFoundedInduction, TLAPS

---------------------------------------------------------------------------
\* How the number of planes in a given condition changes when one
\* of them changes.

Count(P, f, S) == Cardinality({q \in P : f[q] \in S})

In(x, S) == IF x \in S THEN 1 ELSE 0

\* What a change at p does to the number of members of P whose value is in S,
\* when no other member's value enters or leaves S.
LEMMA CountMove ==
  ASSUME NEW P, IsFiniteSet(P), NEW f, NEW g, NEW S, NEW p \in P,
         \A q \in P \ {p} : g[q] \in S <=> f[q] \in S
  PROVE  /\ Count(P, f, S) \in 0 .. Cardinality(P)
         /\ Count(P, g, S) \in 0 .. Cardinality(P)
         /\ Count(P, g, S) = Count(P, f, S) + In(g[p], S) - In(f[p], S)
<1> DEFINE F == {q \in P : f[q] \in S}
           G == {q \in P : g[q] \in S}
<1>1. /\ IsFiniteSet(F) /\ Cardinality(F) \in Nat /\ Cardinality(F) <= Cardinality(P)
      /\ IsFiniteSet(G) /\ Cardinality(G) \in Nat /\ Cardinality(G) <= Cardinality(P)
      /\ Cardinality(P) \in Nat
  <2>1. F \in SUBSET P /\ G \in SUBSET P
    OBVIOUS
  <2> HIDE DEF F, G
  <2> QED
    BY <2>1, FS_Subset, FS_CardinalityType
<1>2. /\ Count(P, f, S) = Cardinality(F) /\ Count(P, g, S) = Cardinality(G)
  BY DEF Count
<1>3. CASE f[p] \in S <=> g[p] \in S
  <2>1. F = G
    BY <1>3
  <2> HIDE DEF F, G
  <2> QED
    BY <1>2, <1>1, <1>3, <2>1 DEF In
<1>4. CASE f[p] \notin S /\ g[p] \in S
  <2>1. G = F \cup {p} /\ p \notin F
    BY <1>4
  <2>2. Cardinality(G) = Cardinality(F) + 1
    BY <1>1, <2>1, FS_AddElement
  <2> HIDE DEF F, G
  <2> QED
    BY <1>2, <1>1, <1>4, <2>2 DEF In
<1>5. CASE f[p] \in S /\ g[p] \notin S
  <2>1. F = G \cup {p} /\ p \notin G
    BY <1>5
  <2>2. Cardinality(F) = Cardinality(G) + 1
    BY <1>1, <2>1, FS_AddElement
  <2> HIDE DEF F, G
  <2> QED
    BY <1>2, <1>1, <1>5, <2>2 DEF In
<1> QED
  BY <1>3, <1>4, <1>5

\* A number of members is positive when there is one.
LEMMA CountPositive ==
  ASSUME NEW P, IsFiniteSet(P), NEW f, NEW S
  PROVE  /\ Count(P, f, S) \in Nat
         /\ Count(P, f, S) > 0 <=> \E q \in P : f[q] \in S
<1> DEFINE F == {q \in P : f[q] \in S}
<1>1. F \in SUBSET P /\ (F # {} <=> \E q \in P : f[q] \in S)
  OBVIOUS
<1>2. Count(P, f, S) = Cardinality(F)
  BY DEF Count
<1> HIDE DEF F
<1>3. Cardinality(F) \in Nat /\ (Cardinality(F) = 0 <=> F = {})
  BY <1>1, FS_Subset, FS_CardinalityType, FS_EmptySet
<1> QED
  BY <1>1, <1>2, <1>3

---------------------------------------------------------------------------

QueueL == InAir \ {"air", "land"}
QueueT == OnDeck \ {"deck", "takeoff"}

Places == OnDeck \cup InAir

Types ==
  /\ landingstrip \in Planes \cup {Nobody}
  /\ pc \in [Planes -> Places]

\* The plane is between a lock and an unlock of landingstrip.
Holds(p) == pc[p] \in {"checkL", "goL", "land", "checkT", "goT", "takeoff"}

RunwayHeld == \A p \in Planes : Holds(p) <=> landingstrip = p

\* A plane that passed the test of line 46 still finds room on the deck.
Room ==
  /\ planes_on_board <= N
  /\ \A p \in Planes : pc[p] \in {"goL", "land"} => planes_on_board < N

IInv == Types /\ RunwayHeld /\ CountersAgree /\ Room

---------------------------------------------------------------------------

LEMMA InitIInv == Init => IInv
<1> SUFFICES ASSUME Init
             PROVE  IInv
  OBVIOUS
<1>1. Types /\ RunwayHeld /\ Room
  BY DeckAssumption DEF Init, Types, RunwayHeld, Room, Holds, Places, InAir, OnDeck
<1>2. /\ {p \in Planes : pc[p] \in OnDeck} = {}
      /\ {p \in Planes : pc[p] \in InAir \ {"air", "land"}} = {}
      /\ {p \in Planes : pc[p] \in OnDeck \ {"deck", "takeoff"}} = {}
  BY DEF Init, OnDeck
<1>3. CountersAgree
  BY <1>2, FS_EmptySet DEF Init, CountersAgree
<1> QED
  BY <1>1, <1>3 DEF IInv

\* A step of plane p moves p, and another plane at most from a sleep to the
\* way back to the runway.
OthersAsleep(p) ==
  \A q \in Planes \ {p} :
    \/ pc'[q] = pc[q]
    \/ pc[q] = "sleepL" /\ pc'[q] = "wokenL"
    \/ pc[q] = "sleepT" /\ pc'[q] = "wokenT"

LEMMA Moved ==
  ASSUME Types, NEW p \in Planes, NEW from, NEW to \in Places, At(p, from, to)
  PROVE  /\ pc[p] = from /\ pc'[p] = to
         /\ pc' \in [Planes -> Places]
         /\ OthersAsleep(p)
BY DEF Types, At, OthersAsleep

LEMMA Signalled ==
  ASSUME Types, NEW p \in Planes, NEW to \in Places, NEW sleep, NEW woken,
         <<sleep, woken>> \in {<<"sleepL", "wokenL">>, <<"sleepT", "wokenT">>},
         to # sleep,
         Signal([pc EXCEPT ![p] = to], sleep, woken)
  PROVE  /\ pc'[p] = to
         /\ pc' \in [Planes -> Places]
         /\ OthersAsleep(p)
<1> DEFINE pcs == [pc EXCEPT ![p] = to]
<1>1. /\ pcs \in [Planes -> Places] /\ pcs[p] = to
      /\ \A q \in Planes \ {p} : pcs[q] = pc[q]
  BY DEF Types
<1>2. \/ pc' = pcs
      \/ \E q \in Planes : pcs[q] = sleep /\ pc' = [pcs EXCEPT ![q] = woken]
  <2> HIDE DEF pcs
  <2> QED
    BY DEF Signal, pcs
<1> HIDE DEF pcs
<1>3. woken \in Places
  BY DEF Places, OnDeck, InAir
<1>4. CASE pc' = pcs
  BY <1>1, <1>4 DEF OthersAsleep
<1>5. ASSUME NEW q \in Planes, pcs[q] = sleep, pc' = [pcs EXCEPT ![q] = woken]
      PROVE  /\ pc'[p] = to
             /\ pc' \in [Planes -> Places]
             /\ OthersAsleep(p)
  <2>1. q # p
    BY <1>1, <1>5
  <2> QED
    BY <1>1, <1>3, <1>5, <2>1 DEF OthersAsleep
<1> QED
  BY <1>2, <1>4, <1>5

\* CountersAgree is kept by a step of plane p that changes the counters as p's
\* own move says.
LEMMA Counted ==
  ASSUME Types, CountersAgree, NEW p \in Planes, OthersAsleep(p),
         planes_on_board' = planes_on_board + In(pc'[p], OnDeck) - In(pc[p], OnDeck),
         waiting_to_land' = waiting_to_land + In(pc'[p], QueueL) - In(pc[p], QueueL),
         waiting_to_takeoff' = waiting_to_takeoff + In(pc'[p], QueueT) - In(pc[p], QueueT)
  PROVE  CountersAgree'
<1>1. \A S \in {OnDeck, QueueL, QueueT} : \A q \in Planes \ {p} : pc'[q] \in S <=> pc[q] \in S
  BY DEF OthersAsleep, OnDeck, QueueL, QueueT, InAir
<1>2. \A S \in {OnDeck, QueueL, QueueT} :
         Count(Planes, pc', S) = Count(Planes, pc, S) + In(pc'[p], S) - In(pc[p], S)
  <2> SUFFICES ASSUME NEW S \in {OnDeck, QueueL, QueueT}
               PROVE  Count(Planes, pc', S)
                        = Count(Planes, pc, S) + In(pc'[p], S) - In(pc[p], S)
    OBVIOUS
  <2>1. \A q \in Planes \ {p} : pc'[q] \in S <=> pc[q] \in S
    BY <1>1
  <2>2. IsFiniteSet(Planes)
    BY DeckAssumption
  <2> QED
    BY ONLY <2>1, <2>2, p \in Planes, CountMove
<1>3. /\ planes_on_board = Count(Planes, pc, OnDeck)
      /\ waiting_to_land = Count(Planes, pc, QueueL)
      /\ waiting_to_takeoff = Count(Planes, pc, QueueT)
  BY DEF CountersAgree, Count, QueueL, QueueT
<1>4. /\ planes_on_board' = Count(Planes, pc', OnDeck)
      /\ waiting_to_land' = Count(Planes, pc', QueueL)
      /\ waiting_to_takeoff' = Count(Planes, pc', QueueT)
  BY <1>2, <1>3
<1> QED
  BY <1>4 DEF CountersAgree, Count, QueueL, QueueT

\* The counters are natural numbers, at most as many as there are planes.
LEMMA Bounds ==
  ASSUME CountersAgree
  PROVE  /\ planes_on_board \in 0 .. Cardinality(Planes)
         /\ waiting_to_land \in 0 .. Cardinality(Planes)
         /\ waiting_to_takeoff \in 0 .. Cardinality(Planes)
<1>1. ASSUME NEW S
      PROVE  Cardinality({q \in Planes : pc[q] \in S}) \in 0 .. Cardinality(Planes)
  <2> DEFINE F == {q \in Planes : pc[q] \in S}
  <2>1. F \in SUBSET Planes
    OBVIOUS
  <2> HIDE DEF F
  <2>2. Cardinality(F) \in 0 .. Cardinality(Planes)
    BY <2>1, FS_Subset, FS_CardinalityType, DeckAssumption
  <2> QED
    BY <2>2 DEF F
<1> QED
  BY <1>1 DEF CountersAgree

\* A step of plane p that does not touch landingstrip.
LEMMA FreeStep ==
  ASSUME IInv, NEW p \in Planes,
         \/ AnnounceLanding(p) \/ LeaveLandingQueue(p)
         \/ AnnounceTakeOff(p) \/ LeaveTakeOffQueue(p) \/ Spurious(p)
  PROVE  IInv'
<1> USE DEF IInv
<1>1. /\ \/ pc[p] = "air" /\ pc'[p] = "wantL" /\ AnnounceLanding(p)
         \/ pc[p] = "goL" /\ pc'[p] = "land" /\ LeaveLandingQueue(p)
         \/ pc[p] = "deck" /\ pc'[p] = "wantT" /\ AnnounceTakeOff(p)
         \/ pc[p] = "goT" /\ pc'[p] = "takeoff" /\ LeaveTakeOffQueue(p)
         \/ pc[p] = "sleepL" /\ pc'[p] = "wokenL" /\ Spurious(p)
         \/ pc[p] = "sleepT" /\ pc'[p] = "wokenT" /\ Spurious(p)
      /\ pc' \in [Planes -> Places] /\ OthersAsleep(p)
      /\ landingstrip' = landingstrip /\ planes_on_board' = planes_on_board
  BY Moved DEF Places, OnDeck, InAir, AnnounceLanding, LeaveLandingQueue, AnnounceTakeOff,
     LeaveTakeOffQueue, Spurious, counters
<1>2. Types'
  BY <1>1 DEF Types
<1>3. RunwayHeld'
  BY <1>1 DEF RunwayHeld, Holds, OthersAsleep
<1>4. CountersAgree'
  BY <1>1, Counted, Bounds DEF In, OnDeck, InAir, QueueL, QueueT, AnnounceLanding,
     LeaveLandingQueue, AnnounceTakeOff, LeaveTakeOffQueue, Spurious, counters
<1>5. Room'
  BY <1>1 DEF Room, OthersAsleep
<1> QED
  BY <1>2, <1>3, <1>4, <1>5

LEMMA LockStep ==
  ASSUME IInv, NEW p \in Planes,
         LockToLand(p) \/ RelockToLand(p) \/ LockToTakeOff(p) \/ RelockToTakeOff(p)
  PROVE  IInv'
<1> USE DEF IInv
<1>1. /\ \/ pc[p] \in {"wantL", "wokenL"} /\ pc'[p] = "checkL"
         \/ pc[p] \in {"wantT", "wokenT"} /\ pc'[p] = "checkT"
      /\ pc' \in [Planes -> Places] /\ OthersAsleep(p)
      /\ landingstrip = Nobody /\ landingstrip' = p /\ UNCHANGED counters
  BY Moved DEF Places, OnDeck, InAir, LockToLand, RelockToLand, LockToTakeOff,
     RelockToTakeOff, Lock
<1>2. Types'
  BY <1>1 DEF Types
<1>3. RunwayHeld'
  BY <1>1, DeckAssumption DEF RunwayHeld, Holds, OthersAsleep
<1>4. CountersAgree'
  BY <1>1, Counted, Bounds DEF In, OnDeck, InAir, QueueL, QueueT, counters
<1>5. Room'
  BY <1>1 DEF Room, OthersAsleep, counters
<1> QED
  BY <1>2, <1>3, <1>4, <1>5

LEMMA CheckStep ==
  ASSUME IInv, NEW p \in Planes, CheckLanding(p) \/ CheckTakeOff(p)
  PROVE  IInv'
<1> USE DEF IInv
<1>1. /\ \/ /\ pc[p] = "checkL" /\ pc'[p] = "sleepL" /\ landingstrip' = Nobody
         \/ /\ pc[p] = "checkL" /\ pc'[p] = "goL" /\ landingstrip' = landingstrip
            /\ planes_on_board # N
         \/ /\ pc[p] = "checkT" /\ pc'[p] = "sleepT" /\ landingstrip' = Nobody
         \/ /\ pc[p] = "checkT" /\ pc'[p] = "goT" /\ landingstrip' = landingstrip
      /\ pc' \in [Planes -> Places] /\ OthersAsleep(p)
      /\ UNCHANGED counters
  BY Moved DEF Places, OnDeck, InAir, CheckLanding, CheckTakeOff, MustNotLand
<1>2. Types'
  BY <1>1 DEF Types
<1>3. RunwayHeld'
  BY <1>1, DeckAssumption DEF Types, RunwayHeld, Holds, OthersAsleep
<1>4. CountersAgree'
  BY <1>1, Counted, Bounds DEF In, OnDeck, InAir, QueueL, QueueT, counters
<1>5. Room'
  BY <1>1, Bounds, DeckAssumption DEF Room, OthersAsleep, counters
<1> QED
  BY <1>2, <1>3, <1>4, <1>5

LEMMA DeckStep ==
  ASSUME IInv, NEW p \in Planes, Land(p) \/ TakeOff(p)
  PROVE  IInv'
<1> USE DEF IInv
<1>1. /\ \/ /\ pc[p] = "land" /\ pc'[p] = "deck"
            /\ planes_on_board' = planes_on_board + 1
         \/ /\ pc[p] = "takeoff" /\ pc'[p] = "air"
            /\ planes_on_board' = planes_on_board - 1
      /\ pc' \in [Planes -> Places] /\ OthersAsleep(p)
      /\ landingstrip' = Nobody
      /\ UNCHANGED <<waiting_to_land, waiting_to_takeoff>>
  <2>1. CASE Land(p)
    <3>1. "deck" \in Places
      BY DEF Places, OnDeck
    <3>2. pc'[p] = "deck" /\ pc' \in [Planes -> Places] /\ OthersAsleep(p)
      BY <2>1, <3>1, Signalled DEF Land
    <3> QED
      BY <2>1, <3>2 DEF Land
  <2>2. CASE TakeOff(p)
    <3>1. "air" \in Places
      BY DEF Places, InAir
    <3>2. pc'[p] = "air" /\ pc' \in [Planes -> Places] /\ OthersAsleep(p)
      BY <2>2, <3>1, Signalled DEF TakeOff
    <3> QED
      BY <2>2, <3>2 DEF TakeOff
  <2> QED
    BY <2>1, <2>2
<1>2. Types'
  BY <1>1 DEF Types
<1>3. Holds(p) /\ landingstrip = p
  BY <1>1 DEF RunwayHeld, Holds
<1>4. RunwayHeld'
  BY <1>1, <1>3, DeckAssumption DEF RunwayHeld, Holds, OthersAsleep
<1>5. CountersAgree'
  BY <1>1, Counted, Bounds DEF In, OnDeck, InAir, QueueL, QueueT
<1>6. Room'
  <2>1. \A q \in Planes : ~Holds(q)'
    BY <1>1, <1>4, DeckAssumption DEF RunwayHeld
  <2>2. planes_on_board' <= N
    BY <1>1, Bounds, DeckAssumption DEF Room
  <2> QED
    BY <2>1, <2>2 DEF Room, Holds
<1> QED
  BY <1>2, <1>4, <1>5, <1>6

LEMMA Stutter ==
  ASSUME IInv, UNCHANGED vars
  PROVE  IInv'
BY DEF IInv, Types, RunwayHeld, Holds, CountersAgree, Room, vars

---------------------------------------------------------------------------

\* The invariant of the carrier, for all planes, N and K.
THEOREM Invariance == Spec => []IInv
<1>1. IInv /\ [Next]_vars => IInv'
  BY FreeStep, LockStep, CheckStep, DeckStep, Stutter DEF Next, plane
<1> QED
  BY <1>1, InitIInv, PTL DEF Spec

\* The deck never holds more than N planes nor fewer than none, whatever the
\* planes, N and K are and whoever wins the race for the runway.
THEOREM Capacity == Spec => []DeckHolds
<1>1. IInv => DeckHolds
  BY Bounds, DeckAssumption DEF IInv, Room, DeckHolds
<1> QED
  BY <1>1, Invariance, PTL

\* planes_on_board, waiting_to_land and waiting_to_takeoff always equal the
\* numbers of planes they stand for.
THEOREM Counters == Spec => []CountersAgree
<1>1. IInv => CountersAgree
  BY DEF IInv
<1> QED
  BY <1>1, Invariance, PTL

\* Every variable has its type; the waiting counters are bounded by the number
\* of planes.
THEOREM TypeCorrect == Spec => []TypeOK
<1>1. IInv => TypeOK
  BY Bounds DEF IInv, Types, Places, TypeOK
<1> QED
  BY <1>1, Invariance, PTL

---------------------------------------------------------------------------

\* On the way to a take-off, or to a landing, and going to signal after it.
AwakeT == {"wokenT", "checkT", "goT", "takeoff"}
AwakeL == {"wokenL", "checkL", "goL", "land"}

\* While a plane sleeps on the deck there are at most K planes, with K somebody
\* is on the way to take off, and nobody lands who would make it more.
DeckAttended ==
  (\E p \in Planes : pc[p] = "sleepT") =>
    /\ planes_on_board <= K
    /\ planes_on_board = K => \E q \in Planes : pc[q] \in AwakeT
    /\ \A q \in Planes : pc[q] \in {"goL", "land"} => planes_on_board < K

\* While one sleeps in the air there are at least K - 1.
AirAttended ==
  (\E p \in Planes : pc[p] = "sleepL") =>
    /\ planes_on_board >= K - 1
    /\ planes_on_board = K - 1 => \E q \in Planes : pc[q] \in AwakeL
    /\ \A q \in Planes : pc[q] \in {"goT", "takeoff"} => planes_on_board >= K

Attended == DeckAttended /\ AirAttended

\* Sleepers are counted as waiting.
LEMMA SleepersWait ==
  ASSUME CountersAgree
  PROVE  /\ (\E p \in Planes : pc[p] = "sleepT") => waiting_to_takeoff > 0
         /\ (\E p \in Planes : pc[p] = "sleepL") => waiting_to_land > 0
<1>1. IsFiniteSet(Planes)
  BY DeckAssumption
<1>2. ASSUME NEW p \in Planes, pc[p] = "sleepT"
      PROVE  waiting_to_takeoff > 0
  <2>1. pc[p] \in QueueT
    BY <1>2 DEF QueueT, OnDeck
  <2>2. Count(Planes, pc, QueueT) > 0
    BY <1>1, <2>1, CountPositive
  <2> QED
    BY <2>2 DEF CountersAgree, Count, QueueT
<1>3. ASSUME NEW p \in Planes, pc[p] = "sleepL"
      PROVE  waiting_to_land > 0
  <2>1. pc[p] \in QueueL
    BY <1>3 DEF QueueL, InAir
  <2>2. Count(Planes, pc, QueueL) > 0
    BY <1>1, <2>1, CountPositive
  <2> QED
    BY <2>2 DEF CountersAgree, Count, QueueL
<1> QED
  BY <1>2, <1>3

\* A step of plane p at which nobody falls asleep or passes a test, and the
\* number of planes on board stays.
LEMMA AttendedQuiet ==
  ASSUME Attended, NEW p \in Planes, OthersAsleep(p), planes_on_board' = planes_on_board,
         \/ pc[p] = "air" /\ pc'[p] = "wantL"
         \/ pc[p] = "goL" /\ pc'[p] = "land"
         \/ pc[p] = "deck" /\ pc'[p] = "wantT"
         \/ pc[p] = "goT" /\ pc'[p] = "takeoff"
         \/ pc[p] \in {"sleepL", "wantL"} /\ pc'[p] \in {"wokenL", "checkL"}
         \/ pc[p] \in {"sleepT", "wantT"} /\ pc'[p] \in {"wokenT", "checkT"}
         \/ pc[p] = "wokenL" /\ pc'[p] = "checkL"
         \/ pc[p] = "wokenT" /\ pc'[p] = "checkT"
  PROVE  Attended'
<1>1. \A S \in {AwakeT, AwakeL} : \A q \in Planes : pc[q] \in S => pc'[q] \in S
  BY DEF OthersAsleep, AwakeT, AwakeL
<1>2. \A s \in {"sleepT", "sleepL"} : \A q \in Planes : pc'[q] = s => pc[q] = s
  BY DEF OthersAsleep
<1>3. \A q \in Planes :
        /\ pc'[q] \in {"goL", "land"} => pc[q] \in {"goL", "land"}
        /\ pc'[q] \in {"goT", "takeoff"} => pc[q] \in {"goT", "takeoff"}
  BY DEF OthersAsleep
<1>4. DeckAttended'
  BY <1>1, <1>2, <1>3 DEF Attended, DeckAttended
<1>5. AirAttended'
  BY <1>1, <1>2, <1>3 DEF Attended, AirAttended
<1> QED
  BY <1>4, <1>5 DEF Attended

LEMMA AttendedCheck ==
  ASSUME K <= N, IInv, IInv', Attended, NEW p \in Planes, CheckLanding(p) \/ CheckTakeOff(p)
  PROVE  Attended'
<1>1. /\ planes_on_board \in Int /\ K \in Int /\ N \in Int
      /\ waiting_to_land \in Int /\ waiting_to_takeoff \in Int
  BY Bounds, DeckAssumption DEF IInv
<1>2. /\ pc' \in [Planes -> Places]
      /\ \A q \in Planes \ {p} : pc'[q] = pc[q]
      /\ planes_on_board' = planes_on_board
      /\ \/ pc[p] = "checkL" /\ pc'[p] = "sleepL" /\ MustNotLand
         \/ pc[p] = "checkL" /\ pc'[p] = "goL" /\ ~MustNotLand
         \/ pc[p] = "checkT" /\ pc'[p] = "sleepT" /\ MustNotTakeOff
         \/ pc[p] = "checkT" /\ pc'[p] = "goT" /\ ~MustNotTakeOff
  BY DEF IInv, Types, Places, OnDeck, InAir, CheckLanding, CheckTakeOff, At, counters
<1>3. \A q \in Planes \ {p} :
        /\ pc[q] \notin {"goL", "land", "goT", "takeoff"}
        /\ pc'[q] \notin {"goL", "land", "goT", "takeoff"}
  BY <1>2 DEF IInv, RunwayHeld, Holds
<1>4. DeckAttended'
  <2>1. CASE pc[p] = "checkL"
    BY <1>1, <1>2, <1>3, <2>1, SleepersWait DEF IInv, Attended, DeckAttended, MustNotLand, AwakeT
  <2>2. CASE pc[p] = "checkT"
    BY <1>1, <1>2, <1>3, <2>2 DEF IInv, Attended, DeckAttended, MustNotTakeOff, AwakeT
  <2> QED
    BY <1>2, <2>1, <2>2
<1>5. AirAttended'
  <2>1. CASE pc[p] = "checkL"
    BY <1>1, <1>2, <1>3, <2>1 DEF IInv, Attended, AirAttended, MustNotLand, AwakeL
  <2>2. CASE pc[p] = "checkT"
    BY <1>1, <1>2, <1>3, <2>2, SleepersWait DEF IInv, Attended, AirAttended, MustNotTakeOff, AwakeL
  <2> QED
    BY <1>2, <2>1, <2>2
<1> QED
  BY <1>4, <1>5 DEF Attended

\* A signal wakes one sleeper, if there is one, and nobody else.
LEMMA Woken ==
  ASSUME Types, NEW p \in Planes, NEW to \in Places, NEW sleep, NEW woken,
         <<sleep, woken>> \in {<<"sleepL", "wokenL">>, <<"sleepT", "wokenT">>},
         to # sleep,
         Signal([pc EXCEPT ![p] = to], sleep, woken)
  PROVE  (\E q \in Planes : pc'[q] = sleep) => \E q \in Planes : pc'[q] = woken
<1> DEFINE pcs == [pc EXCEPT ![p] = to]
<1>1. pcs \in [Planes -> Places]
  BY DEF Types
<1>2. \/ {q \in Planes : pcs[q] = sleep} = {} /\ pc' = pcs
      \/ \E q \in Planes : pc' = [pcs EXCEPT ![q] = woken]
  <2> HIDE DEF pcs
  <2> QED
    BY DEF Signal, pcs
<1> HIDE DEF pcs
<1> QED
  BY <1>1, <1>2

LEMMA AttendedDeck ==
  ASSUME K <= N, IInv, IInv', Attended, NEW p \in Planes, Land(p) \/ TakeOff(p)
  PROVE  Attended'
<1>1. planes_on_board \in Int /\ K \in Int
  BY Bounds, DeckAssumption DEF IInv
<1>2. \/ /\ pc[p] = "land" /\ pc'[p] = "deck" /\ OthersAsleep(p)
         /\ planes_on_board' = planes_on_board + 1
         /\ (\E q \in Planes : pc'[q] = "sleepT") => \E q \in Planes : pc'[q] = "wokenT"
      \/ /\ pc[p] = "takeoff" /\ pc'[p] = "air" /\ OthersAsleep(p)
         /\ planes_on_board' = planes_on_board - 1
         /\ (\E q \in Planes : pc'[q] = "sleepL") => \E q \in Planes : pc'[q] = "wokenL"
  <2>1. "deck" \in Places /\ "air" \in Places
    BY DEF Places, OnDeck, InAir
  <2>2. CASE Land(p)
    BY <2>1, <2>2, Signalled, Woken DEF Land, IInv
  <2>3. CASE TakeOff(p)
    BY <2>1, <2>3, Signalled, Woken DEF TakeOff, IInv
  <2> QED
    BY <2>2, <2>3
<1>3. \A q \in Planes : pc'[q] \notin {"goL", "land", "goT", "takeoff"}
  <2>1. landingstrip' = Nobody
    BY DEF Land, TakeOff
  <2> QED
    BY <2>1, DeckAssumption DEF IInv, RunwayHeld, Holds
<1>4. \A s \in {"sleepT", "sleepL"} : \A q \in Planes : pc'[q] = s => pc[q] = s
  BY <1>2 DEF OthersAsleep
<1>5. DeckAttended'
  BY <1>1, <1>2, <1>3, <1>4 DEF Attended, DeckAttended, AwakeT
<1>6. AirAttended'
  BY <1>1, <1>2, <1>3, <1>4 DEF Attended, AirAttended, AwakeL
<1> QED
  BY <1>5, <1>6 DEF Attended

LEMMA AttendedStep ==
  ASSUME K <= N, IInv, IInv', Attended, [Next]_vars
  PROVE  Attended'
<1>1. CASE UNCHANGED vars
  BY <1>1 DEF vars, Attended, DeckAttended, AirAttended
<1>2. ASSUME NEW p \in Planes,
             \/ AnnounceLanding(p) \/ LeaveLandingQueue(p) \/ AnnounceTakeOff(p)
             \/ LeaveTakeOffQueue(p) \/ Spurious(p) \/ LockToLand(p) \/ RelockToLand(p)
             \/ LockToTakeOff(p) \/ RelockToTakeOff(p)
      PROVE  Attended'
  <2>1. /\ \/ pc[p] = "air" /\ pc'[p] = "wantL"
           \/ pc[p] = "goL" /\ pc'[p] = "land"
           \/ pc[p] = "deck" /\ pc'[p] = "wantT"
           \/ pc[p] = "goT" /\ pc'[p] = "takeoff"
           \/ pc[p] = "sleepL" /\ pc'[p] = "wokenL"
           \/ pc[p] = "sleepT" /\ pc'[p] = "wokenT"
           \/ pc[p] \in {"wantL", "wokenL"} /\ pc'[p] = "checkL"
           \/ pc[p] \in {"wantT", "wokenT"} /\ pc'[p] = "checkT"
        /\ OthersAsleep(p) /\ planes_on_board' = planes_on_board
    BY <1>2, Moved DEF IInv, Places, OnDeck, InAir, AnnounceLanding, LeaveLandingQueue,
       AnnounceTakeOff, LeaveTakeOffQueue, Spurious, LockToLand, RelockToLand,
       LockToTakeOff, RelockToTakeOff, Lock, counters
  <2> QED
    BY <2>1, AttendedQuiet
<1> QED
  BY <1>1, <1>2, AttendedCheck, AttendedDeck DEF Next, plane

\* With a threshold that the deck can reach, the side that has priority is
\* never left asleep, whoever gets the runway and whomever a signal wakes.
THEOREM PriorityAwake ==
  ASSUME K <= N
  PROVE  Spec => []PriorityNotAsleep
<1>1. Init => Attended
  BY DEF Init, Attended, DeckAttended, AirAttended
<1>2. IInv /\ IInv' /\ Attended /\ [Next]_vars => Attended'
  BY AttendedStep
<1>3. IInv /\ Attended => PriorityNotAsleep
  <2>1. ASSUME IInv
        PROVE  planes_on_board \in Int /\ K \in Int
    BY <2>1, Bounds, DeckAssumption DEF IInv
  <2> QED
    BY <2>1 DEF Attended, DeckAttended, AirAttended, PriorityNotAsleep, AwakeT, AwakeL
<1> QED
  BY <1>1, <1>2, <1>3, Invariance, PTL DEF Spec

---------------------------------------------------------------------------
\* Nobody ever waits for everybody.

Asleep(p) == pc[p] \in {"sleepL", "sleepT"}

\* A plane that cannot take its next step: it sleeps, or the runway it needs
\* is another's.
Blocked(p) ==
  \/ Asleep(p)
  \/ landingstrip # Nobody /\ pc[p] \in {"wantL", "wantT", "wokenL", "wokenT"}

SomeoneAwake == \E p \in Planes : ~Asleep(p)

\* The plane that falls asleep last leaves somebody awake.  A plane goes to
\* sleep on the deck because of one that waits to land below K: if that one
\* slept, its side would have an awake one.  A plane goes to sleep in the air
\* from K on, where the deck is not empty: no one on it sleeps without an awake
\* one.
LEMMA LastAwake ==
  ASSUME K <= N, IInv, IInv', PriorityNotAsleep', NEW p \in Planes,
         CheckLanding(p) \/ CheckTakeOff(p)
  PROVE  SomeoneAwake'
<1> SUFFICES ASSUME \A q \in Planes : Asleep(q)'
             PROVE  FALSE
  BY DEF SomeoneAwake
<1>1. /\ planes_on_board \in Nat /\ K \in Nat /\ N \in Nat \ {0}
      /\ waiting_to_land \in Nat /\ waiting_to_takeoff \in Nat
  BY Bounds, DeckAssumption, FS_CardinalityType DEF IInv
<1>2. /\ UNCHANGED counters
      /\ \/ pc[p] = "checkL" /\ pc'[p] = "sleepL" /\ MustNotLand
         \/ pc[p] = "checkT" /\ pc'[p] = "sleepT" /\ MustNotTakeOff
  BY DEF IInv, Types, Asleep, CheckLanding, CheckTakeOff, At
<1>3. \A q \in Planes : pc'[q] \in {"sleepL", "sleepT"}
  BY DEF Asleep
<1>4. IsFiniteSet(Planes)
  BY DeckAssumption
<1>5. /\ planes_on_board' = Count(Planes, pc', OnDeck)
      /\ waiting_to_land' = Count(Planes, pc', QueueL)
  BY DEF IInv, CountersAgree, Count, QueueL
<1>6. CASE MustNotTakeOff
  <2>1. PICK q \in Planes : pc'[q] \in QueueL
    BY <1>1, <1>2, <1>4, <1>5, <1>6, CountPositive DEF MustNotTakeOff, counters
  <2>2. pc'[q] = "sleepL"
    BY <1>3, <2>1 DEF QueueL, InAir
  <2> QED
    BY <1>2, <1>3, <1>6, <2>2 DEF PriorityNotAsleep, MustNotTakeOff, counters
<1>7. CASE pc'[p] = "sleepL" /\ MustNotLand
  <2>1. planes_on_board >= K /\ planes_on_board' = planes_on_board
    BY <1>1, <1>2, <1>7 DEF MustNotLand, counters
  <2>2. \A q \in Planes : pc'[q] = "sleepL"
    BY <1>1, <1>3, <2>1 DEF PriorityNotAsleep
  <2>3. \A q \in Planes : pc'[q] \notin OnDeck
    BY <2>2 DEF OnDeck
  <2>4. planes_on_board = 0 /\ waiting_to_takeoff = 0
    <3>1. waiting_to_takeoff' = Count(Planes, pc', QueueT)
      BY DEF IInv, CountersAgree, Count, QueueT
    <3>2. \A q \in Planes : pc'[q] \notin QueueT
      BY <2>3 DEF QueueT
    <3> QED
      BY <1>1, <1>2, <1>4, <1>5, <2>3, <3>1, <3>2, CountPositive DEF counters
  <2> QED
    BY <1>1, <1>7, <2>4 DEF MustNotLand
<1> QED
  BY <1>2, <1>6, <1>7

LEMMA AwakeStep ==
  ASSUME K <= N, IInv, IInv', PriorityNotAsleep', SomeoneAwake, [Next]_vars
  PROVE  SomeoneAwake'
<1>1. CASE UNCHANGED vars
  BY <1>1 DEF vars, SomeoneAwake, Asleep
<1>2. ASSUME NEW p \in Planes, plane(p) \/ Spurious(p),
             ~CheckLanding(p), ~CheckTakeOff(p)
      PROVE  SomeoneAwake'
  <2>1. pc'[p] \notin {"sleepL", "sleepT"}
    <3>1. "deck" \in Places /\ "air" \in Places
      BY DEF Places, OnDeck, InAir
    <3>2. CASE Land(p)
      BY <3>1, <3>2, Signalled DEF Land, IInv
    <3>3. CASE TakeOff(p)
      BY <3>1, <3>3, Signalled DEF TakeOff, IInv
    <3>4. CASE ~Land(p) /\ ~TakeOff(p)
      BY <1>2, <3>4 DEF plane, IInv, Types, At, Lock, AnnounceLanding, LockToLand,
         RelockToLand, LeaveLandingQueue, AnnounceTakeOff, LockToTakeOff, RelockToTakeOff,
         LeaveTakeOffQueue, Spurious
    <3> QED
      BY <3>2, <3>3, <3>4
  <2> QED
    BY <2>1 DEF SomeoneAwake, Asleep
<1> QED
  BY <1>1, <1>2, LastAwake DEF Next, plane

\* For any number of planes and a threshold that the deck can reach, some plane
\* can always go on: two conditions, each signalled for one plane at a time,
\* and the runway never have all of them wait.
THEOREM NeverStuck ==
  ASSUME K <= N, Planes # {}
  PROVE  Spec => [](\E p \in Planes : ~Blocked(p))
<1>1. Init => SomeoneAwake
  BY DEF Init, SomeoneAwake, Asleep
<1>2. IInv /\ IInv' /\ PriorityNotAsleep' /\ SomeoneAwake /\ [Next]_vars => SomeoneAwake'
  BY AwakeStep
<1>3. ASSUME IInv, SomeoneAwake
      PROVE  \E p \in Planes : ~Blocked(p)
  <2>1. CASE landingstrip = Nobody
    BY <1>3, <2>1 DEF SomeoneAwake, Blocked
  <2>2. CASE landingstrip \in Planes
    <3>1. Holds(landingstrip)
      BY <1>3, <2>2 DEF IInv, RunwayHeld
    <3> QED
      BY <2>2, <3>1 DEF Holds, Blocked, Asleep
  <2> QED
    BY <1>3, <2>1, <2>2 DEF IInv, Types
<1>4. Spec => []PriorityNotAsleep
  BY PriorityAwake
<1> QED
  BY <1>1, <1>2, <1>3, <1>4, Invariance, PTL DEF Spec

---------------------------------------------------------------------------
\* The list of people.

\* Every set of numbers has a least one: what is said of all numbers is proved
\* by looking at the first for which it might fail.
LEMMA Least ==
  ASSUME NEW S \in SUBSET Nat, S # {}
  PROVE  \E m \in S : \A x \in S : m <= x
<1>1. PICK k \in S : TRUE
  OBVIOUS
<1> DEFINE I == {1 .. n : n \in S \cap (0 .. k)}
<1>2. PICK x \in I : \A y \in I : ~ (<<y, x>> \in StrictSubsetOrdering(1 .. k))
  <2>1. IsWellFoundedOn(StrictSubsetOrdering(1 .. k), FiniteSubsetsOf(1 .. k))
    BY FS_StrictSubsetOrderingWellFounded
  <2>2. IsFiniteSet(1 .. k)
    BY <1>1, FS_Interval
  <2>3. FiniteSubsetsOf(1 .. k) = SUBSET (1 .. k)
    BY <2>2, FS_FiniteSubsetsOfFinite
  <2>4. I \subseteq SUBSET (1 .. k) /\ 1 .. k \in I
    BY <1>1
  <2> HIDE DEF I
  <2>5. I # {} /\ I \subseteq FiniteSubsetsOf(1 .. k)
    BY <2>3, <2>4
  <2> QED
    BY <2>1, <2>5, WFMin
<1>3. PICK m \in S \cap (0 .. k) : x = 1 .. m
  OBVIOUS
<1>4. ASSUME NEW n \in S, n < m
      PROVE  FALSE
  <2>1. n \in S \cap (0 .. k) /\ 1 .. n \in I
    BY <1>3, <1>4
  <2>2. m \in 1 .. m /\ m \notin 1 .. n /\ 1 .. n \subseteq 1 .. m
    BY <1>3, <1>4
  <2>3. <<1 .. n, 1 .. m>> \in StrictSubsetOrdering(1 .. k)
    BY <2>2, <1>3 DEF StrictSubsetOrdering
  <2> QED
    BY <2>1, <2>3, <1>2, <1>3
<1> QED
  BY <1>3, <1>4

---------------------------------------------------------------------------
\* What a walk along links returns.

\* The entry of s at i, or the pointer beyond its ends.
Nth(s, i) == IF i \in 1 .. Len(s) THEN s[i] ELSE NULL

\* The nodes of s, one after another along link, and h points to the first.
Linked(link, h, s) == h = Nth(s, 1) /\ \A i \in 1 .. Len(s) : link[s[i]] = Nth(s, i + 1)

Walk(link, f, p, steps) == IF steps = 0 \/ p = NULL THEN <<>> ELSE <<p>> \o f[steps - 1][link[p]]

Walks(link, f, last) == f = [steps \in 0 .. last |-> [p \in Pointers |-> Walk(link, f, p, steps)]]

LEMMA WalksAt ==
  ASSUME NEW link, NEW last \in Nat, NEW f, Walks(link, f, last)
  PROVE  \A steps \in 0 .. last : \A p \in Pointers : f[steps][p] = Walk(link, f, p, steps)
<1>1. \A steps \in 0 .. last : f[steps] = [p \in Pointers |-> Walk(link, f, p, steps)]
  BY Zenon DEF Walks
<1> QED
  BY <1>1, Zenon

LEMMA WalksExist ==
  ASSUME NEW link, NEW last \in Nat
  PROVE  \E f : Walks(link, f, last)
<1> DEFINE S == {m \in Nat : ~ \E f : Walks(link, f, m)}
<1> SUFFICES ASSUME S # {}
             PROVE  FALSE
  OBVIOUS
<1>1. PICK m \in S : \A x \in S : m <= x
  BY Least
<1>2. CASE m = 0
  <2> DEFINE f == [steps \in 0 .. 0 |-> [p \in Pointers |-> <<>>]]
  <2>1. Walks(link, f, 0)
    BY DEF Walks, Walk
  <2> QED
    BY <1>2, <2>1
<1>3. CASE m > 0
  <2>1. m - 1 \in Nat /\ m - 1 \notin S
    BY <1>1, <1>3
  <2>2. PICK f : Walks(link, f, m - 1)
    BY <2>1
  <2> DEFINE g == [steps \in 0 .. m |->
                     [p \in Pointers |-> IF steps = 0 \/ p = NULL THEN <<>>
                                       ELSE <<p>> \o f[steps - 1][link[p]]]]
  <2>4. ASSUME NEW x \in 0 .. m - 1
        PROVE  g[x] = f[x]
    <3>1. x \in 0 .. m
      BY <1>1
    <3>2. g[x] = [p \in Pointers |-> Walk(link, f, p, x)]
      BY <3>1, Zenon DEF Walk
    <3>3. f[x] = [p \in Pointers |-> Walk(link, f, p, x)]
      BY <2>2, Zenon DEF Walks
    <3> QED
      BY <3>2, <3>3
  <2>5. ASSUME NEW x \in 1 .. m
        PROVE  g[x - 1] = f[x - 1]
    <3>1. x - 1 \in 0 .. m - 1
      BY <1>1
    <3> QED
      BY <2>4, <3>1
  <2>6. \A x \in 0 .. m : x = 0 \/ x \in 1 .. m
    OBVIOUS
  <2> HIDE DEF g
  <2>7. Walks(link, g, m)
    <3>1. \A x \in 0 .. m : [p \in Pointers |-> Walk(link, g, p, x)]
                              = [p \in Pointers |-> IF x = 0 \/ p = NULL THEN <<>>
                                                  ELSE <<p>> \o f[x - 1][link[p]]]
      BY <2>5, <2>6 DEF Walk
    <3> QED
      BY <3>1 DEF Walks, g
  <2> QED
    BY <2>7
<1> QED
  BY <1>1, <1>2, <1>3

LEMMA AlongIs ==
  ASSUME NEW link, NEW h
  PROVE  \E f : Walks(link, f, MaxNodes) /\ Along(link, h) = f[MaxNodes][h]
<1> DEFINE f == CHOOSE f : Walks(link, f, MaxNodes)
<1>1. Walks(link, f, MaxNodes)
  BY WalksExist, ListAssumption, Zenon
<1>2. Along(link, h) = f[MaxNodes][h]
  BY DEF Along, Walks, Walk
<1> QED
  BY <1>1, <1>2

LEMMA SuffixIs ==
  ASSUME NEW s \in Seq(Nodes), NEW a \in 1 .. Len(s)
  PROVE  <<s[a]>> \o SubSeq(s, a + 1, Len(s)) = SubSeq(s, a, Len(s))
<1> DEFINE rest  == SubSeq(s, a + 1, Len(s))
           whole == SubSeq(s, a, Len(s))
           built == <<s[a]>> \o rest
<1>1. Len(s) \in Nat /\ s[a] \in Nodes
  OBVIOUS
<1>2. rest \in Seq(Nodes) /\ Len(rest) = Len(s) - a
      /\ \A i \in 1 .. Len(s) - a : rest[i] = s[a + i]
  BY <1>1
<1>3. whole \in Seq(Nodes) /\ Len(whole) = Len(s) - a + 1
      /\ \A i \in 1 .. Len(s) - a + 1 : whole[i] = s[a + i - 1]
  BY <1>1
<1> HIDE DEF rest, whole
<1>4. built \in Seq(Nodes) /\ Len(built) = Len(s) - a + 1 /\ built[1] = s[a]
      /\ \A i \in 2 .. Len(s) - a + 1 : built[i] = rest[i - 1]
  <2>1. rest \in Seq(Nodes) /\ <<s[a]>> \in Seq(Nodes)
        /\ Len(<<s[a]>>) = 1 /\ <<s[a]>>[1] = s[a]
    BY <1>1, <1>2
  <2>2. built \in Seq(Nodes) /\ Len(built) = 1 + Len(rest) /\ built[1] = s[a]
    BY <2>1
  <2>3. \A i \in 2 .. Len(rest) + 1 : built[i] = rest[i - 1]
    BY <2>1
  <2>4. 2 .. Len(rest) + 1 = 2 .. Len(s) - a + 1 /\ 1 + Len(rest) = Len(s) - a + 1
    BY <1>1, <1>2
  <2> QED
    BY <2>2, <2>3, <2>4
<1>5. \A i \in 2 .. Len(s) - a + 1 : i - 1 \in 1 .. Len(s) - a /\ a + (i - 1) = a + i - 1
  BY <1>1
<1> HIDE DEF built
<1>6. \A i \in 1 .. Len(s) - a + 1 : built[i] = whole[i]
  <2> TAKE i \in 1 .. Len(s) - a + 1
  <2>1. CASE i = 1
    BY <1>1, <1>3, <1>4, <2>1
  <2>2. CASE i # 1
    <3>1. i \in 2 .. Len(s) - a + 1
      BY <2>2
    <3>2. built[i] = rest[i - 1] /\ rest[i - 1] = s[a + (i - 1)]
      BY <1>2, <1>4, <1>5, <3>1
    <3> QED
      BY <1>3, <1>5, <3>1, <3>2
  <2> QED
    BY <2>1, <2>2
<1>7. built = whole
  BY <1>3, <1>4, <1>6, SeqEqual
<1> QED
  BY <1>7 DEF built, whole, rest

\* Whatever nodes are linked, a walk that is long enough returns them.
LEMMA ChainIs ==
  ASSUME NEW link, NEW h, NEW s \in Seq(Nodes), Len(s) <= MaxNodes, Linked(link, h, s)
  PROVE  Along(link, h) = s
<1> USE ListAssumption
<1>1. PICK f : Walks(link, f, MaxNodes) /\ Along(link, h) = f[MaxNodes][h]
  BY AlongIs
<1>2. \A steps \in 0 .. MaxNodes : \A p \in Pointers : f[steps][p] = Walk(link, f, p, steps)
  BY <1>1, WalksAt
<1> DEFINE From(j) == SubSeq(s, Len(s) - j + 1, Len(s))
           S == {j \in 0 .. Len(s) : \E steps \in j .. MaxNodes :
                                       f[steps][Nth(s, Len(s) - j + 1)] # From(j)}
<1>3. S = {}
  <2> SUFFICES ASSUME S # {}
               PROVE  FALSE
    OBVIOUS
  <2> HIDE DEF From
  <2>0. S \in SUBSET Nat
    OBVIOUS
  <2> HIDE DEF S
  <2>1. PICK j \in S : \A x \in S : j <= x
    BY <2>0, Least
  <2> USE DEF S
  <2>2. PICK steps \in j .. MaxNodes : f[steps][Nth(s, Len(s) - j + 1)] # From(j)
    BY <2>1
  <2>3. j \in 0 .. Len(s) /\ steps \in 0 .. MaxNodes
    BY <2>1, <2>2
  <2>4. CASE j = 0
    <3>1. Nth(s, Len(s) - j + 1) = NULL /\ NULL \in Pointers
      BY <2>4 DEF Nth, Pointers
    <3>2. f[steps][NULL] = <<>>
      BY <1>2, <2>3, <3>1 DEF Walk
    <3>3. From(j) = <<>>
      BY <2>4 DEF From
    <3> QED
      BY <2>2, <3>1, <3>2, <3>3
  <2>5. CASE j > 0
    <3> DEFINE a == Len(s) - j + 1
    <3>0. Len(s) \in Nat
      OBVIOUS
    <3>1. a \in 1 .. Len(s) /\ j - 1 \in 0 .. Len(s) /\ Len(s) - (j - 1) + 1 = a + 1
          /\ steps - 1 \in j - 1 .. MaxNodes /\ steps # 0
      BY <2>2, <2>3, <2>5, <3>0
    <3>7. j - 1 \notin S
      BY <2>1, <2>3, <2>5
    <3>2. Nth(s, a) = s[a] /\ s[a] \in Nodes /\ s[a] \in Pointers /\ s[a] # NULL
      BY <3>1, SMTT(30) DEF Nth, Pointers, Nodes, NULL
    <3>3. f[steps][s[a]] = <<s[a]>> \o f[steps - 1][link[s[a]]]
      BY <1>2, <2>3, <3>1, <3>2 DEF Walk
    <3>4. link[s[a]] = Nth(s, a + 1)
      BY <3>1 DEF Linked
    <3>5. f[steps - 1][Nth(s, a + 1)] = SubSeq(s, a + 1, Len(s))
      <4>1. f[steps - 1][Nth(s, Len(s) - (j - 1) + 1)] = From(j - 1)
        BY <3>1, <3>7
      <4> QED
        BY <4>1, <3>1 DEF From
    <3>6. <<s[a]>> \o SubSeq(s, a + 1, Len(s)) = SubSeq(s, a, Len(s))
      BY <3>1, SuffixIs
    <3> QED
      BY <2>2, <3>2, <3>3, <3>4, <3>5, <3>6 DEF From
  <2> QED
    BY <2>3, <2>4, <2>5
<1>4. f[MaxNodes][Nth(s, 1)] = From(Len(s))
  <2> HIDE DEF S
  <2>1. Len(s) \in Nat /\ Len(s) \notin S
    BY <1>3
  <2>3. Len(s) \in 0 .. Len(s) /\ MaxNodes \in Len(s) .. MaxNodes
    BY <2>1
  <2> USE DEF S
  <2>2. Len(s) - Len(s) + 1 = 1
    OBVIOUS
  <2> QED
    BY <2>1, <2>2, <2>3
<1>5. From(Len(s)) = s
  OBVIOUS
<1> QED
  BY <1>1, <1>4, <1>5 DEF Linked

---------------------------------------------------------------------------
\* Lists that are linked both ways, and what an operation does to them.

\* No node is in s twice.
NoRepeat(s) == \A i, j \in 1 .. Len(s) : s[i] = s[j] => i = j

\* From h on the nodes of s follow one another along nx, and backwards along pv.
TwoWay(nx, pv, h, s) ==
  /\ s \in Seq(Nodes) /\ NoRepeat(s)
  /\ h = Nth(s, 1)
  /\ \A i \in 1 .. Len(s) : nx[s[i]] = Nth(s, i + 1) /\ pv[s[i]] = Nth(s, i - 1)

\* s without its entry at m.
Without(s, m) == [i \in 1 .. Len(s) - 1 |-> IF i < m THEN s[i] ELSE s[i + 1]]

LEMMA NodeIs == NULL \notin Nodes /\ Nodes \subseteq Pointers /\ IsFiniteSet(Nodes)
                /\ Cardinality(Nodes) = MaxNodes
BY ListAssumption, FS_Interval DEF Nodes, NULL, Pointers

\* There are not more places in a list than nodes.
LEMMA ShortEnough ==
  ASSUME NEW s \in Seq(Nodes), NoRepeat(s)
  PROVE  Len(s) <= MaxNodes
<1>1. s \in Injection(1 .. Len(s), Nodes)
  <2>1. s \in [1 .. Len(s) -> Nodes] /\ DOMAIN s = 1 .. Len(s)
    OBVIOUS
  <2>2. IsInjective(s)
    BY <2>1, Zenon DEF NoRepeat, IsInjective
  <2> QED
    BY <2>1, <2>2, Zenon DEF Injection
<1>2. IsFiniteSet(1 .. Len(s)) /\ Cardinality(1 .. Len(s)) = Len(s)
  <2>1. Len(s) \in Nat
    OBVIOUS
  <2> QED
    BY <2>1, FS_Interval, SMTT(30)
<1>3. Cardinality(1 .. Len(s)) <= Cardinality(Nodes)
  BY <1>1, <1>2, NodeIs, FS_Injection
<1> QED
  BY <1>2, <1>3, NodeIs

LEMMA TwoWayChain ==
  ASSUME NEW nx, NEW pv, NEW h, NEW s, TwoWay(nx, pv, h, s)
  PROVE  Along(nx, h) = s
BY ShortEnough, ChainIs DEF TwoWay, Linked

\* A list whose links have not been touched.
LEMMA Kept ==
  ASSUME NEW nx, NEW pv, NEW h, NEW s, TwoWay(nx, pv, h, s), NEW nx2, NEW pv2,
         \A i \in 1 .. Len(s) : nx2[s[i]] = nx[s[i]] /\ pv2[s[i]] = pv[s[i]]
  PROVE  TwoWay(nx2, pv2, h, s)
BY DEF TwoWay

\* A new node in front.
LEMMA Pushed ==
  ASSUME NEW nx, NEW pv, NEW h, NEW s, TwoWay(nx, pv, h, s), NEW x \in Nodes,
         \A i \in 1 .. Len(s) : s[i] # x, NEW nx2, NEW pv2,
         nx2[x] = h, \A i \in 1 .. Len(s) : nx2[s[i]] = nx[s[i]],
         pv2[x] = NULL, \A i \in 1 .. Len(s) : pv2[s[i]] = IF i = 1 THEN x ELSE pv[s[i]]
  PROVE  TwoWay(nx2, pv2, x, <<x>> \o s)
<1> DEFINE t == <<x>> \o s
<1>1. s \in Seq(Nodes) /\ Len(s) \in Nat
  BY DEF TwoWay
<1>2. t \in Seq(Nodes) /\ Len(t) = Len(s) + 1 /\ t[1] = x /\ \A i \in 1 .. Len(s) : t[i + 1] = s[i]
  BY <1>1
<1> HIDE DEF t
<1>3. \A i \in 2 .. Len(t) : i - 1 \in 1 .. Len(s) /\ t[i] = s[i - 1]
  <2> TAKE i \in 2 .. Len(t)
  <2>1. i - 1 \in 1 .. Len(s) /\ (i - 1) + 1 = i
    BY <1>1, <1>2
  <2> QED
    BY <1>2, <2>1
<1>4. NoRepeat(t)
  <2> SUFFICES ASSUME NEW i \in 1 .. Len(t), NEW j \in 1 .. Len(t), t[i] = t[j]
               PROVE  i = j
    BY DEF NoRepeat
  <2>1. i = 1 \/ i \in 2 .. Len(t)
    BY <1>1, <1>2
  <2>2. j = 1 \/ j \in 2 .. Len(t)
    BY <1>1, <1>2
  <2>3. i = 1 => j = 1
    BY <1>2, <1>3, <2>2
  <2>4. j = 1 => i = 1
    BY <1>2, <1>3, <2>1
  <2>5. CASE i # 1 /\ j # 1
    <3>1. i - 1 \in 1 .. Len(s) /\ j - 1 \in 1 .. Len(s) /\ s[i - 1] = s[j - 1]
      BY <1>3, <2>1, <2>2, <2>5
    <3>2. i - 1 = j - 1
      BY <3>1 DEF TwoWay, NoRepeat
    <3> QED
      BY <3>2
  <2> QED
    BY <2>3, <2>4, <2>5
<1>5. \A i \in 0 .. Len(s) : Nth(t, i + 1) = IF i = 0 THEN x ELSE s[i]
  BY <1>1, <1>2 DEF Nth
<1>6. ASSUME NEW i \in 1 .. Len(t)
      PROVE  nx2[t[i]] = Nth(t, i + 1) /\ pv2[t[i]] = Nth(t, i - 1)
  <2>1. CASE i = 1
    <3>1. Nth(t, 2) = Nth(s, 1) /\ Nth(t, 0) = NULL
      BY <1>1, <1>2 DEF Nth
    <3> QED
      BY <2>1, <3>1, <1>2 DEF TwoWay
  <2>2. CASE i # 1
    <3>1. i - 1 \in 1 .. Len(s) /\ t[i] = s[i - 1] /\ (i - 1) + 1 = i
      BY <1>3, <2>2, <1>1, <1>2
    <3>2. Nth(t, i + 1) = Nth(s, i)
      BY <1>1, <1>2, <3>1 DEF Nth
    <3>3. nx2[t[i]] = Nth(t, i + 1)
      BY <3>1, <3>2 DEF TwoWay
    <3>4. CASE i = 2
      <4>1. Nth(t, i - 1) = x
        BY <1>5, <1>1, <3>4
      <4>2. pv2[t[i]] = x
        BY <3>1, <3>4
      <4> QED
        BY <3>3, <4>1, <4>2
    <3>5. CASE i # 2
      <4>1. Nth(t, i - 1) = Nth(s, (i - 1) - 1) /\ i - 1 # 1
        BY <1>1, <1>2, <1>3, <3>1, <3>5 DEF Nth
      <4> QED
        BY <3>1, <3>3, <4>1 DEF TwoWay
    <3> QED
      BY <3>3, <3>4, <3>5
  <2> QED
    BY <2>1, <2>2
<1>7. Nth(t, 1) = x
  BY <1>1, <1>2 DEF Nth
<1> QED
  BY <1>2, <1>4, <1>6, <1>7 DEF TwoWay, t

\* A new node at the end.
LEMMA Appended ==
  ASSUME NEW nx, NEW pv, NEW h, NEW s, TwoWay(nx, pv, h, s), Len(s) > 0, NEW x \in Nodes,
         \A i \in 1 .. Len(s) : s[i] # x, NEW nx2, NEW pv2,
         nx2[x] = NULL,
         \A i \in 1 .. Len(s) : nx2[s[i]] = IF i = Len(s) THEN x ELSE nx[s[i]],
         pv2[x] = s[Len(s)], \A i \in 1 .. Len(s) : pv2[s[i]] = pv[s[i]]
  PROVE  TwoWay(nx2, pv2, h, Append(s, x))
<1> DEFINE t == Append(s, x)
<1>1. s \in Seq(Nodes) /\ Len(s) \in Nat
  BY DEF TwoWay
<1>2. t \in Seq(Nodes) /\ Len(t) = Len(s) + 1 /\ t[Len(s) + 1] = x
      /\ \A i \in 1 .. Len(s) : t[i] = s[i]
  BY <1>1
<1> HIDE DEF t
<1>3. NoRepeat(t)
  BY <1>1, <1>2 DEF NoRepeat, TwoWay
<1>4. ASSUME NEW i \in 1 .. Len(t)
      PROVE  nx2[t[i]] = Nth(t, i + 1) /\ pv2[t[i]] = Nth(t, i - 1)
  <2>1. CASE i = Len(s) + 1
    BY <1>1, <1>2, <2>1 DEF Nth
  <2>2. CASE i # Len(s) + 1
    <3>1. i \in 1 .. Len(s) /\ t[i] = s[i]
      BY <1>1, <1>2, <2>2
    <3>2. Nth(t, i - 1) = Nth(s, i - 1)
      BY <1>1, <1>2, <3>1 DEF Nth
    <3>3. i # Len(s) => Nth(t, i + 1) = Nth(s, i + 1)
      BY <1>1, <1>2, <3>1 DEF Nth
    <3>4. i = Len(s) => Nth(t, i + 1) = x
      BY <1>1, <1>2 DEF Nth
    <3> QED
      BY <3>1, <3>2, <3>3, <3>4 DEF TwoWay
  <2> QED
    BY <2>1, <2>2
<1>5. Nth(t, 1) = h
  BY <1>1, <1>2 DEF Nth, TwoWay
<1> QED
  BY <1>2, <1>3, <1>4, <1>5 DEF TwoWay, t

\* Its neighbours are linked to each other, as far as the list can tell.
Bypassed(nx, pv, h, s, m, nx2, pv2, h2) ==
  /\ h2 = (IF m = 1 THEN nx[s[m]] ELSE h)
  /\ \A i \in 1 .. Len(s) : i # m => nx2[s[i]] = IF i = m - 1 THEN nx[s[m]] ELSE nx[s[i]]
  /\ \A i \in 1 .. Len(s) : i # m => pv2[s[i]] = IF i = m + 1 THEN pv[s[m]] ELSE pv[s[i]]

\* A node taken out, wherever it is; its own links may go elsewhere.
LEMMA TakenOut ==
  ASSUME NEW nx, NEW pv, NEW h, NEW s, TwoWay(nx, pv, h, s), NEW m \in 1 .. Len(s),
         NEW nx2, NEW pv2, NEW h2, Bypassed(nx, pv, h, s, m, nx2, pv2, h2)
  PROVE  TwoWay(nx2, pv2, h2, Without(s, m))
<1> DEFINE t == Without(s, m)
<1> USE DEF Bypassed
<1>1. s \in Seq(Nodes) /\ Len(s) \in Nat
  BY DEF TwoWay
<1>2. t \in Seq(Nodes) /\ Len(t) = Len(s) - 1
  BY <1>1 DEF Without
<1>3. \A i \in 1 .. Len(s) - 1 : t[i] = IF i < m THEN s[i] ELSE s[i + 1]
  BY <1>1 DEF Without
<1> HIDE DEF t
<1>4. NoRepeat(t)
  <2> SUFFICES ASSUME NEW i \in 1 .. Len(t), NEW j \in 1 .. Len(t), t[i] = t[j]
               PROVE  i = j
    BY DEF NoRepeat
  <2>1. i \in 1 .. Len(s) /\ i + 1 \in 1 .. Len(s) /\ j \in 1 .. Len(s) /\ j + 1 \in 1 .. Len(s)
    BY <1>1, <1>2
  <2>2. \A a, b \in 1 .. Len(s) : s[a] = s[b] => a = b
    BY DEF TwoWay, NoRepeat
  <2> DEFINE Old(a) == IF a < m THEN a ELSE a + 1
  <2>3. t[i] = s[Old(i)] /\ t[j] = s[Old(j)] /\ Old(i) \in 1 .. Len(s) /\ Old(j) \in 1 .. Len(s)
    BY <1>2, <1>3, <2>1
  <2>4. Old(i) = Old(j)
    <3> HIDE DEF Old
    <3>1. s[Old(i)] = s[Old(j)]
      BY <2>3
    <3> QED
      BY <2>2, <2>3, <3>1
  <2> QED
    BY <1>1, <1>2, <2>4
<1>5. \A i \in 0 .. Len(s) : Nth(t, i) = IF i < m THEN Nth(s, i) ELSE Nth(s, i + 1)
  BY <1>1, <1>2, <1>3 DEF Nth
<1>6. ASSUME NEW i \in 1 .. Len(t)
      PROVE  nx2[t[i]] = Nth(t, i + 1) /\ pv2[t[i]] = Nth(t, i - 1)
  <2>0. /\ i \in 1 .. Len(s) - 1 /\ i + 1 \in 0 .. Len(s) /\ i - 1 \in 0 .. Len(s)
        /\ i \in 1 .. Len(s) /\ i + 1 \in 1 .. Len(s)
    BY <1>1, <1>2
  <2>1. CASE i < m
    <3>1. t[i] = s[i] /\ Nth(t, i - 1) = Nth(s, i - 1) /\ pv2[s[i]] = pv[s[i]]
      BY <1>3, <1>5, <2>0, <2>1
    <3>2. CASE i = m - 1
      <4>1. Nth(t, i + 1) = Nth(s, m + 1) /\ nx2[s[i]] = nx[s[m]]
        BY <1>5, <2>0, <3>2
      <4> QED
        BY <2>0, <3>1, <4>1 DEF TwoWay
    <3>3. CASE i # m - 1
      <4>1. Nth(t, i + 1) = Nth(s, i + 1) /\ nx2[s[i]] = nx[s[i]]
        BY <1>5, <2>0, <2>1, <3>3, SMTT(30)
      <4> QED
        BY <2>0, <3>1, <4>1 DEF TwoWay
    <3> QED
      BY <3>2, <3>3
  <2>2. CASE i >= m
    <3>1. t[i] = s[i + 1] /\ Nth(t, i + 1) = Nth(s, (i + 1) + 1) /\ nx2[s[i + 1]] = nx[s[i + 1]]
      BY <1>3, <1>5, <2>0, <2>2
    <3>2. CASE i = m
      <4>1. Nth(t, i - 1) = Nth(s, m - 1) /\ pv2[s[i + 1]] = pv[s[m]]
        BY <1>5, <2>0, <3>2, SMTT(30)
      <4> QED
        BY <2>0, <3>1, <4>1 DEF TwoWay
    <3>3. CASE i # m
      <4>1. i + 1 # m /\ i + 1 # m + 1 /\ ~ (i - 1 < m) /\ (i - 1) + 1 = i /\ (i + 1) - 1 = i
        BY <2>0, <2>2, <3>3, SMTT(30)
      <4>2. Nth(t, i - 1) = Nth(s, i)
        BY <1>5, <2>0, <4>1
      <4>3. pv2[s[i + 1]] = pv[s[i + 1]]
        BY <2>0, <4>1
      <4>4. pv[s[i + 1]] = Nth(s, (i + 1) - 1)
        BY <2>0 DEF TwoWay
      <4>5. nx[s[i + 1]] = Nth(s, (i + 1) + 1)
        BY <2>0 DEF TwoWay
      <4> QED
        BY <3>1, <4>1, <4>2, <4>3, <4>4, <4>5
    <3> QED
      BY <3>2, <3>3
  <2> QED
    BY <2>0, <2>1, <2>2
<1>7. Nth(t, 1) = h2
  BY <1>1, <1>2, <1>3 DEF Nth, TwoWay
<1> QED
  BY <1>2, <1>4, <1>6, <1>7 DEF TwoWay, t

---------------------------------------------------------------------------
\* The invariant: two lists that share no node, the second in order and none
\* of the first before it.

ListTypes ==
  /\ head \in Pointers /\ sorted \in Pointers /\ found \in Pointers
  /\ next \in [Nodes -> Pointers] /\ prev \in [Nodes -> Pointers]
  /\ heap \subseteq Nodes
  /\ key \in [Nodes -> [Fields -> Keys \cup {CHOOSE k \in Keys : TRUE}]]
  /\ \A p \in heap : key[p] \in [Fields -> Keys]
  /\ field \in Fields \cup {NoField} /\ crashed \in BOOLEAN
  /\ field = NoField => sorted = NULL

Members(s) == {s[i] : i \in 1 .. Len(s)}

Shape(C, D) ==
  /\ TwoWay(next, prev, head, C) /\ TwoWay(next, prev, sorted, D)
  /\ Members(C) \subseteq heap /\ Members(D) \subseteq heap
  /\ Members(C) \cap Members(D) = {}

\* While a sort runs.
Ordered(C, D) ==
  field # NoField =>
    /\ \A i, j \in 1 .. Len(D) : i < j => key[D[i]][field] <= key[D[j]][field]
    /\ \A i \in 1 .. Len(C) : \A j \in 1 .. Len(D) : key[C[i]][field] <= key[D[j]][field]

\* C is the caller's list and D the second one, which is empty outside a sort.
ListInv == ListTypes /\ \E C, D : Shape(C, D) /\ Ordered(C, D)

\* The fields of those on the lists, as the roster has them.
Fieldset == [p \in On(head) \cup On(sorted) |-> key[p]]

LEMMA ShapeIs ==
  ASSUME NEW C, NEW D, Shape(C, D)
  PROVE  /\ Chain(head) = C /\ Chain(sorted) = D /\ people = C \o D
         /\ On(head) = Members(C) /\ On(sorted) = Members(D)
         /\ C \in Seq(Nodes) /\ D \in Seq(Nodes)
         /\ Fieldset = [p \in Members(C) \cup Members(D) |-> key[p]]
<1>1. Chain(head) = C /\ Chain(sorted) = D
  BY TwoWayChain DEF Shape, Chain
<1>2. C \in Seq(Nodes) /\ D \in Seq(Nodes)
  BY DEF Shape, TwoWay
<1>3. On(head) = Members(C) /\ On(sorted) = Members(D)
  BY <1>1, <1>2 DEF On, Members
<1> QED
  BY <1>1, <1>2, <1>3 DEF people, Fieldset

\* The same of a state that follows.
LEMMA ShapeIsNext ==
  ASSUME NEW C, NEW D, Shape(C, D)'
  PROVE  /\ people' = C \o D
         /\ C \in Seq(Nodes) /\ D \in Seq(Nodes)
         /\ Fieldset' = [p \in Members(C) \cup Members(D) |-> key'[p]]
<1>1. Chain(head)' = C /\ Chain(sorted)' = D
  BY TwoWayChain DEF Shape, Chain
<1>2. C \in Seq(Nodes) /\ D \in Seq(Nodes)
  BY DEF Shape, TwoWay
<1>3. On(head)' = Members(C) /\ On(sorted)' = Members(D)
  BY <1>1, <1>2 DEF On, Members
<1> QED
  BY <1>1, <1>2, <1>3 DEF people, Fieldset

\* Outside a sort there is no second list.
LEMMA NoSecond ==
  ASSUME ListTypes, NEW C, NEW D, Shape(C, D), field = NoField
  PROVE  D = <<>> /\ sorted = NULL /\ C \o <<>> = C /\ TwoWay(next, prev, NULL, <<>>)
<1>1. sorted = NULL /\ D \in Seq(Nodes) /\ NULL = Nth(D, 1)
  BY DEF ListTypes, Shape, TwoWay
<1>2. D = <<>>
  BY <1>1, NodeIs DEF Nth
<1>3. C \o <<>> = C
  BY DEF Shape, TwoWay
<1> QED
  BY <1>1, <1>2, <1>3 DEF Shape

LEMMA Nothing == \A nx, pv : TwoWay(nx, pv, NULL, <<>>)
BY DEF TwoWay, NoRepeat, Nth

LEMMA InitList == ListInit => ListInv /\ Book!Init
<1> SUFFICES ASSUME ListInit
             PROVE  ListInv /\ Book!Init
  OBVIOUS
<1>1. Shape(<<>>, <<>>) /\ Ordered(<<>>, <<>>)
  BY Nothing DEF ListInit, Shape, Ordered, Members
<1>2. ListTypes
  <2> DEFINE garbage == CHOOSE k \in Keys : TRUE
  <2>1. Blank \in [Fields -> Keys \cup {garbage}]
    BY DEF Blank
  <2> HIDE DEF garbage
  <2>2. key \in [Nodes -> [Fields -> Keys \cup {garbage}]]
    BY <2>1 DEF ListInit
  <2> USE DEF garbage
  <2> QED
    BY <2>2 DEF ListInit, ListTypes, Pointers
<1>3. people = <<>> /\ Fieldset = [p \in {} |-> 0]
  <2>1. Members(<<>>) \cup Members(<<>>) = {} /\ <<>> \o <<>> = <<>>
    BY DEF Members
  <2>2. people = <<>> \o <<>> /\ Fieldset = [p \in Members(<<>>) \cup Members(<<>>) |-> key[p]]
    BY <1>1, ShapeIs
  <2>3. Fieldset = [p \in {} |-> key[p]]
    BY <2>1, <2>2
  <2> QED
    BY <2>1, <2>2, <2>3
<1>4. Book!Init
  BY <1>3 DEF ListInit, Book!Init, Fieldset
<1> QED
  BY <1>1, <1>2, <1>4 DEF ListInv

---------------------------------------------------------------------------
\* Calls: each keeps the invariant, and is a step of the roster.

LEMMA NoMembers == Members(<<>>) = {}
BY DEF Members

LEMMA Bare ==
  ASSUME NEW C, Shape(C, <<>>)
  PROVE  /\ people = C /\ C \in Seq(Nodes) /\ Book!On(C) = Members(C)
         /\ Fieldset = [p \in Members(C) |-> key[p]]
<1>1. C \in Seq(Nodes) /\ people = C \o <<>>
      /\ Fieldset = [p \in Members(C) \cup Members(<<>>) |-> key[p]]
  BY ShapeIs
<1>2. C \o <<>> = C /\ Book!On(C) = Members(C)
  BY <1>1 DEF Members, Book!On
<1> QED
  BY <1>1, <1>2, NoMembers

LEMMA BareNext ==
  ASSUME NEW C, Shape(C, <<>>)'
  PROVE  /\ people' = C /\ C \in Seq(Nodes) /\ Book!On(C) = Members(C)
         /\ Fieldset' = [p \in Members(C) |-> key'[p]]
<1>1. C \in Seq(Nodes) /\ people' = C \o <<>>
      /\ Fieldset' = [p \in Members(C) \cup Members(<<>>) |-> key'[p]]
  BY ShapeIsNext
<1>2. C \o <<>> = C /\ Book!On(C) = Members(C)
  BY <1>1 DEF Members, Book!On
<1> QED
  BY <1>1, <1>2, NoMembers

LEMMA MembersGrow ==
  ASSUME NEW s \in Seq(Nodes), NEW x \in Nodes
  PROVE  Members(<<x>> \o s) = Members(s) \cup {x} /\ Members(Append(s, x)) = Members(s) \cup {x}
<1>1. \A i \in 1 .. Len(s) : (<<x>> \o s)[i + 1] = s[i] /\ Append(s, x)[i] = s[i]
  OBVIOUS
<1>2. Len(s) \in Nat /\ Len(<<x>> \o s) = Len(s) + 1 /\ Len(Append(s, x)) = Len(s) + 1
      /\ (<<x>> \o s)[1] = x /\ Append(s, x)[Len(s) + 1] = x
  OBVIOUS
<1>3. \A i \in 1 .. Len(s) + 1 : i = 1 \/ i - 1 \in 1 .. Len(s)
  BY <1>2
<1>4. \A i \in 2 .. Len(s) + 1 : (<<x>> \o s)[i] = s[i - 1]
  OBVIOUS
<1>5. Members(<<x>> \o s) \subseteq Members(s) \cup {x}
  BY <1>2, <1>3, <1>4 DEF Members
<1>6. Members(s) \cup {x} \subseteq Members(<<x>> \o s)
  <2>1. 1 \in 1 .. Len(s) + 1 /\ \A i \in 1 .. Len(s) : i + 1 \in 1 .. Len(s) + 1
    BY <1>2
  <2>2. \A y \in Members(s) : \E i \in 1 .. Len(s) + 1 : (<<x>> \o s)[i] = y
    BY <1>1, <2>1 DEF Members
  <2> QED
    BY <1>2, <2>1, <2>2 DEF Members
<1>7. Members(Append(s, x)) = Members(s) \cup {x}
  <2>1. \A i \in 1 .. Len(s) + 1 : i = Len(s) + 1 \/ i \in 1 .. Len(s)
    BY <1>2
  <2>2. \A i \in 1 .. Len(s) : i \in 1 .. Len(s) + 1
    BY <1>2
  <2>3. Members(Append(s, x)) \subseteq Members(s) \cup {x}
    BY <1>1, <1>2, <2>1 DEF Members
  <2>4. Len(s) + 1 \in 1 .. Len(s) + 1
    BY <1>2
  <2>5. Members(s) \cup {x} \subseteq Members(Append(s, x))
    BY <1>1, <1>2, <2>2, <2>4 DEF Members
  <2> QED
    BY <2>3, <2>5
<1> QED
  BY <1>5, <1>6, <1>7

\* A new node at one of the ends.
LEMMA BookInsert ==
  ASSUME ListTypes, NEW C, Shape(C, <<>>), field = NoField, ~crashed,
         NEW node \in Nodes, createNode(node),
         NEW C2 \in {<<node>> \o C, Append(C, node)}, Shape(C2, <<>>)',
         found' = NULL, UNCHANGED <<sorted, field, crashed>>
  PROVE  Book!Insert(node)
<1>1. /\ people = C /\ C \in Seq(Nodes) /\ Book!On(C) = Members(C)
      /\ Fieldset = [p \in Members(C) |-> key[p]]
  BY Bare
<1>2. /\ people' = C2 /\ Book!On(C2) = Members(C2) /\ Fieldset' = [p \in Members(C2) |-> key'[p]]
  BY BareNext
<1>3. PICK k \in [Fields -> Keys] : key' = [key EXCEPT ![node] = k]
  BY DEF createNode
<1>4. node \notin Members(C) /\ Members(C) \subseteq Nodes
  BY DEF createNode, Shape, ListTypes
<1>5. Members(C2) = Members(C) \cup {node}
  BY <1>1, MembersGrow
<1>6. Fieldset' = [q \in Members(C2) |-> IF q = node THEN k ELSE Fieldset[q]]
  <2>1. \A q \in Members(C2) : key'[q] = IF q = node THEN k ELSE Fieldset[q]
    BY <1>1, <1>3, <1>4, <1>5 DEF ListTypes
  <2> QED
    BY <1>2, <2>1
<1> QED
  BY <1>1, <1>2, <1>3, <1>4, <1>6 DEF Book!Insert, Book!Idle, Fieldset

\* What createNode does to types.
LEMMA TypesCreate ==
  ASSUME ListTypes, NEW node \in Nodes, createNode(node), head' \in Pointers,
         next' \in [Nodes -> Pointers], prev' \in [Nodes -> Pointers],
         found' = NULL, UNCHANGED <<sorted, field, crashed>>
  PROVE  ListTypes'
<1>1. PICK k \in [Fields -> Keys] : key' = [key EXCEPT ![node] = k]
  BY DEF createNode
<1> DEFINE garbage == CHOOSE k1 \in Keys : TRUE
<1>2. key \in [Nodes -> [Fields -> Keys \cup {garbage}]] /\ k \in [Fields -> Keys \cup {garbage}]
  BY DEF ListTypes
<1> HIDE DEF garbage
<1>3. key' \in [Nodes -> [Fields -> Keys \cup {garbage}]]
  BY <1>1, <1>2
<1>4. \A p \in heap' : key'[p] \in [Fields -> Keys]
  BY <1>1, <1>2 DEF ListTypes, createNode
<1> USE DEF garbage
<1> QED
  BY <1>3, <1>4, NodeIs DEF ListTypes, createNode, Pointers

LEMMA InsertStep ==
  ASSUME ListTypes, NEW C, Shape(C, <<>>), field = NoField, ~crashed, NEW node \in Nodes,
         createList(node) \/ insertAtHead(node) \/ insertAtTail(node),
         found' = NULL, UNCHANGED <<sorted, field, crashed>>
  PROVE  ListInv' /\ (Book!Insert(node))
<1>0. /\ C \in Seq(Nodes) /\ head = Nth(C, 1) /\ Chain(head) = C /\ TwoWay(next, prev, head, C)
      /\ Len(C) \in Nat /\ sorted = NULL
  <2>1. C \in Seq(Nodes) /\ Chain(head) = C
    BY ShapeIs
  <2>2. TwoWay(next, prev, head, C) /\ sorted = NULL
    BY DEF Shape, ListTypes
  <2> QED
    BY <2>1, <2>2 DEF TwoWay
<1>1. createNode(node) /\ node \in Nodes /\ node \notin heap /\ heap' = heap \cup {node}
  BY DEF createList, insertAtHead, insertAtTail, createNode
<1>2. \A i \in 1 .. Len(C) : C[i] \in Nodes /\ C[i] # node
  BY <1>0, <1>1 DEF Shape, Members
<1>3. \A C2 \in {<<node>> \o C, Append(C, node)} :
         TwoWay(next', prev', head', C2) => Shape(C2, <<>>)'
  <2> TAKE C2 \in {<<node>> \o C, Append(C, node)}
  <2>1. Members(C2) = Members(C) \cup {node} /\ Members(C) \subseteq heap
    BY <1>0, <1>1, MembersGrow DEF Shape
  <2>2. Members(C2) \subseteq heap'
    BY <1>1, <2>1
  <2> QED
    BY <1>0, <2>2, Nothing, NoMembers DEF Shape
<1>4. \A s : Ordered(s, <<>>)'
  BY DEF Ordered
<1>5. CASE createList(node) \/ insertAtHead(node)
  <2>1. /\ next' = [next EXCEPT ![node] = head] /\ head' = node
        /\ prev' = [x \in Nodes |-> IF x = head THEN node ELSE IF x = node THEN NULL ELSE prev[x]]
    BY <1>1, <1>5, NodeIs DEF createList, insertAtHead, Set, ListTypes
  <2>2. head # node
    BY <1>0, <1>2, NodeIs DEF Nth
  <2>3. \A i \in 1 .. Len(C) : (C[i] = head) <=> (i = 1)
    BY <1>0 DEF Nth, TwoWay, NoRepeat
  <2>4. next'[node] = head /\ \A i \in 1 .. Len(C) : next'[C[i]] = next[C[i]]
    BY <1>2, <2>1 DEF ListTypes
  <2>5. prev'[node] = NULL /\ \A i \in 1 .. Len(C) : prev'[C[i]] = IF i = 1 THEN node ELSE prev[C[i]]
    BY <1>2, <2>1, <2>2, <2>3
  <2>6. TwoWay(next', prev', node, <<node>> \o C)
    BY <1>0, <1>1, <1>2, <2>4, <2>5, Pushed
  <2>7. ListTypes'
    BY <1>1, <2>1, TypesCreate, NodeIs DEF ListTypes, Pointers
  <2>8. Shape(<<node>> \o C, <<>>)'
    BY <1>3, <2>1, <2>6
  <2> QED
    BY <1>1, <1>4, <2>7, <2>8, BookInsert DEF ListInv
<1>6. CASE insertAtTail(node) /\ C # <<>>
  <2> DEFINE tail == C[Len(C)]
  <2>0. head # NULL /\ Len(C) > 0 /\ TailOf(head) = tail /\ tail \in Nodes /\ tail # node
    BY <1>0, <1>2, <1>6, NodeIs DEF Nth, TailOf
  <2>1. /\ next' = [x \in Nodes |-> IF x = tail THEN node ELSE IF x = node THEN NULL ELSE next[x]]
        /\ prev' = [prev EXCEPT ![node] = tail] /\ head' = head
    BY <1>1, <1>6, <2>0 DEF insertAtTail, Set, ListTypes
  <2>3. \A i \in 1 .. Len(C) : (C[i] = tail) <=> (i = Len(C))
    BY <1>0, <2>0 DEF TwoWay, NoRepeat
  <2>4. next'[node] = NULL
        /\ \A i \in 1 .. Len(C) : next'[C[i]] = IF i = Len(C) THEN node ELSE next[C[i]]
    BY <1>1, <1>2, <2>0, <2>1, <2>3
  <2>5. prev'[node] = tail /\ \A i \in 1 .. Len(C) : prev'[C[i]] = prev[C[i]]
    BY <1>2, <2>1 DEF ListTypes
  <2>6. TwoWay(next', prev', head, Append(C, node))
    BY <1>0, <1>1, <1>2, <2>0, <2>4, <2>5, Appended
  <2>7. ListTypes'
    BY <1>1, <2>0, <2>1, TypesCreate, NodeIs DEF ListTypes, Pointers
  <2>8. Shape(Append(C, node), <<>>)'
    BY <1>3, <2>1, <2>6
  <2> QED
    BY <1>1, <1>4, <2>7, <2>8, BookInsert DEF ListInv
<1>7. CASE insertAtTail(node) /\ C = <<>>
  <2>1. head = NULL
    BY <1>0, <1>7 DEF Nth
  <2>2. next' = [x \in Nodes |-> IF x = NULL THEN node ELSE IF x = node THEN NULL ELSE next[x]]
        /\ prev' = [prev EXCEPT ![node] = NULL] /\ head' = NULL
    BY <1>1, <1>7, <2>1, NodeIs DEF insertAtTail, Set, ListTypes
  <2>3. ListTypes'
    BY <1>1, <2>2, TypesCreate, NodeIs DEF ListTypes, Pointers
  <2>4. Shape(<<>>, <<>>)'
    BY <1>0, <2>2, Nothing, NoMembers DEF Shape
  <2>5. people = <<>> /\ Fieldset = [p \in {} |-> key[p]] /\ Book!On(<<>>) = {}
    BY <1>7, Bare, NoMembers
  <2>6. people' = <<>> /\ Fieldset' = [p \in {} |-> key'[p]]
    BY <2>4, BareNext, NoMembers
  <2>7. Fieldset' = Fieldset
    BY <2>5, <2>6
  <2> QED
    BY <1>4, <2>3, <2>4, <2>5, <2>6, <2>7 DEF ListInv, Book!Insert, Book!Idle, Fieldset
<1> QED
  BY <1>5, <1>6, <1>7

LEMMA WithoutIs ==
  ASSUME NEW s \in Seq(Nodes), NoRepeat(s), NEW m \in 1 .. Len(s)
  PROVE  /\ Without(s, m) \in Seq(Nodes) /\ Len(Without(s, m)) = Len(s) - 1
         /\ Members(Without(s, m)) = Members(s) \ {s[m]}
         /\ m = 1 => Without(s, m) = Tail(s)
         /\ m = Len(s) => Without(s, m) = SubSeq(s, 1, Len(s) - 1)
<1> DEFINE t == Without(s, m)
<1>1. Len(s) \in Nat /\ t \in Seq(Nodes) /\ Len(t) = Len(s) - 1
      /\ \A i \in 1 .. Len(s) - 1 : t[i] = IF i < m THEN s[i] ELSE s[i + 1]
  BY DEF Without
<1>2. m = 1 => t = Tail(s)
  <2> SUFFICES ASSUME m = 1
               PROVE  t = Tail(s)
    OBVIOUS
  <2> HIDE DEF t
  <2>1. Tail(s) \in Seq(Nodes) /\ Len(Tail(s)) = Len(s) - 1
        /\ \A i \in 1 .. Len(s) - 1 : Tail(s)[i] = s[i + 1]
    BY <1>1
  <2>2. \A i \in 1 .. Len(s) - 1 : t[i] = s[i + 1]
    BY <1>1
  <2> QED
    BY <1>1, <2>1, <2>2, SeqEqual
<1>3. m = Len(s) => t = SubSeq(s, 1, Len(s) - 1)
  BY DEF Without
<1> HIDE DEF t
<1>4. ASSUME NEW i \in 1 .. Len(t)
      PROVE  t[i] \in Members(s) \ {s[m]}
  <2>1. i \in 1 .. Len(s) /\ i + 1 \in 1 .. Len(s) /\ i \in 1 .. Len(s) - 1
    BY <1>1
  <2>2. CASE i < m
    BY <1>1, <2>1, <2>2 DEF Members, NoRepeat
  <2>3. CASE i >= m
    <3>1. t[i] = s[i + 1] /\ i + 1 # m
      BY <1>1, <2>1, <2>3
    <3> QED
      BY <2>1, <3>1 DEF Members, NoRepeat
  <2> QED
    BY <2>1, <2>2, <2>3
<1>5. ASSUME NEW i \in 1 .. Len(s), i # m
      PROVE  s[i] \in Members(t)
  <2>1. CASE i < m
    <3>1. i \in 1 .. Len(t) /\ t[i] = s[i]
      BY <1>1, <2>1
    <3> QED
      BY <3>1 DEF Members
  <2>2. CASE i > m
    <3>1. i - 1 \in 1 .. Len(t) /\ ~ (i - 1 < m) /\ (i - 1) + 1 = i
      BY <1>1, <2>2
    <3>2. t[i - 1] = s[i]
      BY <1>1, <3>1
    <3> QED
      BY <3>1, <3>2 DEF Members
  <2> QED
    BY <1>5, <2>1, <2>2
<1>6. Members(t) = Members(s) \ {s[m]}
  BY <1>4, <1>5 DEF Members
<1> QED
  BY <1>1, <1>2, <1>3, <1>6 DEF t

LEMMA BookRemove ==
  ASSUME NEW C, Shape(C, <<>>), field = NoField, ~crashed, Len(C) > 1,
         NEW C2 \in {Tail(C), SubSeq(C, 1, Len(C) - 1)}, Members(C2) \subseteq Members(C),
         Shape(C2, <<>>)', found' = NULL, UNCHANGED <<sorted, field, crashed, key>>
  PROVE  Book!Remove
<1>1. /\ people = C /\ C \in Seq(Nodes) /\ Fieldset = [p \in Members(C) |-> key[p]]
  BY Bare
<1>2. /\ people' = C2 /\ Book!On(C2) = Members(C2) /\ Fieldset' = [p \in Members(C2) |-> key'[p]]
  BY BareNext
<1>3. Fieldset' = [p \in Members(C2) |-> Fieldset[p]]
  BY <1>1, <1>2
<1> QED
  BY <1>1, <1>2, <1>3 DEF Book!Remove, Book!Idle, Book!Keep, Fieldset

LEMMA RemoveStep ==
  ASSUME ListTypes, NEW C, Shape(C, <<>>), field = NoField, ~crashed, remove,
         found' = NULL, UNCHANGED <<sorted, field>>
  PROVE  ListInv' /\ (Book!Remove \/ Book!RemoveLast)
<1>0. /\ C \in Seq(Nodes) /\ Len(C) \in Nat /\ head = Nth(C, 1) /\ Chain(head) = C
      /\ TwoWay(next, prev, head, C) /\ NoRepeat(C) /\ sorted = NULL /\ Members(C) \subseteq heap
      /\ \A i \in 1 .. Len(C) : C[i] \in Nodes /\ next[C[i]] = Nth(C, i + 1)
                                /\ prev[C[i]] = Nth(C, i - 1)
  <2>1. C \in Seq(Nodes) /\ Chain(head) = C
    BY ShapeIs
  <2>2. TwoWay(next, prev, head, C) /\ sorted = NULL /\ Members(C) \subseteq heap
    BY DEF Shape, ListTypes
  <2> QED
    BY <2>1, <2>2 DEF TwoWay
<1>1. head # NULL /\ UNCHANGED <<key, heap>>
  BY DEF remove, removeAtHead, removeAtTail
<1>2. Len(C) > 0 /\ head = C[1] /\ 1 \in 1 .. Len(C) /\ Len(C) \in 1 .. Len(C)
      /\ TailOf(head) = C[Len(C)]
  BY <1>0, <1>1 DEF Nth, TailOf
<1>3. \A s : Ordered(s, <<>>)'
  BY DEF Ordered
<1>4. ASSUME Crash, Len(C) = 1
      PROVE  ListInv' /\ Book!RemoveLast
  <2>1. Shape(C, <<>>)'
    BY <1>1, <1>4 DEF Shape, Crash
  <2>2. ListTypes'
    BY <1>1, <1>4, NodeIs DEF ListTypes, Crash, Pointers
  <2>3. people = C /\ people' = C
    BY <2>1, Bare, BareNext
  <2>4. Fieldset' = Fieldset
    BY <1>1, <2>1, Bare, BareNext
  <2> QED
    BY <1>3, <1>4, <2>1, <2>2, <2>3, <2>4
    DEF ListInv, Crash, Book!RemoveLast, Book!Idle, Fieldset
<1>5. ASSUME NEW m \in 1 .. Len(C), m = 1 \/ m = Len(C), Len(C) > 1, UNCHANGED crashed,
             head' \in Pointers, next' \in [Nodes -> Pointers], prev' \in [Nodes -> Pointers],
             TwoWay(next', prev', head', Without(C, m))
      PROVE  ListInv' /\ Book!Remove
  <2>1. Without(C, m) \in {Tail(C), SubSeq(C, 1, Len(C) - 1)}
        /\ Members(Without(C, m)) \subseteq Members(C)
    BY <1>0, <1>5, WithoutIs, SMTT(30)
  <2>2. Shape(Without(C, m), <<>>)'
    BY <1>0, <1>1, <1>5, <2>1, Nothing, NoMembers DEF Shape
  <2>3. ListTypes'
    BY <1>1, <1>5, NodeIs DEF ListTypes, Pointers
  <2>4. Book!Remove
    BY <1>1, <1>5, <2>1, <2>2, BookRemove
  <2> QED
    BY <1>3, <2>2, <2>3, <2>4 DEF ListInv
<1>6. Len(C) = 1 \/ (Len(C) > 1 /\ 2 \in 1 .. Len(C) /\ Len(C) - 1 \in 1 .. Len(C))
  <2>1. Len(C) \in Nat /\ Len(C) > 0
    BY <1>0, <1>2
  <2>2. \A n \in Nat : n > 0 => n = 1 \/ (n > 1 /\ 2 \in 1 .. n /\ n - 1 \in 1 .. n)
    BY ONLY TRUE
  <2> QED
    BY <2>1, <2>2
<1>7. TwoWay(next, prev, head, C) /\ 1 \in 1 .. Len(C) /\ Len(C) \in 1 .. Len(C)
  BY <1>0, <1>2
<1>8. CASE removeAtHead
  <2>1. next[head] = Nth(C, 2)
    BY <1>0, <1>2
  <2>2. CASE next[head] # NULL
    <3>1. Len(C) > 1 /\ next[head] = C[2] /\ C[2] \in Nodes /\ 2 \in 1 .. Len(C)
      BY <1>0, <2>1, <2>2 DEF Nth
    <3>2. /\ prev' = [prev EXCEPT ![C[2]] = NULL] /\ head' = C[2] /\ UNCHANGED <<next, crashed>>
      BY <1>8, <2>2, <3>1 DEF removeAtHead
    <3>3. prev[C[1]] = NULL
      BY <1>0, <1>2 DEF Nth
    <3>4. \A i \in 1 .. Len(C) :
            i # 1 => prev'[C[i]] = IF i = 1 + 1 THEN prev[C[1]] ELSE prev[C[i]]
      BY <1>0, <3>1, <3>2, <3>3 DEF ListTypes, NoRepeat
    <3>5. \A i \in 1 .. Len(C) :
            i # 1 => next'[C[i]] = IF i = 1 - 1 THEN next[C[1]] ELSE next[C[i]]
      BY <3>2
    <3>8. head' = IF 1 = 1 THEN next[C[1]] ELSE head
      BY <1>2, <3>1, <3>2
    <3>6. TwoWay(next', prev', head', Without(C, 1))
      <4>1. Bypassed(next, prev, head, C, 1, next', prev', head')
        BY <3>4, <3>5, <3>8 DEF Bypassed
      <4> QED
        BY <1>7, <4>1, TakenOut, Zenon
    <3>7. head' \in Pointers /\ next' \in [Nodes -> Pointers] /\ prev' \in [Nodes -> Pointers]
      BY <3>1, <3>2, NodeIs DEF ListTypes, Pointers
    <3> QED
      BY <1>2, <1>5, <3>1, <3>2, <3>6, <3>7
  <2>3. CASE next[head] = NULL
    <3>1. Len(C) = 1
      BY <1>0, <1>2, <1>6, <2>1, <2>3, NodeIs DEF Nth
    <3> QED
      BY <1>4, <1>8, <2>3, <3>1 DEF removeAtHead
  <2> QED
    BY <2>2, <2>3
<1>9. CASE removeAtTail
  <2>1. prev[TailOf(head)] = Nth(C, Len(C) - 1)
    BY <1>0, <1>2
  <2>2. CASE prev[TailOf(head)] # NULL
    <3>1. Len(C) > 1 /\ prev[TailOf(head)] = C[Len(C) - 1] /\ Len(C) - 1 \in 1 .. Len(C)
      BY <1>0, <2>1, <2>2 DEF Nth
    <3>2. /\ next' = [next EXCEPT ![C[Len(C) - 1]] = NULL] /\ UNCHANGED <<head, prev, crashed>>
      BY <1>9, <2>2, <3>1 DEF removeAtTail
    <3>3. next[C[Len(C)]] = NULL
      BY <1>0, <1>2 DEF Nth
    <3>4. \A i \in 1 .. Len(C) : i # Len(C) =>
            next'[C[i]] = IF i = Len(C) - 1 THEN next[C[Len(C)]] ELSE next[C[i]]
      BY <1>0, <3>1, <3>2, <3>3 DEF ListTypes, NoRepeat
    <3>5. \A i \in 1 .. Len(C) : i # Len(C) =>
            prev'[C[i]] = IF i = Len(C) + 1 THEN prev[C[Len(C)]] ELSE prev[C[i]]
      BY <1>0, <3>2
    <3>8. head' = IF Len(C) = 1 THEN next[C[Len(C)]] ELSE head
      BY <3>1, <3>2
    <3>6. TwoWay(next', prev', head', Without(C, Len(C)))
      <4>1. Bypassed(next, prev, head, C, Len(C), next', prev', head')
        BY <3>4, <3>5, <3>8 DEF Bypassed
      <4> QED
        BY <1>7, <4>1, TakenOut, Zenon
    <3>7. head' \in Pointers /\ next' \in [Nodes -> Pointers] /\ prev' \in [Nodes -> Pointers]
      BY <3>1, <3>2, NodeIs DEF ListTypes, Pointers
    <3> QED
      BY <1>2, <1>5, <3>1, <3>2, <3>6, <3>7
  <2>3. CASE prev[TailOf(head)] = NULL
    <3>1. Len(C) = 1
      BY <1>0, <1>2, <1>6, <2>1, <2>3, NodeIs DEF Nth
    <3> QED
      BY <1>4, <1>9, <2>3, <3>1 DEF removeAtTail
  <2> QED
    BY <2>2, <2>3
<1> QED
  BY <1>8, <1>9 DEF remove

LEMMA ClearStep ==
  ASSUME ListTypes, NEW C, Shape(C, <<>>), field = NoField, ~crashed, deleteList,
         found' = NULL, UNCHANGED <<sorted, field>>
  PROVE  ListInv' /\ Book!Clear
<1>1. head' = NULL /\ sorted' = NULL /\ heap' = heap \ On(head) /\ UNCHANGED crashed
  BY DEF deleteList, ListTypes
<1>2. Shape(<<>>, <<>>)' /\ Ordered(<<>>, <<>>)'
  BY <1>1, Nothing, NoMembers DEF Shape, Ordered
<1>3. next' \in [Nodes -> Pointers] /\ prev' \in [Nodes -> Pointers]
  BY DEF deleteList, Set, ListTypes, Pointers
<1>4. ListTypes'
  <2> DEFINE garbage == CHOOSE k \in Keys : TRUE
  <2>1. Blank \in [Fields -> Keys \cup {garbage}]
    BY DEF Blank
  <2>2. key \in [Nodes -> [Fields -> Keys \cup {garbage}]]
    BY DEF ListTypes
  <2>3. key' = [x \in Nodes |-> IF x \in On(head) THEN Blank ELSE key[x]]
    BY DEF deleteList, Set, ListTypes
  <2> HIDE DEF garbage
  <2>4. key' \in [Nodes -> [Fields -> Keys \cup {garbage}]]
    BY <2>1, <2>2, <2>3
  <2>5. \A p \in heap' : key'[p] \in [Fields -> Keys]
    BY <1>1, <2>3 DEF ListTypes
  <2> USE DEF garbage
  <2> QED
    BY <1>1, <1>3, <2>4, <2>5 DEF ListTypes, Pointers
<1>5. people' = <<>> /\ Fieldset' = [p \in {} |-> key'[p]] /\ Book!On(<<>>) = {}
  BY <1>2, BareNext, NoMembers
<1>6. Fieldset' = [p \in {} |-> Fieldset[p]]
  BY <1>5
<1> QED
  BY <1>1, <1>2, <1>4, <1>5, <1>6 DEF ListInv, Book!Clear, Book!Idle, Book!Keep, Fieldset

LEMMA FindStep ==
  ASSUME ListTypes, NEW C, Shape(C, <<>>), field = NoField, ~crashed,
         NEW f \in Fields, NEW x \in Keys, find(x, f), UNCHANGED <<list, within, crashed>>
  PROVE  ListInv' /\ (Book!Find(x, f))
<1>1. UNCHANGED <<head, next, prev, key, heap, sorted, field, crashed>>
  BY DEF list, within
<1>2. /\ people = C /\ C \in Seq(Nodes) /\ Book!On(C) = Members(C)
      /\ Fieldset = [p \in Members(C) |-> key[p]]
  BY Bare
<1>3. Shape(C, <<>>)' /\ Ordered(C, <<>>)'
  BY <1>1 DEF Shape, Ordered, TwoWay
<1>4. people' = people /\ Fieldset' = Fieldset
  BY <1>1, <1>2, <1>3, BareNext
<1>5. Chain(head) = C
  BY ShapeIs
<1>6. \A i \in 1 .. Len(C) : C[i] \in Members(C) /\ C[i] \in Pointers /\ Fieldset[C[i]] = key[C[i]]
  BY <1>2, NodeIs DEF Members
<1>7. DOMAIN C = 1 .. Len(C) /\ Len(C) \in Nat
  BY <1>2
<1>8. Book!Idle /\ UNCHANGED <<people, Fieldset, field, ~crashed>>
  BY <1>1, <1>4 DEF Book!Idle
<1>9. found' \in Pointers /\ Book!Find(x, f)
  <2>1. CASE \E n \in DOMAIN C : /\ key[C[n]][f] = x /\ \A m \in 1 .. n - 1 : key[C[m]][f] # x
                                 /\ found' = C[n]
    <3>1. PICK n \in 1 .. Len(C) : /\ key[C[n]][f] = x /\ \A m \in 1 .. n - 1 : key[C[m]][f] # x
                                   /\ found' = C[n]
      BY <1>7, <2>1
    <3>2. \A m \in 1 .. n - 1 : m \in 1 .. Len(C)
      BY <1>7
    <3>3. Fieldset[C[n]][f] = x /\ \A m \in 1 .. n - 1 : Fieldset[C[m]][f] # x
      BY <1>6, <3>1, <3>2
    <3>4. \E q \in DOMAIN people :
             /\ Fieldset[people[q]][f] = x
             /\ \A m \in 1 .. q - 1 : Fieldset[people[m]][f] # x
             /\ found' = people[q]
      BY <1>2, <1>7, <3>1, <3>3
    <3>5. Book!Find(x, f)
      BY <1>8, <3>4, Zenon DEF Book!Find, Fieldset
    <3> QED
      BY <1>6, <3>1, <3>5
  <2>2. CASE (\A n \in DOMAIN C : key[C[n]][f] # x) /\ found' = NULL
    <3>1. \A p \in Members(C) : Fieldset[p][f] # x
      BY <1>6, <1>7, <2>2 DEF Members
    <3>2. \A p \in Book!On(people) : Fieldset[p][f] # x
      BY <1>2, <3>1
    <3>3. Book!Find(x, f)
      BY <1>8, <2>2, <3>2, Zenon DEF Book!Find, Fieldset
    <3> QED
      BY <2>2, <3>3 DEF Pointers
  <2> QED
    BY <1>5, <2>1, <2>2 DEF find
<1>10. ListTypes'
  BY <1>1, <1>9 DEF ListTypes
<1> QED
  BY <1>3, <1>9, <1>10 DEF ListInv

LEMMA SortStep ==
  ASSUME ListTypes, NEW C, Shape(C, <<>>), field = NoField, ~crashed,
         NEW f \in Fields, sort(f), found' = NULL, UNCHANGED <<list, crashed>>
  PROVE  ListInv' /\ (Book!BeginSort(f))
<1>1. UNCHANGED <<head, next, prev, key, heap, sorted, crashed>> /\ field' = f
  BY DEF list, sort, ListTypes
<1>2. Shape(C, <<>>)' /\ Ordered(C, <<>>)'
  BY <1>1 DEF Shape, Ordered, TwoWay
<1>3. people' = people /\ Fieldset' = Fieldset
  BY <1>1, <1>2, Bare, BareNext
<1>4. ListTypes'
  BY <1>1, ListAssumption DEF ListTypes, Pointers
<1> QED
  BY <1>1, <1>2, <1>3, <1>4 DEF ListInv, Book!BeginSort, Book!Idle, Fieldset

---------------------------------------------------------------------------
\* A turn of sort's loop.

\* Of finitely many numbers there is a first that no other exceeds.
LEMMA FirstLargest ==
  ASSUME NEW last \in Nat, last > 0, NEW v \in [1 .. last -> Int]
  PROVE  \E n \in 1 .. last : /\ \A i \in 1 .. last : v[i] <= v[n]
                           /\ \A i \in 1 .. n - 1 : v[i] < v[n]
<1> DEFINE Bad == {m \in 1 .. last : ~ \E n \in 1 .. m : \A i \in 1 .. m : v[i] <= v[n]}
<1>1. Bad = {}
  <2> SUFFICES ASSUME Bad # {}
               PROVE  FALSE
    OBVIOUS
  <2>1. Bad \in SUBSET Nat
    OBVIOUS
  <2>2. PICK m \in Bad : \A q \in Bad : m <= q
    <3> HIDE DEF Bad
    <3> QED
      BY <2>1, Least
  <2>3. m \in 1 .. last /\ m # 1
    <3>1. m \in 1 .. last
      OBVIOUS
    <3>2. \A i \in 1 .. 1 : v[i] <= v[1]
      OBVIOUS
    <3> QED
      BY <3>1, <3>2
  <2>4. m - 1 \in 1 .. last /\ ~ m <= m - 1
    BY <2>3
  <2>5. PICK n \in 1 .. m - 1 : \A i \in 1 .. m - 1 : v[i] <= v[n]
    BY <2>2, <2>4
  <2>6. \A i \in 1 .. m : i = m \/ i \in 1 .. m - 1
    BY <2>3
  <2>7. v[m] \in Int /\ v[n] \in Int /\ n \in 1 .. m /\ m \in 1 .. m
        /\ \A i \in 1 .. m : v[i] \in Int
    BY <2>3
  <2>8. (\A i \in 1 .. m : v[i] <= v[n]) \/ (\A i \in 1 .. m : v[i] <= v[m])
    <3>1. CASE v[m] <= v[n]
      BY <2>5, <2>6, <3>1
    <3>2. CASE v[n] <= v[m]
      <4>1. \A i \in 1 .. m - 1 : v[i] <= v[m]
        <5> TAKE i \in 1 .. m - 1
        <5>1. i \in 1 .. m
          BY <2>3
        <5>2. v[i] <= v[n] /\ v[i] \in Int
          BY <2>5, <2>7, <5>1
        <5> QED
          BY <2>7, <3>2, <5>2, SMTT(30)
      <4>2. v[m] <= v[m]
        BY <2>7
      <4> QED
        BY <2>6, <4>1, <4>2
    <3> QED
      BY <2>7, <3>1, <3>2
  <2> QED
    BY <2>7, <2>8
<1> DEFINE Top == {n \in 1 .. last : \A i \in 1 .. last : v[i] <= v[n]}
<1>2. Top # {}
  <2>1. last \in 1 .. last
    OBVIOUS
  <2> QED
    BY <1>1, <2>1
<1>3. PICK n \in Top : \A q \in Top : n <= q
  <2>1. Top \in SUBSET Nat
    OBVIOUS
  <2> HIDE DEF Top
  <2> QED
    BY <1>2, <2>1, Least
<1>4. ASSUME NEW i \in 1 .. n - 1
      PROVE  v[i] < v[n]
  <2>1. i \in 1 .. last /\ v[i] \in Int /\ v[n] \in Int /\ ~ n <= i
    OBVIOUS
  <2>2. i \notin Top
    BY <1>3, <2>1
  <2>3. PICK j \in 1 .. last : ~ v[j] <= v[i]
    BY <2>1, <2>2
  <2>4. v[j] \in Int /\ v[j] <= v[n]
    OBVIOUS
  <2> QED
    BY <2>1, <2>3, <2>4
<1> QED
  BY <1>4

LEMMA MembersJoin ==
  ASSUME NEW s \in Seq(Nodes), NEW t \in Seq(Nodes)
  PROVE  /\ s \o t \in Seq(Nodes) /\ Len(s \o t) = Len(s) + Len(t)
         /\ Members(s \o t) = Members(s) \cup Members(t)
<1>1. Len(s) \in Nat /\ Len(t) \in Nat /\ Len(s \o t) = Len(s) + Len(t)
  OBVIOUS
<1>2. \A i \in 1 .. Len(s) : i \in 1 .. Len(s) + Len(t) /\ (s \o t)[i] = s[i]
  BY <1>1
<1>3. \A i \in 1 .. Len(t) : Len(s) + i \in 1 .. Len(s) + Len(t) /\ (s \o t)[Len(s) + i] = t[i]
  BY <1>1
<1>4. ASSUME NEW i \in 1 .. Len(s) + Len(t)
      PROVE  (s \o t)[i] \in Members(s) \cup Members(t)
  <2>1. CASE i <= Len(s)
    <3>1. i \in 1 .. Len(s)
      BY <1>1, <2>1
    <3> QED
      BY <1>2, <3>1 DEF Members
  <2>2. CASE i > Len(s)
    <3>1. i - Len(s) \in 1 .. Len(t) /\ Len(s) + (i - Len(s)) = i
      BY <1>1, <2>2
    <3>2. (s \o t)[i] = t[i - Len(s)]
      BY <1>3, <3>1
    <3> QED
      BY <3>1, <3>2 DEF Members
  <2> QED
    BY <1>1, <2>1, <2>2
<1>5. Members(s \o t) \subseteq Members(s) \cup Members(t)
  BY <1>1, <1>4 DEF Members
<1>6. \A y \in Members(s) : y \in Members(s \o t)
  BY <1>1, <1>2 DEF Members
<1>7. \A y \in Members(t) : y \in Members(s \o t)
  <2> SUFFICES ASSUME NEW y \in Members(t)
               PROVE  y \in Members(s \o t)
    OBVIOUS
  <2>1. PICK i \in 1 .. Len(t) : t[i] = y
    BY DEF Members
  <2>2. Len(s) + i \in 1 .. Len(s \o t) /\ (s \o t)[Len(s) + i] = y
    BY <1>1, <1>3, <2>1
  <2> QED
    BY <2>2 DEF Members
<1> QED
  BY <1>5, <1>6, <1>7

\* The node that removeMax takes out, by its place.
LEMMA MaxIs ==
  ASSUME ListTypes, NEW C, NEW D, Shape(C, D), field # NoField, Len(C) > 0
  PROVE  \E m \in 1 .. Len(C) :
           /\ Max(field) = C[m]
           /\ \A i \in 1 .. Len(C) : key[C[i]][field] <= key[C[m]][field]
<1>1. C \in Seq(Nodes) /\ Chain(head) = C /\ DOMAIN C = 1 .. Len(C) /\ Len(C) \in Nat
  <2>1. C \in Seq(Nodes) /\ Chain(head) = C
    BY ShapeIs
  <2> QED
    BY <2>1
<1>2. \A i \in 1 .. Len(C) : C[i] \in heap
  BY <1>1 DEF Shape, Members
<1>3. field \in Fields
  BY DEF ListTypes
<1>4. \A i \in 1 .. Len(C) : key[C[i]][field] \in Int
  BY <1>2, <1>3, ListAssumption DEF ListTypes
<1> DEFINE v == [i \in 1 .. Len(C) |-> key[C[i]][field]]
<1>5. v \in [1 .. Len(C) -> Int] /\ \A i \in 1 .. Len(C) : v[i] = key[C[i]][field]
  BY <1>4
<1> HIDE DEF v
<1>6. PICK n \in 1 .. Len(C) : /\ \A i \in 1 .. Len(C) : v[i] <= v[n]
                               /\ \A i \in 1 .. n - 1 : v[i] < v[n]
  BY <1>1, <1>5, FirstLargest
<1>7. /\ \A i \in DOMAIN C : key[C[i]][field] <= key[C[n]][field]
      /\ \A i \in 1 .. n - 1 : key[C[i]][field] < key[C[n]][field]
  <2>1. \A i \in 1 .. n - 1 : i \in 1 .. Len(C)
    BY <1>1
  <2> QED
    BY <1>1, <1>5, <1>6, <2>1
<1> DEFINE m == CHOOSE q \in DOMAIN C :
                  /\ \A i \in DOMAIN C : key[C[i]][field] <= key[C[q]][field]
                  /\ \A i \in 1 .. q - 1 : key[C[i]][field] < key[C[q]][field]
<1>8. m \in DOMAIN C /\ \A i \in DOMAIN C : key[C[i]][field] <= key[C[m]][field]
  BY <1>1, <1>7
<1>9. Max(field) = C[m]
  BY <1>1 DEF Max
<1> QED
  BY <1>1, <1>8, <1>9

\* What removeMax does to the links, by the place of the node.
LEMMA MaxMoved ==
  ASSUME ListTypes, NEW C, NEW D, Shape(C, D), NEW m \in 1 .. Len(C), removeMax(C[m])
  PROVE  /\ TwoWay(next', prev', head', Without(C, m))
         /\ TwoWay(next', prev', C[m], <<C[m]>> \o D)
         /\ head' \in Pointers /\ next' \in [Nodes -> Pointers] /\ prev' \in [Nodes -> Pointers]
<1> DEFINE x == C[m]
<1>1. TwoWay(next, prev, head, C) /\ TwoWay(next, prev, sorted, D)
  BY DEF Shape
<1>2. /\ C \in Seq(Nodes) /\ Len(C) \in Nat /\ NoRepeat(C) /\ head = Nth(C, 1)
      /\ D \in Seq(Nodes) /\ Len(D) \in Nat /\ NoRepeat(D) /\ sorted = Nth(D, 1)
  BY <1>1 DEF TwoWay
<1>3. \A i \in 1 .. Len(C) : C[i] \in Nodes /\ next[C[i]] = Nth(C, i + 1)
                                             /\ prev[C[i]] = Nth(C, i - 1)
  BY <1>1, <1>2 DEF TwoWay
<1>4. \A i \in 1 .. Len(C) : \A j \in 1 .. Len(D) : C[i] # D[j]
  BY DEF Shape, Members
<1>5. \A j \in 1 .. Len(D) : D[j] \in Nodes
  BY <1>2
<1>6. \A i, j \in 1 .. Len(C) : C[i] = C[j] => i = j
  BY <1>2 DEF NoRepeat
<1>7. x \in Nodes /\ 1 \in 1 .. Len(C) /\ head = C[1]
  BY <1>2, <1>3 DEF Nth
<1>8. Before(x) = Nth(C, m - 1)
  <2>1. CASE m = 1
    BY <1>7, <2>1 DEF Before, Nth
  <2>2. CASE m # 1
    BY <1>3, <1>6, <1>7, <2>2 DEF Before
  <2> QED
    BY <2>1, <2>2
<1>9. /\ \A i \in 1 .. Len(C) : (C[i] = Nth(C, m - 1)) <=> (i = m - 1)
      /\ \A i \in 1 .. Len(C) : (C[i] = Nth(C, m + 1)) <=> (i = m + 1)
      /\ \A j \in 1 .. Len(D) : D[j] # Nth(C, m - 1) /\ D[j] # Nth(C, m + 1)
      /\ (m = 1) <=> (Nth(C, m - 1) = NULL)
  <2>1. \A a \in Int : \A i \in 1 .. Len(C) : (C[i] = Nth(C, a)) <=> (i = a)
    BY <1>3, <1>6, NodeIs DEF Nth
  <2>2. \A a \in Int : \A j \in 1 .. Len(D) : D[j] # Nth(C, a)
    BY <1>4, <1>5, NodeIs DEF Nth
  <2>3. m - 1 \in Int /\ m + 1 \in Int
    BY <1>2
  <2>4. (m = 1) <=> (Nth(C, m - 1) = NULL)
    <3>1. m # 1 => m - 1 \in 1 .. Len(C)
      BY <1>2
    <3>2. m = 1 => m - 1 \notin 1 .. Len(C)
      OBVIOUS
    <3> QED
      BY <1>3, <3>1, <3>2, NodeIs DEF Nth
  <2> QED
    BY <2>1, <2>2, <2>3, <2>4
<1>10. /\ \A i \in 1 .. Len(C) : C[i] # sorted
       /\ \A j \in 1 .. Len(D) : (D[j] = sorted) <=> (j = 1)
  BY <1>2, <1>3, <1>4, NodeIs DEF Nth, NoRepeat
<1>11. next[x] \in Pointers /\ prev[x] \in Pointers /\ sorted \in Pointers /\ head \in Pointers
  BY <1>7 DEF ListTypes
<1>12. head' = IF m = 1 THEN next[x] ELSE head
  BY <1>7, <1>8, <1>9 DEF removeMax
<1>13. next' = [q \in Nodes |-> IF q = x THEN sorted
                                ELSE IF q = Nth(C, m - 1) THEN next[x] ELSE next[q]]
  BY <1>7, <1>8 DEF removeMax, Set, ListTypes
<1>14. prev' = [q \in Nodes |-> IF q = sorted THEN x ELSE IF q = x THEN NULL
                                ELSE IF q = Nth(C, m + 1) THEN prev[x] ELSE prev[q]]
  BY <1>3, <1>7 DEF removeMax, Set, ListTypes
<1>15. head' \in Pointers /\ next' \in [Nodes -> Pointers] /\ prev' \in [Nodes -> Pointers]
  BY <1>7, <1>11, <1>12, <1>13, <1>14, NodeIs DEF ListTypes, Pointers
<1> HIDE DEF x
<1>16. TwoWay(next', prev', head', Without(C, m))
  <2>1. \A i \in 1 .. Len(C) : i # m => C[i] # x
    BY <1>6 DEF x
  <2>2. \A i \in 1 .. Len(C) : i # m => next'[C[i]] = IF i = m - 1 THEN next[x] ELSE next[C[i]]
    BY <1>3, <1>9, <1>13, <2>1
  <2>3. \A i \in 1 .. Len(C) : i # m => prev'[C[i]] = IF i = m + 1 THEN prev[x] ELSE prev[C[i]]
    BY <1>3, <1>9, <1>10, <1>14, <2>1
  <2>4. Bypassed(next, prev, head, C, m, next', prev', head')
    BY <1>12, <2>2, <2>3 DEF Bypassed, x
  <2> QED
    BY <1>1, <2>4, TakenOut, Zenon
<1>17. TwoWay(next', prev', x, <<x>> \o D)
  <2>1. \A j \in 1 .. Len(D) : D[j] # x
    BY <1>4 DEF x
  <2>2. next'[x] = sorted /\ \A j \in 1 .. Len(D) : next'[D[j]] = next[D[j]]
    BY <1>5, <1>7, <1>9, <1>13, <2>1
  <2>3. x # sorted
    BY <1>10 DEF x
  <2>4. prev'[x] = NULL /\ \A j \in 1 .. Len(D) : prev'[D[j]] = IF j = 1 THEN x ELSE prev[D[j]]
    BY <1>5, <1>7, <1>9, <1>10, <1>14, <2>1, <2>3
  <2> QED
    BY <1>1, <1>7, <2>1, <2>2, <2>4, Pushed
<1> QED
  BY <1>15, <1>16, <1>17 DEF x

\* The node with the largest field goes in front of the second list.
LEMMA LoopStep ==
  ASSUME ListTypes, NEW C, NEW D, Shape(C, D), Ordered(C, D), sortLoop,
         UNCHANGED <<key, heap, found, crashed>>
  PROVE  ListInv' /\ Book!Shuffle
<1>1. /\ field # NoField /\ head # NULL /\ removeMax(Max(field)) /\ sorted' = Max(field)
      /\ UNCHANGED <<field, key, heap, found, crashed>>
  BY DEF sortLoop
<1>2. /\ C \in Seq(Nodes) /\ D \in Seq(Nodes) /\ people = C \o D
      /\ Fieldset = [p \in Members(C) \cup Members(D) |-> key[p]]
  BY ShapeIs
<1>3. head = Nth(C, 1) /\ NoRepeat(C)
  BY DEF Shape, TwoWay
<1>4. Len(C) \in Nat /\ Len(C) > 0 /\ Len(D) \in Nat
  <2>1. 1 \in 1 .. Len(C)
    BY <1>1, <1>3 DEF Nth
  <2> QED
    BY <1>2, <2>1
<1>5. PICK m \in 1 .. Len(C) :
        /\ Max(field) = C[m]
        /\ \A i \in 1 .. Len(C) : key[C[i]][field] <= key[C[m]][field]
  BY <1>1, <1>4, MaxIs
<1> DEFINE C2 == Without(C, m)
           D2 == <<C[m]>> \o D
<1>6. /\ TwoWay(next', prev', head', C2) /\ TwoWay(next', prev', C[m], D2)
      /\ head' \in Pointers /\ next' \in [Nodes -> Pointers] /\ prev' \in [Nodes -> Pointers]
  BY <1>1, <1>5, MaxMoved
<1>7. C[m] \in Nodes /\ C[m] \in Members(C)
  BY <1>2 DEF Members
<1>8. /\ C2 \in Seq(Nodes) /\ Len(C2) = Len(C) - 1 /\ Members(C2) = Members(C) \ {C[m]}
      /\ D2 \in Seq(Nodes) /\ Len(D2) = Len(D) + 1 /\ Members(D2) = Members(D) \cup {C[m]}
  BY <1>2, <1>3, <1>7, WithoutIs, MembersGrow, SMTT(30)
<1>9. Shape(C2, D2)'
  <2>1. sorted' = C[m] /\ heap' = heap
    BY <1>1, <1>5
  <2>2. Members(C2) \cap Members(D2) = {}
        /\ Members(C2) \subseteq heap /\ Members(D2) \subseteq heap
    BY <1>7, <1>8 DEF Shape
  <2> HIDE DEF C2, D2
  <2> QED
    BY <1>6, <2>1, <2>2 DEF Shape
<1>10. Ordered(C2, D2)'
  <2>1. \A i \in 1 .. Len(D2) : (i = 1 /\ D2[i] = C[m])
                                \/ (i - 1 \in 1 .. Len(D) /\ D2[i] = D[i - 1])
    BY <1>2, <1>4, <1>7
  <2>2. \A j \in 1 .. Len(D) : key[C[m]][field] <= key[D[j]][field]
    BY <1>1 DEF Ordered
  <2>3. \A i, j \in 1 .. Len(D) : i < j => key[D[i]][field] <= key[D[j]][field]
    BY <1>1 DEF Ordered
  <2>4. \A i, j \in 1 .. Len(D2) : i < j => key[D2[i]][field] <= key[D2[j]][field]
    <3> SUFFICES ASSUME NEW i \in 1 .. Len(D2), NEW j \in 1 .. Len(D2), i < j
                 PROVE  key[D2[i]][field] <= key[D2[j]][field]
      OBVIOUS
    <3> HIDE DEF D2
    <3>1. j # 1 /\ j - 1 \in 1 .. Len(D) /\ D2[j] = D[j - 1]
      BY <2>1
    <3>2. CASE i = 1
      <4>1. D2[i] = C[m]
        BY <2>1, <3>2
      <4> QED
        BY <2>2, <3>1, <4>1
    <3>3. CASE i # 1
      <4>1. i - 1 \in 1 .. Len(D) /\ D2[i] = D[i - 1] /\ i - 1 < j - 1
        BY <2>1, <3>3
      <4> QED
        BY <2>3, <3>1, <4>1
    <3> QED
      BY <3>2, <3>3
  <2>5. \A i \in 1 .. Len(C2) : \E a \in 1 .. Len(C) : C2[i] = C[a]
    <3>1. \A i \in 1 .. Len(C2) : C2[i] \in Members(C)
      <4> TAKE i \in 1 .. Len(C2)
      <4>1. C2[i] \in Members(C2)
        BY DEF Members
      <4> HIDE DEF C2
      <4> QED
        BY <1>8, <4>1
    <3> QED
      BY <3>1 DEF Members
  <2>6. \A i \in 1 .. Len(C2) : \A j \in 1 .. Len(D2) : key[C2[i]][field] <= key[D2[j]][field]
    <3> TAKE i \in 1 .. Len(C2)
    <3> TAKE j \in 1 .. Len(D2)
    <3>1. PICK a \in 1 .. Len(C) : C2[i] = C[a]
      BY <2>5
    <3> HIDE DEF C2, D2
    <3>2. CASE D2[j] = C[m]
      BY <1>5, <3>1, <3>2
    <3>3. CASE j - 1 \in 1 .. Len(D) /\ D2[j] = D[j - 1]
      <4>1. key[C[a]][field] <= key[D[j - 1]][field]
        BY <1>1, <3>3 DEF Ordered
      <4> QED
        BY <3>1, <3>3, <4>1
    <3> QED
      BY <2>1, <3>2, <3>3
  <2> HIDE DEF C2, D2
  <2> QED
    BY <1>1, <2>4, <2>6 DEF Ordered
<1>11. ListTypes'
  <2>1. sorted' \in Pointers
    BY <1>1, <1>5, <1>7 DEF Pointers
  <2> QED
    BY <1>1, <1>6, <2>1 DEF ListTypes
<1>12. Book!Shuffle
  <2>1. people' = C2 \o D2 /\ Fieldset' = [p \in Members(C2) \cup Members(D2) |-> key'[p]]
    BY <1>9, ShapeIsNext
  <2>2. Members(C2) \cup Members(D2) = Members(C) \cup Members(D)
    BY <1>7, <1>8
  <2> HIDE DEF C2, D2
  <2>3. Fieldset' = Fieldset
    BY <1>1, <1>2, <2>1, <2>2
  <2>4. Len(people') = Len(people) /\ people \in Seq(Nodes) /\ people' \in Seq(Nodes)
    <3>1. /\ C \o D \in Seq(Nodes) /\ C2 \o D2 \in Seq(Nodes)
          /\ Len(C \o D) = Len(C) + Len(D) /\ Len(C2 \o D2) = Len(C2) + Len(D2)
      BY <1>2, <1>8, MembersJoin
    <3>2. Len(C2) + Len(D2) = Len(C) + Len(D)
      BY <1>4, <1>8
    <3> QED
      BY <1>2, <2>1, <3>1, <3>2
  <2>5. Members(people') = Members(people)
    <3>1. Members(C \o D) = Members(C) \cup Members(D)
      BY <1>2, MembersJoin
    <3>2. Members(C2 \o D2) = Members(C2) \cup Members(D2)
      BY <1>8, MembersJoin
    <3> QED
      BY <1>2, <2>1, <2>2, <3>1, <3>2
  <2>6. Book!On(people) = Members(people) /\ Book!On(people') = Members(people')
    BY <2>4 DEF Book!On, Members
  <2> QED
    BY <1>1, <2>3, <2>4, <2>5, <2>6 DEF Book!Shuffle, Fieldset
<1> QED
  BY <1>9, <1>10, <1>11, <1>12 DEF ListInv

LEMMA ReturnStep ==
  ASSUME ListTypes, NEW C, NEW D, Shape(C, D), Ordered(C, D), sortReturn,
         UNCHANGED <<key, heap, found, crashed>>
  PROVE  ListInv' /\ Book!EndSort
<1>1. /\ field # NoField /\ head = NULL /\ head' = sorted /\ sorted' = NULL /\ field' = NoField
      /\ UNCHANGED <<next, prev, key, heap, found, crashed>>
  BY DEF sortReturn
<1>2. /\ C \in Seq(Nodes) /\ D \in Seq(Nodes) /\ people = C \o D
      /\ Fieldset = [p \in Members(C) \cup Members(D) |-> key[p]]
  BY ShapeIs
<1>3. C = <<>>
  <2>1. head = Nth(C, 1)
    BY DEF Shape, TwoWay
  <2>2. 1 \notin 1 .. Len(C)
    BY <1>1, <1>2, <2>1, NodeIs DEF Nth
  <2> QED
    BY <1>2, <2>2
<1>4. people = D /\ Fieldset = [p \in Members(D) |-> key[p]]
  BY <1>2, <1>3, NoMembers
<1>5. Shape(D, <<>>)' /\ Ordered(D, <<>>)'
  BY <1>1, Nothing, NoMembers DEF Shape, Ordered, TwoWay
<1>6. people' = D /\ Fieldset' = [p \in Members(D) |-> key'[p]]
  BY <1>5, BareNext
<1>7. ListTypes'
  BY <1>1 DEF ListTypes, Pointers
<1>8. \A i, j \in DOMAIN people : i < j => Fieldset[people[i]][field] <= Fieldset[people[j]][field]
  <2>1. \A i, j \in 1 .. Len(D) : i < j => key[D[i]][field] <= key[D[j]][field]
    BY <1>1 DEF Ordered
  <2>2. \A i \in 1 .. Len(D) : Fieldset[D[i]] = key[D[i]]
    BY <1>4 DEF Members
  <2>3. DOMAIN D = 1 .. Len(D)
    BY <1>2
  <2>4. \A i, j \in 1 .. Len(D) : i < j => Fieldset[D[i]][field] <= Fieldset[D[j]][field]
    BY <2>1, <2>2
  <2> QED
    BY <1>4, <2>3, <2>4
<1>9. Book!InOrder(people, field)
  BY <1>8, Zenon DEF Book!InOrder, Fieldset
<1>10. Book!EndSort
  <2>1. UNCHANGED <<people, Fieldset, found, ~crashed>>
    BY <1>1, <1>4, <1>6
  <2> QED
    BY <1>1, <1>9, <2>1, Zenon DEF Book!EndSort, Fieldset
<1> QED
  BY <1>5, <1>7, <1>10 DEF ListInv

---------------------------------------------------------------------------
\* The refinement.

LEMMA CallStep == ListInv /\ Call => ListInv' /\ Book!Next
<1> SUFFICES ASSUME ListInv, Call
             PROVE  ListInv' /\ Book!Next
  OBVIOUS
<1>1. ListTypes /\ ~crashed /\ field = NoField
  BY DEF ListInv, Call
<1>2. PICK C : Shape(C, <<>>)
  <2>1. PICK C, D : Shape(C, D)
    BY DEF ListInv
  <2>2. D = <<>>
    BY <1>1, <2>1, NoSecond
  <2> QED
    BY <2>1, <2>2
<1>3. CASE (insert \/ remove \/ deleteList) /\ found' = NULL /\ UNCHANGED within
  <2>0. UNCHANGED <<sorted, field>> /\ found' = NULL
    BY <1>3 DEF within
  <2>1. ASSUME insert
        PROVE  ListInv' /\ Book!Next
    <3>1. PICK node \in Nodes : createList(node) \/ insertAtHead(node) \/ insertAtTail(node)
      BY <2>1 DEF insert
    <3>2. UNCHANGED crashed
      BY <2>1 DEF insert
    <3>3. ListInv' /\ Book!Insert(node)
      BY <1>1, <1>2, <2>0, <3>1, <3>2, InsertStep
    <3> QED
      BY <3>3, Zenon DEF Book!Next
  <2>2. ASSUME remove
        PROVE  ListInv' /\ Book!Next
    <3>1. ListInv' /\ (Book!Remove \/ Book!RemoveLast)
      BY <1>1, <1>2, <2>0, <2>2, RemoveStep
    <3> QED
      BY <3>1, Zenon DEF Book!Next
  <2>3. ASSUME deleteList
        PROVE  ListInv' /\ Book!Next
    <3>1. ListInv' /\ Book!Clear
      BY <1>1, <1>2, <2>0, <2>3, ClearStep
    <3> QED
      BY <3>1, Zenon DEF Book!Next
  <2> QED
    BY <1>3, <2>1, <2>2, <2>3
<1>4. ASSUME NEW f \in Fields, NEW x \in Keys, find(x, f), UNCHANGED <<list, within, crashed>>
      PROVE  ListInv' /\ Book!Next
  <2>1. ListInv' /\ Book!Find(x, f)
    BY <1>1, <1>2, <1>4, FindStep
  <2> QED
    BY <2>1, Zenon DEF Book!Next
<1>5. ASSUME NEW f \in Fields, sort(f), found' = NULL, UNCHANGED <<list, crashed>>
      PROVE  ListInv' /\ Book!Next
  <2>1. ListInv' /\ Book!BeginSort(f)
    BY <1>1, <1>2, <1>5, SortStep
  <2> QED
    BY <2>1, Zenon DEF Book!Next
<1> QED
  BY <1>3, <1>4, <1>5 DEF Call

LEMMA ListStep == ListInv /\ [ListNext]_listVars => ListInv' /\ [Book!Next]_(Book!vars)
<1> SUFFICES ASSUME ListInv, [ListNext]_listVars
             PROVE  ListInv' /\ [Book!Next]_(Book!vars)
  OBVIOUS
<1>1. PICK C, D : Shape(C, D) /\ Ordered(C, D)
  BY DEF ListInv
<1>2. ListTypes
  BY DEF ListInv
<1>3. CASE Call
  BY <1>3, CallStep
<1>4. CASE sortLoop /\ UNCHANGED <<key, heap, found, crashed>>
  <2>1. ListInv' /\ Book!Shuffle
    BY <1>1, <1>2, <1>4, LoopStep
  <2> QED
    BY <2>1, Zenon DEF Book!Next
<1>5. CASE sortReturn /\ UNCHANGED <<key, heap, found, crashed>>
  <2>1. ListInv' /\ Book!EndSort
    BY <1>1, <1>2, <1>5, ReturnStep
  <2> QED
    BY <2>1, Zenon DEF Book!Next
<1>6. CASE UNCHANGED listVars
  <2>1. UNCHANGED <<head, next, prev, key, heap, sorted, field, found, crashed>>
    BY <1>6 DEF listVars
  <2>2. Shape(C, D)' /\ Ordered(C, D)'
    BY <1>1, <2>1 DEF Shape, Ordered, TwoWay
  <2>3. ListTypes'
    BY <1>2, <2>1 DEF ListTypes
  <2>4. people' = people /\ Fieldset' = Fieldset
    <3>1. people = C \o D /\ Fieldset = [p \in Members(C) \cup Members(D) |-> key[p]]
      BY <1>1, ShapeIs
    <3>2. people' = C \o D /\ Fieldset' = [p \in Members(C) \cup Members(D) |-> key'[p]]
      BY <2>2, ShapeIsNext
    <3> QED
      BY <2>1, <3>1, <3>2
  <2>5. UNCHANGED Book!vars
    BY <2>1, <2>4 DEF Book!vars, Fieldset
  <2> QED
    BY <2>2, <2>3, <2>5 DEF ListInv
<1> QED
  BY <1>3, <1>4, <1>5, <1>6 DEF ListNext

\* The links of list.c always make up two lists without a loop or a node in
\* common, both linked backwards as well; while sort runs, the second is in
\* order, and nobody on the first belongs behind somebody on it.
THEOREM ListLinked == ListSpec => []ListInv
<1>1. ListInit => ListInv
  BY InitList
<1>2. ListInv /\ [ListNext]_listVars => ListInv'
  BY ListStep
<1> QED
  BY <1>1, <1>2, PTL DEF ListSpec

\* The list of list.c refines the roster, up to the end of a sort: every call,
\* and every turn of sort's loop, does to the sequence that the links make up
\* what a step of the roster does to it, however stale the links of the nodes
\* are that have been taken out.  A sort returns everybody, in order.
THEOREM ListFollowsRoster == ListSpec => Book!Init /\ [][Book!Next]_(Book!vars)
<1>1. ListInit => Book!Init
  BY InitList
<1>2. ListInv /\ [ListNext]_listVars => [Book!Next]_(Book!vars)
  BY ListStep
<1> QED
  BY <1>1, <1>2, ListLinked, PTL DEF ListSpec

===============================================================================
