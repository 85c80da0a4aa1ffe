----------------------------- MODULE CarrierDeck -----------------------------
(***************************************************************************)
(* cw09/zad2/main.c: planes land on and take off from a carrier with one   *)
(* runway (the mutex landingstrip).  The deck holds N planes; below K of   *)
(* them landings go first, from K on take-offs do.  The two small mutexes  *)
(* guard one counter access each and are held over no other call, so such  *)
(* an access is one step.                                                  *)
(***************************************************************************)
EXTENDS Integers, FiniteSets

CONSTANTS
  Planes,   \* the plane threads
  N,        \* how many planes the deck holds
  K,        \* from this many on, take-offs go first
  Nobody    \* landingstrip when no thread holds it

ASSUME DeckAssumption ==
  N \in Nat \ {0} /\ K \in Nat /\ Nobody \notin Planes /\ IsFiniteSet(Planes)

VARIABLES
  planes_on_board, waiting_to_takeoff, waiting_to_land,
  landingstrip,   \* the plane that holds the mutex, or Nobody
  pc              \* where each plane is

vars == <<planes_on_board, waiting_to_takeoff, waiting_to_land, landingstrip, pc>>

counters == <<planes_on_board, waiting_to_takeoff, waiting_to_land>>

(***************************************************************************)
(* air, deck         in usleep                                             *)
(* wantL, wantT      announced, about to lock landingstrip                 *)
(* checkL, checkT    holding it, at the test of the while loop             *)
(* sleepL, sleepT    blocked on took_off, on landed                        *)
(* wokenL, wokenT    woken there, about to get landingstrip back           *)
(* goL, goT          holding it, at lines 54 and 78                        *)
(* land, takeoff     holding it, at lines 58 and 82                        *)
(***************************************************************************)
OnDeck == {"deck", "wantT", "checkT", "sleepT", "wokenT", "goT", "takeoff"}
InAir  == {"air", "wantL", "checkL", "sleepL", "wokenL", "goL", "land"}

Init ==
  /\ planes_on_board = 0
  /\ waiting_to_takeoff = 0
  /\ waiting_to_land = 0
  /\ landingstrip = Nobody
  /\ pc = [p \in Planes |-> "air"]

---------------------------------------------------------------------------

At(p, from, to) == pc[p] = from /\ pc' = [pc EXCEPT ![p] = to]

Lock(p, from, to) ==
  /\ landingstrip = Nobody
  /\ landingstrip' = p
  /\ At(p, from, to)
  /\ UNCHANGED counters

Signal_Dropped(pcs, sleep, woken) == pc' = pcs

\* pthread_cond_signal after the caller's own step: one of the planes blocked
\* at the place sleep goes to woken, if there is one.
Signal(pcs, sleep, woken) ==
  LET blocked == {q \in Planes : pcs[q] = sleep}
  IN  IF blocked = {} THEN pc' = pcs
      ELSE \E q \in blocked : pc' = [pcs EXCEPT ![q] = woken]

MustNotLand ==
  \/ planes_on_board = N
  \/ planes_on_board >= K /\ waiting_to_takeoff > 0

MustNotTakeOff_OffByOne == planes_on_board <= K /\ waiting_to_land > 0

MustNotTakeOff == planes_on_board < K /\ waiting_to_land > 0

---------------------------------------------------------------------------

AnnounceLanding(p) ==
  /\ At(p, "air", "wantL")
  /\ waiting_to_land' = waiting_to_land + 1
  /\ UNCHANGED <<planes_on_board, waiting_to_takeoff, landingstrip>>

LockToLand(p) == Lock(p, "wantL", "checkL")

CheckLanding(p) ==
  /\ \/ MustNotLand /\ At(p, "checkL", "sleepL") /\ landingstrip' = Nobody
     \/ ~MustNotLand /\ At(p, "checkL", "goL") /\ UNCHANGED landingstrip
  /\ UNCHANGED counters

RelockToLand_If(p) == Lock(p, "wokenL", "goL")

RelockToLand(p) == Lock(p, "wokenL", "checkL")

LeaveLandingQueue_Missing(p) ==
  /\ At(p, "goL", "land")
  /\ UNCHANGED <<counters, landingstrip>>

\* Line 55.
LeaveLandingQueue(p) ==
  /\ At(p, "goL", "land")
  /\ waiting_to_land' = waiting_to_land - 1
  /\ UNCHANGED <<planes_on_board, waiting_to_takeoff, landingstrip>>

Land(p) ==
  /\ pc[p] = "land"
  /\ planes_on_board' = planes_on_board + 1
  /\ Signal([pc EXCEPT ![p] = "deck"], "sleepT", "wokenT")
  /\ landingstrip' = Nobody
  /\ UNCHANGED <<waiting_to_takeoff, waiting_to_land>>

AnnounceTakeOff(p) ==
  /\ At(p, "deck", "wantT")
  /\ waiting_to_takeoff' = waiting_to_takeoff + 1
  /\ UNCHANGED <<planes_on_board, waiting_to_land, landingstrip>>

LockToTakeOff(p) == Lock(p, "wantT", "checkT")

CheckTakeOff(p) ==
  /\ \/ MustNotTakeOff /\ At(p, "checkT", "sleepT") /\ landingstrip' = Nobody
     \/ ~MustNotTakeOff /\ At(p, "checkT", "goT") /\ UNCHANGED landingstrip
  /\ UNCHANGED counters

RelockToTakeOff(p) == Lock(p, "wokenT", "checkT")

LeaveTakeOffQueue_WrongCounter(p) ==
  /\ At(p, "goT", "takeoff")
  /\ waiting_to_land' = waiting_to_land - 1
  /\ UNCHANGED <<planes_on_board, waiting_to_takeoff, landingstrip>>

\* Line 79.
LeaveTakeOffQueue(p) ==
  /\ At(p, "goT", "takeoff")
  /\ waiting_to_takeoff' = waiting_to_takeoff - 1
  /\ UNCHANGED <<planes_on_board, waiting_to_land, landingstrip>>

TakeOff(p) ==
  /\ pc[p] = "takeoff"
  /\ planes_on_board' = planes_on_board - 1
  /\ Signal([pc EXCEPT ![p] = "air"], "sleepL", "wokenL")
  /\ landingstrip' = Nobody
  /\ UNCHANGED <<waiting_to_takeoff, waiting_to_land>>

\* pthread_cond_wait may return although nobody signalled.
Spurious(p) ==
  /\ At(p, "sleepL", "wokenL") \/ At(p, "sleepT", "wokenT")
  /\ UNCHANGED <<counters, landingstrip>>

plane(p) ==
  \/ AnnounceLanding(p) \/ LockToLand(p) \/ CheckLanding(p) \/ RelockToLand(p)
  \/ LeaveLandingQueue(p) \/ Land(p)
  \/ AnnounceTakeOff(p) \/ LockToTakeOff(p) \/ CheckTakeOff(p) \/ RelockToTakeOff(p)
  \/ LeaveTakeOffQueue(p) \/ TakeOff(p)

Next == \E p \in Planes : plane(p) \/ Spurious(p)

Spec == Init /\ [][Next]_vars

\* Threads that can run do run, and spurious wakeups are not the only thing
\* that ever happens; which of the threads at the mutex gets it is open.
FairSpec ==
  /\ Spec
  /\ \A p \in Planes : WF_vars(plane(p))
  /\ <>[][\A p \in Planes : ~Spurious(p)]_vars

---------------------------------------------------------------------------

TypeOK ==
  /\ planes_on_board \in Int
  /\ waiting_to_takeoff \in 0 .. Cardinality(Planes)
  /\ waiting_to_land \in 0 .. Cardinality(Planes)
  /\ landingstrip \in Planes \cup {Nobody}
  /\ pc \in [Planes -> OnDeck \cup InAir]

\* The deck is never over-full and never gives a plane it does not have,
\* although the test of line 46 and the landing of line 58 are separate and a
\* plane that was woken competes with newcomers for the runway.
DeckHolds == planes_on_board \in 0 .. N

\* The three counters, changed under three different mutexes, say how many
\* planes really are on the deck and how many really wait.
CountersAgree ==
  /\ planes_on_board = Cardinality({p \in Planes : pc[p] \in OnDeck})
  /\ waiting_to_land =
       Cardinality({p \in Planes : pc[p] \in InAir \ {"air", "land"}})
  /\ waiting_to_takeoff =
       Cardinality({p \in Planes : pc[p] \in OnDeck \ {"deck", "takeoff"}})

\* The side that has priority is never left asleep: while a plane sleeps that
\* the deck's fill gives priority to, another plane of its side is on its way
\* and will signal.  (Without priority a plane may sleep on although its test
\* would let it pass: signals are not sent when waiting_to_takeoff or
\* waiting_to_land falls.)
PriorityNotAsleep ==
  /\ planes_on_board >= K /\ (\E p \in Planes : pc[p] = "sleepT") =>
       \E q \in Planes : pc[q] \in {"wokenT", "checkT", "goT", "takeoff"}
  /\ planes_on_board < K /\ (\E p \in Planes : pc[p] = "sleepL") =>
       \E q \in Planes : pc[q] \in {"wokenL", "checkL", "goL", "land"}

\* Landings and take-offs go on for ever: signalling one plane at a time on
\* two conditions never leaves all planes asleep.
TrafficGoesOn ==
  /\ []<>(\E p \in Planes : pc[p] = "land")
  /\ []<>(\E p \in Planes : pc[p] = "takeoff")

=============================================================================
