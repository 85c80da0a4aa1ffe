------------------------ MODULE EndingPrograms_proofs ------------------------
(***************************************************************************)
(* Proofs about the three programs whose actors work and come to an end:   *)
(* the exchange of signals, for any number of signals and in its variants, *)
(* the record search, for any number of threads and any file, and the file *)
(* counter, for any tree and any number of processes.  They share no       *)
(* variable.  The proofs are about what a run that is over has counted or  *)
(* found.                                                                  *)
(***************************************************************************)
EXTENDS SignalExchange, RecordSearch, FileCounter, SequenceTheorems, FiniteSetTheorems, TLAPS

Queues == [Both -> [Signals -> Nat]]

Types ==
  /\ variant \in {"a", "b", "c"}
  /\ signals \in Nat /\ together \in BOOLEAN
  /\ pending \in Queues
  /\ received \in [Both -> Nat]
  /\ loop \in [Both -> BOOLEAN]
  /\ wait \in BOOLEAN /\ known \in BOOLEAN
  /\ pc \in [Both -> {"send", "set", "spin", "wait", "reply", "done"}]
  /\ i \in [Both -> Nat]

\* Short names: signals on their way, and the two counts.
ToReceiver == pending["receiver"]["USR1"]
ToSender   == pending["sender"]["USR1"]
AtReceiver == received["receiver"]
AtSender   == received["sender"]

Sending == pc["sender"] \in {"send", "set", "spin"}

\* The sender's end comes after its last signal, and the receiver's end after
\* that: nothing is under way to a process that has been told to stop.
Phases ==
  /\ variant # "b" => pc["sender"] \notin {"set", "spin"}
  /\ pc["receiver"] \in {"wait", "reply", "done"}
  /\ i["sender"] <= signals
  /\ Sending => pending["receiver"]["USR2"] = 0 /\ loop["receiver"]
  /\ ~Sending => i["sender"] = signals
  /\ loop["receiver"] => pc["receiver"] = "wait"
  /\ ~loop["receiver"] => ToReceiver = 0
  /\ pc["receiver"] = "wait" => i["receiver"] = 0
  /\ pc["receiver"] = "done" => i["receiver"] = Replies
  /\ pc["receiver"] # "done" => pending["sender"]["USR2"] = 0 /\ loop["sender"]
  /\ pending["sender"]["USR2"] > 0 \/ ~loop["sender"] => known \/ signals = 0
  /\ ~loop["sender"] => ToSender = 0
  /\ pc["sender"] = "done" => ~loop["sender"]
  /\ known <=> AtReceiver > 0

\* Standard signals merge, but one of several always arrives.
CountsA ==
  variant = "a" =>
    /\ AtReceiver + ToReceiver <= i["sender"]
    /\ i["sender"] > 0 => AtReceiver + ToReceiver > 0
    /\ AtSender + ToSender <= i["receiver"]
    /\ i["receiver"] > 0 => AtSender + ToSender > 0
    /\ i["receiver"] <= AtReceiver

\* One signal at a time, or the answer to it; none when the sender has seen it.
CountsB ==
  variant = "b" =>
    /\ AtReceiver + ToReceiver = i["sender"]
    /\ AtSender + ToSender = AtReceiver
    /\ ToReceiver + ToSender <= 1
    /\ pc["sender"] \in {"send", "wait", "done"} \/ (pc["sender"] = "spin" /\ ~wait)
         => ToReceiver = 0 /\ ToSender = 0
    /\ i["receiver"] = 0

CountsC ==
  variant = "c" =>
    /\ AtReceiver + ToReceiver = i["sender"]
    /\ AtSender + ToSender = i["receiver"]

IInv == Types /\ Phases /\ CountsA /\ CountsB /\ CountsC

---------------------------------------------------------------------------

LEMMA InitIInv == Init => IInv
<1> SUFFICES ASSUME Init
             PROVE  IInv
  OBVIOUS
<1>1. signals \in Nat
  BY SignalsAssumption DEF Init
<1>2. Types
  BY <1>1 DEF Init, Types, Queues
<1>3. Phases /\ CountsA /\ CountsB /\ CountsC
  BY <1>1 DEF Init, Phases, CountsA, CountsB, CountsC, Sending, ToReceiver, ToSender,
     AtReceiver, AtSender, Both, Signals
<1> QED
  BY <1>2, <1>3 DEF IInv

\* What a signal sent, and one taken, leaves in the queues.
LEMMA Killed ==
  ASSUME NEW before \in Queues, NEW q \in Both, NEW s \in Signals, Kill(q, s, before)
  PROVE  /\ pending' \in Queues
         /\ pending'[q][s] = IF Queued THEN before[q][s] + 1 ELSE 1
         /\ \A r \in Both, t \in Signals :
              <<r, t>> # <<q, s>> => pending'[r][t] = before[r][t]
<1>1. PICK m \in Nat : /\ m = (IF Queued THEN before[q][s] + 1 ELSE 1)
                       /\ pending' = [before EXCEPT ![q][s] = m]
  <2>1. (IF Queued THEN before[q][s] + 1 ELSE 1) \in Nat
    BY DEF Queues
  <2> QED
    BY <2>1 DEF Kill
<1> QED
  BY <1>1 DEF Queues

LEMMA KilledGroup ==
  ASSUME pending \in Queues, NEW s \in Signals, SendGroup(s)
  PROVE  /\ pending' \in Queues
         /\ \A r \in Both, t \in Signals \ {s} : pending'[r][t] = pending[r][t]
<1>1. \A q \in Both : (IF Queued THEN pending[q][s] + 1 ELSE 1) \in Nat
  BY DEF Queues
<1>2. \A q \in Both :
        [pending[q] EXCEPT ![s] = IF Queued THEN @ + 1 ELSE 1] \in [Signals -> Nat]
  BY <1>1 DEF Queues
<1> QED
  BY <1>2 DEF SendGroup, Queues

LEMMA TakenOne ==
  ASSUME pending \in Queues, NEW p \in Both, NEW s \in Signals, pending[p][s] > 0
  PROVE  /\ Taken(p, s) \in Queues
         /\ Taken(p, s)[p][s] = pending[p][s] - 1
         /\ \A r \in Both, t \in Signals :
              <<r, t>> # <<p, s>> => Taken(p, s)[r][t] = pending[r][t]
<1>1. pending[p][s] - 1 \in Nat
  BY DEF Queues
<1> QED
  BY <1>1 DEF Queues, Taken

\* How a process moves.
LEMMA Moved ==
  ASSUME Types, NEW p \in Both, NEW from,
         NEW to \in {"send", "set", "spin", "wait", "reply", "done"}, At(p, from, to)
  PROVE  /\ pc[p] = from /\ pc'[p] = to
         /\ pc' \in [Both -> {"send", "set", "spin", "wait", "reply", "done"}]
         /\ \A q \in Both \ {p} : pc'[q] = pc[q]
BY DEF Types, At

---------------------------------------------------------------------------

LEMMA CountSenderStep == ASSUME IInv, CountSender PROVE IInv'
<1> USE DEF IInv
<1>1. /\ pending' \in Queues /\ ToSender > 0 /\ ToSender' = ToSender - 1
      /\ ToReceiver' = ToReceiver
      /\ pending'["sender"]["USR2"] = pending["sender"]["USR2"]
      /\ pending'["receiver"]["USR2"] = pending["receiver"]["USR2"]
  BY TakenOne DEF CountSender, Delivers, Types, Both, Signals, ToSender, ToReceiver
<1>2. /\ received' \in [Both -> Nat] /\ AtSender' = AtSender + 1 /\ AtReceiver' = AtReceiver
      /\ wait' = FALSE
      /\ variant' = variant /\ signals' = signals /\ together' = together /\ loop' = loop /\ known' = known
      /\ pc' = pc /\ i' = i
  BY DEF CountSender, Types, Both, AtSender, AtReceiver, inputs
<1>3. /\ AtSender \in Nat /\ AtReceiver \in Nat /\ ToSender \in Nat /\ ToReceiver \in Nat
      /\ i["receiver"] \in Nat /\ i["sender"] \in Nat
  BY DEF Types, Queues, Both, Signals, AtSender, AtReceiver, ToSender, ToReceiver
<1>4. Types'
  BY <1>1, <1>2 DEF Types
<1>5. Phases'
  BY <1>1, <1>2, <1>3 DEF Phases, Sending, Replies, AtReceiver
<1>6. CountsA' /\ CountsB' /\ CountsC'
  BY <1>1, <1>2, <1>3 DEF CountsA, CountsB, CountsC
<1> QED
  BY <1>4, <1>5, <1>6

LEMMA CountReceiverStep == ASSUME IInv, CountReceiver PROVE IInv'
<1> USE DEF IInv
<1> DEFINE T == Taken("receiver", "USR1")
<1>1. /\ T \in Queues /\ ToReceiver > 0
      /\ T["receiver"]["USR1"] = ToReceiver - 1
      /\ T["sender"]["USR1"] = ToSender
      /\ T["sender"]["USR2"] = pending["sender"]["USR2"]
      /\ T["receiver"]["USR2"] = pending["receiver"]["USR2"]
  BY TakenOne DEF CountReceiver, Delivers, Types, Both, Signals, ToSender, ToReceiver
<1> HIDE DEF T
<1>2. /\ pending' \in Queues /\ ToReceiver' = ToReceiver - 1
      /\ pending'["sender"]["USR2"] = pending["sender"]["USR2"]
      /\ pending'["receiver"]["USR2"] = pending["receiver"]["USR2"]
      /\ ToSender' = IF variant = "b" THEN 1 ELSE ToSender
  <2>1. CASE variant = "b"
    <3>1. Kill("sender", "USR1", T) /\ ~Queued
      BY <2>1 DEF CountReceiver, T, Queued
    <3> QED
      BY <1>1, <2>1, <3>1, Killed DEF Both, Signals, ToSender, ToReceiver
  <2>2. CASE variant # "b"
    BY <1>1, <2>2 DEF CountReceiver, T, ToSender, ToReceiver
  <2> QED
    BY <2>1, <2>2
<1>3. /\ received' \in [Both -> Nat] /\ AtReceiver' = AtReceiver + 1 /\ AtSender' = AtSender
      /\ known' = TRUE
      /\ variant' = variant /\ signals' = signals /\ together' = together /\ loop' = loop /\ wait' = wait
      /\ pc' = pc /\ i' = i
  BY DEF CountReceiver, Types, Both, AtSender, AtReceiver, inputs
<1>4. /\ AtSender \in Nat /\ AtReceiver \in Nat /\ ToSender \in Nat /\ ToReceiver \in Nat
      /\ i["receiver"] \in Nat /\ i["sender"] \in Nat
  BY DEF Types, Queues, Both, Signals, AtSender, AtReceiver, ToSender, ToReceiver
<1>5. loop["receiver"] /\ pc["receiver"] = "wait" /\ loop["sender"]
  BY <1>1 DEF Phases
<1>6. Types'
  BY <1>2, <1>3 DEF Types
<1>7. Phases'
  BY <1>2, <1>3, <1>4, <1>5 DEF Phases, Sending
<1>8. CountsA' /\ CountsB' /\ CountsC'
  BY <1>1, <1>2, <1>3, <1>4 DEF CountsA, CountsB, CountsC
<1> QED
  BY <1>6, <1>7, <1>8

LEMMA StopStep == ASSUME IInv, NEW p \in Both, Stop(p) PROVE IInv'
<1> USE DEF IInv
<1>1. /\ pending' \in Queues /\ ToSender' = ToSender /\ ToReceiver' = ToReceiver
      /\ pending[p]["USR2"] > 0 /\ pending[p]["USR1"] = 0
      /\ pending'[p]["USR2"] = pending[p]["USR2"] - 1
      /\ \A q \in Both \ {p} : pending'[q]["USR2"] = pending[q]["USR2"]
  BY TakenOne DEF Stop, Delivers, Types, Both, Signals, ToSender, ToReceiver
<1>2. /\ loop' \in [Both -> BOOLEAN] /\ loop'[p] = FALSE
      /\ \A q \in Both \ {p} : loop'[q] = loop[q]
      /\ variant' = variant /\ signals' = signals /\ together' = together /\ received' = received /\ wait' = wait
      /\ known' = known /\ pc' = pc /\ i' = i
  BY DEF Stop, Types, inputs
<1>3. /\ ToSender \in Nat /\ ToReceiver \in Nat
      /\ \A q \in Both : pending[q]["USR2"] \in Nat
  BY DEF Types, Queues, Both, Signals, ToSender, ToReceiver
<1>4. Types'
  BY <1>1, <1>2 DEF Types
<1>5. Phases'
  <2>1. CASE p = "sender"
    BY <1>1, <1>2, <1>3, <2>1 DEF Phases, Sending, Both, ToSender, AtReceiver, Replies
  <2>2. CASE p = "receiver"
    BY <1>1, <1>2, <1>3, <2>2 DEF Phases, Sending, Both, ToReceiver, AtReceiver, Replies
  <2> QED
    BY <2>1, <2>2 DEF Both
<1>6. CountsA' /\ CountsB' /\ CountsC'
  BY <1>1, <1>2 DEF CountsA, CountsB, CountsC, AtReceiver, AtSender
<1> QED
  BY <1>4, <1>5, <1>6

---------------------------------------------------------------------------

LEMMA SendOneStep == ASSUME IInv, SendOne PROVE IInv'
<1> USE DEF IInv
<1>1. /\ pending' \in Queues
      /\ ToReceiver' = IF variant = "c" THEN ToReceiver + 1 ELSE 1
      /\ ToSender' = ToSender
      /\ pending'["sender"]["USR2"] = pending["sender"]["USR2"]
      /\ pending'["receiver"]["USR2"] = pending["receiver"]["USR2"]
  BY Killed DEF SendOne, Send, Queued, Types, Both, Signals, ToSender, ToReceiver
<1>2. /\ pc["sender"] = "send"
      /\ pc'["sender"] = IF variant = "b" THEN "set" ELSE "send"
      /\ pc' \in [Both -> {"send", "set", "spin", "wait", "reply", "done"}]
      /\ pc'["receiver"] = pc["receiver"]
  BY Moved DEF SendOne, Both
<1>3. /\ i["sender"] < signals
      /\ i' \in [Both -> Nat] /\ i'["sender"] = i["sender"] + 1 /\ i'["receiver"] = i["receiver"]
      /\ variant' = variant /\ signals' = signals /\ together' = together /\ received' = received /\ loop' = loop
      /\ wait' = wait /\ known' = known
  BY DEF SendOne, Types, Both, inputs
<1>4. /\ AtSender \in Nat /\ AtReceiver \in Nat /\ ToSender \in Nat /\ ToReceiver \in Nat
      /\ i["receiver"] \in Nat /\ i["sender"] \in Nat /\ signals \in Nat
  BY DEF Types, Queues, Both, Signals, AtSender, AtReceiver, ToSender, ToReceiver
<1>5. Types'
  BY <1>1, <1>2, <1>3 DEF Types
<1>6. Phases'
  BY <1>1, <1>2, <1>3, <1>4 DEF Phases, Sending, AtReceiver, Replies
<1>7. CountsA' /\ CountsB' /\ CountsC'
  BY <1>1, <1>2, <1>3, <1>4 DEF CountsA, CountsB, CountsC, AtReceiver, AtSender
<1> QED
  BY <1>5, <1>6, <1>7

\* A step of either main that neither sends nor counts.
LEMMA QuietStep ==
  ASSUME IInv, SetWait \/ Answered \/ Finish \/ Stopped
  PROVE  IInv'
<1> USE DEF IInv
<1>1. /\ UNCHANGED <<inputs, pending, received, loop, known, i>>
      /\ pc' \in [Both -> {"send", "set", "spin", "wait", "reply", "done"}]
      /\ wait' \in BOOLEAN
      /\ \/ /\ pc["sender"] = "set" /\ pc'["sender"] = "spin" /\ wait' = TRUE
            /\ pc'["receiver"] = pc["receiver"]
         \/ /\ pc["sender"] = "spin" /\ pc'["sender"] = "send" /\ ~wait /\ wait' = wait
            /\ pc'["receiver"] = pc["receiver"]
         \/ /\ pc["sender"] = "wait" /\ pc'["sender"] = "done" /\ wait' = wait
            /\ ~loop["sender"] /\ pc'["receiver"] = pc["receiver"]
         \/ /\ pc["receiver"] = "wait" /\ pc'["receiver"] = "reply" /\ wait' = wait
            /\ ~loop["receiver"] /\ pc'["sender"] = pc["sender"]
  BY Moved DEF SetWait, Answered, Finish, Stopped, Both, Types
<1>2. Types'
  BY <1>1 DEF Types, inputs
<1>3. Phases'
  BY <1>1 DEF Phases, Sending, inputs, ToSender, ToReceiver, AtReceiver, Replies
<1>4. CountsA' /\ CountsB' /\ CountsC'
  BY <1>1 DEF CountsA, CountsB, CountsC, inputs, ToSender, ToReceiver, AtReceiver, AtSender
<1> QED
  BY <1>2, <1>3, <1>4

LEMMA SendEndStep == ASSUME IInv, SendEnd PROVE IInv'
<1> USE DEF IInv
<1>1. /\ pending' \in Queues /\ ToReceiver' = ToReceiver /\ ToSender' = ToSender
      /\ pending'["sender"]["USR2"] = pending["sender"]["USR2"]
  BY Killed DEF SendEnd, Send, Types, Both, Signals, ToSender, ToReceiver
<1>2. /\ pc["sender"] = "send" /\ pc'["sender"] = "wait"
      /\ pc' \in [Both -> {"send", "set", "spin", "wait", "reply", "done"}]
      /\ pc'["receiver"] = pc["receiver"]
      /\ i["sender"] = signals
      /\ UNCHANGED <<variant, signals, together, received, loop, wait, known, i>>
  BY Moved DEF SendEnd, Both, inputs
<1>3. Types'
  BY <1>1, <1>2 DEF Types
<1>4. Phases'
  BY <1>1, <1>2 DEF Phases, Sending, AtReceiver, Replies
<1>5. CountsA' /\ CountsB' /\ CountsC'
  BY <1>1, <1>2 DEF CountsA, CountsB, CountsC, AtReceiver, AtSender
<1> QED
  BY <1>3, <1>4, <1>5

LEMMA SendBackStep == ASSUME IInv, SendBack PROVE IInv'
<1> USE DEF IInv
<1>1. /\ pending' \in Queues /\ ToReceiver' = ToReceiver
      /\ ToSender' = IF variant = "c" THEN ToSender + 1 ELSE 1
      /\ pending'["sender"]["USR2"] = pending["sender"]["USR2"]
      /\ pending'["receiver"]["USR2"] = pending["receiver"]["USR2"]
  BY Killed DEF SendBack, Send, Queued, Types, Both, Signals, ToSender, ToReceiver
<1>2. /\ pc["receiver"] = "reply" /\ pc'["receiver"] = "reply"
      /\ pc' \in [Both -> {"send", "set", "spin", "wait", "reply", "done"}]
      /\ pc'["sender"] = pc["sender"]
  BY Moved DEF SendBack, Both
<1>3. /\ i["receiver"] < Replies
      /\ i' \in [Both -> Nat] /\ i'["receiver"] = i["receiver"] + 1 /\ i'["sender"] = i["sender"]
      /\ variant' = variant /\ signals' = signals /\ together' = together /\ received' = received /\ loop' = loop
      /\ wait' = wait /\ known' = known
  BY DEF SendBack, Types, Both, inputs
<1>4. /\ AtSender \in Nat /\ AtReceiver \in Nat /\ ToSender \in Nat /\ ToReceiver \in Nat
      /\ i["receiver"] \in Nat /\ i["sender"] \in Nat
  BY DEF Types, Queues, Both, Signals, AtSender, AtReceiver, ToSender, ToReceiver
<1>5. variant # "b" /\ i["receiver"] < AtReceiver
  BY <1>3, <1>4 DEF Replies, AtReceiver
<1>6. Types'
  BY <1>1, <1>2, <1>3 DEF Types
<1>7. Phases'
  BY <1>1, <1>2, <1>3, <1>4 DEF Phases, Sending, AtReceiver, Replies
<1>8. CountsA' /\ CountsB' /\ CountsC'
  BY <1>1, <1>2, <1>3, <1>4, <1>5 DEF CountsA, CountsB, CountsC, AtReceiver, AtSender
<1> QED
  BY <1>6, <1>7, <1>8

LEMMA SendBackEndStep == ASSUME IInv, SendBackEnd PROVE IInv'
<1> USE DEF IInv
<1>1. /\ pending' \in Queues /\ ToReceiver' = ToReceiver /\ ToSender' = ToSender
  <2>1. CASE known /\ Send("sender", "USR2")
    BY <2>1, Killed DEF Send, Types, Both, Signals, ToSender, ToReceiver
  <2>2. CASE ~known /\ SendGroup("USR2")
    BY <2>2, KilledGroup DEF Types, Both, Signals, ToSender, ToReceiver
  <2> QED
    BY <2>1, <2>2 DEF SendBackEnd
<1>2. /\ pc["receiver"] = "reply" /\ pc'["receiver"] = "done"
      /\ pc' \in [Both -> {"send", "set", "spin", "wait", "reply", "done"}]
      /\ pc'["sender"] = pc["sender"]
      /\ i["receiver"] = Replies
      /\ UNCHANGED <<variant, signals, together, received, loop, wait, known, i>>
  BY Moved DEF SendBackEnd, Both, inputs
<1>3. Types'
  BY <1>1, <1>2 DEF Types
<1>4. known \/ signals = 0
  <2>1. /\ AtReceiver \in Nat /\ ToReceiver = 0 /\ i["sender"] \in Nat /\ signals \in Nat
        /\ variant \in {"a", "b", "c"} /\ i["sender"] = signals
    BY <1>2 DEF Types, Phases, Both, AtReceiver
  <2>2. ~known => AtReceiver = 0
    BY <2>1 DEF Phases
  <2> QED
    BY <2>1, <2>2 DEF CountsA, CountsB, CountsC
<1>5. Phases'
  BY <1>1, <1>2, <1>4 DEF Phases, Sending, AtReceiver, Replies
<1>6. CountsA' /\ CountsB' /\ CountsC'
  BY <1>1, <1>2 DEF CountsA, CountsB, CountsC, AtReceiver, AtSender
<1> QED
  BY <1>3, <1>5, <1>6

LEMMA Stutter == ASSUME IInv, UNCHANGED vars PROVE IInv'
BY DEF IInv, vars, Types, Phases, CountsA, CountsB, CountsC, Sending, Replies, ToSender,
   ToReceiver, AtSender, AtReceiver

---------------------------------------------------------------------------

\* The invariant of the exchange, for any number of signals and all variants.
THEOREM Invariance == Spec => []IInv
<1>1. IInv /\ [Next]_vars => IInv'
  BY CountSenderStep, CountReceiverStep, StopStep, SendOneStep, QuietStep, SendEndStep,
     SendBackStep, SendBackEndStep, Stutter DEF Next, handler, sender, receiver
<1> QED
  BY <1>1, InitIInv, PTL DEF Spec

\* When the sender ends, both sides have counted every signal where each is
\* answered or queued; with merging signals the sender has counted at least one
\* and at most what the receiver has, and that at most what was sent.
THEOREM Counted == Spec => []CountsRight
<1>1. IInv => CountsRight
  <2> SUFFICES ASSUME IInv, pc["sender"] = "done"
               PROVE  IF variant = "a"
                        THEN /\ signals > 0 => 1 <= AtSender
                             /\ AtSender <= AtReceiver /\ AtReceiver <= signals
                        ELSE AtSender = signals /\ AtReceiver = signals
    BY DEF CountsRight, AtSender, AtReceiver
  <2>1. /\ AtSender \in Nat /\ AtReceiver \in Nat /\ ToSender \in Nat /\ ToReceiver \in Nat
        /\ i["receiver"] \in Nat /\ i["sender"] \in Nat /\ signals \in Nat
        /\ variant \in {"a", "b", "c"}
    BY DEF IInv, Types, Queues, Both, Signals, AtSender, AtReceiver, ToSender, ToReceiver
  <2>2. /\ ToSender = 0 /\ ToReceiver = 0 /\ (signals > 0 => AtReceiver > 0)
        /\ i["sender"] = signals /\ i["receiver"] = Replies
    BY <2>1 DEF IInv, Phases, Sending, Types, Both
  <2> QED
    BY <2>1, <2>2 DEF IInv, CountsA, CountsB, CountsC, Replies, AtReceiver
<1> QED
  BY <1>1, Invariance, PTL


---------------------------------------------------------------------------
\* The record search, cw08/zad1.

Places == {"none", "start", "top", "lock", "read", "unlock", "search", "cancel", "over"}

SearchTypes ==
  /\ threads_count \in Nat /\ records_count \in Nat \ {0} /\ RECORDS \in Nat
  /\ wersja \in 1 .. 3 /\ hits \subseteq 1 .. RECORDS /\ opened \in BOOLEAN
  /\ main \in {"create", "join", "done", "exit"} /\ n \in 0 .. threads_count
  /\ place \in [Threads -> Places]
  /\ fd \in 0 .. RECORDS
  /\ buf \in [Threads -> Seq(1 .. RECORDS)]
  /\ read_count \in [Threads -> Int]

\* The records that thread t has read and not searched.
Left(t) == {buf[t][j] : j \in 1 .. Len(buf[t])}

\* A finder has begun to cancel, or a thread may have been cancelled.
Cancelling == found # {} /\ wersja # 3

\* Only who has found something cancels anybody, and only in wersja1 and 2.
OnlyFinders ==
  /\ \A t \in Threads : place[t] = "cancel" => Cancelling
  /\ cancels # {} => Cancelling
  /\ main = "exit" => Cancelling

\* Who has not been created has done nothing; whom main has joined is over.
Joined ==
  /\ main = "create" => \A t \in Threads : t >= n => place[t] = "none"
  /\ main = "join" => \A t \in Threads : t < n => place[t] = "over"
  /\ main = "done" => \A t \in Threads : place[t] = "over"

\* A record before the offset of the file that has the word was reported, or a
\* thread still has it.
NoneDropped ==
  /\ found \subseteq hits
  /\ \A r \in hits : r <= fd => r \in found \/ \E t \in Threads : r \in Left(t)

\* A thread reads only when it has searched all that it had.
Emptied ==
  \A t \in Threads :
    place[t] \in {"none", "start", "top", "lock", "read"} => buf[t] = <<>>

\* A thread that was not cancelled ends at the end of the file.
Exhausted ==
  \A t \in Threads :
    /\ opened /\ read_count[t] = 0 => fd = RECORDS
    /\ place[t] = "over" => Cancelling \/ (buf[t] = <<>> /\ (opened => fd = RECORDS))

SInv == SearchTypes /\ OnlyFinders /\ Joined /\ NoneDropped /\ Emptied /\ Exhausted

---------------------------------------------------------------------------

LEMMA InitSInv == SearchInit => SInv
<1> SUFFICES ASSUME SearchInit
             PROVE  SInv
  OBVIOUS
<1> USE SearchAssumption DEF SearchInit, Threads
<1>1. <<>> \in Seq(1 .. RECORDS)
  OBVIOUS
<1>2. SearchTypes
  BY <1>1 DEF SearchTypes, Places
<1>3. OnlyFinders /\ Joined /\ NoneDropped /\ Emptied /\ Exhausted
  BY DEF OnlyFinders, Joined, NoneDropped, Emptied, Exhausted
<1> QED
  BY <1>2, <1>3 DEF SInv

\* A chunk holds the next records, and none only at the end of the file.
LEMMA ChunkIs ==
  ASSUME SearchTypes
  PROVE  /\ Chunk \in Seq(1 .. RECORDS)
         /\ fd + Len(Chunk) \in fd .. RECORDS
         /\ Len(Chunk) = 0 => fd = RECORDS
         /\ \A r \in fd + 1 .. fd + Len(Chunk) :
              \E j \in 1 .. Len(Chunk) : Chunk[j] = r
<1> DEFINE file == [r \in 1 .. RECORDS |-> r]
<1>1. PICK last \in Int : /\ last = (IF fd + records_count < RECORDS THEN fd + records_count
                                                                   ELSE RECORDS)
                          /\ last \in fd .. RECORDS /\ (last = fd => fd = RECORDS)
  BY DEF SearchTypes
<1>2. PICK first \in Int : first = fd + 1 /\ first >= 1
  BY DEF SearchTypes
<1>3. Chunk = SubSeq(file, first, last)
  BY <1>1, <1>2 DEF Chunk
<1>4. \A i_1 \in first .. last : file[i_1] \in 1 .. RECORDS /\ file[i_1] = i_1
  BY <1>1, <1>2 DEF SearchTypes
<1> HIDE DEF file
<1>5. /\ SubSeq(file, first, last) \in Seq(1 .. RECORDS)
      /\ Len(SubSeq(file, first, last)) = IF first <= last THEN last - first + 1 ELSE 0
      /\ \A j \in 1 .. last - first + 1 :
           SubSeq(file, first, last)[j] = file[first + j - 1]
  BY <1>4, SubSeqProperties
<1>6. fd \in Int /\ RECORDS \in Int
  BY DEF SearchTypes
<1>7. Len(Chunk) = last - fd
  BY <1>1, <1>2, <1>3, <1>5, <1>6
<1>8. ASSUME NEW r \in fd + 1 .. last
      PROVE  r - fd \in 1 .. last - fd /\ Chunk[r - fd] = r
  <2>1. r - fd \in 1 .. last - first + 1 /\ first + (r - fd) - 1 = r /\ r \in first .. last
    BY <1>1, <1>2, <1>6
  <2> QED
    BY <2>1, <1>1, <1>2, <1>3, <1>4, <1>5, <1>6
<1>9. Chunk \in Seq(1 .. RECORDS)
  BY <1>3, <1>5
<1> HIDE DEF Chunk
<1>10. fd + Len(Chunk) = last
  BY <1>1, <1>6, <1>7
<1>11. \A r \in fd + 1 .. last : \E j \in 1 .. last - fd : Chunk[j] = r
  BY <1>8
<1>12. Len(Chunk) = 0 => fd = RECORDS
  BY <1>1, <1>6, <1>10
<1> QED
  BY <1>1, <1>7, <1>9, <1>10, <1>11, <1>12

\* Where a thread goes.
LEMMA PlacesGo ==
  ASSUME SearchTypes, NEW t \in Threads, NEW from, NEW to \in Places, Moves(t, from, to)
  PROVE  /\ place[t] = from /\ place'[t] = to /\ main \in {"create", "join"}
         /\ place' \in [Threads -> Places]
         /\ \A u \in Threads \ {t} : place'[u] = place[u]
BY DEF SearchTypes, Moves, Running

\* A thread moves that neither reads nor searches, and leaves main alone.
LEMMA CalmStep ==
  ASSUME SInv, NEW t \in Threads,
         UNCHANGED <<wersja, hits, opened, main, n, fd, buf, read_count, found>>,
         place' \in [Threads -> Places], \A u \in Threads \ {t} : place'[u] = place[u],
         place[t] \notin {"none", "over"}, cancels' # cancels => Cancelling,
         place'[t] # "none",
         place'[t] = "cancel" => place[t] = "cancel",
         place'[t] \in {"start", "top", "lock", "read"} => buf[t] = <<>>,
         place'[t] = "over" => Cancelling \/ (buf[t] = <<>> /\ (opened => fd = RECORDS))
  PROVE  SInv'
<1>1. SearchTypes'
  BY DEF SInv, SearchTypes, Threads
<1>2. OnlyFinders'
  BY DEF SInv, OnlyFinders, Cancelling, Threads
<1>3. Joined'
  BY DEF SInv, Joined, Threads
<1>4. NoneDropped'
  BY DEF SInv, NoneDropped, Left, Threads
<1>5. Emptied' /\ Exhausted'
  BY DEF SInv, Emptied, Exhausted, Cancelling, Threads
<1> QED
  BY <1>1, <1>2, <1>3, <1>4, <1>5 DEF SInv

LEMMA MainStep == ASSUME SInv, Main PROVE SInv'
<1> USE DEF SInv, SearchTypes, Threads, given, thread
<1>1. CASE pthread_create
  <2>1. /\ n \in Threads /\ place' = [place EXCEPT ![n] = "start"] /\ n' = n + 1
        /\ main = "create" /\ place[n] = "none"
        /\ UNCHANGED <<wersja, hits, opened, main, fd, buf, read_count, cancels, found>>
    BY <1>1 DEF pthread_create, Joined
  <2>2. SearchTypes'
    BY <2>1 DEF Places
  <2>3. OnlyFinders' /\ Joined'
    BY <2>1 DEF OnlyFinders, Joined, Cancelling
  <2>4. \A t : Left(t)' = Left(t)
    BY <2>1 DEF Left
  <2>5. NoneDropped'
    BY <2>1, <2>4 DEF NoneDropped
  <2>6. Emptied' /\ Exhausted'
    BY <2>1 DEF Emptied, Exhausted, Cancelling
  <2> QED
    BY <2>2, <2>3, <2>5, <2>6
<1>2. CASE Created \/ pthread_join \/ Return
  <2>1. UNCHANGED <<wersja, hits, opened, place, fd, buf, read_count, cancels, found>>
    BY <1>2 DEF Created, pthread_join, Return
  <2>2. /\ n' \in 0 .. threads_count /\ main' \in {"join", "done"}
        /\ main' = "join" => \A t \in Threads : t < n' => place[t] = "over"
        /\ main' = "done" => \A t \in Threads : place[t] = "over"
    <3>1. CASE Created
      BY <3>1 DEF Created
    <3>2. CASE pthread_join
      BY <3>2 DEF pthread_join, Joined
    <3>3. CASE Return
      BY <3>3 DEF Return, Joined
    <3> QED
      BY <1>2, <3>1, <3>2, <3>3
  <2>3. SearchTypes'
    BY <2>1, <2>2
  <2>4. OnlyFinders' /\ Joined'
    BY <2>1, <2>2 DEF OnlyFinders, Joined, Cancelling
  <2>5. NoneDropped'
    BY <2>1 DEF NoneDropped, Left
  <2>6. Emptied' /\ Exhausted'
    BY <2>1 DEF Emptied, Exhausted, Cancelling
  <2> QED
    BY <2>3, <2>4, <2>5, <2>6
<1> QED
  BY <1>1, <1>2 DEF Main

\* The steps at the locks, at the tests and among the cancellations.
LEMMA PlaceStep ==
  ASSUME SInv, NEW t \in Threads,
         \/ Setup(t) \/ Top(t) \/ pthread_mutex_lock(t)
         \/ pthread_mutex_unlock(t) \/ pthread_cancel(t) \/ CancelSelf(t)
         \/ EndLoop(t) \/ Cancelled(t)
  PROVE  SInv'
<1> USE DEF given, mains, thread
<1>0. SearchTypes
  BY DEF SInv
<1>1. CASE Setup(t)
  BY <1>0, <1>1, CalmStep, PlacesGo DEF Setup, Places, SInv, Emptied
<1>2. CASE Top(t)
  BY <1>0, <1>2, CalmStep, PlacesGo DEF Top, Places, SInv, Emptied, Exhausted
<1>3. CASE pthread_mutex_lock(t)
  BY <1>0, <1>3, CalmStep, PlacesGo DEF pthread_mutex_lock, Places, SInv, Emptied
<1>4. CASE pthread_mutex_unlock(t)
  BY <1>0, <1>4, CalmStep, PlacesGo DEF pthread_mutex_unlock, Places
<1>5. CASE pthread_cancel(t)
  BY <1>0, <1>5, CalmStep, PlacesGo DEF pthread_cancel, Places, SInv, OnlyFinders
<1>6. CASE CancelSelf(t)
  BY <1>0, <1>6, CalmStep, PlacesGo DEF CancelSelf, Places, SInv, OnlyFinders
<1>7. CASE EndLoop(t)
  BY <1>0, <1>7, CalmStep, PlacesGo DEF EndLoop, Places
<1>8. CASE Cancelled(t)
  <2>1. /\ UNCHANGED <<wersja, hits, opened, main, n, fd, buf, read_count, cancels, found>>
        /\ place' = [place EXCEPT ![t] = "over"] /\ t \in cancels
    BY <1>8 DEF Cancelled
  <2>2. place[t] \notin {"none", "over"}
    <3>1. CASE wersja = 1
      BY <1>8, <3>1 DEF Cancelled, CancelPoints
    <3>2. CASE wersja = 2
      BY <1>8, <3>2 DEF Cancelled, CancelPoints
    <3>3. CASE wersja = 3
      BY <1>8, <3>3 DEF Cancelled, CancelPoints
    <3> QED
      BY <1>0, <3>1, <3>2, <3>3 DEF SearchTypes
  <2>3. /\ place' \in [Threads -> Places] /\ place'[t] = "over"
        /\ \A u \in Threads \ {t} : place'[u] = place[u]
    BY <1>0, <2>1 DEF SearchTypes, Places
  <2>4. Cancelling
    BY <2>1 DEF SInv, OnlyFinders
  <2> QED
    BY <2>1, <2>2, <2>3, <2>4, CalmStep
<1> QED
  BY <1>1, <1>2, <1>3, <1>4, <1>5, <1>6, <1>7, <1>8

LEMMA FaultStep == ASSUME SInv, NEW t \in Threads, CancelFaults(t) PROVE SInv'
<1> USE DEF SInv
<1>1. /\ place[t] = "cancel" /\ place' = [place EXCEPT ![t] = "cancel"]
      /\ main' = "exit" /\ UNCHANGED <<given, n, thread, cancels, found>>
  BY DEF CancelFaults, Moves
<1>2. place' = place
  BY <1>1 DEF SearchTypes
<1> QED
  BY <1>1, <1>2 DEF SearchTypes, Threads, given,
   thread, OnlyFinders, Joined, NoneDropped, Emptied, Exhausted, Cancelling, Left


\* A thread reads the next chunk, or fails to (wersja1.c 40).
LEMMA ReadStep == ASSUME SInv, NEW t \in Threads, read(t) PROVE SInv'
<1> USE DEF SInv, Threads
<1>1. /\ place[t] = "read" /\ place'[t] = "unlock" /\ main \in {"create", "join"}
      /\ place' \in [Threads -> Places]
      /\ \A u \in Threads \ {t} : place'[u] = place[u]
  BY PlacesGo DEF read, Places
<1>2. UNCHANGED <<wersja, hits, opened, main, n, cancels, found>>
  BY DEF read, given, mains
<1>3. /\ buf[t] = <<>> /\ fd \in Int /\ RECORDS \in Int /\ fd <= RECORDS
  BY <1>1 DEF Emptied, SearchTypes
<1>4. OnlyFinders' /\ Joined'
  BY <1>1, <1>2 DEF OnlyFinders, Joined, Cancelling
<1>5. CASE opened
  <2> DEFINE C == Chunk
  <2>1. /\ C \in Seq(1 .. RECORDS) /\ fd + Len(C) \in fd .. RECORDS
        /\ Len(C) = 0 => fd = RECORDS
        /\ \A r \in fd + 1 .. fd + Len(C) : \E j \in 1 .. Len(C) : C[j] = r
    BY ChunkIs
  <2>2. buf' = [buf EXCEPT ![t] = C] /\ fd' = fd + Len(C)
        /\ read_count' = [read_count EXCEPT ![t] = Len(C)]
    BY <1>5 DEF read
  <2> HIDE DEF C
  <2>3. Len(C) \in Int
    BY <2>1
  <2>4. /\ buf' \in [Threads -> Seq(1 .. RECORDS)] /\ buf'[t] = C
        /\ \A u \in Threads \ {t} : buf'[u] = buf[u]
        /\ read_count' \in [Threads -> Int] /\ read_count'[t] = Len(C)
        /\ \A u \in Threads \ {t} : read_count'[u] = read_count[u]
    BY <2>1, <2>2, <2>3 DEF SearchTypes
  <2>5. fd' \in 0 .. RECORDS /\ (fd = RECORDS => fd' = RECORDS)
    <3>1. fd \in 0 .. RECORDS
      BY DEF SearchTypes
    <3> QED
      BY <1>3, <2>1, <2>2, <2>3, <3>1
  <2>6. SearchTypes'
    BY <1>1, <1>2, <2>4, <2>5 DEF SearchTypes
  <2>7. NoneDropped'
    <3>1. ASSUME NEW r \in hits, r <= fd', r \notin found
          PROVE  \E u \in Threads : r \in Left(u)'
      <4>0. r \in Int
        BY DEF SearchTypes
      <4>1. CASE r <= fd
        <5>1. PICK u \in Threads : r \in Left(u)
          BY <3>1, <4>1 DEF NoneDropped
        <5>2. u # t
          BY <1>3, <5>1 DEF Left
        <5> QED
          BY <2>4, <5>1, <5>2 DEF Left
      <4>2. CASE r > fd
        <5>1. r \in fd + 1 .. fd + Len(C)
          BY <1>3, <2>2, <2>3, <3>1, <4>0, <4>2
        <5>2. PICK j \in 1 .. Len(C) : C[j] = r
          BY <2>1, <5>1
        <5> QED
          BY <2>4, <5>2 DEF Left
      <4> QED
        BY <1>3, <4>0, <4>1, <4>2
    <3> QED
      BY <1>2, <3>1 DEF NoneDropped
  <2>8. Emptied'
    BY <1>1, <2>4 DEF Emptied
  <2>9. Exhausted'
    BY <1>1, <1>2, <1>5, <2>1, <2>2, <2>4, <2>5 DEF Exhausted, Cancelling
  <2> QED
    BY <1>4, <2>6, <2>7, <2>8, <2>9
<1>6. CASE ~opened
  <2>1. UNCHANGED <<buf, fd>> /\ read_count' = [read_count EXCEPT ![t] = -1]
    BY <1>6 DEF read
  <2>2. SearchTypes'
    BY <1>1, <1>2, <2>1 DEF SearchTypes
  <2>3. NoneDropped'
    BY <1>2, <2>1 DEF NoneDropped, Left
  <2>4. Emptied' /\ Exhausted'
    BY <1>1, <1>2, <1>6, <2>1 DEF Emptied, Exhausted, Cancelling, SearchTypes
  <2> QED
    BY <1>4, <2>2, <2>3, <2>4
<1> QED
  BY <1>5, <1>6 DEF SearchTypes

\* A thread looks at its next record, and reports it or passes on.
LEMMA SearchStep ==
  ASSUME SInv, NEW t \in Threads, Miss(t) \/ Report(t)
  PROVE  SInv'
<1> USE DEF SInv, Threads
<1> DEFINE h == Head(buf[t])
<1>1. /\ place[t] = "search" /\ place'[t] \in {"search", "cancel"}
      /\ main \in {"create", "join"}
      /\ place' \in [Threads -> Places]
      /\ \A u \in Threads \ {t} : place'[u] = place[u]
  BY PlacesGo DEF Miss, Report, Places
<1>2. /\ UNCHANGED <<wersja, hits, opened, main, n, cancels, fd, read_count>>
      /\ buf[t] # <<>> /\ buf' = [buf EXCEPT ![t] = Tail(buf[t])]
  BY DEF Miss, Report, given, mains, SearchTypes
<1>3. /\ found \subseteq found' /\ found' \subseteq found \cup {h}
      /\ h \in hits => h \in found'
      /\ h \notin hits => found' = found
      /\ place'[t] = "cancel" => found' # {} /\ wersja # 3
  BY <1>1, PlacesGo DEF Miss, Report, Places, SearchTypes
<1>4. /\ buf[t] \in Seq(1 .. RECORDS) /\ h \in 1 .. RECORDS /\ Tail(buf[t]) \in Seq(1 .. RECORDS)
      /\ \A j \in 1 .. Len(buf[t]) :
           buf[t][j] = h \/ \E m \in 1 .. Len(Tail(buf[t])) : Tail(buf[t])[m] = buf[t][j]
  <2>1. buf[t] \in Seq(1 .. RECORDS)
    BY DEF SearchTypes
  <2>2. PICK s \in Seq(1 .. RECORDS) : s = buf[t]
    BY <2>1
  <2>3. /\ Head(s) \in 1 .. RECORDS /\ Tail(s) \in Seq(1 .. RECORDS) /\ Len(Tail(s)) = Len(s) - 1
        /\ \A m \in 1 .. Len(Tail(s)) : Tail(s)[m] = s[m + 1]
    BY <1>2, <2>2, HeadTailProperties
  <2>4. Head(s) = s[1] /\ Len(s) \in Nat
    BY <2>2
  <2>5. ASSUME NEW j \in 1 .. Len(s), j # 1
        PROVE  \E m \in 1 .. Len(Tail(s)) : Tail(s)[m] = s[j]
    <3>1. j - 1 \in 1 .. Len(Tail(s)) /\ (j - 1) + 1 = j
      BY <2>3, <2>4, <2>5
    <3> QED
      BY <2>3, <3>1
  <2>6. \A j \in 1 .. Len(s) :
           s[j] = Head(s) \/ \E m \in 1 .. Len(Tail(s)) : Tail(s)[m] = s[j]
    BY <2>4, <2>5
  <2> QED
    BY <2>2, <2>3, <2>6
<1> HIDE DEF h
<1>5. /\ buf' \in [Threads -> Seq(1 .. RECORDS)] /\ buf'[t] = Tail(buf[t])
      /\ \A u \in Threads \ {t} : buf'[u] = buf[u]
  BY <1>2, <1>4 DEF SearchTypes
<1>6. SearchTypes'
  BY <1>1, <1>2, <1>5 DEF SearchTypes
<1>7. OnlyFinders' /\ Joined'
  BY <1>1, <1>2, <1>3 DEF OnlyFinders, Joined, Cancelling
<1>8. NoneDropped'
  <2>1. found' \subseteq hits'
    BY <1>2, <1>3 DEF NoneDropped
  <2>2. ASSUME NEW r \in hits, r <= fd, r \notin found'
        PROVE  \E u \in Threads : r \in Left(u)'
    <3>1. PICK u \in Threads : r \in Left(u)
      BY <1>3, <2>2 DEF NoneDropped
    <3>2. CASE u = t
      <4>1. PICK j \in 1 .. Len(buf[t]) : r = buf[t][j]
        BY <3>1, <3>2 DEF Left
      <4>2. r # h
        BY <1>3, <2>2
      <4>3. PICK m \in 1 .. Len(buf'[t]) : buf'[t][m] = r
        BY <1>4, <1>5, <4>1, <4>2
      <4>4. r \in Left(t)'
        BY <4>3 DEF Left
      <4> QED
        BY <4>4
    <3>3. CASE u # t
      BY <1>5, <3>1, <3>3 DEF Left
    <3> QED
      BY <3>2, <3>3
  <2> QED
    BY <1>2, <2>1, <2>2 DEF NoneDropped
<1>9. Emptied'
  BY <1>1, <1>5 DEF Emptied
<1>10. Exhausted'
  BY <1>1, <1>2, <1>3, <1>5 DEF Exhausted, Cancelling
<1> QED
  BY <1>6, <1>7, <1>8, <1>9, <1>10

LEMMA SearchStutter == ASSUME SInv, UNCHANGED searchVars PROVE SInv'
BY DEF SInv, searchVars, SearchTypes, OnlyFinders, Joined, NoneDropped, Emptied, Exhausted,
   Cancelling, Left

---------------------------------------------------------------------------

\* The invariant of the search, for any number of threads and any file.
THEOREM SearchInvariance == SearchSpec => []SInv
<1>1. SInv /\ [SearchNext]_searchVars => SInv'
  <2>1. ASSUME SInv, NEW t \in Threads, thread_func(t)
        PROVE  SInv'
    BY <2>1, PlaceStep, FaultStep, ReadStep, SearchStep DEF thread_func
  <2> QED
    BY <2>1, MainStep, SearchStutter DEF SearchNext, Threads
<1> QED
  BY <1>1, InitSInv, PTL DEF SearchSpec

\* A search by any number of threads through any file reports all records with
\* the word when nobody is cancelled, and at least one of them when the finders
\* cancel the others, however their cancellations cross (wersja1.c 51-57).
THEOREM NoneMissed == SearchSpec => []NothingMissed
<1>1. SInv => NothingMissed
  <2> SUFFICES ASSUME SInv, main \in {"done", "exit"}, opened, threads_count > 0
               PROVE  IF wersja = 3 THEN found = hits
                        ELSE found \subseteq hits /\ (hits # {} => found # {})
    BY DEF NothingMissed
  <2>1. CASE Cancelling
    BY <2>1 DEF SInv, NoneDropped, Cancelling
  <2>2. CASE ~Cancelling
    <3>1. \A t \in Threads : place[t] = "over"
      BY <2>2 DEF SInv, OnlyFinders, Joined
    <3>2. 0 \in Threads
      BY DEF SInv, SearchTypes, Threads
    <3>3. /\ fd = RECORDS
          /\ \A t \in Threads : buf[t] = <<>>
      BY <2>2, <3>1, <3>2 DEF SInv, Exhausted
    <3>4. \A t \in Threads : Left(t) = {}
      BY <3>3 DEF Left
    <3>5. \A r \in hits : r <= fd
      BY <3>3 DEF SInv, SearchTypes
    <3> QED
      BY <3>4, <3>5 DEF SInv, NoneDropped
  <2> QED
    BY <2>1, <2>2
<1> QED
  BY <1>1, SearchInvariance, PTL

---------------------------------------------------------------------------
\* How a search can hang.

\* Who reads has the mutex; who has it reads, or was cancelled with it, which
\* can only happen in wersja1.
Owned ==
  /\ mutex \in Threads \cup {None}
  /\ \A t \in Threads : place[t] \in {"read", "unlock"} => mutex = t
  /\ \A t \in Threads : mutex = t =>
       place[t] \in {"read", "unlock"} \/ (wersja = 1 /\ place[t] = "over" /\ t \in cancels)

\* Main joins when it has created all threads.
Made ==
  /\ main = "create" => \A t \in Threads : t < n => place[t] # "none"
  /\ main = "join" => \A t \in Threads : place[t] # "none"

\* A thread that cannot take its next step.
Blocked(t) ==
  \/ place[t] \in {"none", "over"}
  \/ place[t] = "lock" /\ mutex # None /\ ~(wersja = 1 /\ t \in cancels)

\* Main waits for a thread, and no thread can go on.
Stuck ==
  /\ main = "join" /\ n < threads_count /\ place[n] # "over"
  /\ \A t \in Threads : Blocked(t)

LEMMA MainOwned == ASSUME SInv, Owned, Made, Main PROVE Owned' /\ Made'
<1> USE DEF SInv, SearchTypes, Threads, None, thread, given
<1>1. CASE pthread_create
  <2>1. /\ UNCHANGED <<mutex, cancels, wersja, main>>
        /\ n \in Threads /\ place' = [place EXCEPT ![n] = "start"] /\ n' = n + 1
        /\ main = "create" /\ place[n] = "none"
    BY <1>1 DEF pthread_create, Joined
  <2> QED
    BY <2>1, SMTT(30) DEF Owned, Made
<1>2. CASE Created \/ pthread_join \/ Return
  <2>1. UNCHANGED <<mutex, cancels, wersja, place>>
    BY <1>2 DEF Created, pthread_join, Return
  <2>2. main' # "create" /\ (main' = "join" => main = "join" \/ (main = "create" /\ n = threads_count))
    BY <1>2 DEF Created, pthread_join, Return
  <2> QED
    BY <2>1, <2>2 DEF Owned, Made
<1> QED
  BY <1>1, <1>2 DEF Main

\* A step of thread t that leaves the mutex alone.
LEMMA OffMutex ==
  ASSUME SInv, Owned, Made, NEW t \in Threads,
         UNCHANGED <<mutex, wersja, n>>, cancels \subseteq cancels',
         main' = main \/ main' = "exit",
         place' \in [Threads -> Places], \A u \in Threads \ {t} : place'[u] = place[u],
         place[t] # "none" => place'[t] # "none",
         place'[t] = "read" => place[t] = "read",
         place'[t] = "unlock" => place[t] \in {"read", "unlock"},
         place[t] \in {"read", "unlock"} =>
           place'[t] \in {"read", "unlock"} \/ (wersja = 1 /\ place'[t] = "over" /\ t \in cancels),
         place[t] = "over" => place'[t] = "over"
  PROVE  Owned' /\ Made'
<1>1. Owned'
  BY DEF Owned, Threads, None
<1>2. Made'
  BY DEF Made, Threads
<1> QED
  BY <1>1, <1>2

LEMMA ThreadOwned ==
  ASSUME SInv, Owned, Made, NEW t \in Threads, thread_func(t)
  PROVE  Owned' /\ Made'
<1> USE DEF given, mains, thread
<1>0. SearchTypes
  BY DEF SInv
<1>1. CASE Setup(t) \/ EndLoop(t)
  BY <1>0, <1>1, OffMutex, PlacesGo DEF Setup, EndLoop, Places
<1>2. CASE Top(t)
  BY <1>0, <1>2, OffMutex, PlacesGo DEF Top, Places
<1>3. CASE pthread_mutex_lock(t)
  <2>1. /\ UNCHANGED <<cancels, wersja, main, n>> /\ mutex = None /\ mutex' = t
        /\ place'[t] = "read" /\ place[t] = "lock"
        /\ \A u \in Threads \ {t} : place'[u] = place[u]
    BY <1>0, <1>3, PlacesGo DEF pthread_mutex_lock, Places
  <2> QED
    BY <2>1 DEF Owned, Made, Threads, None
<1>4. CASE pthread_mutex_unlock(t)
  <2>1. /\ UNCHANGED <<cancels, wersja, main, n>> /\ mutex' = None
        /\ place'[t] = "search" /\ place[t] = "unlock"
        /\ \A u \in Threads \ {t} : place'[u] = place[u]
    BY <1>0, <1>4, PlacesGo DEF pthread_mutex_unlock, Places
  <2> QED
    BY <2>1 DEF Owned, Made, Threads, None
<1>5. CASE read(t)
  BY <1>0, <1>5, OffMutex, PlacesGo DEF read, Places
<1>6. CASE Miss(t) \/ Report(t)
  BY <1>0, <1>6, OffMutex, PlacesGo DEF Miss, Report, Places
<1>7. CASE pthread_cancel(t)
  BY <1>0, <1>7, OffMutex, PlacesGo DEF pthread_cancel, Places
<1>8. CASE CancelFaults(t)
  BY <1>0, <1>8, OffMutex, PlacesGo DEF CancelFaults, Places
<1>9. CASE CancelSelf(t)
  BY <1>0, <1>9, OffMutex, PlacesGo DEF CancelSelf, Places
<1>10. CASE Cancelled(t)
  <2>1. /\ UNCHANGED <<mutex, wersja, n, main, cancels>> /\ t \in cancels
        /\ place' \in [Threads -> Places] /\ place'[t] = "over"
        /\ \A u \in Threads \ {t} : place'[u] = place[u]
    BY <1>0, <1>10 DEF Cancelled, SearchTypes, Places
  <2>2. place[t] \in {"read", "unlock"} => wersja = 1
    <3>1. CASE wersja = 2
      BY <1>10, <3>1 DEF Cancelled, CancelPoints
    <3>2. CASE wersja = 3
      BY <1>10, <3>2 DEF Cancelled, CancelPoints
    <3> QED
      BY <1>0, <3>1, <3>2 DEF SearchTypes
  <2> QED
    BY <2>1, <2>2, OffMutex
<1> QED
  BY <1>1, <1>2, <1>3, <1>4, <1>5, <1>6, <1>7, <1>8, <1>9, <1>10 DEF thread_func

\* wersja2 and wersja3 never hang, with any number of threads, and wersja1 only
\* after a thread was cancelled between lock and unlock (wersja1.c 40-42): the
\* others then wait for a mutex that nobody will release.
THEOREM HangsOnlyOnDeath ==
  SearchSpec => [](Stuck => wersja = 1 /\ mutex \in Threads /\ place[mutex] = "over")
<1>1. SearchInit => Owned /\ Made
  BY DEF SearchInit, Owned, Made, Threads, None
<1>2. SInv /\ Owned /\ Made /\ [SearchNext]_searchVars => Owned' /\ Made'
  <2>1. CASE UNCHANGED searchVars
    BY <2>1 DEF searchVars, Owned, Made
  <2> QED
    BY <2>1, MainOwned, ThreadOwned DEF SearchNext, Threads
<1>3. ASSUME SInv, Owned, Made, Stuck
      PROVE  wersja = 1 /\ mutex \in Threads /\ place[mutex] = "over"
  <2>1. n \in Threads /\ place[n] = "lock" /\ mutex # None
    BY <1>3 DEF SInv, SearchTypes, Stuck, Blocked, Made, Threads
  <2>2. mutex \in Threads
    BY <1>3, <2>1 DEF Owned
  <2>3. place[mutex] \notin {"read", "unlock"}
    BY <1>3, <2>2 DEF Stuck, Blocked
  <2> QED
    BY <1>3, <2>2, <2>3 DEF Owned
<1> QED
  BY <1>1, <1>2, <1>3, SearchInvariance, PTL DEF SearchSpec

---------------------------------------------------------------------------
\* Remainders.

LEMMA NoMultiple ==
  ASSUME NEW m \in Int, NEW B \in Nat \ {0}, m # 0
  PROVE  m * B >= B \/ m * B <= -B
<1>1. CASE m >= 1
  BY <1>1
<1>2. CASE m <= -1
  BY <1>2
<1> QED
  BY <1>1, <1>2

LEMMA ModIs ==
  ASSUME NEW a \in Int, NEW B \in Nat \ {0}
  PROVE  \E q \in Int : a = q * B + (a % B) /\ (a % B) \in 0 .. B - 1
<1>1. a = B * (a \div B) + (a % B) /\ a \div B \in Int /\ (a % B) \in 0 .. B - 1
  OBVIOUS
<1>2. B * (a \div B) = (a \div B) * B
  BY <1>1
<1> QED
  BY <1>1, <1>2

LEMMA ModShift ==
  ASSUME NEW a \in Int, NEW b \in Int, NEW B \in Nat \ {0},
         \E j \in Int : a = b + j * B
  PROVE  a % B = b % B
<1>0. PICK j \in Int : a = b + j * B
  OBVIOUS
<1> DEFINE x == a % B
           y == b % B
<1>1. PICK p \in Int : a = p * B + x /\ x \in 0 .. B - 1
  BY ModIs
<1>2. PICK q \in Int : b = q * B + y /\ y \in 0 .. B - 1
  BY ModIs
<1> HIDE DEF x, y
<1>3. (q - p + j) * B = q * B - p * B + j * B /\ p * B \in Int /\ q * B \in Int /\ j * B \in Int
  OBVIOUS
<1>4. x - y = (q - p + j) * B
  BY <1>0, <1>1, <1>2, <1>3
<1>5. q - p + j = 0
  <2>1. x - y < B /\ x - y > -B
    BY <1>1, <1>2
  <2> QED
    BY <2>1, <1>4, NoMultiple
<1>6. x = y
  BY <1>4, <1>5, <1>1, <1>2
<1> QED
  BY <1>6 DEF x, y

LEMMA ModShifts == \A B \in Nat \ {0} : \A a, b \in Int : (\E j \in Int : a = b + j * B) => a % B = b % B
BY ModShift

LEMMA ModAdd ==
  ASSUME NEW a \in Int, NEW b \in Int, NEW c \in Int, NEW B \in Nat \ {0}, a % B = b % B
  PROVE  (a + c) % B = (b + c) % B
<1> DEFINE x == a % B
<1>1. PICK p \in Int : a = p * B + x /\ x \in 0 .. B - 1
  BY ModIs
<1>2. PICK q \in Int : b = q * B + x
  BY ModIs
<1> HIDE DEF x
<1>3. (p - q) * B = p * B - q * B /\ p * B \in Int /\ q * B \in Int
  OBVIOUS
<1>4. p - q \in Int /\ a + c \in Int /\ b + c \in Int /\ a + c = (b + c) + (p - q) * B
  BY <1>1, <1>2, <1>3
<1>5. \E j \in Int : a + c = (b + c) + j * B
  BY <1>4
<1> QED
  BY <1>4, <1>5, ModShifts, ZenonT(60)

---------------------------------------------------------------------------
\* What TreeAssumption says about the directories that can be reached.

LEMMA BelowIs ==
  ASSUME NEW d \in Dirs
  PROVE  /\ d \in Below(d) /\ Below(d) \subseteq Dirs /\ Closed(Below(d))
         /\ \A S \in SUBSET Dirs : d \in S /\ Closed(S) => Below(d) \subseteq S
BY DEF Below, Closed

LEMMA BelowDeeper ==
  ASSUME NEW d \in Dirs, NEW e \in Below(d)
  PROVE  e \in Dirs /\ Below(e) \subseteq Below(d)
<1>1. e \in Dirs
  BY BelowIs
<1> QED
  BY <1>1, BelowIs

\* The directories from d down are d and those from its entries down.
LEMMA BelowSplits ==
  ASSUME NEW d \in Dirs
  PROVE  Below(d) = {d} \cup UNION {Below(e) : e \in Entries(d) \cap Dirs}
<1> DEFINE S == {d} \cup UNION {Below(e) : e \in Entries(d) \cap Dirs}
<1>1. S \subseteq Dirs
  BY BelowIs
<1>2. Closed(S)
  <2>1. \A e \in Entries(d) \cap Dirs : e \in Below(e) /\ Closed(Below(e))
    BY BelowIs
  <2> QED
    BY <2>1 DEF Closed
<1>3. Below(d) \subseteq S
  BY <1>1, <1>2, BelowIs
<1>4. \A e \in Entries(d) \cap Dirs : e \in Below(d)
  BY BelowIs DEF Closed
<1>5. \A e \in Entries(d) \cap Dirs : Below(e) \subseteq Below(d)
  BY <1>4, BelowDeeper
<1> QED
  BY <1>3, <1>5, BelowIs

\* A directory below x other than x is in one that is below x, the only one it is in.
LEMMA ParentBelow ==
  ASSUME NEW x \in Dirs, NEW z \in Below(x), z # x, NEW y \in Dirs, z \in Entries(y)
  PROVE  y \in Below(x)
<1> SUFFICES ASSUME y \notin Below(x)
             PROVE  FALSE
  OBVIOUS
<1> DEFINE S == Below(x) \ {z}
<1>1. x \in S /\ S \subseteq Dirs
  BY BelowIs
<1>2. Closed(S)
  <2> SUFFICES ASSUME NEW a \in S, NEW b \in Entries(a) \cap Dirs
               PROVE  b \in S
    BY DEF Closed
  <2>1. b \in Below(x)
    BY BelowIs DEF Closed
  <2>2. b # z
    <3>1. a \in Dirs /\ a # y
      BY <1>1
    <3> QED
      BY <3>1, TreeAssumption DEF Entries
  <2> QED
    BY <2>1, <2>2
<1>3. Below(x) \subseteq S
  BY <1>1, <1>2, BelowIs
<1> QED
  BY <1>3

\* No directory that can be reached is below one of its entries.
LEMMA NoLoop ==
  ASSUME NEW d \in Below(Root), NEW y \in Entries(d) \cap Dirs
  PROVE  d \notin Below(y)
<1> DEFINE S == {x \in Dirs : \A e \in Entries(x) \cap Dirs : x \notin Below(e)}
<1>1. Root \in S
  <2> SUFFICES ASSUME NEW e \in Entries(Root) \cap Dirs, Root \in Below(e)
               PROVE  FALSE
    BY TreeAssumption
  <2> DEFINE T == Below(e) \ {Root}
  <2>1. \A x \in Dirs : Root \notin Entries(x)
    BY TreeAssumption DEF Entries
  <2>2. e \in T /\ T \subseteq Dirs /\ Closed(T)
    BY <2>1, TreeAssumption, BelowIs DEF Closed
  <2> QED
    BY <2>2, BelowIs
<1>2. Closed(S)
  <2> SUFFICES ASSUME NEW x \in S, NEW z \in Entries(x) \cap Dirs,
                      NEW e \in Entries(z) \cap Dirs, z \in Below(e)
               PROVE  FALSE
    BY DEF Closed
  <2>1. CASE z = e
    <3>1. z = x
      BY <2>1, TreeAssumption DEF Entries
    <3> QED
      BY <3>1, BelowIs
  <2>2. CASE z # e
    <3>1. x \in Below(e)
      BY <2>2, ParentBelow
    <3>2. e \in Below(z)
      BY BelowIs DEF Closed
    <3>3. x \in Below(z)
      BY <3>1, <3>2, BelowDeeper
    <3> QED
      BY <3>3
  <2> QED
    BY <2>1, <2>2
<1>3. Below(Root) \subseteq S
  BY <1>1, <1>2, BelowIs, TreeAssumption
<1> QED
  BY <1>3

\* Nothing is below two entries of the same directory.
LEMMA Apart ==
  ASSUME NEW d \in Below(Root), NEW x \in Entries(d) \cap Dirs, NEW y \in Entries(d) \cap Dirs,
         x # y
  PROVE  Below(x) \cap Below(y) = {}
<1> DEFINE S == Below(x) \ Below(y)
<1>0. d \in Dirs
  BY TreeAssumption, BelowIs
<1>1. x \in S
  <2>1. x \in Below(y) => d \in Below(y)
    BY <1>0, ParentBelow
  <2> QED
    BY <2>1, NoLoop, BelowIs
<1>2. Closed(S)
  <2> SUFFICES ASSUME NEW z \in S, NEW e \in Entries(z) \cap Dirs
               PROVE  e \in S
    BY DEF Closed
  <2>0. z \in Dirs /\ z \in Below(x) /\ z \notin Below(y)
    BY BelowIs
  <2>1. e \in Below(x)
    BY <2>0, BelowIs DEF Closed
  <2>2. e # y
    <3>1. y \in Entries(z) => z = d
      BY <1>0, <2>0, TreeAssumption DEF Entries
    <3> QED
      BY <3>1, <2>0, NoLoop
  <2>3. e \notin Below(y)
    BY <2>0, <2>2, ParentBelow
  <2> QED
    BY <2>1, <2>3
<1>3. Below(x) \subseteq S
  BY <1>1, <1>2, BelowIs
<1> QED
  BY <1>3

LEMMA FilesFinite ==
  /\ \A d \in Dirs : FilesUnder(d) \subseteq Names
  /\ \A T \in SUBSET Names : IsFiniteSet(T) /\ Cardinality(T) \in Nat
<1>1. \A d \in Dirs : FilesUnder(d) \subseteq Names
  BY BelowIs DEF FilesUnder, Entries, Names
<1>2. \A T \in SUBSET Names : IsFiniteSet(T)
  BY TreeAssumption, FS_Subset
<1> QED
  BY <1>1, <1>2, FS_CardinalityType

LEMMA FilesIs ==
  \A f, d : f \in FilesUnder(d) <=> f \notin Dirs /\ \E e \in Below(d) : f \in Entries(e)
<1> SUFFICES ASSUME NEW f, NEW d
             PROVE  f \in UNION {Entries(e) : e \in Below(d)} <=> \E e \in Below(d) : f \in Entries(e)
  BY Zenon DEF FilesUnder
<1> QED
  BY Zenon

\* The files under d are those in d and those under its entries.
LEMMA FilesSplit ==
  ASSUME NEW d \in Dirs
  PROVE  FilesUnder(d) = (Entries(d) \ Dirs) \cup UNION {FilesUnder(e) : e \in Entries(d) \cap Dirs}
<1>1. \A e \in Entries(d) \cap Dirs : Below(e) \subseteq Below(d)
  BY BelowSplits
<1>2. d \in Below(d)
  BY BelowIs
<1>3. \A a \in Below(d) : a = d \/ \E e \in Entries(d) \cap Dirs : a \in Below(e)
  BY BelowSplits
<1>4. ASSUME NEW f
      PROVE  f \in FilesUnder(d) <=>
               \/ f \in Entries(d) \ Dirs
               \/ \E e \in Entries(d) \cap Dirs : f \in FilesUnder(e)
  BY <1>1, <1>2, <1>3, FilesIs
<1> QED
  BY <1>4

\* A file is in one directory, and under one entry of each directory above.
LEMMA FilesApart ==
  ASSUME NEW d \in Below(Root), NEW x \in Entries(d) \cap Dirs
  PROVE  /\ FilesUnder(x) \cap Entries(d) = {}
         /\ \A y \in Entries(d) \cap Dirs : y # x => FilesUnder(x) \cap FilesUnder(y) = {}
<1>0. d \in Dirs /\ Below(x) \subseteq Dirs
  BY TreeAssumption, BelowIs
<1>1. \A a, b \in Dirs : Entries(a) \cap Entries(b) # {} => a = b
  BY TreeAssumption DEF Entries
<1>2. FilesUnder(x) \cap Entries(d) = {}
  BY <1>0, <1>1, NoLoop DEF FilesUnder
<1>3. ASSUME NEW y \in Entries(d) \cap Dirs, y # x
      PROVE  FilesUnder(x) \cap FilesUnder(y) = {}
  BY <1>0, <1>1, <1>3, Apart, BelowIs DEF FilesUnder
<1> QED
  BY <1>2, <1>3

---------------------------------------------------------------------------
\* The invariant of the count.

\* The directories are those of the tree; the counts are numbers.
CountTypes ==
  /\ at \in [Pids -> Activities]
  /\ parent \in [Pids -> Pids \cup {Nobody}]
  /\ dir \in [Pids -> Below(Root)] /\ target \in [Pids -> Below(Root) \cup (Names \ Dirs)]
  /\ left \in [Pids -> SUBSET Names]
  /\ file_count \in [Pids -> Int] /\ proc_count \in [Pids -> Int]
  /\ files_in_dir_count \in [Pids -> Int] /\ waited \in [Pids -> Nat]
  /\ status \in [Pids -> Int]
  /\ failed \subseteq Dirs

\* Where processes are: in a directory they can read, with entries of it left,
\* and on their way to a file only where a stat failed.
Placed ==
  /\ \A p \in Pids : at[p] \in {"exec", "scan", "wait"} => dir[p] \notin Unreadable
  /\ \A p \in Pids : left[p] \subseteq Contents[dir[p]]
  /\ \A p \in Pids : at[p] = "wait" => left[p] = {}
  /\ \A p \in Pids : at[p] = "exec" /\ target[p] \notin Dirs => dir[p] \in failed

\* Who has been forked has a parent that has not ended, and in whose directory
\* it still is before its exec.  The first process has none.
Family ==
  /\ at[First] # "free"
  /\ \A p \in Pids : parent[p] = Nobody <=> at[p] = "free" \/ p = First
  /\ \A p \in Pids : parent[p] # Nobody => parent[p] # p /\ at[parent[p]] \in {"scan", "wait"}
  /\ \A p \in Pids : at[p] = "exec" => parent[p] # Nobody /\ dir[p] = dir[parent[p]]
  /\ \A p \in Pids : at[p] \in {"free", "exec"} => waited[p] = 0 /\ files_in_dir_count[p] = 0
  /\ \A p \in Pids : at[p] = "free" => proc_count[p] = 0

\* A process has at most as many children as it is going to wait for, and just
\* as many where nothing has failed.
Turns ==
  \A p \in Pids :
    /\ Cardinality(Children(p)) <= proc_count[p] - waited[p]
    /\ at[p] \in {"scan", "wait"} /\ dir[p] \notin failed
         => Cardinality(Children(p)) = proc_count[p] - waited[p]

\* Where nothing has failed, each child has a directory of its own, which has
\* been read.
Shared ==
  \A p \in Pids : at[p] \in {"scan", "wait"} /\ dir[p] \notin failed =>
    /\ \A q \in Children(p) :
         /\ target[q] \in (Contents[dir[p]] \cap Dirs) \ left[p]
         /\ at[q] # "exec" => dir[q] = target[q]
    /\ \A q, r \in Children(p) : target[q] = target[r] => q = r

\* The directories that p has still to count or to be told of, and the files
\* that it does not know of yet.
Open(p) == (left[p] \cap Dirs) \cup {target[q] : q \in Children(p)}

Pending(p) == (left[p] \ Dirs) \cup UNION {FilesUnder(d) : d \in Open(p)}

Known(p) == file_count[p] + files_in_dir_count[p]

\* What p has counted and what it does not know of yet make up what it will say.
Accounted ==
  \A p \in Pids : at[p] \in {"scan", "wait"} /\ Below(dir[p]) \cap failed = {} =>
    (Known(p) + Cardinality(Pending(p))) % Byte = Cardinality(FilesUnder(dir[p])) % Byte

\* Among any processes there is one without a child among them.
Youngest ==
  \A S \in SUBSET {p \in Pids : at[p] # "free"} : S # {} => \E p \in S : \A q \in S : parent[q] # p

CInv ==
  /\ CountTypes /\ Placed /\ Family /\ Turns /\ Shared /\ Accounted /\ Youngest /\ StatusRight

LEMMA FirstIs == First \in Pids
BY TreeAssumption DEF First

LEMMA ChildrenFinite ==
  \A p : IsFiniteSet(Children(p)) /\ Cardinality(Children(p)) \in Nat
<1>1. \A p : Children(p) \subseteq Pids
  BY DEF Children
<1> QED
  BY <1>1, TreeAssumption, FS_Subset, FS_CardinalityType

LEMMA InitCount == CountInit => CInv
<1> SUFFICES ASSUME CountInit
             PROVE  CInv
  OBVIOUS
<1> USE DEF CountInit
<1>0. Root \in Below(Root) /\ Root \in Dirs
  BY TreeAssumption, BelowIs
<1>1. Children(First) = {} /\ \A p \in Pids : Children(p) = {}
  BY FirstIs, TreeAssumption DEF Children
<1>2. CountTypes
  BY <1>0, FirstIs DEF CountTypes, Activities, Garbage, Names
<1>3. Placed
  BY FirstIs, TreeAssumption DEF Placed
<1>4. Family
  BY FirstIs, TreeAssumption DEF Family
<1>5. Turns
  BY <1>1, FS_EmptySet DEF Turns
<1>6. Shared
  BY <1>1 DEF Shared
<1>7. Accounted
  <2> SUFFICES ASSUME NEW p \in Pids, at[p] \in {"scan", "wait"}
               PROVE  (Known(p) + Cardinality(Pending(p))) % Byte
                        = Cardinality(FilesUnder(dir[p])) % Byte
    BY DEF Accounted
  <2>1. p = First /\ dir[p] = Root /\ left[p] = Entries(Root) /\ Known(p) = 0
    BY FirstIs, TreeAssumption DEF Entries, Readable, Known
  <2>2. Pending(p) = FilesUnder(dir[p])
    BY <2>1, <1>0, <1>1, FilesSplit DEF Pending, Open
  <2>3. Cardinality(FilesUnder(dir[p])) \in Nat
    BY <1>0, <2>1, FilesFinite
  <2> QED
    BY <2>1, <2>2, <2>3
<1>8. Youngest
  BY FirstIs, TreeAssumption DEF Youngest
<1>9. StatusRight
  BY FirstIs DEF StatusRight
<1> QED
  BY <1>2, <1>3, <1>4, <1>5, <1>6, <1>7, <1>8, <1>9 DEF CInv

---------------------------------------------------------------------------
\* An entry that is given to a child, and one that is not: the fork failed, or a
\* stat failed and it was passed over.
Reads(p, d) == at[p] = "scan" /\ d \in left[p] /\ UNCHANGED <<files_in_dir_count, waited, status>>

GivesAway(p, d) ==
  /\ Reads(p, d) /\ Fork(p, d)
  /\ \/ failed' = failed /\ d \in Dirs
     \/ failed' = failed \cup {dir[p]}

Leaves(p, d) ==
  /\ Reads(p, d)
  /\ ForkFails(p, d) \/ PassOver(p, d)
  /\ failed' = failed \cup {dir[p]}

LEMMA ReadingIs ==
  ASSUME NEW p \in Pids, ReadDir(p) \/ StatFails(p)
  PROVE  \E d : GivesAway(p, d) \/ Leaves(p, d)
<1>1. CASE ReadDir(p)
  <2>1. PICK d \in left[p] \cap Dirs :
          (Fork(p, d) /\ UNCHANGED failed) \/ (ForkFails(p, d) /\ FailedHere(p))
    BY <1>1 DEF ReadDir
  <2>2. GivesAway(p, d) \/ Leaves(p, d)
    BY <1>1, <2>1 DEF ReadDir, Reads, GivesAway, Leaves, FailedHere
  <2> QED
    BY <2>2
<1>2. CASE StatFails(p)
  <2>1. PICK d \in left[p] : Fork(p, d) \/ ForkFails(p, d) \/ PassOver(p, d)
    BY <1>2 DEF StatFails
  <2>2. GivesAway(p, d) \/ Leaves(p, d)
    BY <1>2, <2>1 DEF StatFails, Reads, GivesAway, Leaves, FailedHere
  <2> QED
    BY <2>2
<1> QED
  BY <1>1, <1>2

---------------------------------------------------------------------------
\* One lemma for each conjunct.

LEMMA TargetBelow ==
  ASSUME CInv, NEW p \in Pids, at[p] = "scan"
  PROVE  /\ dir[p] \in Dirs /\ Entries(dir[p]) = Contents[dir[p]]
         /\ left[p] \subseteq Contents[dir[p]]
         /\ \A d \in left[p] : d \in Below(Root) \cup (Names \ Dirs)
<1>1. dir[p] \in Below(Root) /\ dir[p] \in Dirs
  BY TreeAssumption, BelowIs DEF CInv, CountTypes
<1>2. Entries(dir[p]) = Contents[dir[p]] /\ left[p] \subseteq Contents[dir[p]]
  BY <1>1 DEF CInv, Placed, Entries, Readable
<1> QED
  BY <1>1, <1>2, TreeAssumption, BelowIs DEF Closed, Names

LEMMA CountTypesStep ==
  ASSUME CInv, NEW p \in Pids, process(p)
  PROVE  CountTypes'
<1> USE DEF CountTypes, Activities
<1>0. CountTypes /\ Below(Root) \subseteq Dirs
  BY TreeAssumption, BelowIs DEF CInv
<1>1. CASE ReadFile(p)
  BY <1>0, <1>1 DEF ReadFile
<1>2. CASE ReadDir(p) \/ StatFails(p)
  <2>1. PICK d : GivesAway(p, d) \/ Leaves(p, d)
    BY <1>2, ReadingIs
  <2>2. d \in Below(Root) \cup (Names \ Dirs) /\ dir[p] \in Dirs /\ failed' \subseteq Dirs
    BY <1>0, <2>1, TargetBelow DEF Reads, GivesAway, Leaves
  <2>3. CASE GivesAway(p, d)
    BY <1>0, <2>1, <2>2, <2>3 DEF Reads, GivesAway, Fork, Goes
  <2>4. CASE Leaves(p, d)
    BY <1>0, <2>1, <2>2, <2>4 DEF Reads, Leaves, ForkFails, PassOver
  <2> QED
    BY <2>1, <2>3, <2>4
<1>3. CASE Exec(p)
  <2>1. Entries(target[p]) \subseteq Names /\ (target[p] \in Dirs => target[p] \in Below(Root))
    BY <1>0 DEF Entries, Readable, Names
  <2>2. dir' \in [Pids -> Below(Root)]
    BY <1>0, <1>3, <2>1 DEF Exec
  <2>3. left' \in [Pids -> SUBSET Names]
    BY <1>0, <1>3, <2>1 DEF Exec
  <2>4. /\ at' \in [Pids -> {"free", "exec", "scan", "wait", "ended"}]
        /\ status' \in [Pids -> Int]
        /\ file_count' \in [Pids -> Int] /\ proc_count' \in [Pids -> Int]
        /\ UNCHANGED <<parent, target, files_in_dir_count, waited, failed>>
    BY <1>0, <1>3 DEF Exec, Goes
  <2> QED
    BY <1>0, <2>2, <2>3, <2>4
<1>4. CASE ExecFails(p)
  BY <1>0, <1>4 DEF ExecFails, FailedHere, Goes, counters
<1>5. CASE EndScan(p)
  BY <1>0, <1>5 DEF EndScan, Goes, counters
<1>6. CASE Wait(p)
  <2>1. CASE Reap(p)
    <3>1. Root \in Below(Root) /\ Root \in Dirs
      BY TreeAssumption, BelowIs
    <3>2. PICK q \in Pids :
            /\ Release(q)
            /\ status' = [status EXCEPT ![p] = status[q], ![q] = Garbage]
            /\ files_in_dir_count' = [files_in_dir_count EXCEPT ![p] = @ + status[q], ![q] = 0]
            /\ waited' = [waited EXCEPT ![p] = @ + 1, ![q] = 0]
      BY <2>1 DEF Reap, Children
    <3> QED
      BY <1>0, <1>6, <3>1, <3>2 DEF Wait, Release, Goes, Garbage
  <2>2. CASE NoChild(p)
    BY <1>0, <1>6, <2>2, TreeAssumption DEF Wait, NoChild
  <2> QED
    BY <1>6, <2>1, <2>2 DEF Wait
<1>7. CASE Exit(p)
  <2>1. ExitStatus(p) \in Int
    BY <1>0, TreeAssumption DEF ExitStatus
  <2> QED
    BY <1>0, <1>7, <2>1 DEF Exit, Goes, counters
<1> QED
  BY <1>1, <1>2, <1>3, <1>4, <1>5, <1>6, <1>7 DEF process

LEMMA PlacedStep ==
  ASSUME CInv, NEW p \in Pids, process(p)
  PROVE  Placed'
<1> USE DEF Placed, CountTypes, Activities
<1>0. CountTypes /\ Placed
  BY DEF CInv
<1>1. CASE ReadFile(p)
  BY <1>0, <1>1 DEF ReadFile
<1>2. CASE ReadDir(p) \/ StatFails(p)
  <2>1. PICK d : GivesAway(p, d) \/ Leaves(p, d)
    BY <1>2, ReadingIs
  <2>3. CASE GivesAway(p, d)
    BY <1>0, <2>1, <2>3 DEF Reads, GivesAway, Fork, Goes
  <2>4. CASE Leaves(p, d)
    BY <1>0, <2>1, <2>4 DEF Reads, Leaves, ForkFails, PassOver
  <2> QED
    BY <2>1, <2>3, <2>4
<1>3. CASE Exec(p)
  <2>1. /\ dir'[p] = IF target[p] \in Dirs THEN target[p] ELSE dir[p]
        /\ left'[p] = Entries(target[p]) /\ at'[p] \in {"scan", "ended"}
        /\ at'[p] = "scan" => target[p] \in Readable
        /\ \A r \in Pids \ {p} : UNCHANGED <<at[r], dir[r], left[r], target[r]>>
        /\ UNCHANGED failed
    BY <1>0, <1>3 DEF Exec, Goes
  <2>2. left'[p] \subseteq Contents[dir'[p]] /\ (at'[p] = "scan" => dir'[p] \notin Unreadable)
    BY <2>1 DEF Entries, Readable
  <2> QED
    BY <1>0, <2>1, <2>2
<1>4. CASE ExecFails(p)
  BY <1>0, <1>4 DEF ExecFails, FailedHere, Goes
<1>5. CASE EndScan(p)
  BY <1>0, <1>5 DEF EndScan, Goes
<1>6. CASE Wait(p)
  <2>1. CASE Reap(p)
    <3>1. PICK q \in Pids : Release(q)
      BY <2>1 DEF Reap, Children
    <3> QED
      BY <1>0, <1>6, <3>1 DEF Wait, Release, Goes
  <2>2. CASE NoChild(p)
    BY <1>0, <1>6, <2>2 DEF Wait, NoChild
  <2> QED
    BY <1>6, <2>1, <2>2 DEF Wait
<1>7. CASE Exit(p)
  BY <1>0, <1>7 DEF Exit, Goes
<1> QED
  BY <1>1, <1>2, <1>3, <1>4, <1>5, <1>6, <1>7 DEF process

LEMMA FamilyStep ==
  ASSUME CInv, NEW p \in Pids, process(p)
  PROVE  Family'
<1> USE TreeAssumption, FirstIs DEF Family, CountTypes, Activities
<1>0. CountTypes /\ Family
  BY DEF CInv
<1>1. CASE ReadFile(p)
  BY <1>0, <1>1 DEF ReadFile
<1>2. CASE ReadDir(p) \/ StatFails(p)
  <2>1. PICK d : GivesAway(p, d) \/ Leaves(p, d)
    BY <1>2, ReadingIs
  <2>3. CASE GivesAway(p, d)
    BY <1>0, <2>1, <2>3 DEF Reads, GivesAway, Fork, Goes
  <2>4. CASE Leaves(p, d)
    BY <1>0, <2>1, <2>4 DEF Reads, Leaves, ForkFails, PassOver
  <2> QED
    BY <2>1, <2>3, <2>4
<1>3. CASE Exec(p)
  BY <1>0, <1>3 DEF Exec, Goes
<1>4. CASE ExecFails(p)
  BY <1>0, <1>4 DEF ExecFails, FailedHere, Goes, counters
<1>5. CASE EndScan(p)
  BY <1>0, <1>5 DEF EndScan, Goes, counters
<1>6. CASE Wait(p)
  BY <1>0, <1>6 DEF Wait, Reap, NoChild, Release, Goes, Children
<1>7. CASE Exit(p)
  <2>1. Children(p) = {}
    <3>1. Cardinality(Children(p)) <= 0
      BY <1>7, <1>0 DEF CInv, Turns, Exit
    <3> QED
      BY <3>1, ChildrenFinite, FS_EmptySet
  <2> QED
    BY <1>0, <1>7, <2>1 DEF Exit, Goes, counters, Children
<1> QED
  BY <1>1, <1>2, <1>3, <1>4, <1>5, <1>6, <1>7 DEF process

LEMMA YoungestStep ==
  ASSUME CInv, NEW p \in Pids, process(p)
  PROVE  Youngest'
<1> DEFINE Live == {q \in Pids : at[q] # "free"}
<1> USE TreeAssumption DEF CountTypes, Activities
<1>0. CountTypes /\ Family /\ Youngest
  BY DEF CInv
<1>1. ASSUME Live' \subseteq Live, \A q \in Pids : parent'[q] \in {parent[q], Nobody}
      PROVE  Youngest'
  BY <1>0, <1>1, SMTT(30) DEF Youngest
<1>2. CASE ReadDir(p) \/ StatFails(p)
  <2>1. PICK d : GivesAway(p, d) \/ Leaves(p, d)
    BY <1>2, ReadingIs
  <2>2. CASE Leaves(p, d)
    BY <1>1, <2>2 DEF Leaves, ForkFails, PassOver
  <2>3. CASE GivesAway(p, d)
    <3>1. PICK q \in Pids : /\ at[q] = "free" /\ at' = [at EXCEPT ![q] = "exec"]
                            /\ parent' = [parent EXCEPT ![q] = p]
      BY <2>3 DEF GivesAway, Fork, Goes
    <3>2. at[p] = "scan"
      BY <2>3 DEF Reads, GivesAway
    <3> SUFFICES ASSUME NEW S \in SUBSET Live', S # {}
                 PROVE  \E x \in S : \A y \in S : parent'[y] # x
      BY DEF Youngest
    <3>3. CASE q \in S
      <4>1. \A y \in Pids : parent[y] # q
        BY <1>0, <3>1 DEF Family
      <4>2. \A y \in S : parent'[y] # q
        BY <1>0, <3>1, <3>2, <4>1
      <4> QED
        BY <3>3, <4>2
    <3>4. CASE q \notin S
      <4>1. S \subseteq Live
        BY <1>0, <3>1, <3>4
      <4> QED
        BY <1>0, <3>1, <3>4, <4>1 DEF Youngest
    <3> QED
      BY <3>3, <3>4
  <2> QED
    BY <2>1, <2>2, <2>3
<1>3. CASE ReadFile(p) \/ Exec(p) \/ ExecFails(p) \/ EndScan(p) \/ Exit(p)
  BY <1>0, <1>1, <1>3 DEF ReadFile, Exec, ExecFails, FailedHere, EndScan, Exit, Goes
<1>4. CASE Wait(p)
  BY <1>0, <1>1, <1>4 DEF Wait, Reap, NoChild, Release, Goes, Children
<1> QED
  BY <1>2, <1>3, <1>4 DEF process

---------------------------------------------------------------------------
\* Who has which children after a step.

SameChildren == \A p \in Pids : Children(p)' = Children(p)

LEMMA ChildrenStay ==
  ASSUME CInv, NEW p \in Pids,
         \/ ReadFile(p) \/ Exec(p) \/ ExecFails(p) \/ EndScan(p) \/ Exit(p)
         \/ NoChild(p) \/ \E d : Leaves(p, d)
  PROVE  SameChildren
<1>1. parent' = parent /\ \A q \in Pids : at'[q] = "free" <=> at[q] = "free"
  BY DEF CInv, CountTypes, ReadFile, Exec, ExecFails, EndScan, Exit, NoChild, Leaves, ForkFails, PassOver, Goes
<1> QED
  BY <1>1 DEF SameChildren, Children

\* The new process.
LEMMA ChildrenFork ==
  ASSUME CInv, NEW p \in Pids, at[p] = "scan", NEW q \in Pids, at[q] = "free",
         at' = [at EXCEPT ![q] = "exec"], parent' = [parent EXCEPT ![q] = p]
  PROVE  /\ q # p /\ q \notin Children(p) /\ Children(p)' = Children(p) \cup {q}
         /\ Children(q) = {} /\ \A r \in Pids \ {p} : Children(r)' = Children(r)
<1>1. \A r \in Pids : parent[r] # q
  BY TreeAssumption DEF CInv, Family
<1> QED
  BY <1>1, TreeAssumption DEF Children, CInv, CountTypes

\* The child that has been waited for.
LEMMA ChildrenReap ==
  ASSUME CInv, NEW p \in Pids, at[p] = "wait", NEW q \in Children(p), at[q] = "ended", Release(q)
  PROVE  /\ q \in Pids /\ q # p /\ Children(p)' = Children(p) \ {q}
         /\ Children(q) = {} /\ \A r \in Pids \ {p} : Children(r)' = Children(r)
<1>1. q \in Pids /\ parent[q] = p /\ q # p
  BY TreeAssumption DEF Children, CInv, Family
<1>2. \A r \in Pids : parent[r] # q
  BY <1>1, TreeAssumption DEF CInv, Family, CountTypes
<1> QED
  BY <1>1, <1>2, TreeAssumption DEF Children, CInv, CountTypes, Release, Goes

LEMMA TurnsStep ==
  ASSUME CInv, NEW p \in Pids, process(p)
  PROVE  Turns'
<1> DEFINE Fits(r) == /\ Cardinality(Children(r)) <= proc_count[r] - waited[r]
                      /\ at[r] \in {"scan", "wait"} /\ dir[r] \notin failed
                           => Cardinality(Children(r)) = proc_count[r] - waited[r]
<1>0. CountTypes /\ \A r \in Pids : Fits(r)
  BY DEF CInv, Turns
<1> SUFFICES ASSUME NEW r \in Pids
             PROVE  Fits(r)'
  BY DEF Turns
<1>1. Cardinality(Children(r)) \in Nat
  BY ChildrenFinite
<1>2. SameChildren => Cardinality(Children(r)') = Cardinality(Children(r))
  BY DEF SameChildren
<1>n. proc_count[r] \in Int /\ waited[r] \in Nat
  BY <1>0 DEF CountTypes
<1>3. CASE ReadFile(p) \/ EndScan(p) \/ Exit(p)
  <2>1. UNCHANGED <<proc_count, waited, dir, failed>>
        /\ (at'[r] \in {"scan", "wait"} => at[r] \in {"scan", "wait"})
    BY <1>0, <1>3 DEF ReadFile, EndScan, Exit, Goes, counters, CountTypes
  <2>2. SameChildren
    BY <1>3, ChildrenStay
  <2> QED
    BY <1>0, <1>2, <2>1, <2>2
<1>4. CASE Exec(p)
  <2>1. Children(p) = {} /\ waited[p] = 0
    BY <1>4, TreeAssumption DEF Exec, CInv, Family, Children
  <2>2. SameChildren
    BY <1>4, ChildrenStay
  <2>3. Cardinality(Children(p)) = 0
    BY <2>1, FS_EmptySet
  <2>4. UNCHANGED <<waited, failed>> /\ (r = p => proc_count'[r] = 0)
        /\ (r # p => proc_count'[r] = proc_count[r] /\ at'[r] = at[r] /\ dir'[r] = dir[r])
    BY <1>0, <1>4 DEF Exec, Goes, CountTypes
  <2> QED
    BY <1>0, <1>1, <1>2, <2>1, <2>2, <2>3, <2>4
<1>5. CASE ExecFails(p)
  <2>1. SameChildren
    BY <1>5, ChildrenStay
  <2>2. UNCHANGED <<proc_count, waited, dir>> /\ failed \subseteq failed' /\ dir[p] \in failed'
        /\ (r # p => at'[r] = at[r])
    BY <1>0, <1>5 DEF ExecFails, FailedHere, Goes, counters, CountTypes
  <2> QED
    BY <1>0, <1>2, <2>1, <2>2
<1>6. CASE ReadDir(p) \/ StatFails(p)
  <2>1. PICK d : GivesAway(p, d) \/ Leaves(p, d)
    BY <1>6, ReadingIs
  <2>2. CASE Leaves(p, d)
    <3>1. SameChildren
      BY <2>2, ChildrenStay
    <3> QED
      BY <1>0, <1>1, <1>2, <2>1, <2>2, <3>1 DEF Reads, Leaves, ForkFails, PassOver, CountTypes
  <2>3. CASE GivesAway(p, d)
    <3>1. PICK q \in Pids : /\ at[q] = "free" /\ at' = [at EXCEPT ![q] = "exec"]
                            /\ parent' = [parent EXCEPT ![q] = p]
                            /\ proc_count' = [proc_count EXCEPT ![p] = @ + 1, ![q] = proc_count[p] + 1]
                            /\ dir' = [dir EXCEPT ![q] = dir[p]] /\ UNCHANGED waited
                            /\ failed \subseteq failed'
      BY <2>1, <2>3 DEF GivesAway, Fork, Reads, Goes
    <3>2. at[p] = "scan" /\ waited[q] = 0
      BY <2>3, <3>1 DEF Reads, GivesAway, CInv, Family
    <3>3. /\ q # p /\ q \notin Children(p) /\ Children(p)' = Children(p) \cup {q}
          /\ Children(q) = {} /\ \A y \in Pids \ {p} : Children(y)' = Children(y)
      BY <3>1, <3>2, ChildrenFork
    <3>4. Cardinality(Children(p)') = Cardinality(Children(p)) + 1 /\ Cardinality(Children(q)) = 0
      BY <3>3, ChildrenFinite, FS_AddElement, FS_EmptySet
    <3>5. Cardinality(Children(p)) \in Nat
      BY ChildrenFinite
    <3>6. CASE r = p
      <4>1. proc_count'[r] = proc_count[r] + 1 /\ UNCHANGED <<at[r], dir[r], waited>>
        BY <1>0, <3>1, <3>3, <3>6 DEF CountTypes
      <4> QED
        BY <1>0, <1>n, <3>1, <3>4, <3>5, <3>6, <4>1
    <3>7. CASE r = q
      <4>1. Cardinality(Children(r)') = 0
        BY <3>3, <3>4, <3>7
      <4>2. Cardinality(Children(p)) <= proc_count[p] - waited[p] /\ waited[p] \in Nat
            /\ proc_count[p] \in Int
        BY <1>0 DEF CountTypes
      <4>3. proc_count'[r] - waited'[r] >= 0 /\ at'[r] = "exec"
        BY <1>0, <3>1, <3>2, <3>3, <3>5, <3>7, <4>2 DEF CountTypes
      <4> QED
        BY <4>1, <4>3
    <3>8. CASE r # p /\ r # q
      <4>1. Cardinality(Children(r)') = Cardinality(Children(r))
        BY <3>3, <3>8
      <4> QED
        BY <1>0, <3>1, <3>8, <4>1 DEF CountTypes
    <3> QED
      BY <3>6, <3>7, <3>8
  <2> QED
    BY <2>1, <2>2, <2>3
<1>7. CASE Wait(p) /\ NoChild(p)
  <2>1. SameChildren /\ Cardinality(Children(p)) = 0
    BY <1>7, ChildrenStay, FS_EmptySet DEF NoChild
  <2>2. UNCHANGED <<at, dir, proc_count, failed>> /\ (r # p => waited'[r] = waited[r])
        /\ (r = p => waited'[r] = waited[r] + 1 /\ waited[r] < proc_count[r])
    BY <1>0, <1>7 DEF Wait, NoChild, CountTypes
  <2>3. CASE r = p
    BY <1>0, <1>2, <1>n, <2>1, <2>2, <2>3
  <2>4. CASE r # p
    BY <1>0, <1>2, <2>1, <2>2, <2>4
  <2> QED
    BY <2>3, <2>4
<1>8. CASE Wait(p) /\ Reap(p)
  <2>1. PICK q \in Children(p) :
          /\ at[q] = "ended" /\ Release(q) /\ waited' = [waited EXCEPT ![p] = @ + 1, ![q] = 0]
    BY <1>8 DEF Reap
  <2>2. /\ q \in Pids /\ q # p /\ Children(p)' = Children(p) \ {q}
        /\ Children(q) = {} /\ \A y \in Pids \ {p} : Children(y)' = Children(y)
    BY <1>8, <2>1, ChildrenReap DEF Wait
  <2>3. Cardinality(Children(p)') = Cardinality(Children(p)) - 1 /\ Cardinality(Children(q)) = 0
    BY <2>2, ChildrenFinite, FS_RemoveElement, FS_EmptySet, SMTT(30)
  <2>4. Cardinality(Children(p)) \in Nat
    BY ChildrenFinite
  <2>5. UNCHANGED failed
    BY <1>8 DEF Wait
  <2>6. CASE r = p
    <3>1. waited'[r] = waited[r] + 1 /\ UNCHANGED <<at[r], dir[r], proc_count[r]>>
      BY <1>0, <2>1, <2>2, <2>6 DEF CountTypes, Release, Goes
    <3> QED
      BY <1>0, <1>n, <2>3, <2>4, <2>5, <2>6, <3>1
  <2>7. CASE r = q
    <3>1. Cardinality(Children(r)') = 0
      BY <2>2, <2>3, <2>7
    <3>2. proc_count'[r] = 0 /\ waited'[r] = 0 /\ at'[r] = "free"
      BY <1>0, <2>1, <2>2, <2>7 DEF CountTypes, Release, Goes
    <3> QED
      BY <3>1, <3>2
  <2>8. CASE r # p /\ r # q
    <3>1. Cardinality(Children(r)') = Cardinality(Children(r))
      BY <2>2, <2>8
    <3> QED
      BY <1>0, <2>1, <2>5, <2>8, <3>1 DEF CountTypes, Release, Goes
  <2> QED
    BY <2>6, <2>7, <2>8
<1> QED
  BY <1>3, <1>4, <1>5, <1>6, <1>7, <1>8 DEF process, Wait

LEMMA SharedStep ==
  ASSUME CInv, NEW p \in Pids, process(p)
  PROVE  Shared'
<1> USE DEF Shared
<1>0. CountTypes /\ Shared
  BY DEF CInv
<1>2. CASE ReadFile(p) \/ EndScan(p) \/ Exit(p) \/ (Wait(p) /\ NoChild(p))
  <2>1. /\ UNCHANGED <<target, dir, failed>> /\ \A r \in Pids : left'[r] \subseteq left[r]
        /\ \A r \in Pids : at'[r] \in {"scan", "wait"} => at[r] \in {"scan", "wait"}
        /\ \A r \in Pids : at[r] = "exec" => at'[r] = "exec"
    BY <1>0, <1>2 DEF ReadFile, EndScan, Exit, Wait, NoChild, Goes, CountTypes
  <2>2. SameChildren
    BY <1>2, ChildrenStay
  <2> SUFFICES ASSUME NEW r \in Pids, at'[r] \in {"scan", "wait"}, dir'[r] \notin failed'
               PROVE  /\ \A s \in Children(r)' :
                           /\ target'[s] \in (Contents[dir'[r]] \cap Dirs) \ left'[r]
                           /\ at'[s] # "exec" => dir'[s] = target'[s]
                      /\ \A s, t \in Children(r)' : target'[s] = target'[t] => s = t
    OBVIOUS
  <2>3. Children(r)' = Children(r) /\ \A s \in Children(r) : s \in Pids
    BY <2>2 DEF SameChildren, Children
  <2> QED
    BY <1>0, <2>1, <2>3
<1>3. CASE Exec(p)
  <2>1. Children(p) = {}
    BY <1>3, TreeAssumption DEF Exec, CInv, Family, Children
  <2>2. SameChildren
    BY <1>3, ChildrenStay
  <2> SUFFICES ASSUME NEW r \in Pids, at'[r] \in {"scan", "wait"}, dir'[r] \notin failed'
               PROVE  /\ \A s \in Children(r)' :
                           /\ target'[s] \in (Contents[dir'[r]] \cap Dirs) \ left'[r]
                           /\ at'[s] # "exec" => dir'[s] = target'[s]
                      /\ \A s, t \in Children(r)' : target'[s] = target'[t] => s = t
    OBVIOUS
  <2>3. Children(r)' = Children(r) /\ \A s \in Children(r) : s \in Pids
    BY <2>2 DEF SameChildren, Children
  <2>4. CASE r = p
    BY <2>1, <2>3, <2>4
  <2>5. CASE r # p
    BY <1>0, <1>3, <2>3, <2>5 DEF Exec, Goes, CountTypes
  <2> QED
    BY <2>4, <2>5
<1>4. CASE ExecFails(p)
  <2>1. SameChildren
    BY <1>4, ChildrenStay
  <2>2. \A r \in Pids : p \in Children(r) => dir[r] = dir[p]
    BY <1>4, TreeAssumption DEF Children, CInv, Family, ExecFails, FailedHere
  <2> QED
    BY <1>0, <1>4, <2>1, <2>2 DEF SameChildren, ExecFails, FailedHere, Goes, CountTypes
<1>5. CASE ReadDir(p) \/ StatFails(p)
  <2>1. PICK d : GivesAway(p, d) \/ Leaves(p, d)
    BY <1>5, ReadingIs
  <2>2. CASE Leaves(p, d)
    <3>1. SameChildren
      BY <2>2, ChildrenStay
    <3> QED
      BY <1>0, <2>1, <2>2, <3>1 DEF SameChildren, Reads, Leaves, ForkFails, PassOver, CountTypes
  <2>3. CASE GivesAway(p, d)
    <3>1. PICK q \in Pids : /\ at[q] = "free" /\ at' = [at EXCEPT ![q] = "exec"]
                            /\ parent' = [parent EXCEPT ![q] = p]
                            /\ left' = [left EXCEPT ![p] = @ \ {d}, ![q] = left[p] \ {d}]
                            /\ target' = [target EXCEPT ![q] = d]
                            /\ dir' = [dir EXCEPT ![q] = dir[p]]
      BY <2>3 DEF GivesAway, Fork, Goes
    <3>0. failed \subseteq failed' /\ (dir[p] \in failed' \/ d \in Dirs)
      BY <2>3 DEF GivesAway
    <3>2. at[p] = "scan" /\ left[p] \subseteq Contents[dir[p]] /\ d \in left[p]
      BY <2>3 DEF Reads, GivesAway, CInv, Placed
    <3>3. /\ q # p /\ q \notin Children(p) /\ Children(p)' = Children(p) \cup {q}
          /\ Children(q) = {} /\ \A r \in Pids \ {p} : Children(r)' = Children(r)
      BY <3>1, <3>2, ChildrenFork
    <3>4. \A r \in Pids : q \notin Children(r)
      BY <3>1 DEF Children
    <3> SUFFICES ASSUME NEW r \in Pids, at'[r] \in {"scan", "wait"}, dir'[r] \notin failed'
                 PROVE  /\ \A s \in Children(r)' :
                             /\ target'[s] \in (Contents[dir'[r]] \cap Dirs) \ left'[r]
                             /\ at'[s] # "exec" => dir'[s] = target'[s]
                        /\ \A s, t \in Children(r)' : target'[s] = target'[t] => s = t
      BY <3>1, ZenonT(60)
    <3>5. r # q /\ at[r] \in {"scan", "wait"} /\ dir'[r] = dir[r] /\ dir[r] \notin failed
          /\ \A s \in Children(r) : s \in Pids
      BY <1>0, <3>0, <3>1 DEF CountTypes, Children
    <3>6. \A s \in Children(r) :
            at'[s] = at[s] /\ dir'[s] = dir[s] /\ target'[s] = target[s]
      BY <1>0, <3>1, <3>4, <3>5 DEF CountTypes
    <3>7. CASE r = p
      BY <1>0, <3>0, <3>1, <3>2, <3>3, <3>5, <3>6, <3>7 DEF CountTypes
    <3>8. CASE r # p
      BY <1>0, <3>1, <3>3, <3>5, <3>6, <3>8 DEF CountTypes
    <3> QED
      BY <3>7, <3>8
  <2> QED
    BY <2>1, <2>2, <2>3
<1>7. CASE Wait(p) /\ Reap(p)
  <2>1. PICK q \in Children(p) : at[q] = "ended" /\ Release(q)
    BY <1>7 DEF Reap
  <2>2. /\ q \in Pids /\ q # p /\ Children(p)' = Children(p) \ {q}
        /\ Children(q) = {} /\ \A r \in Pids \ {p} : Children(r)' = Children(r)
    BY <1>7, <2>1, ChildrenReap DEF Wait
  <2>3. \A r \in Pids : q \notin Children(r)'
    BY <1>0, <2>1, <2>2 DEF Children, Release, Goes, CountTypes
  <2>4. \A r \in Pids : Children(r)' \subseteq Children(r) /\ Children(r) \subseteq Pids
    BY <2>2 DEF Children
  <2> QED
    BY <1>0, <1>7, <2>1, <2>2, <2>3, <2>4 DEF CountTypes, Release, Goes, Wait
<1> QED
  BY <1>2, <1>3, <1>4, <1>5, <1>7 DEF process, Wait

---------------------------------------------------------------------------
\* What p knows and what it does not, where nothing has failed from its
\* directory down.

Fine(p) == at[p] \in {"scan", "wait"} /\ Below(dir[p]) \cap failed = {}

Adds(p) == Fine(p) => (Known(p) + Cardinality(Pending(p))) % Byte
                        = Cardinality(FilesUnder(dir[p])) % Byte

LEMMA PendingIs ==
  ASSUME CInv, NEW p \in Pids, Fine(p)
  PROVE  /\ dir[p] \in Below(Root) /\ dir[p] \in Dirs /\ dir[p] \notin failed
         /\ Entries(dir[p]) = Contents[dir[p]] /\ left[p] \subseteq Entries(dir[p])
         /\ Open(p) \subseteq Entries(dir[p]) \cap Dirs
         /\ Pending(p) \subseteq Names /\ IsFiniteSet(Pending(p)) /\ Cardinality(Pending(p)) \in Nat
         /\ Known(p) \in Int
<1>1. dir[p] \in Below(Root) /\ dir[p] \in Dirs
  BY TreeAssumption, BelowIs DEF CInv, CountTypes
<1>2. dir[p] \notin failed
  BY <1>1, BelowIs DEF Fine
<1>3. Entries(dir[p]) = Contents[dir[p]] /\ left[p] \subseteq Entries(dir[p])
  BY <1>1 DEF CInv, Placed, Entries, Readable, Fine
<1>4. \A q \in Children(p) : target[q] \in Entries(dir[p]) \cap Dirs
  BY <1>1, <1>2, <1>3 DEF CInv, Shared, Fine, Children
<1>5. Open(p) \subseteq Entries(dir[p]) \cap Dirs
  BY <1>3, <1>4 DEF Open
<1>6. Pending(p) \subseteq Names
  BY <1>1, <1>3, <1>5, FilesFinite DEF Pending, Names
<1>7. Known(p) \in Int
  BY DEF Known, CInv, CountTypes
<1> QED
  BY <1>1, <1>2, <1>3, <1>5, <1>6, <1>7, FilesFinite

\* Whom a step does not concern.
LEMMA AddsStays ==
  ASSUME CInv, NEW r \in Pids, at'[r] \in {"scan", "wait"} => at[r] \in {"scan", "wait"},
         UNCHANGED <<dir[r], left[r], file_count[r], files_in_dir_count[r]>>,
         failed \subseteq failed', Children(r)' = Children(r),
         \A q \in Children(r) : target'[q] = target[q]
  PROVE  Adds(r)'
<1>1. Adds(r)
  BY DEF CInv, Accounted, Adds, Fine
<1>2. Open(r)' = Open(r)
  BY DEF Open
<1>3. Pending(r)' = Pending(r) /\ Known(r)' = Known(r)
  BY <1>2 DEF Pending, Known
<1>4. Fine(r)' => Fine(r)
  BY DEF Fine
<1> QED
  BY <1>1, <1>3, <1>4 DEF Adds

\* A file that is counted.
LEMMA AddsReadFile ==
  ASSUME CInv, NEW p \in Pids, ReadFile(p)
  PROVE  Adds(p)'
<1> SUFFICES ASSUME Fine(p)'
             PROVE  (Known(p)' + Cardinality(Pending(p)')) % Byte
                      = Cardinality(FilesUnder(dir[p])) % Byte
  BY DEF Adds, ReadFile
<1>1. Fine(p) /\ Adds(p)
  BY DEF Fine, CInv, Accounted, Adds, ReadFile
<1>2. PICK e \in left[p] \ Dirs : left' = [left EXCEPT ![p] = @ \ {e}]
  BY DEF ReadFile
<1>3. Known(p)' = Known(p) + 1
  BY DEF Known, ReadFile, CInv, CountTypes
<1>4. Children(p)' = Children(p)
  BY DEF Children, ReadFile
<1>5. Open(p)' = Open(p)
  BY <1>2, <1>4 DEF Open, ReadFile, CInv, CountTypes
<1>6. \A d \in Open(p) : e \notin FilesUnder(d)
  BY <1>1, <1>2, PendingIs, FilesApart
<1>7. Pending(p)' = Pending(p) \ {e} /\ e \in Pending(p)
  BY <1>2, <1>5, <1>6 DEF Pending, CInv, CountTypes
<1>8. Cardinality(Pending(p)') = Cardinality(Pending(p)) - 1
  BY <1>1, <1>7, PendingIs, FS_RemoveElement
<1>9. Known(p)' + Cardinality(Pending(p)') = Known(p) + Cardinality(Pending(p))
  BY <1>1, <1>3, <1>8, PendingIs
<1> QED
  BY <1>1, <1>9 DEF Adds

\* A directory that is given to a child, and stays among what is to come.
LEMMA AddsFork ==
  ASSUME CInv, NEW p \in Pids, at[p] = "scan", NEW d \in left[p] \cap Dirs, NEW q \in Pids,
         at[q] = "free", Children(p)' = Children(p) \cup {q}, q # p, q \notin Children(p),
         target' = [target EXCEPT ![q] = d],
         left' = [left EXCEPT ![p] = @ \ {d}, ![q] = left[p] \ {d}],
         UNCHANGED <<at[p], dir[p], file_count[p], files_in_dir_count[p], failed>>
  PROVE  Adds(p)'
<1>1. Adds(p)
  BY DEF CInv, Accounted, Adds, Fine
<1>2. left'[p] = left[p] \ {d} /\ target'[q] = d /\ \A x \in Children(p) : target'[x] = target[x]
  BY DEF CInv, CountTypes, Children
<1>3. Open(p)' = Open(p)
  BY <1>2, ZenonT(60) DEF Open
<1>4. Pending(p)' = Pending(p) /\ Known(p)' = Known(p)
  BY <1>2, <1>3 DEF Pending, Known
<1>5. Fine(p)' => Fine(p)
  BY DEF Fine
<1> QED
  BY <1>1, <1>4, <1>5 DEF Adds

\* A process that starts in its own directory.
LEMMA AddsExec ==
  ASSUME CInv, NEW p \in Pids, Exec(p)
  PROVE  Adds(p)'
<1> SUFFICES ASSUME Fine(p)'
             PROVE  (Known(p)' + Cardinality(Pending(p)')) % Byte
                      = Cardinality(FilesUnder(dir'[p])) % Byte
  BY DEF Adds
<1>1. target[p] \in Readable /\ target[p] \in Dirs
  BY DEF Fine, Exec, Goes, Readable, CInv, CountTypes
<1>2. dir'[p] = target[p] /\ left'[p] = Entries(target[p])
  BY <1>1 DEF Exec, CInv, CountTypes, Entries
<1>3. Known(p)' = 0
  BY DEF Known, Exec, CInv, CountTypes, Family
<1>4. Children(p)' = {}
  <2>1. Children(p) = {}
    BY TreeAssumption DEF Exec, CInv, Family, Children
  <2> QED
    BY <2>1, ChildrenStay DEF SameChildren
<1>5. Pending(p)' = FilesUnder(target[p])
  BY <1>1, <1>2, <1>4, FilesSplit DEF Pending, Open
<1>6. Cardinality(FilesUnder(target[p])) \in Nat
  BY <1>1, FilesFinite
<1> QED
  BY <1>2, <1>3, <1>5, <1>6

\* A child that tells how many files there are under its directory.
LEMMA AddsReap ==
  ASSUME CInv, NEW p \in Pids, at[p] = "wait", NEW q \in Children(p), at[q] = "ended", Release(q),
         files_in_dir_count' = [files_in_dir_count EXCEPT ![p] = @ + status[q], ![q] = 0],
         UNCHANGED failed
  PROVE  Adds(p)'
<1>0. /\ q \in Pids /\ q # p /\ Children(p)' = Children(p) \ {q}
      /\ Children(q) = {} /\ \A r \in Pids \ {p} : Children(r)' = Children(r)
  BY ChildrenReap
<1>1. UNCHANGED <<at[p], dir[p], left[p], file_count[p]>>
      /\ \A x \in Children(p) \ {q} : target'[x] = target[x]
  BY <1>0 DEF Release, Goes, CInv, CountTypes, Children
<1> SUFFICES ASSUME Fine(p)
             PROVE  (Known(p)' + Cardinality(Pending(p)')) % Byte
                      = Cardinality(FilesUnder(dir[p])) % Byte
  BY <1>1 DEF Adds, Fine
<1> DEFINE t == target[q]
           F == FilesUnder(t)
<1>2. /\ t \in Entries(dir[p]) \cap Dirs /\ t \notin left[p] /\ dir[q] = t
      /\ \A x \in Children(p) : target[x] = t => x = q
  BY PendingIs DEF CInv, Shared, Fine, Open
<1>3. Below(t) \subseteq Below(dir[p])
  BY <1>2, PendingIs, BelowSplits
<1>4. status[q] % Byte = Cardinality(F) % Byte
  <2>1. status[q] = Cardinality(F) % Byte
    BY <1>0, <1>2, <1>3 DEF CInv, StatusRight, Fine
  <2>2. Cardinality(F) \in Nat /\ Byte \in Nat \ {0}
    BY <1>2, FilesFinite, TreeAssumption
  <2> QED
    BY <2>1, <2>2
<1>5. Open(p)' = Open(p) \ {t} /\ t \in Open(p)
  BY <1>0, <1>1, <1>2 DEF Open
<1>6. \A d \in Open(p) : d # t => FilesUnder(d) \cap F = {}
  BY <1>2, PendingIs, FilesApart
<1>7. left[p] \cap F = {}
  BY <1>2, PendingIs, FilesApart
<1>8. Pending(p)' = Pending(p) \ F /\ F \subseteq Pending(p)
  <2> HIDE DEF F, t
  <2>1. \A f : f \in Pending(p) <=> f \in left[p] \ Dirs \/ \E d \in Open(p) : f \in FilesUnder(d)
    BY DEF Pending
  <2>2. \A f : f \in Pending(p)' <=> f \in left[p] \ Dirs \/ \E d \in Open(p)' : f \in FilesUnder(d)
    BY <1>1 DEF Pending
  <2>3. F = FilesUnder(t)
    BY DEF F
  <2> QED
    BY <1>5, <1>6, <1>7, <2>1, <2>2, <2>3
<1>9. Cardinality(Pending(p)') = Cardinality(Pending(p)) - Cardinality(F)
  <2>1. Pending(p) \cap F = F
    BY <1>8
  <2> QED
    BY <1>8, <2>1, PendingIs, FS_Difference, ZenonT(60)
<1>10. Known(p)' = Known(p) + status[q]
  BY <1>0, <1>1 DEF Known, CInv, CountTypes
<1> DEFINE c == Known(p) + Cardinality(Pending(p)) - Cardinality(F)
<1>11. /\ Known(p) \in Int /\ Cardinality(Pending(p)) \in Nat /\ Cardinality(F) \in Nat
       /\ status[q] \in Int /\ Byte \in Nat \ {0}
  BY <1>0, <1>2, PendingIs, FilesFinite, TreeAssumption DEF CInv, CountTypes
<1> HIDE DEF F
<1>12. c \in Int /\ status[q] + c = Known(p)' + Cardinality(Pending(p)')
       /\ Cardinality(F) + c = Known(p) + Cardinality(Pending(p))
  BY <1>9, <1>10, <1>11
<1> HIDE DEF c
<1>13. (status[q] + c) % Byte = (Cardinality(F) + c) % Byte
  BY <1>4, <1>11, <1>12, ModAdd
<1>14. Adds(p)
  BY DEF CInv, Accounted, Adds, Fine
<1> QED
  BY <1>12, <1>13, <1>14 DEF Adds

LEMMA AccountedStep ==
  ASSUME CInv, NEW p \in Pids, process(p)
  PROVE  Accounted'
<1> SUFFICES ASSUME NEW r \in Pids
             PROVE  Adds(r)'
  BY DEF Accounted, Adds, Fine
<1>0. CountTypes
  BY DEF CInv
<1>1. CASE ReadFile(p)
  <2>1. CASE r = p
    BY <1>1, <2>1, AddsReadFile
  <2>2. CASE r # p
    <3>1. SameChildren
      BY <1>1, ChildrenStay
    <3> QED
      BY <1>0, <1>1, <2>2, <3>1, AddsStays DEF ReadFile, SameChildren, CountTypes
  <2> QED
    BY <2>1, <2>2
<1>2. CASE ReadDir(p) \/ StatFails(p)
  <2>1. PICK d : GivesAway(p, d) \/ Leaves(p, d)
    BY <1>2, ReadingIs
  <2>2. at[p] = "scan" /\ d \in left[p] /\ UNCHANGED files_in_dir_count
    BY <2>1 DEF Reads, GivesAway, Leaves
  <2>3. CASE Leaves(p, d)
    <3>1. CASE r = p
      <4>1. dir'[p] \in Below(dir'[p]) /\ dir'[p] \in failed'
        BY <1>0, <2>3, TreeAssumption, BelowIs DEF Leaves, ForkFails, PassOver, CountTypes
      <4> QED
        BY <3>1, <4>1 DEF Adds, Fine
    <3>2. CASE r # p
      <4>1. SameChildren
        BY <2>3, ChildrenStay
      <4> QED
        BY <1>0, <2>2, <2>3, <3>2, <4>1, AddsStays DEF Leaves, ForkFails, PassOver, SameChildren, CountTypes
    <3> QED
      BY <3>1, <3>2
  <2>4. CASE GivesAway(p, d)
    <3>1. PICK q \in Pids : /\ at[q] = "free" /\ at' = [at EXCEPT ![q] = "exec"]
                            /\ parent' = [parent EXCEPT ![q] = p]
                            /\ left' = [left EXCEPT ![p] = @ \ {d}, ![q] = left[p] \ {d}]
                            /\ target' = [target EXCEPT ![q] = d]
                            /\ file_count' = [file_count EXCEPT ![q] = file_count[p]]
                            /\ dir' = [dir EXCEPT ![q] = dir[p]]
      BY <2>4 DEF GivesAway, Fork, Goes
    <3>0. (failed' = failed /\ d \in Dirs) \/ failed' = failed \cup {dir[p]}
      BY <2>4 DEF GivesAway
    <3>2. /\ q # p /\ q \notin Children(p) /\ Children(p)' = Children(p) \cup {q}
          /\ Children(q) = {} /\ \A y \in Pids \ {p} : Children(y)' = Children(y)
      BY <2>2, <3>1, ChildrenFork
    <3>3. CASE r = p
      <4>1. UNCHANGED <<at[p], dir[p], file_count[p], files_in_dir_count[p]>>
        BY <1>0, <2>2, <3>1, <3>2 DEF CountTypes
      <4>2. CASE failed' = failed /\ d \in Dirs
        BY <2>2, <3>1, <3>2, <3>3, <4>1, <4>2, AddsFork
      <4>3. CASE failed' = failed \cup {dir[p]}
        <5>1. dir'[p] \in Below(dir'[p]) /\ dir'[p] \in failed'
          BY <1>0, <4>1, <4>3, TreeAssumption, BelowIs DEF CountTypes
        <5> QED
          BY <3>3, <5>1 DEF Adds, Fine
      <4> QED
        BY <3>0, <4>2, <4>3
    <3>4. CASE r = q
      BY <1>0, <3>1, <3>4 DEF Adds, Fine, CountTypes
    <3>5. CASE r # p /\ r # q
      <4>1. \A x \in Children(r) : target'[x] = target[x]
        BY <1>0, <3>1 DEF Children, CountTypes
      <4> QED
        BY <1>0, <2>2, <3>0, <3>1, <3>2, <3>5, <4>1, AddsStays DEF CountTypes
    <3> QED
      BY <3>3, <3>4, <3>5
  <2> QED
    BY <2>1, <2>3, <2>4
<1>3. CASE Exec(p)
  <2>1. CASE r = p
    BY <1>3, <2>1, AddsExec
  <2>2. CASE r # p
    <3>1. SameChildren
      BY <1>3, ChildrenStay
    <3> QED
      BY <1>0, <1>3, <2>2, <3>1, AddsStays DEF Exec, Goes, SameChildren, CountTypes
  <2> QED
    BY <2>1, <2>2
<1>4. CASE ExecFails(p)
  <2>1. CASE r = p
    <3>1. dir'[p] \in Below(dir'[p]) /\ dir'[p] \in failed'
      BY <1>0, <1>4, TreeAssumption, BelowIs DEF ExecFails, FailedHere, CountTypes
    <3> QED
      BY <2>1, <3>1 DEF Adds, Fine
  <2>2. CASE r # p
    <3>1. SameChildren
      BY <1>4, ChildrenStay
    <3> QED
      BY <1>0, <1>4, <2>2, <3>1, AddsStays DEF ExecFails, FailedHere, Goes, counters, SameChildren, CountTypes
  <2> QED
    BY <2>1, <2>2
<1>5. CASE EndScan(p) \/ Exit(p)
  <2>1. SameChildren
    BY <1>5, ChildrenStay
  <2> QED
    BY <1>0, <1>5, <2>1, AddsStays DEF EndScan, Exit, Goes, counters, SameChildren, CountTypes
<1>6. CASE Wait(p) /\ NoChild(p)
  <2>1. SameChildren
    BY <1>6, ChildrenStay
  <2>2. CASE r = p
    <3>1. Cardinality(Children(p)) = 0 /\ waited[p] < proc_count[p] /\ at[p] = "wait"
      BY <1>6, FS_EmptySet DEF Wait, NoChild
    <3>2. dir[p] \in failed
      BY <1>0, <3>1 DEF CInv, Turns, CountTypes
    <3>3. dir'[p] \in Below(dir'[p]) /\ dir'[p] \in failed'
      BY <1>0, <1>6, <3>2, TreeAssumption, BelowIs DEF Wait, NoChild, CountTypes
    <3> QED
      BY <2>2, <3>3 DEF Adds, Fine
  <2>3. CASE r # p
    BY <1>0, <1>6, <2>1, <2>3, AddsStays DEF Wait, NoChild, SameChildren, CountTypes
  <2> QED
    BY <2>2, <2>3
<1>7. CASE Wait(p) /\ Reap(p)
  <2>1. PICK q \in Children(p) :
          /\ at[q] = "ended" /\ Release(q)
          /\ files_in_dir_count' = [files_in_dir_count EXCEPT ![p] = @ + status[q], ![q] = 0]
    BY <1>7 DEF Reap
  <2>2. /\ q \in Pids /\ q # p /\ Children(p)' = Children(p) \ {q}
        /\ Children(q) = {} /\ \A y \in Pids \ {p} : Children(y)' = Children(y)
    BY <1>7, <2>1, ChildrenReap DEF Wait
  <2>3. CASE r = p
    BY <1>7, <2>1, <2>3, AddsReap DEF Wait
  <2>4. CASE r = q
    BY <1>0, <2>1, <2>2, <2>4 DEF Adds, Fine, Release, Goes, CountTypes
  <2>5. CASE r # p /\ r # q
    <3>1. q \notin Children(r)
      BY <2>1, <2>5 DEF Children
    <3>2. \A x \in Children(r) : target'[x] = target[x]
      BY <1>0, <2>1, <3>1 DEF Children, CountTypes, Release
    <3> QED
      BY <1>0, <1>7, <2>1, <2>2, <2>5, <3>2, AddsStays DEF CountTypes, Release, Goes, Wait
  <2> QED
    BY <2>3, <2>4, <2>5
<1> QED
  BY <1>1, <1>2, <1>3, <1>4, <1>5, <1>6, <1>7 DEF process, Wait

LEMMA StatusRightStep ==
  ASSUME CInv, NEW p \in Pids, process(p)
  PROVE  StatusRight'
<1> SUFFICES ASSUME NEW r \in Pids, at'[r] = "ended", Below(dir'[r]) \cap failed' = {}
             PROVE  status'[r] = Cardinality(FilesUnder(dir'[r])) % Byte
  BY DEF StatusRight
<1>0. CountTypes /\ StatusRight
  BY DEF CInv
<1>1. ASSUME at[r] = "ended", UNCHANGED <<dir[r], status[r]>>, failed \subseteq failed'
      PROVE  status'[r] = Cardinality(FilesUnder(dir'[r])) % Byte
  BY <1>0, <1>1 DEF StatusRight
<1>2. CASE ReadFile(p) \/ ExecFails(p) \/ EndScan(p)
  BY <1>0, <1>1, <1>2 DEF ReadFile, ExecFails, FailedHere, EndScan, Goes, CountTypes
<1>3. CASE ReadDir(p) \/ StatFails(p)
  <2>1. PICK d : GivesAway(p, d) \/ Leaves(p, d)
    BY <1>3, ReadingIs
  <2> QED
    BY <1>0, <1>1, <2>1 DEF Reads, GivesAway, Fork, Leaves, ForkFails, PassOver, Goes, CountTypes
<1>4. CASE Exec(p)
  <2>1. CASE r = p
    <3>0. target[p] \in Dirs
      <4> SUFFICES ASSUME target[p] \notin Dirs
                   PROVE  FALSE
        OBVIOUS
      <4>1. dir[p] \in failed' /\ dir'[p] = dir[p]
        BY <1>4 DEF Exec, CInv, Placed
      <4>2. dir[p] \in Below(dir[p])
        BY <1>0, TreeAssumption, BelowIs DEF CountTypes
      <4> QED
        BY <2>1, <4>1, <4>2
    <3>1. target[p] \notin Readable /\ status'[p] = 0 /\ dir'[p] = target[p]
      BY <1>0, <1>4, <2>1, <3>0 DEF Exec, Goes, CountTypes
    <3>2. Entries(target[p]) = {}
      BY <3>1 DEF Entries
    <3>3. FilesUnder(target[p]) = {}
      BY <3>0, <3>2, FilesSplit
    <3> QED
      BY <2>1, <3>1, <3>3, FS_EmptySet, TreeAssumption
  <2>2. CASE r # p
    BY <1>0, <1>1, <1>4, <2>2 DEF Exec, Goes, CountTypes
  <2> QED
    BY <2>1, <2>2
<1>5. CASE Wait(p)
  BY <1>0, <1>1, <1>5 DEF Wait, Reap, NoChild, Release, Goes, Children, CountTypes
<1>6. CASE Exit(p)
  <2>1. CASE r = p
    <3>1. Fine(p) /\ UNCHANGED <<dir, failed>> /\ status'[p] = Known(p) % Byte
      BY <1>0, <1>6, <2>1 DEF Exit, Goes, counters, Fine, Known, ExitStatus, CountTypes
    <3>2. Children(p) = {}
      <4>1. Cardinality(Children(p)) <= 0
        BY <1>0, <1>6 DEF CInv, Turns, Exit, CountTypes
      <4> QED
        BY <4>1, ChildrenFinite, FS_EmptySet
    <3>3. left[p] = {}
      BY <1>6 DEF CInv, Placed, Exit
    <3>4. Pending(p) = {}
      BY <3>2, <3>3 DEF Pending, Open
    <3>5. Known(p) + Cardinality(Pending(p)) = Known(p)
      BY <3>1, <3>4, PendingIs, FS_EmptySet
    <3> QED
      BY <2>1, <3>1, <3>5 DEF CInv, Accounted, Fine
  <2>2. CASE r # p
    BY <1>0, <1>1, <1>6, <2>2 DEF Exit, Goes, CountTypes
  <2> QED
    BY <2>1, <2>2
<1> QED
  BY <1>2, <1>3, <1>4, <1>5, <1>6 DEF process

LEMMA CountInvariant == CountSpec => []CInv
<1>1. CountInit => CInv
  BY InitCount
<1>2. CInv /\ [CountNext]_countVars => CInv'
  <2> SUFFICES ASSUME CInv, [CountNext]_countVars
               PROVE  CInv'
    OBVIOUS
  <2>1. CASE CountNext
    <3>1. PICK p \in Pids : process(p)
      BY <2>1 DEF CountNext
    <3>2. CountTypes' /\ Placed' /\ Family' /\ Turns' /\ Shared'
      BY <3>1, CountTypesStep, PlacedStep, FamilyStep, TurnsStep, SharedStep
    <3>3. Accounted' /\ Youngest' /\ StatusRight'
      BY <3>1, AccountedStep, YoungestStep, StatusRightStep
    <3> QED
      BY <3>2, <3>3 DEF CInv
  <2>2. CASE UNCHANGED countVars
    BY <2>2 DEF countVars, counters, CInv, CountTypes, Placed, Family, Turns, Shared, Accounted,
                Youngest, StatusRight, Children, Open, Pending, Known
  <2> QED
    BY <2>1, <2>2
<1> QED
  BY <1>1, <1>2, PTL DEF CountSpec

\* main of fcounter, for any tree and any number of processes: a process that
\* has ended tells the number of the files under its directory, modulo 256, if
\* no stat, no fork and no exec failed there, whatever failed elsewhere and in whatever
\* order the children of each process end.
THEOREM StatusesRight == CountSpec => []StatusRight
<1>1. CInv => StatusRight
  BY DEF CInv
<1> QED
  BY <1>1, CountInvariant, PTL

\* The loop of line 76: the status of an earlier turn, or one that was never
\* written, is added only in a directory where a stat, a fork or an exec failed.
THEOREM StaleOnlyAfterFailure ==
  CountSpec => [](\A p \in Pids : at[p] = "wait" /\ waited[p] < proc_count[p] /\ Children(p) = {}
                                    => dir[p] \in failed)
<1>1. ASSUME CInv, NEW p \in Pids, at[p] = "wait", waited[p] < proc_count[p], Children(p) = {}
      PROVE  dir[p] \in failed
  <2>1. Cardinality(Children(p)) = 0
    BY <1>1, ChildrenFinite, FS_EmptySet
  <2>2. proc_count[p] \in Int /\ waited[p] \in Nat
    BY <1>1 DEF CInv, CountTypes
  <2>3. dir[p] \notin failed => Cardinality(Children(p)) = proc_count[p] - waited[p]
    BY <1>1 DEF CInv, Turns
  <2> QED
    BY <1>1, <2>1, <2>2, <2>3
<1>2. CInv => \A p \in Pids : at[p] = "wait" /\ waited[p] < proc_count[p] /\ Children(p) = {}
                                => dir[p] \in failed
  BY <1>1
<1> QED
  BY <1>2, CountInvariant, PTL

\* What process(p) can do.
CountGoesOn(p) ==
  \/ at[p] \in {"exec", "scan"}
  \/ at[p] = "wait" /\ (waited[p] < proc_count[p] =>
                          Children(p) = {} \/ \E q \in Children(p) : at[q] = "ended")

\* The safety half of CountEnds: until the first process has ended and there is
\* no other, some process can go on; they never all wait for each other, and no
\* process that has ended is left behind.
THEOREM CountNeverStuck ==
  CountSpec => [](\/ \A p \in Pids : at[p] = IF p = First THEN "ended" ELSE "free"
                  \/ \E p \in Pids : CountGoesOn(p))
<1> DEFINE Active == {p \in Pids : at[p] \in {"exec", "scan", "wait"}}
<1>1. ASSUME CInv, Active = {}, NEW p \in Pids
      PROVE  at[p] = IF p = First THEN "ended" ELSE "free"
  <2>1. at[p] \in {"free", "ended"}
    BY <1>1 DEF CInv, CountTypes, Activities
  <2>2. \A x \in Pids : parent[x] \in Pids => at[parent[x]] \notin {"scan", "wait"}
    BY <1>1
  <2> QED
    BY <1>1, <2>1, <2>2 DEF CInv, CountTypes, Family
<1>2. ASSUME CInv, Active # {}
      PROVE  \E p \in Pids : CountGoesOn(p)
  <2>1. PICK p \in Active : \A q \in Active : parent[q] # p
    BY <1>2 DEF CInv, Youngest
  <2>2. \A q \in Children(p) : at[q] = "ended"
    BY <1>2, <2>1 DEF CInv, CountTypes, Activities, Children
  <2> QED
    BY <2>1, <2>2 DEF CountGoesOn
<1>3. CInv => \/ \A p \in Pids : at[p] = IF p = First THEN "ended" ELSE "free"
              \/ \E p \in Pids : CountGoesOn(p)
  BY <1>1, <1>2
<1> QED
  BY <1>3, CountInvariant, PTL

==============================================================================
