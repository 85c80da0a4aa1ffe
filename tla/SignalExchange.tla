---------------------------- MODULE SignalExchange ----------------------------
(***************************************************************************)
(* cw04/zad2: a sender sends a number of signals to a receiver, which sends*)
(* as many back as it has counted.  zad2a uses standard signals, zad2b     *)
(* waits for the answer to each, zad2c uses real-time signals.             *)
(***************************************************************************)
EXTENDS Integers

CONSTANTS
  MAXSIGNALS   \* the largest argument of the sender (bound)

ASSUME SignalsAssumption == MAXSIGNALS \in Nat

VARIABLES
  variant,   \* "a", "b" or "c"
  signals,   \* argument of the sender
  together,  \* the sender is in the receiver's process group
  pending,   \* signals that wait to be delivered, per process and signal
  received,  \* of each process
  loop,      \* of each process
  wait,      \* of the sender in zad2b
  known,     \* the receiver's pid is set
  pc,        \* where each process is in main
  i          \* loop counter of each process

vars == <<variant, signals, together, pending, received, loop, wait, known, pc, i>>

Both == {"sender", "receiver"}
Signals == {"USR1", "USR2"}

\* The receiver has installed its handlers: the sender is given its pid.
Init ==
  /\ variant \in {"a", "b", "c"}
  /\ signals \in 0 .. MAXSIGNALS
  /\ together \in BOOLEAN
  /\ pending = [p \in Both |-> [s \in Signals |-> 0]]
  /\ received = [p \in Both |-> 0]
  /\ loop = [p \in Both |-> TRUE]
  /\ wait = FALSE
  /\ known = FALSE
  /\ pc = [p \in Both |-> IF p = "sender" THEN "send" ELSE "wait"]
  /\ i = [p \in Both |-> 0]

inputs == <<variant, signals, together>>

At(p, from, to) == pc[p] = from /\ pc' = [pc EXCEPT ![p] = to]

Queued_Standard == FALSE

\* Real-time signals queue; a standard signal that is pending already is lost.
Queued == variant = "c"

Kill(q, s, before) ==
  pending' = [before EXCEPT ![q][s] = IF Queued THEN @ + 1 ELSE 1]

Send(q, s) == Kill(q, s, pending)

\* kill(0, s): to the receiver's own process group.
SendGroup(s) ==
  pending' = [q \in Both |->
                IF q = "receiver" \/ together
                  THEN [pending[q] EXCEPT ![s] = IF Queued THEN @ + 1 ELSE 1]
                  ELSE pending[q]]

---------------------------------------------------------------------------
\* The handlers.  Of two signals the kernel takes the lower one first, and main
\* goes on only when all that were pending have been handled.

Taken(p, s) == [pending EXCEPT ![p][s] = @ - 1]

Delivers(p, s) == pending[p][s] > 0 /\ (s = "USR2" => pending[p]["USR1"] = 0)

CountSender ==
  /\ Delivers("sender", "USR1")
  /\ received' = [received EXCEPT !["sender"] = @ + 1]
  /\ wait' = FALSE
  /\ pending' = Taken("sender", "USR1")
  /\ UNCHANGED <<inputs, loop, known, pc, i>>

\* In zad2b the handler answers.
CountReceiver ==
  /\ Delivers("receiver", "USR1")
  /\ received' = [received EXCEPT !["receiver"] = @ + 1]
  /\ known' = TRUE
  /\ IF variant = "b" THEN Kill("sender", "USR1", Taken("receiver", "USR1"))
                      ELSE pending' = Taken("receiver", "USR1")
  /\ UNCHANGED <<inputs, loop, wait, pc, i>>

Stop(p) ==
  /\ Delivers(p, "USR2")
  /\ loop' = [loop EXCEPT ![p] = FALSE]
  /\ pending' = Taken(p, "USR2")
  /\ UNCHANGED <<inputs, received, wait, known, pc, i>>

handler == CountSender \/ CountReceiver \/ \E p \in Both : Stop(p)

---------------------------------------------------------------------------
\* The sender's main.

SendOne ==
  /\ i["sender"] < signals
  /\ At("sender", "send", IF variant = "b" THEN "set" ELSE "send")
  /\ Send("receiver", "USR1")
  /\ i' = [i EXCEPT !["sender"] = @ + 1]
  /\ UNCHANGED <<inputs, received, loop, wait, known>>

\* Set after the signal was sent: an answer that came in between is forgotten.
SetWait ==
  /\ At("sender", "set", "spin")
  /\ wait' = TRUE
  /\ UNCHANGED <<inputs, pending, received, loop, known, i>>

Answered ==
  /\ At("sender", "spin", "send") /\ ~wait
  /\ UNCHANGED <<inputs, pending, received, loop, wait, known, i>>

SendEnd ==
  /\ i["sender"] = signals
  /\ At("sender", "send", "wait")
  /\ Send("receiver", "USR2")
  /\ UNCHANGED <<inputs, received, loop, wait, known, i>>

Finish ==
  /\ At("sender", "wait", "done") /\ ~loop["sender"]
  /\ UNCHANGED <<inputs, pending, received, loop, wait, known, i>>

---------------------------------------------------------------------------
\* The receiver's main.

Stopped ==
  /\ At("receiver", "wait", "reply") /\ ~loop["receiver"]
  /\ UNCHANGED <<inputs, pending, received, loop, wait, known, i>>

Replies == IF variant = "b" THEN 0 ELSE received["receiver"]

SendBack ==
  /\ i["receiver"] < Replies
  /\ At("receiver", "reply", "reply")
  /\ Send("sender", "USR1")
  /\ i' = [i EXCEPT !["receiver"] = @ + 1]
  /\ UNCHANGED <<inputs, received, loop, wait, known>>

SendBackEnd_Forgotten ==
  /\ i["receiver"] = Replies
  /\ At("receiver", "reply", "done")
  /\ UNCHANGED <<inputs, pending, received, loop, wait, known, i>>

\* With no signal received pid is 0.
SendBackEnd ==
  /\ i["receiver"] = Replies
  /\ At("receiver", "reply", "done")
  /\ \/ known /\ Send("sender", "USR2")
     \/ ~known /\ SendGroup("USR2")
  /\ UNCHANGED <<inputs, received, loop, wait, known, i>>

---------------------------------------------------------------------------

sender == SendOne \/ SetWait \/ Answered \/ SendEnd \/ Finish
receiver == Stopped \/ SendBack \/ SendBackEnd

Next == handler \/ sender \/ receiver

Fairness == WF_vars(handler) /\ WF_vars(sender) /\ WF_vars(receiver)

Spec == Init /\ [][Next]_vars /\ Fairness

---------------------------------------------------------------------------

\* What is printed in the end (sender.c 40-41, receiver.c 37): an answer to each
\* signal, or a queue, makes both counts exact; with standard signals alone each
\* side counts at most what the other sent, and at least one if any was sent.
CountsRight ==
  pc["sender"] = "done" =>
    IF variant = "a"
      THEN /\ signals > 0 => 1 <= received["sender"]
           /\ received["sender"] <= received["receiver"]
           /\ received["receiver"] <= signals
      ELSE received["sender"] = signals /\ received["receiver"] = signals

\* zad2b's sender spins although the receiver has answered all it sent: the last
\* answer came before wait was set.
TooEarly ==
  /\ variant = "b" /\ pc["sender"] = "spin" /\ wait
  /\ received["sender"] = i["sender"]
  /\ \A p \in Both, s \in Signals : pending[p][s] = 0

\* With nothing to send the receiver ends without telling a sender outside its
\* process group.
NotTold ==
  /\ signals = 0 /\ ~together
  /\ pc = [p \in Both |-> IF p = "sender" THEN "wait" ELSE "done"]

\* Both processes end, whatever signals are merged; nothing but an answer that
\* came too early in zad2b, or a sender that sends nothing to a receiver in
\* another process group, keeps anybody waiting.
ExchangeEnds == <>(pc = [p \in Both |-> "done"] \/ TooEarly \/ NotTold)

=============================================================================
