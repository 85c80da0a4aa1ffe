---------------------------- MODULE NumberTable ----------------------------
(***************************************************************************)
(* What the processes of cw07/zad1 promise together: a table of slots into *)
(* which a producer puts the number in its hand and from which a consumer  *)
(* takes a number into its hand.  Which slot is left open.                 *)
(***************************************************************************)
EXTENDS Integers

CONSTANTS Producers, Consumers, MAX, Numbers

VARIABLES
  table,   \* what lies in each slot
  hand     \* what each process has in its hand

Vacant  == -1
Nothing == -2

Init ==
  /\ table = [s \in 0 .. MAX - 1 |-> Vacant]
  /\ hand = [p \in Producers \cup Consumers |-> Nothing]

Draw(p) ==
  /\ hand[p] = Nothing
  /\ \E n \in Numbers : hand' = [hand EXCEPT ![p] = n]
  /\ UNCHANGED table

Put(p) ==
  /\ hand[p] # Nothing
  /\ \E s \in DOMAIN table :
       /\ table[s] = Vacant
       /\ table' = [table EXCEPT ![s] = hand[p]]
  /\ hand' = [hand EXCEPT ![p] = Nothing]

Take(p) ==
  /\ hand[p] = Nothing
  /\ \E s \in DOMAIN table :
       /\ table[s] # Vacant
       /\ table' = [table EXCEPT ![s] = Vacant]
       /\ hand' = [hand EXCEPT ![p] = table[s]]

\* A consumer is done with its number, or the process has ended.
Drop(p) ==
  /\ hand' = [hand EXCEPT ![p] = Nothing]
  /\ UNCHANGED table

Next ==
  \/ \E p \in Producers : Draw(p) \/ Put(p) \/ Drop(p)
  \/ \E p \in Consumers : Take(p) \/ Drop(p)

Spec == Init /\ [][Next]_<<table, hand>>

=============================================================================
