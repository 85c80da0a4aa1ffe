-------------------------------- MODULE Roster --------------------------------
(***************************************************************************)
(* What the list of cw01 promises: a sequence of people that grows and     *)
(* shrinks at its ends, that can be searched, and that can be put in the   *)
(* order of one of their fields.  Sorting takes a while and may shuffle    *)
(* the sequence in between, but it loses nobody and it comes to an end.    *)
(***************************************************************************)
EXTENDS Integers, Sequences, FiniteSets

CONSTANTS People, Fields, Keys, Nobody, NoField

VARIABLES
  roster,  \* the people, in order
  key,     \* what the fields of each person on it say
  order,   \* the field by which the roster is being sorted
  answer,  \* whom the last search found
  alive    \* the program has not crashed

vars == <<roster, key, order, answer, alive>>

On(s) == {s[n] : n \in DOMAIN s}

Init ==
  /\ roster = <<>>
  /\ key = [p \in {} |-> 0]
  /\ order = NoField
  /\ answer = Nobody
  /\ alive = TRUE

\* Between two sorts of a program that is alive.
Idle == alive /\ order = NoField

\* The people on it keep their fields.
Keep == key' = [p \in On(roster') |-> key[p]]

\* At one end; a newcomer at the other end of an empty roster is lost.
Insert(p) ==
  /\ Idle /\ p \notin On(roster)
  /\ \/ /\ roster' \in {<<p>> \o roster, Append(roster, p)}
        /\ \E k \in [Fields -> Keys] :
             key' = [q \in On(roster') |-> IF q = p THEN k ELSE key[q]]
     \/ roster = <<>> /\ UNCHANGED <<roster, key>>
  /\ answer' = Nobody
  /\ UNCHANGED <<order, alive>>

\* Somebody else has to stay.
Remove ==
  /\ Idle /\ Len(roster) > 1
  /\ roster' \in {Tail(roster), SubSeq(roster, 1, Len(roster) - 1)}
  /\ Keep
  /\ answer' = Nobody
  /\ UNCHANGED <<order, alive>>

\* Taking away the only person ends the program.
RemoveLast ==
  /\ Idle /\ Len(roster) = 1
  /\ alive' = FALSE /\ answer' = Nobody
  /\ UNCHANGED <<roster, key, order>>

Clear ==
  /\ Idle
  /\ roster' = <<>> /\ answer' = Nobody
  /\ Keep
  /\ UNCHANGED <<order, alive>>

\* The first of those whose field says x.
Find(x, f) ==
  /\ Idle
  /\ \/ \E n \in DOMAIN roster :
          /\ key[roster[n]][f] = x
          /\ \A m \in 1 .. n - 1 : key[roster[m]][f] # x
          /\ answer' = roster[n]
     \/ (\A p \in On(roster) : key[p][f] # x) /\ answer' = Nobody
  /\ UNCHANGED <<roster, key, order, alive>>

BeginSort(f) ==
  /\ Idle
  /\ order' = f /\ answer' = Nobody
  /\ UNCHANGED <<roster, key, alive>>

Shuffle ==
  /\ order # NoField
  /\ Len(roster') = Len(roster) /\ On(roster') = On(roster)
  /\ UNCHANGED <<key, order, answer, alive>>

InOrder(s, f) == \A m, n \in DOMAIN s : m < n => key[s[m]][f] <= key[s[n]][f]

EndSort ==
  /\ order # NoField /\ InOrder(roster, order)
  /\ order' = NoField
  /\ UNCHANGED <<roster, key, answer, alive>>

Next ==
  \/ \E p \in People : Insert(p)
  \/ Remove \/ RemoveLast \/ Clear
  \/ \E f \in Fields : BeginSort(f) \/ \E x \in Keys : Find(x, f)
  \/ Shuffle \/ EndSort

SortsEnd == []<>(order = NoField)

Spec == Init /\ [][Next]_vars /\ SortsEnd

=============================================================================
