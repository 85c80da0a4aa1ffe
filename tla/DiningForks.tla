----------------------------- MODULE DiningForks -----------------------------
(***************************************************************************)
(* What the monitor of cw09/zad1 promises, without threads, mutex or       *)
(* condition variables: a fork lies between philosophers f and f+1, it is  *)
(* held by at most one of them, and a philosopher takes both forks at once *)
(* and returns both at once.                                               *)
(***************************************************************************)
EXTENDS Integers

CONSTANT N

VARIABLES
  seat,   \* what each philosopher does: 0 thinks, 1 waits, 2 eats
  fork    \* fork[f], who holds the fork between f and f+1, or -1

Philo == 0 .. N - 1
RightOf(i) == (i + 1) % N
LeftOf(i)  == (i + N - 1) % N
Table == -1

Init ==
  /\ seat = [i \in Philo |-> 0]
  /\ fork = [f \in Philo |-> Table]

Sit(i) ==
  /\ seat[i] = 0
  /\ seat' = [seat EXCEPT ![i] = 1]
  /\ UNCHANGED fork

Take(i) ==
  /\ seat[i] = 1
  /\ fork[i] = Table /\ fork[LeftOf(i)] = Table
  /\ seat' = [seat EXCEPT ![i] = 2]
  /\ fork' = [fork EXCEPT ![i] = i, ![LeftOf(i)] = i]

Return(i) ==
  /\ seat[i] = 2
  /\ fork[i] = i /\ fork[LeftOf(i)] = i
  /\ seat' = [seat EXCEPT ![i] = 0]
  /\ fork' = [fork EXCEPT ![i] = Table, ![LeftOf(i)] = Table]

Next == \E i \in Philo : Sit(i) \/ Take(i) \/ Return(i)

Spec == Init /\ [][Next]_<<seat, fork>>

=============================================================================
