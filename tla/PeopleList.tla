------------------------------ MODULE PeopleList ------------------------------
(***************************************************************************)
(* cw01: the doubly linked list of list.c, with the calls of its library   *)
(* in any order.  Sorting takes the largest node out of the list again and *)
(* again and puts it in front of a second list; it reads the prev links    *)
(* that the other operations leave behind.  Nothing that is removed is     *)
(* freed, only deleteList frees.                                           *)
(***************************************************************************)
EXTENDS Integers, Sequences, FiniteSets

CONSTANTS
  MaxNodes, \* how many nodes are allocated at most (bound)
  Fields,   \* FIRSTNAME .. ADDRESS
  Keys,     \* what a field may say, in the order of strcmp
  NoField

ASSUME ListAssumption ==
  /\ MaxNodes \in Nat
  /\ NoField \notin Fields
  /\ Keys \subseteq Int

Nodes == 1 .. MaxNodes
NULL  == 0

Pointers == Nodes \cup {NULL}    \* what a pointer can hold

VARIABLES
  head,       \* the caller's pointer to the list
  next, prev, \* the links of each node
  key,        \* its fields
  heap,       \* the nodes that are allocated
  sorted,     \* sort: the second list
  field,      \* sort: the argument, NoField outside
  found,      \* what the last find returned, until the next call
  crashed     \* NULL has been dereferenced

listVars == <<head, next, prev, key, heap, sorted, field, found, crashed>>

\* What is in memory that nobody reads.
Blank == [f \in Fields |-> CHOOSE k \in Keys : TRUE]

ListInit ==
  /\ head = NULL
  /\ next = [p \in Nodes |-> NULL] /\ prev = [p \in Nodes |-> NULL]
  /\ key = [p \in Nodes |-> Blank]
  /\ heap = {}
  /\ sorted = NULL /\ field = NoField /\ found = NULL
  /\ crashed = FALSE

---------------------------------------------------------------------------

\* The nodes from h on, along link.
Along(link, h) ==
  LET walk[steps \in 0 .. MaxNodes] ==
        [p \in Pointers |-> IF steps = 0 \/ p = NULL THEN <<>> ELSE <<p>> \o walk[steps - 1][link[p]]]
  IN  walk[MaxNodes][h]

Chain(h) == Along(next, h)

\* Where while(tail->next != NULL) stops.
TailOf(h) == Chain(h)[Len(Chain(h))]

On(h) == {Chain(h)[n] : n \in DOMAIN Chain(h)}

\* The places of a function changed to y on the arguments P.
Set(f, P, y) == [x \in DOMAIN f |-> IF x \in P THEN y ELSE f[x]]

\* malloc, and the fields from the arguments.
createNode(node) ==
  /\ node \in Nodes \ heap /\ \A q \in Nodes \ heap : node <= q
  /\ heap' = heap \cup {node}
  /\ \E k \in [Fields -> Keys] : key' = [key EXCEPT ![node] = k]

---------------------------------------------------------------------------

\* main calls it for its first node.
createList(node) ==
  /\ head = NULL
  /\ createNode(node)
  /\ head' = node
  /\ next' = [next EXCEPT ![node] = NULL]
  /\ prev' = [prev EXCEPT ![node] = NULL]

insertAtHead(node) ==
  /\ createNode(node)
  /\ head' = node
  /\ next' = [next EXCEPT ![node] = head]
  /\ prev' = Set([prev EXCEPT ![node] = NULL], {head}, node)

\* head is passed by value: on an empty list the node is lost.
insertAtTail(node) ==
  /\ createNode(node)
  /\ LET tail == IF head = NULL THEN NULL ELSE TailOf(head)
     IN  /\ next' = Set([next EXCEPT ![node] = NULL], {tail}, node)
         /\ prev' = [prev EXCEPT ![node] = tail]
  /\ UNCHANGED head

insert ==
  /\ \E node \in Nodes : createList(node) \/ insertAtHead(node) \/ insertAtTail(node)
  /\ UNCHANGED crashed

Crash == crashed' = TRUE /\ UNCHANGED <<head, next, prev>>

removeAtHead ==
  \/ /\ head # NULL /\ next[head] # NULL
     /\ prev' = [prev EXCEPT ![next[head]] = NULL]
     /\ head' = next[head]
     /\ UNCHANGED <<next, crashed>>
  \/ head # NULL /\ next[head] = NULL /\ Crash

removeAtTail ==
  \/ /\ head # NULL /\ prev[TailOf(head)] # NULL
     /\ next' = [next EXCEPT ![prev[TailOf(head)]] = NULL]
     /\ UNCHANGED <<head, prev, crashed>>
  \/ head # NULL /\ prev[TailOf(head)] = NULL /\ Crash

remove == (removeAtHead \/ removeAtTail) /\ UNCHANGED <<key, heap>>

\* What is freed is read by nobody any more.
deleteList ==
  /\ heap' = heap \ On(head)
  /\ key' = Set(key, On(head), Blank)
  /\ next' = Set(next, On(head), NULL)
  /\ prev' = Set(prev, On(head), NULL)
  /\ head' = NULL
  /\ UNCHANGED crashed

find(x, f) ==
  LET C == Chain(head)
  IN  \/ \E n \in DOMAIN C :
           /\ key[C[n]][f] = x /\ \A m \in 1 .. n - 1 : key[C[m]][f] # x
           /\ found' = C[n]
      \/ (\A n \in DOMAIN C : key[C[n]][f] # x) /\ found' = NULL

---------------------------------------------------------------------------

\* The node that removeMax takes out: the first of those with the largest field.
Max(f) ==
  LET C == Chain(head)
  IN  C[CHOOSE n \in DOMAIN C :
          /\ \A m \in DOMAIN C : key[C[m]][f] <= key[C[n]][f]
          /\ \A m \in 1 .. n - 1 : key[C[m]][f] < key[C[n]][f]]

\* The node in front of max, from its prev link; NULL if max is the first.
Before(max) == IF max = head THEN NULL ELSE prev[max]

removeMax_KeepsPrev(max) ==
  /\ head' = IF Before(max) = NULL THEN next[head] ELSE head
  /\ next' = [Set(next, {Before(max)}, next[max]) EXCEPT ![max] = sorted]
  /\ prev' = Set([prev EXCEPT ![max] = NULL], {sorted}, max)

\* removeMax, and max put in front of the second list.
removeMax(max) ==
  /\ head' = IF Before(max) = NULL THEN next[head] ELSE head
  /\ next' = [Set(next, {Before(max)}, next[max]) EXCEPT ![max] = sorted]
  /\ prev' = Set([Set(prev, {next[max]}, prev[max]) EXCEPT ![max] = NULL], {sorted}, max)

sort(f) == field' = f /\ sorted' = NULL

sortLoop ==
  /\ field # NoField /\ head # NULL
  /\ removeMax(Max(field))
  /\ sorted' = Max(field)
  /\ UNCHANGED field

sortReturn ==
  /\ field # NoField /\ head = NULL
  /\ head' = sorted /\ sorted' = NULL /\ field' = NoField
  /\ UNCHANGED <<next, prev>>

---------------------------------------------------------------------------

list   == <<head, next, prev, key, heap>>
within == <<sorted, field>>

\* The calls, in any order (that of main, among others).
Call ==
  /\ ~crashed /\ field = NoField
  /\ \/ (insert \/ remove \/ deleteList) /\ found' = NULL /\ UNCHANGED within
     \/ /\ \E f \in Fields, x \in Keys : find(x, f)
        /\ UNCHANGED <<list, within, crashed>>
     \/ /\ \E f \in Fields : sort(f)
        /\ found' = NULL /\ UNCHANGED <<list, crashed>>

ListNext ==
  \/ Call
  \/ (sortLoop \/ sortReturn) /\ UNCHANGED <<key, heap, found, crashed>>

\* sort comes to its end (it waits for nothing).
ListSpec == ListInit /\ [][ListNext]_listVars /\ WF_listVars(ListNext /\ field # NoField)

---------------------------------------------------------------------------

\* While sort runs, the people are on the two lists together.
people == Chain(head) \o Chain(sorted)

Book == INSTANCE Roster
  WITH People <- Nodes, Nobody <- NULL, roster <- people,
       key <- [p \in On(head) \cup On(sorted) |-> key[p]],
       order <- field, answer <- found, alive <- ~crashed

\* The links always make up the sequence that the calls describe, forwards and,
\* as removing and sorting go by them, backwards; a sort returns everybody, in
\* order.
ImplementsRoster == Book!Spec

=============================================================================
