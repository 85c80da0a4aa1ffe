----------------------------- MODULE RecordSearch -----------------------------
(***************************************************************************)
(* cw08/zad1: threads that read a file in chunks of records, under a       *)
(* mutex, and look for a word.  In wersja1 and wersja2 the thread that     *)
(* finds it cancels all others and then itself, asynchronously in wersja1  *)
(* and at one point of the loop in wersja2; in wersja3 nobody is cancelled.*)
(***************************************************************************)
EXTENDS Integers, Sequences

CONSTANTS
  threads_count,  \* threads 0 .. threads_count - 1
  records_count,  \* records of a chunk
  RECORDS         \* records of the file

ASSUME SearchAssumption ==
  threads_count \in Nat /\ records_count \in Nat \ {0} /\ RECORDS \in Nat

VARIABLES
  wersja,      \* which of the three programs
  hits,        \* the records that hold the word
  opened,      \* open succeeded
  main,        \* "create", "join", "done", or "exit": in the SIGSEGV handler
  n,           \* main's loop counter
  place,       \* where each thread is
  mutex,       \* its owner, or None
  fd,          \* the offset of the file, in records
  buf,         \* what each thread has read and not searched
  read_count,  \* of each thread: -1 when read fails
  k,           \* loop counter of each thread that cancels
  cancels,     \* the threads with a cancellation pending
  found        \* the records that were reported

searchVars == <<wersja, hits, opened, main, n, place, mutex, fd, buf, read_count, k,
                cancels, found>>

Threads == 0 .. threads_count - 1
None == -1

SearchInit ==
  /\ wersja \in 1 .. 3
  /\ hits \in SUBSET (1 .. RECORDS)
  /\ opened \in BOOLEAN
  /\ main = "create"
  /\ n = 0
  /\ place = [t \in Threads |-> "none"]
  /\ mutex = None
  /\ fd = 0
  /\ buf = [t \in Threads |-> <<>>]
  /\ read_count = [t \in Threads |-> 1]
  /\ k = [t \in Threads |-> 0]
  /\ cancels = {}
  /\ found = {}

given  == <<wersja, hits, opened>>
mains  == <<main, n>>
thread == <<mutex, fd, buf, read_count, k>>

Running == main \in {"create", "join"}

Moves(t, from, to) == Running /\ place[t] = from /\ place' = [place EXCEPT ![t] = to]

---------------------------------------------------------------------------

pthread_create ==
  /\ main = "create" /\ n < threads_count
  /\ place' = [place EXCEPT ![n] = "start"]
  /\ n' = n + 1
  /\ UNCHANGED <<given, main, thread, cancels, found>>

Created ==
  /\ main = "create" /\ n = threads_count
  /\ main' = "join" /\ n' = 0
  /\ UNCHANGED <<given, place, thread, cancels, found>>

pthread_join ==
  /\ main = "join" /\ n < threads_count /\ place[n] = "over"
  /\ n' = n + 1
  /\ UNCHANGED <<given, main, place, thread, cancels, found>>

Return ==
  /\ main = "join" /\ n = threads_count
  /\ main' = "done"
  /\ UNCHANGED <<given, n, place, thread, cancels, found>>

---------------------------------------------------------------------------

Setup(t) ==
  /\ Moves(t, "start", "top")
  /\ UNCHANGED <<given, mains, thread, cancels, found>>

\* The test of the loop, on the last read.
Top(t) ==
  /\ Moves(t, "top", IF read_count[t] = 0 THEN "over" ELSE "lock")
  /\ wersja = 2 /\ t \in cancels => read_count[t] = 0
  /\ UNCHANGED <<given, mains, thread, cancels, found>>

pthread_mutex_lock(t) ==
  /\ Moves(t, "lock", "read")
  /\ mutex = None
  /\ mutex' = t
  /\ UNCHANGED <<given, mains, fd, buf, read_count, k, cancels, found>>

Chunk == SubSeq([r \in 1 .. RECORDS |-> r], fd + 1, IF fd + records_count < RECORDS
                                                      THEN fd + records_count ELSE RECORDS)

read(t) ==
  /\ Moves(t, "read", "unlock")
  /\ IF opened
       THEN /\ buf' = [buf EXCEPT ![t] = Chunk]
            /\ fd' = fd + Len(Chunk)
            /\ read_count' = [read_count EXCEPT ![t] = Len(Chunk)]
       ELSE /\ read_count' = [read_count EXCEPT ![t] = -1]
            /\ UNCHANGED <<buf, fd>>
  /\ UNCHANGED <<given, mains, mutex, k, cancels, found>>

pthread_mutex_unlock(t) ==
  /\ Moves(t, "unlock", "search")
  /\ mutex' = None
  /\ UNCHANGED <<given, mains, fd, buf, read_count, k, cancels, found>>

Miss(t) ==
  /\ Moves(t, "search", "search")
  /\ buf[t] # <<>> /\ Head(buf[t]) \notin hits
  /\ buf' = [buf EXCEPT ![t] = Tail(@)]
  /\ UNCHANGED <<given, mains, mutex, fd, read_count, k, cancels, found>>

Report_CancelFirst(t) ==
  /\ Moves(t, "search", IF wersja = 3 THEN "search" ELSE "cancel")
  /\ buf[t] # <<>> /\ Head(buf[t]) \in hits
  /\ k' = [k EXCEPT ![t] = 0]
  /\ IF wersja = 3
       THEN found' = found \cup {Head(buf[t])} /\ buf' = [buf EXCEPT ![t] = Tail(@)]
       ELSE UNCHANGED <<found, buf>>
  /\ UNCHANGED <<given, mains, mutex, fd, read_count, cancels>>

Report(t) ==
  /\ Moves(t, "search", IF wersja = 3 THEN "search" ELSE "cancel")
  /\ buf[t] # <<>> /\ Head(buf[t]) \in hits
  /\ found' = found \cup {Head(buf[t])}
  /\ buf' = [buf EXCEPT ![t] = Tail(@)]
  /\ k' = [k EXCEPT ![t] = 0]
  /\ UNCHANGED <<given, mains, mutex, fd, read_count, cancels>>

pthread_cancel(t) ==
  /\ Moves(t, "cancel", "cancel")
  /\ k[t] < threads_count
  /\ k[t] = t \/ place[k[t]] # "none"
  /\ cancels' = IF k[t] = t \/ place[k[t]] = "over" THEN cancels ELSE cancels \cup {k[t]}
  /\ k' = [k EXCEPT ![t] = @ + 1]
  /\ UNCHANGED <<given, mains, mutex, fd, buf, read_count, found>>

IsJoined(t) == main = "join" /\ t < n

\* A thread that main has not created yet is 0 in threads[], and the call faults;
\* one that has been joined is gone, and the call may fault or find what is left
\* of it (undefined).  The handler ends the process as if all were well.
CancelFaults(t) ==
  /\ Moves(t, "cancel", "cancel")
  /\ k[t] < threads_count /\ k[t] # t /\ (place[k[t]] = "none" \/ IsJoined(k[t]))
  /\ main' = "exit"
  /\ UNCHANGED <<given, n, thread, cancels, found>>

\* Cancelling itself ends the thread at once in wersja1.
CancelSelf(t) ==
  /\ Moves(t, "cancel", IF wersja = 1 THEN "over" ELSE "search")
  /\ k[t] = threads_count
  /\ cancels' = cancels \cup {t}
  /\ UNCHANGED <<given, mains, thread, found>>

EndLoop(t) ==
  /\ Moves(t, "search", "top")
  /\ buf[t] = <<>>
  /\ UNCHANGED <<given, mains, thread, cancels, found>>

CancelPoints_Enabled(t) ==
  CASE wersja = 1 -> place[t] \notin {"none", "start", "over"}
    [] wersja = 2 -> (place[t] = "top" /\ read_count[t] # 0) \/ place[t] = "read"
    [] wersja = 3 -> FALSE

\* Where a cancellation takes effect: anywhere once it is asynchronous, or at
\* pthread_testcancel, with the rest of the loop under PTHREAD_CANCEL_DISABLE.
CancelPoints(t) ==
  CASE wersja = 1 -> place[t] \notin {"none", "start", "over"}
    [] wersja = 2 -> place[t] = "top" /\ read_count[t] # 0
    [] wersja = 3 -> FALSE

\* The mutex is not released by that: there is no cleanup handler.
Cancelled(t) ==
  /\ Running /\ t \in cancels /\ CancelPoints(t)
  /\ place' = [place EXCEPT ![t] = "over"]
  /\ UNCHANGED <<given, mains, thread, cancels, found>>

---------------------------------------------------------------------------

thread_func(t) ==
  \/ Setup(t) \/ Top(t) \/ pthread_mutex_lock(t) \/ read(t) \/ pthread_mutex_unlock(t)
  \/ Miss(t) \/ Report(t) \/ pthread_cancel(t) \/ CancelFaults(t) \/ CancelSelf(t)
  \/ EndLoop(t) \/ Cancelled(t)

Main == pthread_create \/ Created \/ pthread_join \/ Return

SearchNext == Main \/ \E t \in Threads : thread_func(t)

SearchFairness == WF_searchVars(Main) /\ \A t \in Threads : WF_searchVars(thread_func(t))

SearchSpec == SearchInit /\ [][SearchNext]_searchVars /\ SearchFairness

---------------------------------------------------------------------------

\* What a search by at least one thread reports when it has ended: all records
\* with the word when nobody is cancelled, and at least one if there is one when
\* the finders cancel each other, however their cancellations cross (wersja1.c
\* 51-57).
NothingMissed ==
  main \in {"done", "exit"} /\ opened /\ threads_count > 0 =>
    IF wersja = 3 THEN found = hits
                  ELSE found \subseteq hits /\ (hits # {} => found # {})

\* A thread died with the mutex in its hands.
MutexLost == mutex # None /\ place[mutex] = "over"

\* The search ends if the file could be opened.  Nothing but a thread of wersja1
\* that was cancelled between its lock and its unlock (wersja1.c 40-42) can keep
\* the others, and main, waiting for ever; wersja2 (39-44) rules that out.
SearchEnds == opened ~> (~Running \/ (wersja = 1 /\ MutexLost))

=============================================================================
