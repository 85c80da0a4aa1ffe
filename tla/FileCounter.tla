----------------------------- MODULE FileCounter -----------------------------
(***************************************************************************)
(* cw03/zad2: fcounter counts the regular files under a directory with a   *)
(* process for every directory, which tells its parent the number in its   *)
(* exit status.  A fork that fails is counted as a child all the same, a   *)
(* child whose exec fails goes on with its parent's loop, and an entry that*)
(* stat refuses is taken for whatever my_stat held before.                 *)
(***************************************************************************)
EXTENDS Integers, FiniteSets

CONSTANTS
  Dirs, Root,        \* the directories, and the one on the command line
  Contents,          \* the entries of each; those that are no Dirs are files
  Unreadable,        \* directories that opendir refuses
  Pids,              \* as many processes as the system allows at a time
  Nobody,
  Byte,              \* values of an exit status (256 in the code)
  MaxFailures        \* how many calls of stat and execlp fail at most (bound)

\* The directories and files that readdir can return.
Names == UNION {Contents[d] : d \in Dirs}

ASSUME TreeAssumption ==
  /\ Root \in Dirs /\ Unreadable \subseteq Dirs \ {Root}
  /\ IsFiniteSet(Dirs) /\ IsFiniteSet(Names) /\ \A d \in Dirs : Root \notin Contents[d]
  /\ \A d, e \in Dirs : d # e => Contents[d] \cap Contents[e] = {}
  /\ IsFiniteSet(Pids) /\ Pids # {} /\ Nobody \notin Pids
  /\ Byte \in Nat \ {0} /\ MaxFailures \in Nat

VARIABLES
  at,        \* what each process is doing
  parent,    \* who forked it
  dir, left, \* its directory, and the entries readdir has not returned
  target,    \* a child before its exec: deeper_path, which may be a file
  file_count, proc_count, files_in_dir_count,
  waited,    \* i of the last loop
  status,    \* of a process in its last loop; its exit status once it has ended
  failed,    \* directories at which a stat, a fork or an exec has failed
  failures   \* stats and execs that have failed

counters == <<file_count, proc_count, files_in_dir_count>>
countVars == <<at, parent, dir, left, target, counters, waited, status, failed, failures>>

\* free    no such process
\* exec    forked, at line 62 or 63
\* scan    in the loop of line 43
\* wait    in the loop of line 76
\* ended   exited and not waited for
Activities == {"free", "exec", "scan", "wait", "ended"}

Garbage == -1    \* a status that wait has never written

First == CHOOSE p \in Pids : TRUE

CountInit ==
  /\ at = [p \in Pids |-> IF p = First THEN "scan" ELSE "free"]
  /\ parent = [p \in Pids |-> Nobody]
  /\ dir = [p \in Pids |-> Root]
  /\ left = [p \in Pids |-> IF p = First THEN Contents[Root] ELSE {}]
  /\ target = [p \in Pids |-> Root]
  /\ file_count = [p \in Pids |-> 0]
  /\ proc_count = [p \in Pids |-> 0]
  /\ files_in_dir_count = [p \in Pids |-> 0]
  /\ waited = [p \in Pids |-> 0]
  /\ status = [p \in Pids |-> Garbage]
  /\ failed = {} /\ failures = 0

---------------------------------------------------------------------------

Children(p) == {q \in Pids : parent[q] = p /\ at[q] # "free"}

Goes(p, to) == at' = [at EXCEPT ![p] = to]

ReadFile(p) ==
  /\ at[p] = "scan"
  /\ \E e \in left[p] \ Dirs : left' = [left EXCEPT ![p] = @ \ {e}]
  /\ file_count' = [file_count EXCEPT ![p] = @ + 1]
  /\ UNCHANGED <<at, parent, dir, target, proc_count, files_in_dir_count, waited, status,
                 failed, failures>>

\* The child q starts with a copy of everything; the entries of a directory
\* have been read into memory at once, so that both have what is left of them.
Fork(p, d) ==
  \E q \in Pids :
    /\ at[q] = "free"
    /\ Goes(q, "exec")
    /\ parent' = [parent EXCEPT ![q] = p]
    /\ dir' = [dir EXCEPT ![q] = dir[p]]
    /\ left' = [left EXCEPT ![p] = @ \ {d}, ![q] = left[p] \ {d}]
    /\ target' = [target EXCEPT ![q] = d]
    /\ proc_count' = [proc_count EXCEPT ![p] = @ + 1, ![q] = proc_count[p] + 1]
    /\ file_count' = [file_count EXCEPT ![q] = file_count[p]]

\* No process can be made.
ForkFails(p, d) ==
  /\ \A q \in Pids : at[q] # "free"
  /\ left' = [left EXCEPT ![p] = @ \ {d}]
  /\ proc_count' = [proc_count EXCEPT ![p] = @ + 1]
  /\ UNCHANGED <<at, parent, dir, target, file_count>>

FailedHere(p) == failed' = failed \cup {dir[p]}

ReadDir(p) ==
  /\ at[p] = "scan"
  /\ \E d \in left[p] \cap Dirs :
       (Fork(p, d) /\ UNCHANGED failed) \/ (ForkFails(p, d) /\ FailedHere(p))
  /\ UNCHANGED <<files_in_dir_count, waited, status, failures>>

\* Taken for a regular file, or for something that is not counted.
PassOver(p, e) ==
  /\ left' = [left EXCEPT ![p] = @ \ {e}]
  /\ \E one \in {0, 1} : file_count' = [file_count EXCEPT ![p] = @ + one]
  /\ UNCHANGED <<at, parent, dir, target, proc_count>>

\* my_stat is what it was in the turn before, or was never written: whatever the
\* entry is, it is taken for anything.
StatFails(p) ==
  /\ at[p] = "scan" /\ failures < MaxFailures
  /\ \E e \in left[p] : Fork(p, e) \/ ForkFails(p, e) \/ PassOver(p, e)
  /\ FailedHere(p)
  /\ failures' = failures + 1
  /\ UNCHANGED <<files_in_dir_count, waited, status>>

Readable == Dirs \ Unreadable

\* What readdir returns of a directory, if it can be opened.
Entries(d) == IF d \in Readable THEN Contents[d] ELSE {}

\* The program starts anew in the deeper directory; where opendir returned
\* NULL, readdir faults and the signal makes WEXITSTATUS 0.
Exec(p) ==
  /\ at[p] = "exec"
  /\ \/ target[p] \in Readable /\ Goes(p, "scan") /\ UNCHANGED status
     \/ target[p] \notin Readable /\ Goes(p, "ended") /\ status' = [status EXCEPT ![p] = 0]
  /\ IF target[p] \in Dirs THEN dir' = [dir EXCEPT ![p] = target[p]] ELSE UNCHANGED dir
  /\ left' = [left EXCEPT ![p] = Entries(target[p])]
  /\ file_count' = [file_count EXCEPT ![p] = 0]
  /\ proc_count' = [proc_count EXCEPT ![p] = 0]
  /\ UNCHANGED <<parent, target, files_in_dir_count, waited, failed, failures>>

\* execlp returns, and the child goes on as if it were its parent.
ExecFails(p) ==
  /\ at[p] = "exec" /\ failures < MaxFailures
  /\ Goes(p, "scan")
  /\ FailedHere(p)
  /\ failures' = failures + 1
  /\ UNCHANGED <<parent, dir, left, target, counters, waited, status>>

EndScan(p) ==
  /\ at[p] = "scan" /\ left[p] = {}
  /\ Goes(p, "wait")
  /\ UNCHANGED <<parent, dir, left, target, counters, waited, status, failed, failures>>

---------------------------------------------------------------------------

\* What is left of a process that has been waited for.
Release(q) ==
  /\ Goes(q, "free")
  /\ parent' = [parent EXCEPT ![q] = Nobody]
  /\ dir' = [dir EXCEPT ![q] = Root]
  /\ left' = [left EXCEPT ![q] = {}]
  /\ target' = [target EXCEPT ![q] = Root]
  /\ file_count' = [file_count EXCEPT ![q] = 0]
  /\ proc_count' = [proc_count EXCEPT ![q] = 0]

\* wait returns a child that has ended.
Reap(p) ==
  \E q \in Children(p) :
    /\ at[q] = "ended"
    /\ Release(q)
    /\ status' = [status EXCEPT ![p] = status[q], ![q] = Garbage]
    /\ files_in_dir_count' = [files_in_dir_count EXCEPT ![p] = @ + status[q], ![q] = 0]
    /\ waited' = [waited EXCEPT ![p] = @ + 1, ![q] = 0]

NoChild_Retried(p) == Children(p) = {} /\ UNCHANGED countVars

\* wait fails without a child, and status is what it was in the turn before, or
\* was never written.
NoChild(p) ==
  /\ Children(p) = {}
  /\ \E s \in IF status[p] = Garbage THEN 0 .. Byte - 1 ELSE {status[p]} :
       files_in_dir_count' = [files_in_dir_count EXCEPT ![p] = @ + s]
  /\ waited' = [waited EXCEPT ![p] = @ + 1]
  /\ UNCHANGED <<at, parent, dir, left, target, file_count, proc_count, status>>

\* wait blocks while there are children and none has ended.
Wait(p) ==
  /\ at[p] = "wait" /\ waited[p] < proc_count[p]
  /\ Reap(p) \/ NoChild(p)
  /\ UNCHANGED <<failed, failures>>

ExitStatus_Saturated(p) ==
  LET sum == file_count[p] + files_in_dir_count[p] IN IF sum < Byte THEN sum ELSE Byte - 1

\* _exit keeps the lowest eight bits.
ExitStatus(p) == (file_count[p] + files_in_dir_count[p]) % Byte

Exit(p) ==
  /\ at[p] = "wait" /\ waited[p] = proc_count[p]
  /\ Goes(p, "ended")
  /\ status' = [status EXCEPT ![p] = ExitStatus(p)]
  /\ UNCHANGED <<parent, dir, left, target, counters, waited, failed, failures>>

process(p) ==
  \/ ReadFile(p) \/ ReadDir(p) \/ StatFails(p) \/ Exec(p) \/ ExecFails(p) \/ EndScan(p)
  \/ Wait(p) \/ Exit(p)

CountNext == \E p \in Pids : process(p)

\* Every process runs on.
CountSpec == CountInit /\ [][CountNext]_countVars /\ \A p \in Pids : WF_countVars(process(p))

---------------------------------------------------------------------------

\* With a directory the set has those in it.
Closed(S) == \A d \in S : Entries(d) \cap Dirs \subseteq S

\* The directories from d down: those that no such set with d can leave out.
Below(d) == {e \in Dirs : \A S \in SUBSET Dirs : d \in S /\ Closed(S) => e \in S}

FilesUnder(d) == (UNION {Entries(e) : e \in Below(d)}) \ Dirs

\* Whatever goes wrong elsewhere in the tree, and in whatever order processes
\* end: a process that has ended tells its parent the number of the files under
\* its directory, modulo 256, if no stat, no fork and no exec failed there.
StatusRight ==
  \A p \in Pids :
    at[p] = "ended" /\ Below(dir[p]) \cap failed = {}
      => status[p] = Cardinality(FilesUnder(dir[p])) % Byte

\* The count always comes to its end, with nobody waiting for a child that is
\* not there, and nobody left behind.
CountEnds == <>[](\A p \in Pids : at[p] = IF p = First THEN "ended" ELSE "free")

=============================================================================
