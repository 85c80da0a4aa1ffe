-------------------------- MODULE ChatServer_proofs --------------------------
(***************************************************************************)
(* Two proofs about the chat server, for all clients, however they         *)
(* connect, die, block it or make it fail.  First, that it selects over    *)
(* exactly its open sockets.  Then, on top of that, what becomes of the    *)
(* messages: no client misses, repeats or reorders those of another one,   *)
(* and a broadcast that ends has reached everyone who is connected.        *)
(***************************************************************************)
EXTENDS ChatServer, FiniteSetTheorems, TLAPS

States == {"new", "up", "fin", "rst", "epipe"}

Types ==
  /\ server \in {"loop", "broadcast", "quit", "failed", "killed"}
  /\ master \subseteq Listeners \cup Fds
  /\ conn \in [Fds -> Clients \cup {Nobody}]
  /\ biggest \in Nat
  /\ backlog \in [Listeners -> Seq(Clients)]
  /\ peer \in [Clients -> States]

\* FdSetsRight, with the connections told apart pair by pair.
Selected ==
  /\ master = Listeners \cup {fd \in Fds : conn[fd] # Nobody}
  /\ \A fd \in master : fd <= biggest
  /\ \A f, g \in Fds : conn[f] = conn[g] /\ conn[f] # Nobody => f = g

\* Whoever waits in a backlog waits there once, and has no descriptor yet.
Backlogs ==
  /\ \A l \in Listeners : \A i \in 1 .. Len(backlog[l]) :
       /\ peer[backlog[l][i]] # "new"
       /\ \A fd \in Fds : conn[fd] # backlog[l][i]
  /\ \A l, m \in Listeners : \A i \in 1 .. Len(backlog[l]), j \in 1 .. Len(backlog[m]) :
       backlog[l][i] = backlog[m][j] => l = m /\ i = j

\* Whoever has a descriptor has called connect, and a listening socket that
\* this pass has still to look at has somebody to accept.
Connected ==
  /\ \A fd \in Fds : conn[fd] # Nobody => peer[conn[fd]] # "new"
  /\ \A l \in readfds \cap Listeners : backlog[l] # <<>>

IInv == Types /\ (Running => Selected /\ Backlogs /\ Connected)

---------------------------------------------------------------------------
\* The lowest of some descriptors, the higher of two.

LEMMA MinOfFds ==
  ASSUME NEW S \in SUBSET Nat, S # {}
  PROVE  Min(S) \in S
<1>1. \E x \in S : \A y \in S : x <= y
  <2> DEFINE R == {ss \in Nat \X Nat : ss[1] < ss[2]}
  <2>1. IsWellFoundedOn(R, Nat)
    BY NatLessThanWellFounded, Zenon DEF OpToRel
  <2>2. \A x, y \in S : x <= y \/ <<y, x>> \in R
    OBVIOUS
  <2> HIDE DEF R
  <2>3. \E x \in S : \A y \in S : <<y, x>> \notin R
    BY <2>1, WFMin
  <2> QED
    BY <2>2, <2>3
<1> QED
  BY <1>1 DEF Min

LEMMA MaxOfTwo ==
  ASSUME NEW a \in Nat, NEW b \in Nat
  PROVE  Max({a, b}) \in Nat /\ Max({a, b}) >= a /\ Max({a, b}) >= b
<1>1. \E x \in {a, b} : \A y \in {a, b} : x >= y
  BY a >= b \/ b >= a
<1>2. Max({a, b}) \in {a, b} /\ \A y \in {a, b} : Max({a, b}) >= y
  BY <1>1 DEF Max
<1> QED
  BY <1>2

LEMMA FdsAre ==
  /\ Fds \subseteq Nat /\ Listeners \subseteq Nat /\ Listeners \cap Fds = {}
  /\ IsFiniteSet(Fds) /\ Cardinality(Fds) = Cardinality(Clients)
  /\ Max(Listeners) \in Nat /\ \A l \in Listeners : l <= Max(Listeners)
<1>1. Cardinality(Clients) \in Nat
  BY ChatAssumption, FS_CardinalityType
<1>2. Fds \subseteq Nat /\ Listeners \subseteq Nat /\ Listeners \cap Fds = {}
  BY <1>1 DEF Fds, Listeners, inetfd, unixfd
<1>3. IsFiniteSet(Fds) /\ Cardinality(Fds) = Cardinality(Clients)
  <2> PICK n \in Nat : n = Cardinality(Clients)
    BY <1>1
  <2>1. 5 \in Int /\ 4 + n \in Int
    OBVIOUS
  <2>2. IsFiniteSet(5 .. 4 + n) /\ Cardinality(5 .. 4 + n) = n
    BY <2>1, FS_Interval
  <2> QED
    BY <2>2 DEF Fds
<1>4. Max(Listeners) \in Nat /\ \A l \in Listeners : l <= Max(Listeners)
  BY MaxOfTwo DEF Listeners, inetfd, unixfd
<1> QED
  BY <1>2, <1>3, <1>4

\* A client that has no descriptor finds one free: there are as many as clients.
LEMMA FreeFd ==
  ASSUME Types, Selected, NEW c \in Clients, \A fd \in Fds : conn[fd] # c
  PROVE  Accepted \in Fds /\ conn[Accepted] = Nobody
<1> DEFINE Free == {fd \in Fds : conn[fd] = Nobody}
<1>1. Free # {}
  <2> SUFFICES ASSUME Free = {}
               PROVE  FALSE
    OBVIOUS
  <2>1. conn \in [Fds -> Clients \ {c}]
    BY DEF Types
  <2>2. /\ IsFiniteSet(Clients \ {c})
        /\ Cardinality(Clients \ {c}) = Cardinality(Clients) - 1
        /\ Cardinality(Clients) \in Nat
    BY ChatAssumption, FS_RemoveElement, FS_CardinalityType
  <2>3. \E f, g \in Fds : f # g /\ conn[f] = conn[g]
    <3>1. Cardinality(Clients \ {c}) < Cardinality(Fds) /\ IsFiniteSet(Fds)
      BY <2>2, FdsAre
    <3> QED
      BY <2>1, <2>2, <3>1, FS_PigeonHole
  <2> QED
    BY <2>3 DEF Selected
<1>2. Free \in SUBSET Nat
  BY FdsAre
<1> QED
  BY <1>1, <1>2, MinOfFds DEF Accepted

---------------------------------------------------------------------------

LEMMA InitIInv == Init => IInv
<1> SUFFICES ASSUME Init
             PROVE  IInv
  OBVIOUS
<1>1. Types
  <2>1. backlog \in [Listeners -> Seq(Clients)]
    BY DEF Init
  <2> QED
    BY <2>1, FdsAre DEF Init, Types, States
<1>2. Selected
  BY FdsAre DEF Init, Selected
<1>3. Backlogs
  <2>1. \A l \in Listeners : Len(backlog[l]) = 0
    BY DEF Init
  <2> QED
    BY <2>1 DEF Backlogs
<1>4. Connected
  BY DEF Init, Connected
<1> QED
  BY <1>1, <1>2, <1>3, <1>4 DEF IInv

\* Once the server is gone only the types are left to keep.
LEMMA ExitStep ==
  ASSUME Types, NEW how \in {"quit", "failed", "killed"}, Exit(how)
  PROVE  IInv'
<1>1. Types'
  <2>1. backlog' \in [Listeners -> Seq(Clients)]
    BY DEF Exit
  <2> QED
    BY <2>1, FdsAre DEF Exit, Types
<1> QED
  BY <1>1 DEF Exit, IInv, Running

\* The steps that move messages and look at descriptors.
LEMMA QuietStep ==
  ASSUME IInv, Running, UNCHANGED <<tables, backlog, peer>>,
         server' \in {"loop", "broadcast"},
         readfds' \subseteq readfds \/ (readfds' = {fd \in master : Readable(fd)})
  PROVE  IInv'
<1>1. Types'
  BY DEF IInv, Types, tables
<1>2. Selected' /\ Backlogs'
  BY DEF IInv, Selected, Backlogs, tables
<1>3. Connected'
  BY DEF IInv, Connected, tables, Readable
<1> QED
  BY <1>1, <1>2, <1>3 DEF IInv

\* A descriptor is closed.
LEMMA CloseStep ==
  ASSUME IInv, Running, NEW fd \in Fds, Close(fd), readfds' \subseteq readfds,
         UNCHANGED <<server, biggest, backlog, peer>>
  PROVE  IInv'
<1>1. /\ conn'[fd] = Nobody /\ \A f \in Fds : f # fd => conn'[f] = conn[f]
      /\ conn' \in [Fds -> Clients \cup {Nobody}] /\ master' = master \ {fd}
  BY DEF Close, IInv, Types
<1>2. Types'
  BY <1>1 DEF IInv, Types
<1>3. Selected'
  BY <1>1, FdsAre DEF IInv, Selected
<1>4. Backlogs'
  <2>1. \A l \in Listeners : \A i \in 1 .. Len(backlog[l]) : backlog[l][i] # Nobody
    BY ChatAssumption DEF IInv, Types
  <2> QED
    BY <1>1, <2>1 DEF IInv, Backlogs
<1>5. Connected'
  BY <1>1 DEF IInv, Connected
<1> QED
  BY <1>2, <1>3, <1>4, <1>5 DEF IInv, Running

LEMMA AcceptStep == ASSUME IInv, NEW l \in Listeners, handlereg(l) PROVE IInv'
<1>1. /\ server = "loop" /\ Running /\ l \in readfds /\ readfds' = readfds \ {l}
      /\ UNCHANGED <<server, peer>>
  BY DEF handlereg, Turn, Taken, Running, sockets
<1>2. backlog[l] \in Seq(Clients) /\ backlog[l] # <<>>
  BY <1>1 DEF IInv, Types, Connected
<1> PICK c \in Clients : c = Head(backlog[l])
  BY <1>2
<1>3. /\ c = backlog[l][1] /\ 1 \in 1 .. Len(backlog[l])
      /\ Tail(backlog[l]) \in Seq(Clients) /\ Len(Tail(backlog[l])) = Len(backlog[l]) - 1
      /\ \A i \in 1 .. Len(Tail(backlog[l])) :
           Tail(backlog[l])[i] = backlog[l][i + 1] /\ i + 1 \in 2 .. Len(backlog[l])
  BY <1>2
<1>4. peer[c] # "new" /\ \A f \in Fds : conn[f] # c
  BY <1>1, <1>3 DEF IInv, Backlogs
<1> PICK fd \in Fds : fd = Accepted /\ conn[fd] = Nobody
  BY <1>1, <1>4, FreeFd DEF IInv
<1>5. /\ conn' = [conn EXCEPT ![fd] = c] /\ master' = master \cup {fd}
      /\ biggest' = Max({biggest, fd}) /\ backlog' = [backlog EXCEPT ![l] = Tail(@)]
  BY DEF handlereg, Watch
<1>6. /\ conn'[fd] = c /\ \A f \in Fds : f # fd => conn'[f] = conn[f]
      /\ conn' \in [Fds -> Clients \cup {Nobody}]
  BY <1>5 DEF IInv, Types
<1>7. /\ backlog'[l] = Tail(backlog[l])
      /\ \A m \in Listeners : m # l => backlog'[m] = backlog[m]
      /\ backlog' \in [Listeners -> Seq(Clients)]
  BY <1>3, <1>5 DEF IInv, Types
<1>8. biggest' \in Nat /\ biggest' >= biggest /\ biggest' >= fd
  BY <1>5, MaxOfTwo, FdsAre DEF IInv, Types
<1>9. Types'
  BY <1>1, <1>5, <1>6, <1>7, <1>8 DEF IInv, Types
<1>10. Selected'
  <2>1. master' = Listeners \cup {f \in Fds : conn'[f] # Nobody}
    BY <1>1, <1>5, <1>6, ChatAssumption DEF IInv, Selected
  <2>2. \A f \in master' : f <= biggest'
    BY <1>1, <1>5, <1>8, FdsAre DEF IInv, Types, Selected
  <2>3. \A f, g \in Fds : conn'[f] = conn'[g] /\ conn'[f] # Nobody => f = g
    BY <1>1, <1>4, <1>6 DEF IInv, Selected
  <2> QED
    BY <2>1, <2>2, <2>3 DEF Selected
\* Every place of a backlog was a place before, and not that of c.
<1>11. ASSUME NEW m \in Listeners, NEW i \in 1 .. Len(backlog'[m])
       PROVE  LET k == IF m = l THEN i + 1 ELSE i
              IN  /\ k \in 1 .. Len(backlog[m]) /\ backlog'[m][i] = backlog[m][k]
                  /\ backlog[m][k] # c
  <2>1. CASE m = l
    <3>1. backlog'[m][i] = backlog[m][i + 1] /\ i + 1 \in 1 .. Len(backlog[m]) /\ i + 1 # 1
      <4>1. i \in 1 .. Len(Tail(backlog[l])) /\ Len(backlog[l]) \in Nat
        BY <1>2, <1>7, <2>1
      <4>2. backlog'[m][i] = Tail(backlog[l])[i]
        BY <1>7, <2>1
      <4>3. Tail(backlog[l])[i] = backlog[l][i + 1] /\ i + 1 \in 2 .. Len(backlog[l])
        BY <1>3, <4>1
      <4> QED
        BY <2>1, <4>1, <4>2, <4>3
    <3>2. backlog[m][i + 1] # c
      BY <1>1, <1>3, <2>1, <3>1 DEF IInv, Backlogs
    <3> QED
      BY <2>1, <3>1, <3>2
  <2>2. CASE m # l
    <3>1. backlog'[m] = backlog[m] /\ i \in 1 .. Len(backlog[m])
      BY <1>7, <2>2
    <3>2. backlog[m][i] # c
      BY <1>1, <1>3, <2>2, <3>1 DEF IInv, Backlogs
    <3> QED
      BY <2>2, <3>1, <3>2
  <2> QED
    BY <2>1, <2>2
<1>12. Backlogs'
  <2>1. ASSUME NEW m \in Listeners, NEW i \in 1 .. Len(backlog'[m])
        PROVE  peer'[backlog'[m][i]] # "new" /\ \A f \in Fds : conn'[f] # backlog'[m][i]
    <3>1. \E k \in 1 .. Len(backlog[m]) : backlog'[m][i] = backlog[m][k] /\ backlog[m][k] # c
      BY <1>11
    <3> QED
      BY <1>1, <1>6, <3>1 DEF IInv, Backlogs
  <2>2. ASSUME NEW m \in Listeners, NEW i \in 1 .. Len(backlog'[m]),
               NEW o \in Listeners, NEW j \in 1 .. Len(backlog'[o]),
               backlog'[m][i] = backlog'[o][j]
        PROVE  m = o /\ i = j
    <3> DEFINE k1 == IF m = l THEN i + 1 ELSE i
               k2 == IF o = l THEN j + 1 ELSE j
    <3>1. /\ k1 \in 1 .. Len(backlog[m]) /\ backlog'[m][i] = backlog[m][k1]
          /\ k2 \in 1 .. Len(backlog[o]) /\ backlog'[o][j] = backlog[o][k2]
      BY <1>11
    <3> HIDE DEF k1, k2
    <3>2. m = o /\ k1 = k2
      <4>1. backlog[m][k1] = backlog[o][k2]
        BY <2>2, <3>1
      <4> QED
        BY <1>1, <3>1, <4>1 DEF IInv, Backlogs
    <3> QED
      BY <3>2 DEF k1, k2
  <2> QED
    BY <2>1, <2>2 DEF Backlogs
<1>13. Connected'
  BY <1>1, <1>4, <1>6, <1>7 DEF IInv, Connected
<1> QED
  BY <1>9, <1>10, <1>12, <1>13 DEF IInv

LEMMA ConnectStep == ASSUME IInv, NEW c \in Clients, connect(c) PROVE IInv'
<1> PICK l \in Listeners : l = Listener(c)
  BY DEF Listener, Listeners
<1>1. /\ Running /\ peer[c] = "new" /\ peer' = [peer EXCEPT ![c] = "up"]
      /\ backlog' = [backlog EXCEPT ![l] = Append(@, c)]
      /\ UNCHANGED <<server, tables, readfds>>
  BY DEF connect
<1>2. backlog[l] \in Seq(Clients) /\ Len(backlog[l]) \in Nat
  BY DEF IInv, Types
<1>3. /\ Append(backlog[l], c) \in Seq(Clients)
      /\ Len(Append(backlog[l], c)) = Len(backlog[l]) + 1
      /\ Append(backlog[l], c)[Len(backlog[l]) + 1] = c
      /\ \A i \in 1 .. Len(backlog[l]) : Append(backlog[l], c)[i] = backlog[l][i]
  BY <1>2
<1>4. /\ backlog'[l] = Append(backlog[l], c)
      /\ \A m \in Listeners : m # l => backlog'[m] = backlog[m]
      /\ backlog' \in [Listeners -> Seq(Clients)]
  BY <1>1, <1>3 DEF IInv, Types
<1>5. /\ peer'[c] = "up" /\ \A d \in Clients : d # c => peer'[d] = peer[d]
      /\ peer' \in [Clients -> States]
  BY <1>1 DEF IInv, Types, States
<1>6. Types' /\ Selected'
  BY <1>1, <1>4, <1>5 DEF IInv, Types, Selected, tables
\* A place of a backlog is an old one, not of c, or the last one, of c.
<1>7. ASSUME NEW m \in Listeners, NEW i \in 1 .. Len(backlog'[m])
      PROVE  \/ i \in 1 .. Len(backlog[m]) /\ backlog'[m][i] = backlog[m][i]
                /\ backlog[m][i] # c /\ backlog[m][i] \in Clients
             \/ m = l /\ i = Len(backlog[l]) + 1 /\ backlog'[m][i] = c
  <2>1. CASE i \in 1 .. Len(backlog[m])
    <3>1. backlog'[m][i] = backlog[m][i]
      BY <1>3, <1>4, <2>1
    <3>3. backlog[m][i] \in Clients
      <4>1. backlog[m] \in Seq(Clients)
        BY DEF IInv, Types
      <4> QED
        BY <2>1, <4>1
    <3>2. backlog[m][i] # c
      BY <1>1, <2>1 DEF IInv, Backlogs
    <3> QED
      BY <2>1, <3>1, <3>2, <3>3
  <2>2. CASE i \notin 1 .. Len(backlog[m])
    <3>1. m = l
      BY <1>4, <2>2
    <3> QED
      BY <1>2, <1>3, <1>4, <2>2, <3>1
  <2> QED
    BY <2>1, <2>2
<1>8. \A fd \in Fds : conn[fd] # c
  BY <1>1, ChatAssumption DEF IInv, Connected
<1>9. Backlogs'
  <2>1. ASSUME NEW m \in Listeners, NEW i \in 1 .. Len(backlog'[m])
        PROVE  peer'[backlog'[m][i]] # "new" /\ \A f \in Fds : conn'[f] # backlog'[m][i]
    BY <1>1, <1>5, <1>7, <1>8 DEF IInv, Backlogs, tables
  <2>2. ASSUME NEW m \in Listeners, NEW i \in 1 .. Len(backlog'[m]),
               NEW o \in Listeners, NEW j \in 1 .. Len(backlog'[o]),
               backlog'[m][i] = backlog'[o][j]
        PROVE  m = o /\ i = j
    <3>1. CASE backlog'[m][i] = c
      <4>1. m = l /\ i = Len(backlog[l]) + 1
        BY <1>7, <3>1
      <4>2. o = l /\ j = Len(backlog[l]) + 1
        BY <1>7, <2>2, <3>1
      <4> QED
        BY <4>1, <4>2
    <3>2. CASE backlog'[m][i] # c
      <4>1. i \in 1 .. Len(backlog[m]) /\ backlog'[m][i] = backlog[m][i]
        BY <1>7, <3>2
      <4>2. j \in 1 .. Len(backlog[o]) /\ backlog'[o][j] = backlog[o][j]
        BY <1>7, <2>2, <3>2
      <4> QED
        BY <1>1, <2>2, <4>1, <4>2 DEF IInv, Backlogs
    <3> QED
      BY <3>1, <3>2
  <2> QED
    BY <2>1, <2>2 DEF Backlogs
<1>10. Connected'
  <2>1. \A fd \in Fds : conn[fd] # Nobody => conn[fd] \in Clients /\ conn[fd] # c
    BY <1>8 DEF IInv, Types
  <2>2. \A m \in readfds \cap Listeners : backlog'[m] # <<>>
    BY <1>1, <1>2, <1>3, <1>4 DEF IInv, Connected
  <2> QED
    BY <1>1, <1>5, <2>1, <2>2 DEF IInv, Connected, tables
<1> QED
  BY <1>6, <1>9, <1>10 DEF IInv

\* The state of a connection changes, and it was and is not "new".
LEMMA PeerStep ==
  ASSUME IInv, NEW c \in Clients, peer[c] # "new", NEW state \in States \ {"new"},
         peer' = [peer EXCEPT ![c] = state],
         UNCHANGED <<server, tables, readfds, backlog>>
  PROVE  IInv'
<1>1. /\ peer' \in [Clients -> States]
      /\ \A d \in Clients : peer[d] # "new" => peer'[d] # "new"
  BY DEF IInv, Types
<1>2. Types'
  BY <1>1 DEF IInv, Types, tables
<1>3. Running => Selected'
  BY DEF IInv, Selected, tables
<1>4. Running => Backlogs'
  <2>1. \A l \in Listeners : \A i \in 1 .. Len(backlog[l]) : backlog[l][i] \in Clients
    BY DEF IInv, Types
  <2> QED
    BY <1>1, <2>1 DEF IInv, Backlogs, tables
<1>5. Running => Connected'
  <2>1. \A fd \in Fds : conn[fd] # Nobody => conn[fd] \in Clients
    BY DEF IInv, Types
  <2> QED
    BY <1>1, <2>1 DEF IInv, Connected, tables
<1> QED
  BY <1>2, <1>3, <1>4, <1>5 DEF IInv, Running

LEMMA ServerStep == ASSUME IInv, main PROVE IInv'
<1>1. CASE select
  BY <1>1, QuietStep DEF select, Running, sockets
<1>2. ASSUME NEW l \in Listeners, handlereg(l) PROVE IInv'
  BY <1>2, AcceptStep
<1>3. ASSUME NEW fd \in Fds, RecvFails(fd) PROVE IInv'
  BY <1>3, ExitStep DEF RecvFails, IInv
<1>4. ASSUME NEW fd \in Fds, RecvNothing(fd) PROVE IInv'
  BY <1>4, CloseStep DEF RecvNothing, Turn, Taken, Running, sockets
<1>5. ASSUME NEW fd \in Fds, RecvMessage(fd) PROVE IInv'
  BY <1>5, QuietStep DEF RecvMessage, Turn, Taken, Running
<1>6. ASSUME NEW fd \in Fds, SendWhole(fd) PROVE IInv'
  BY <1>6, QuietStep DEF SendWhole, SendTo, Next_j, Running
<1>7. ASSUME NEW fd \in Fds, SendLost(fd) PROVE IInv'
  <2> PICK state \in {"fin", "epipe"} : peer' = [peer EXCEPT ![conn[fd]] = state]
    BY <1>7 DEF SendLost
  <2>1. conn[fd] \in Clients /\ peer[conn[fd]] # "new"
    BY <1>7, ChatAssumption DEF SendLost
  <2>2. state \in States \ {"new"}
    BY DEF States
  <2>3. UNCHANGED <<server, tables, readfds, backlog>>
    BY <1>7 DEF SendLost
  <2> QED
    BY <2>1, <2>2, <2>3, PeerStep
<1>8. ASSUME NEW fd \in Fds, SendRefused(fd) PROVE IInv'
  BY <1>8, CloseStep DEF SendRefused, SendTo, Next_j, Running, sockets
<1>9. ASSUME NEW fd \in Fds, SendKills(fd) PROVE IInv'
  BY <1>9, ExitStep DEF SendKills, IInv
<1>10. CASE BroadcastDone
  BY <1>10, QuietStep DEF BroadcastDone, Running, sockets
<1> QED
  BY <1>1, <1>2, <1>3, <1>4, <1>5, <1>6, <1>7, <1>8, <1>9, <1>10
     DEF main, handlemsg, Broadcast

LEMMA ClientStep == ASSUME IInv, NEW c \in Clients, Client(c) PROVE IInv'
<1>1. CASE connect(c)
  BY <1>1, ConnectStep
<1>2. CASE th_stdin(c)
  BY <1>2, QuietStep DEF th_stdin, Running
<1>3. CASE receive(c)
  <2>1. UNCHANGED <<server, tables, readfds, backlog, peer>>
    BY <1>3 DEF receive
  <2>2. Types'
    BY <2>1 DEF IInv, Types, tables
  <2>3. Running => Selected' /\ Backlogs' /\ Connected'
    BY <2>1 DEF IInv, Selected, Backlogs, Connected, tables
  <2> QED
    BY <2>1, <2>2, <2>3 DEF IInv, Running
<1>4. CASE Disconnected(c) \/ Kill(c)
  <2>1. Leave(c)
    BY <1>4 DEF Disconnected, Kill
  <2> PICK state \in {"fin", "rst"} : peer' = [peer EXCEPT ![c] = state]
    BY <2>1 DEF Leave
  <2>2. state \in States \ {"new"} /\ peer[c] # "new"
    BY <2>1 DEF States, Leave
  <2>3. UNCHANGED <<server, tables, readfds, backlog>>
    BY <2>1 DEF Leave
  <2> QED
    BY <2>2, <2>3, PeerStep
<1> QED
  BY <1>1, <1>2, <1>3, <1>4 DEF Client

LEMMA NextIInv == IInv /\ [Next]_vars => IInv'
<1> SUFFICES ASSUME IInv, [Next]_vars
             PROVE  IInv'
  OBVIOUS
<1>1. CASE main
  BY <1>1, ServerStep
<1>2. CASE quit
  BY <1>2, ExitStep DEF quit, IInv
<1>3. ASSUME NEW c \in Clients, Client(c) PROVE IInv'
  BY <1>3, ClientStep
<1>4. CASE UNCHANGED vars
  <2>1. Types'
    BY <1>4 DEF vars, IInv, Types
  <2>2. Running => Selected' /\ Backlogs' /\ Connected'
    BY <1>4 DEF vars, IInv, Selected, Backlogs, Connected
  <2> QED
    BY <1>4, <2>1, <2>2 DEF vars, IInv, Running
<1> QED
  BY <1>1, <1>2, <1>3, <1>4 DEF Next

\* The invariant of the server's tables, for all clients.
THEOREM Invariance == Spec => []IInv
BY InitIInv, NextIInv, PTL DEF Spec

\* While the server runs it selects exactly its open sockets, none of them above
\* the bound of its loops, and no client is behind two of them (server.c 88-89,
\* 101-102, 112-113).
THEOREM SelectsWhatIsOpen == Spec => []FdSetsRight
<1>1. IInv => FdSetsRight
  <2> SUFFICES ASSUME IInv, Running
               PROVE  /\ master = Listeners \cup {fd \in Fds : conn[fd] # Nobody}
                      /\ \A fd \in master : fd <= biggest
                      /\ \A c \in Clients : Cardinality({fd \in Fds : conn[fd] = c}) <= 1
    BY DEF FdSetsRight
  <2>1. ASSUME NEW c \in Clients
        PROVE  Cardinality({fd \in Fds : conn[fd] = c}) <= 1
    <3> DEFINE His == {fd \in Fds : conn[fd] = c}
    <3>1. CASE His = {}
      BY <3>1, FS_EmptySet
    <3>2. ASSUME NEW fd \in His PROVE Cardinality(His) <= 1
      <4>1. His = {fd}
        BY <3>2, ChatAssumption DEF IInv, Selected
      <4>2. Cardinality(His) = 1
        BY <4>1, FS_Singleton
      <4> QED
        BY <4>2
    <3> QED
      BY <3>1, <3>2
  <2> QED
    BY <2>1 DEF IInv, Selected
<1> QED
  BY Invariance, <1>1, PTL

---------------------------------------------------------------------------
\* What a client is sent: runs of numbered messages.

Message == Clients \X Nat

\* The messages m + 1 .. n of s that are from the same client as message m.
Later(s, m, n) == {k \in m + 1 .. n : s[k][1] = s[m][1]}

\* None is of c itself, and those of each client are numbered consecutively.
Consecutive(c, s) ==
  /\ \A m \in 1 .. Len(s) : s[m][1] # c
  /\ \A m, n \in 1 .. Len(s) :
       n \in Later(s, m, n) => s[n][2] = s[m][2] + Cardinality(Later(s, m, n))

\* The messages of a in s end with its message number k.
EndsWith(s, a, k) ==
  \A m \in 1 .. Len(s) : s[m][1] = a => s[m][2] + Cardinality(Later(s, m, Len(s))) = k

LEMMA LaterFinite ==
  ASSUME NEW s, NEW m \in Nat, NEW n \in Nat
  PROVE  IsFiniteSet(Later(s, m, n)) /\ Cardinality(Later(s, m, n)) \in Nat
<1> PICK i \in Int : i = m + 1
  OBVIOUS
<1>1. IsFiniteSet(i .. n)
  BY FS_Interval
<1>2. PICK L : L = Later(s, m, n)
  OBVIOUS
<1>3. L \in SUBSET (i .. n)
  BY <1>2 DEF Later
<1> QED
  BY <1>1, <1>2, <1>3, FS_Subset, FS_CardinalityType

\* A part that comes first is as consecutive as the whole.
LEMMA FirstPart ==
  ASSUME NEW c, NEW s \in Seq(Message), NEW t \in Seq(Message), Consecutive(c, s \o t)
  PROVE  Consecutive(c, s)
<1>1. /\ Len(s) \in Nat /\ 1 .. Len(s) \subseteq 1 .. Len(s \o t)
      /\ \A m \in 1 .. Len(s) : (s \o t)[m] = s[m]
  OBVIOUS
<1>2. \A m, n \in 1 .. Len(s) : Later(s \o t, m, n) = Later(s, m, n)
  BY <1>1 DEF Later
<1> QED
  BY <1>1, <1>2 DEF Consecutive

\* One more message of a, with the number after its last one.
LEMMA OneMore ==
  ASSUME NEW s \in Seq(Message), NEW a \in Clients, NEW k \in Nat
  PROVE  /\ \A c : Consecutive(c, s) /\ EndsWith(s, a, k - 1) /\ c # a
                     => Consecutive(c, Append(s, <<a, k>>))
         /\ EndsWith(s, a, k - 1) => EndsWith(Append(s, <<a, k>>), a, k)
         /\ \A b, j : EndsWith(s, b, j) /\ b # a => EndsWith(Append(s, <<a, k>>), b, j)
<1> DEFINE t == Append(s, <<a, k>>)
           N == Len(s) + 1
<1>1. /\ Len(s) \in Nat /\ Len(t) = N /\ N \in Nat /\ t[N] = <<a, k>>
      /\ \A m \in 1 .. Len(s) : t[m] = s[m] /\ m \in Nat /\ s[m][2] \in Nat /\ s[m][1] \in Clients
      /\ \A m \in 1 .. N : m \in 1 .. Len(s) \/ m = N
  BY DEF Message
<1>2. t[N][1] = a /\ t[N][2] = k
  BY <1>1
<1> HIDE DEF t
<1>3. \A m, n \in 1 .. Len(s) : Later(t, m, n) = Later(s, m, n)
  BY <1>1 DEF Later
<1>4. ASSUME NEW m \in 1 .. Len(s)
      PROVE  /\ s[m][1] = a => Cardinality(Later(t, m, N)) = Cardinality(Later(s, m, Len(s))) + 1
             /\ s[m][1] # a => Later(t, m, N) = Later(s, m, Len(s))
             /\ Cardinality(Later(s, m, Len(s))) \in Nat
  <2>1. PICK L : L = Later(s, m, Len(s))
    OBVIOUS
  <2>2. IsFiniteSet(L) /\ Cardinality(L) \in Nat
    BY <1>1, <2>1, LaterFinite
  <2>3. N \notin L
    BY <1>1, <2>1 DEF Later
  <2>4. s[m][1] = a => Later(t, m, N) = L \cup {N}
    BY <1>1, <1>2, <2>1 DEF Later
  <2>5. s[m][1] # a => Later(t, m, N) = L
    BY <1>1, <1>2, <2>1 DEF Later
  <2> HIDE DEF N
  <2>6. Cardinality(L \cup {N}) = Cardinality(L) + 1
    BY <2>2, <2>3, FS_AddElement
  <2> QED
    BY <2>1, <2>2, <2>4, <2>5, <2>6
<1>5. Later(t, N, N) = {} /\ Cardinality(Later(t, N, N)) = 0
  <2>1. Later(t, N, N) = {}
    BY <1>1 DEF Later
  <2> QED
    BY <2>1, FS_EmptySet
<1> HIDE DEF N
<1>6. ASSUME NEW c, Consecutive(c, s), EndsWith(s, a, k - 1), c # a
      PROVE  Consecutive(c, t)
  <2>1. \A m \in 1 .. N : t[m][1] # c
    BY <1>1, <1>2, <1>6 DEF Consecutive
  <2>2. ASSUME NEW m \in 1 .. N, NEW n \in 1 .. N, n \in Later(t, m, n)
        PROVE  t[n][2] = t[m][2] + Cardinality(Later(t, m, n))
    <3>1. m < n
      BY <1>1, <2>2 DEF Later
    <3>2. m \in 1 .. Len(s)
      BY <1>1, <3>1
    <3>3. CASE n \in 1 .. Len(s)
      BY <1>1, <1>3, <1>6, <2>2, <3>2, <3>3 DEF Consecutive
    <3>4. CASE n = N
      <4>1. s[m][1] = a
        BY <1>1, <1>2, <2>2, <3>2, <3>4 DEF Later
      <4>2. s[m][2] + Cardinality(Later(s, m, Len(s))) = k - 1
        BY <1>6, <3>2, <4>1 DEF EndsWith
      <4>3. Cardinality(Later(t, m, N)) = Cardinality(Later(s, m, Len(s))) + 1
        BY <1>4, <3>2, <4>1
      <4>4. t[m][2] = s[m][2] /\ t[n][2] = k /\ s[m][2] \in Nat
        BY <1>1, <1>2, <3>2, <3>4
      <4>5. PICK x \in Nat : x = s[m][2]
        BY <4>4
      <4>6. PICK y \in Nat : y = Cardinality(Later(s, m, Len(s)))
        BY <1>4, <3>2
      <4>7. x + y = k - 1 /\ Cardinality(Later(t, m, n)) = y + 1
        BY <3>4, <4>2, <4>3, <4>5, <4>6
      <4> QED
        BY <4>4, <4>5, <4>7
    <3> QED
      BY <1>1, <3>3, <3>4
  <2> QED
    BY <1>1, <2>1, <2>2 DEF Consecutive
<1>7. ASSUME EndsWith(s, a, k - 1)
      PROVE  EndsWith(t, a, k)
  <2> SUFFICES ASSUME NEW m \in 1 .. N, t[m][1] = a
               PROVE  t[m][2] + Cardinality(Later(t, m, N)) = k
    BY <1>1 DEF EndsWith
  <2>1. CASE m \in 1 .. Len(s)
    <3>1. s[m][2] + Cardinality(Later(s, m, Len(s))) = k - 1 /\ s[m][1] = a
      BY <1>1, <1>7, <2>1 DEF EndsWith
    <3>2. Cardinality(Later(t, m, N)) = Cardinality(Later(s, m, Len(s))) + 1
      BY <1>4, <2>1, <3>1
    <3>3. PICK x \in Nat : x = s[m][2] /\ x = t[m][2]
      BY <1>1, <2>1
    <3>4. PICK y \in Nat : y = Cardinality(Later(s, m, Len(s)))
      BY <1>4, <2>1
    <3>5. x + y = k - 1 /\ Cardinality(Later(t, m, N)) = y + 1
      BY <3>1, <3>2, <3>3, <3>4
    <3> QED
      BY <3>3, <3>5
  <2>2. CASE m = N
    <3>1. t[m][2] = k /\ Cardinality(Later(t, m, N)) = 0
      BY <1>2, <1>5, <2>2
    <3> QED
      BY <3>1
  <2> QED
    BY <1>1, <2>1, <2>2
<1>8. ASSUME NEW b, NEW j, EndsWith(s, b, j), b # a
      PROVE  EndsWith(t, b, j)
  BY <1>1, <1>2, <1>4, <1>8 DEF EndsWith
<1> QED
  BY <1>6, <1>7, <1>8 DEF t

\* Printing a message moves it from the buffer into the log.
LEMMA Printed ==
  ASSUME NEW s \in Seq(Message), NEW t \in Seq(Message), t # <<>>
  PROVE  Append(s, Head(t)) \o Tail(t) = s \o t
  OBVIOUS

LEMMA AppendLast ==
  ASSUME NEW s \in Seq(Message), NEW t \in Seq(Message), NEW m \in Message
  PROVE  s \o Append(t, m) = Append(s \o t, m)
  OBVIOUS

LEMMA LastIs ==
  ASSUME NEW s \in Seq(Message), NEW m \in Message
  PROVE  Append(s, m) # <<>> /\ Append(s, m)[Len(Append(s, m))] = m
<1>1. Len(Append(s, m)) = Len(s) + 1 /\ Len(s) \in Nat
  OBVIOUS
<1>2. Append(s, m)[Len(s) + 1] = m
  OBVIOUS
<1> QED
  BY <1>1, <1>2

---------------------------------------------------------------------------
\* The invariant of the messages on their way.

\* How many of the lines a has sent the server has taken.
Processed(a) == sent[a] - Len(up[a])

MessageTypes ==
  /\ up \in [Clients -> Seq(Message)]
  /\ down \in [Clients -> Seq(Message)]
  /\ log \in [Clients -> Seq(Message)]
  /\ sent \in [Clients -> Nat]

Numbered ==
  \A a \in Clients :
    /\ Len(up[a]) <= sent[a]
    /\ \A i \in 1 .. Len(up[a]) : up[a][i] = <<a, Processed(a) + i>>

\* The message that is broadcast is the last one taken from its sender, and goes
\* to open connections of others.
Broadcasting ==
  server = "broadcast" =>
    /\ buf \in Message
    /\ \A a \in Clients : buf[1] = a => buf[2] = Processed(a)
    /\ left \subseteq Fds
    /\ \A fd \in left : conn[fd] \in Clients \ {buf[1]}

\* Nothing was sent to a client that is not accepted yet.
Fresh ==
  \A c \in Clients :
    peer[c] = "new" \/ (\E l \in Listeners : \E i \in 1 .. Len(backlog[l]) : backlog[l][i] = c)
      => log[c] = <<>> /\ down[c] = <<>>

Pending(fd, a) == server = "broadcast" /\ fd \in left /\ buf[1] = a

\* Who has got something of a has got all that was taken from a since, but the
\* message that is being broadcast and has not reached its descriptor.
UpToDate ==
  \A fd \in Fds, a, c \in Clients :
    conn[fd] = c /\ peer[c] = "up" =>
      EndsWith(Inbox(c), a, IF Pending(fd, a) THEN Processed(a) - 1 ELSE Processed(a))

Delivered ==
  server = "broadcast" =>
    \A fd \in Fds \ left, c \in Clients :
      conn[fd] = c /\ c # buf[1] /\ peer[c] = "up" =>
        Inbox(c) # <<>> /\ Inbox(c)[Len(Inbox(c))] = buf

Moving == Numbered /\ Broadcasting /\ Fresh /\ UpToDate /\ Delivered

Messages == MessageTypes /\ NoGaps /\ (Running => Moving)

LEMMA NoGapsIs == NoGaps <=> \A c \in Clients : Consecutive(c, Inbox(c))
  BY DEF NoGaps, Consecutive, Later

LEMMA InboxType ==
  ASSUME MessageTypes, NEW c \in Clients
  PROVE  /\ Inbox(c) \in Seq(Message) /\ log[c] \in Seq(Message) /\ down[c] \in Seq(Message)
         /\ Inbox(c) = log[c] \o down[c]
<1>1. log[c] \in Seq(Message) /\ down[c] \in Seq(Message)
  BY DEF MessageTypes
<1> QED
  BY <1>1 DEF Inbox

\* The inboxes stay as they are.
LEMMA NoGapsStays ==
  ASSUME NoGaps, \A c \in Clients : Inbox(c)' = Inbox(c)
  PROVE  NoGaps'
<1>1. \A c \in Clients : Consecutive(c, Inbox(c))
  BY NoGapsIs
<1>2. NoGaps' <=> \A c \in Clients : Consecutive(c, Inbox(c)')
  BY DEF NoGaps, Consecutive, Later
<1> QED
  BY <1>1, <1>2

LEMMA MessagesInit == Init => Messages
<1> SUFFICES ASSUME Init PROVE Messages
  OBVIOUS
<1>1. MessageTypes
  BY DEF Init, MessageTypes
<1>2. \A c \in Clients : log[c] = <<>> /\ down[c] = <<>> /\ Len(Inbox(c)) = 0
  BY DEF Init, Inbox
<1>3. NoGaps
  BY <1>2, NoGapsIs DEF Consecutive
<1>4. Numbered
  BY DEF Init, Numbered
<1>5. Broadcasting /\ Delivered
  BY DEF Init, Broadcasting, Delivered
<1>6. Fresh
  BY <1>2 DEF Fresh
<1>7. UpToDate
  BY <1>2 DEF UpToDate, EndsWith
<1> QED
  BY <1>1, <1>3, <1>4, <1>5, <1>6, <1>7 DEF Messages, Moving

\* Steps that neither move a message nor change a connection.
LEMMA MessagesStay ==
  ASSUME IInv, Messages, Running,
         UNCHANGED <<conn, backlog, peer, up, down, log, sent, buf, left>>,
         server' = server \/ (server' # "broadcast" /\ left = {})
  PROVE  Messages'
<1>1. MessageTypes'
  BY DEF Messages, MessageTypes
<1>2. NoGaps'
  BY NoGapsStays DEF Messages, Inbox
<1>3. Numbered' /\ Fresh'
  BY DEF Messages, Moving, Numbered, Processed, Fresh
<1>4. Broadcasting' /\ Delivered'
  BY DEF Messages, Moving, Broadcasting, Processed, Delivered, Inbox
<1>5. UpToDate'
  BY DEF Messages, Moving, UpToDate, Pending, Processed, Inbox
<1> QED
  BY <1>1, <1>2, <1>3, <1>4, <1>5 DEF Messages, Moving

LEMMA MessagesExit ==
  ASSUME Messages, NEW how \in {"quit", "failed", "killed"}, Exit(how)
  PROVE  Messages'
<1>1. UNCHANGED <<peer, down, log, sent>> /\ up' = [c \in Clients |-> <<>>] /\ server' = how
  BY DEF Exit, clients
<1>2. MessageTypes'
  BY <1>1 DEF Messages, MessageTypes
<1>3. NoGaps'
  BY <1>1, NoGapsStays DEF Messages, Inbox
<1> QED
  BY <1>1, <1>2, <1>3 DEF Messages, Running

\* A connection is closed by the server.
LEMMA MessagesClose ==
  ASSUME IInv, Messages, Running, NEW fd \in Fds, Close(fd),
         server = "broadcast" => left' = left \ {fd},
         UNCHANGED <<server, backlog, peer, up, down, log, sent, buf>>
  PROVE  Messages'
<1>1. conn'[fd] = Nobody /\ \A f \in Fds : f # fd => conn'[f] = conn[f]
  BY DEF Close, IInv, Types
<1>2. \A f \in Fds, c \in Clients : conn'[f] = c => f # fd /\ conn[f] = c
  BY <1>1, ChatAssumption
<1>3. MessageTypes'
  BY DEF Messages, MessageTypes
<1>4. NoGaps'
  BY NoGapsStays DEF Messages, Inbox
<1>5. Numbered' /\ Fresh'
  BY DEF Messages, Moving, Numbered, Processed, Fresh
<1>6. Delivered'
  BY <1>2 DEF Messages, Moving, Delivered, Inbox
<1>7. UpToDate'
  <2> SUFFICES ASSUME NEW f \in Fds, NEW a \in Clients, NEW c \in Clients,
                      conn'[f] = c, peer[c] = "up"
               PROVE  EndsWith(Inbox(c), a, IF Pending(f, a)' THEN Processed(a) - 1 ELSE Processed(a))
    BY DEF UpToDate, Inbox, Processed
  <2>1. f # fd /\ conn[f] = c
    BY <1>2
  <2>2. Pending(f, a)' <=> Pending(f, a)
    BY <2>1 DEF Pending
  <2> QED
    BY <2>1, <2>2 DEF Messages, Moving, UpToDate
<1>8. Broadcasting'
  BY <1>1 DEF Messages, Moving, Broadcasting, Processed
<1> QED
  BY <1>3, <1>4, <1>5, <1>6, <1>7, <1>8 DEF Messages, Moving

\* The server takes a message of the client behind fd.
LEMMA MessagesRecv ==
  ASSUME IInv, Messages, NEW fd \in Fds, RecvMessage(fd)
  PROVE  Messages'
<1>1. /\ server = "loop" /\ server' = "broadcast" /\ Running /\ conn[fd] # Nobody
      /\ left' = Others(fd) /\ UNCHANGED <<conn, backlog, peer, down, log, sent>>
      /\ buf' = Head(up[conn[fd]]) /\ up' = [up EXCEPT ![conn[fd]] = Tail(@)]
      /\ up[conn[fd]] # <<>>
  BY DEF RecvMessage, Turn, Running, tables, clients
<1>2. /\ Selected /\ Numbered /\ MessageTypes /\ NoGaps /\ Fresh /\ UpToDate
      /\ conn \in [Fds -> Clients \cup {Nobody}]
  BY <1>1 DEF IInv, Messages, Moving, Types
<1> PICK s \in Clients : s = conn[fd]
  BY <1>1, <1>2
<1>3. up[s] \in Seq(Message) /\ up[s] # <<>> /\ sent[s] \in Nat
  BY <1>1, <1>2 DEF MessageTypes
<1>4. /\ Len(up[s]) \in Nat \ {0} /\ Tail(up[s]) \in Seq(Message)
      /\ Len(Tail(up[s])) = Len(up[s]) - 1 /\ Head(up[s]) = up[s][1] /\ Head(up[s]) \in Message
      /\ \A i \in 1 .. Len(up[s]) - 1 : Tail(up[s])[i] = up[s][i + 1] /\ i + 1 \in 1 .. Len(up[s])
  BY ONLY <1>3
<1>5. /\ up'[s] = Tail(up[s]) /\ \A a \in Clients : a # s => up'[a] = up[a]
      /\ up' \in [Clients -> Seq(Message)]
  BY <1>1, <1>2, <1>4 DEF MessageTypes
<1>6. /\ Processed(s)' = Processed(s) + 1
      /\ \A a \in Clients : a # s => Processed(a)' = Processed(a)
  BY <1>1, <1>3, <1>4, <1>5 DEF Processed
<1>7. buf' = <<s, Processed(s) + 1>> /\ buf' \in Message
  BY <1>1, <1>2, <1>4 DEF Numbered
<1>8. MessageTypes'
  BY <1>1, <1>2, <1>5 DEF MessageTypes
<1>9. NoGaps'
  BY <1>1, <1>2, NoGapsStays DEF Inbox
<1>10. Numbered'
  <2> SUFFICES ASSUME NEW a \in Clients
               PROVE  /\ Len(up'[a]) <= sent[a]
                      /\ \A i \in 1 .. Len(up'[a]) : up'[a][i] = <<a, Processed(a)' + i>>
    BY <1>1 DEF Numbered, Processed
  <2>1. CASE a # s
    BY <1>2, <1>5, <1>6, <2>1 DEF Numbered
  <2>2. CASE a = s
    <3>1. Len(up[s]) <= sent[s] /\ Processed(s) \in Int
      BY <1>2, <1>3, <1>4 DEF Numbered, Processed
    <3>2. Len(up'[s]) <= sent[s]
      BY <1>3, <1>4, <1>5, <3>1
    <3>3. ASSUME NEW i \in 1 .. Len(up'[s])
          PROVE  up'[s][i] = <<s, Processed(s)' + i>>
      <4>1. up'[s][i] = up[s][i + 1] /\ i + 1 \in 1 .. Len(up[s]) /\ i \in Nat
        BY <1>4, <1>5, <3>3
      <4>2. up[s][i + 1] = <<s, Processed(s) + (i + 1)>>
        BY <1>2, <4>1 DEF Numbered
      <4>3. Processed(s) + (i + 1) = Processed(s)' + i
        BY <1>6, <3>1, <4>1
      <4> QED
        BY <4>1, <4>2, <4>3
    <3> QED
      BY <2>2, <3>2, <3>3
  <2> QED
    BY <2>1, <2>2
<1>11. Fresh'
  BY <1>1, <1>2 DEF Fresh
<1>12. \A f \in Others(fd) : f \in Fds /\ f # fd /\ conn[f] \in Clients /\ conn[f] # s
  <2> SUFFICES ASSUME NEW f \in Others(fd)
               PROVE  f \in Fds /\ f # fd /\ conn[f] \in Clients /\ conn[f] # s
    OBVIOUS
  <2>1. f \in master /\ f \notin Listeners /\ f # fd
    BY DEF Others
  <2>2. f \in Fds /\ conn[f] # Nobody
    BY <1>2, <2>1 DEF Selected
  <2> QED
    BY <1>1, <1>2, <2>1, <2>2 DEF Selected
<1>13. Broadcasting'
  <2>1. buf'[1] = s /\ buf'[2] = Processed(s)'
    BY <1>6, <1>7
  <2> QED
    BY <1>1, <1>7, <1>12, <2>1 DEF Broadcasting, Processed
\* Every open connection but that of s has the broadcast before it.
<1>14. \A f \in Fds : conn[f] \in Clients /\ f # fd => f \in Others(fd)
  BY <1>2, FdsAre, ChatAssumption DEF Selected, Others
<1>15. Delivered'
  BY <1>1, <1>7, <1>14 DEF Delivered
<1>16. UpToDate'
  <2> SUFFICES ASSUME NEW f \in Fds, NEW a \in Clients, NEW c \in Clients,
                      conn[f] = c, peer[c] = "up"
               PROVE  EndsWith(Inbox(c), a,
                               IF Pending(f, a)' THEN Processed(a)' - 1 ELSE Processed(a)')
    BY <1>1 DEF UpToDate, Inbox, Processed
  <2>1. EndsWith(Inbox(c), a, Processed(a))
    <3>1. ~Pending(f, a)
      BY <1>1 DEF Pending
    <3> QED
      BY <1>2, <3>1 DEF UpToDate
  <2>2. CASE a # s
    <3>1. ~Pending(f, a)'
      BY <1>7, <2>2 DEF Pending
    <3> QED
      BY <1>6, <2>1, <2>2, <3>1
  <2>3. CASE a = s /\ f # fd
    <3>1. Pending(f, a)'
      BY <1>1, <1>7, <1>14, <2>3 DEF Pending
    <3>2. Processed(s) \in Int
      BY <1>3, <1>4 DEF Processed
    <3> QED
      BY <1>6, <2>1, <2>3, <3>1, <3>2
  <2>4. CASE a = s /\ f = fd
    <3>1. c = s /\ Consecutive(s, Inbox(s))
      BY <1>2, <2>4, NoGapsIs
    <3> QED
      BY <2>4, <3>1 DEF Consecutive, EndsWith
  <2> QED
    BY <2>2, <2>3, <2>4
<1> QED
  BY <1>8, <1>9, <1>10, <1>11, <1>13, <1>15, <1>16 DEF Messages, Moving


\* An accepted connection is one that nothing was sent to.
LEMMA MessagesAccept ==
  ASSUME IInv, Messages, NEW l \in Listeners, handlereg(l)
  PROVE  Messages'
<1>1. /\ server = "loop" /\ server' = "loop" /\ Running /\ l \in readfds
      /\ UNCHANGED <<buf, left, peer, up, down, log, sent>>
      /\ conn' = [conn EXCEPT ![Accepted] = Head(backlog[l])]
      /\ backlog' = [backlog EXCEPT ![l] = Tail(@)]
  BY DEF handlereg, Turn, Running, sockets, clients
<1>2. /\ Numbered /\ MessageTypes /\ NoGaps /\ Fresh /\ UpToDate
      /\ conn \in [Fds -> Clients \cup {Nobody}] /\ backlog \in [Listeners -> Seq(Clients)]
      /\ backlog[l] # <<>>
  BY <1>1 DEF IInv, Messages, Moving, Types, Connected
<1>3. backlog[l] \in Seq(Clients) /\ backlog[l] # <<>>
  BY <1>2
<1>4. /\ Head(backlog[l]) \in Clients /\ Head(backlog[l]) = backlog[l][1]
      /\ 1 \in 1 .. Len(backlog[l])
      /\ \A i \in 1 .. Len(Tail(backlog[l])) :
           Tail(backlog[l])[i] = backlog[l][i + 1] /\ i + 1 \in 1 .. Len(backlog[l])
  BY ONLY <1>3
<1> PICK c \in Clients : c = Head(backlog[l])
  BY <1>4
<1>5. log[c] = <<>> /\ down[c] = <<>>
  BY <1>2, <1>4 DEF Fresh
<1>6. Inbox(c) = <<>> /\ Len(Inbox(c)) = 0
  BY <1>5 DEF Inbox
<1>7. \A f \in Fds, d \in Clients : conn'[f] = d => conn[f] = d \/ d = c
  BY <1>1, <1>2
<1>8. \A m \in Listeners, d \in Clients :
        (\E i \in 1 .. Len(backlog'[m]) : backlog'[m][i] = d)
          => \E i \in 1 .. Len(backlog[m]) : backlog[m][i] = d
  <2> SUFFICES ASSUME NEW m \in Listeners, NEW i \in 1 .. Len(backlog'[m])
               PROVE  \E j \in 1 .. Len(backlog[m]) : backlog[m][j] = backlog'[m][i]
    OBVIOUS
  <2>1. CASE m = l
    <3>1. backlog'[m] = Tail(backlog[l])
      BY <1>1, <1>2, <2>1
    <3> QED
      BY <1>4, <2>1, <3>1
  <2>2. CASE m # l
    BY <1>1, <1>2, <2>2
  <2> QED
    BY <2>1, <2>2
<1>9. MessageTypes' /\ Numbered'
  BY <1>1, <1>2 DEF MessageTypes, Numbered, Processed
<1>10. NoGaps'
  BY <1>1, <1>2, NoGapsStays DEF Inbox
<1>11. Fresh'
  BY <1>1, <1>2, <1>8 DEF Fresh
<1>12. Broadcasting' /\ Delivered'
  BY <1>1 DEF Broadcasting, Delivered
<1>13. UpToDate'
  <2> SUFFICES ASSUME NEW f \in Fds, NEW a \in Clients, NEW d \in Clients,
                      conn'[f] = d, peer[d] = "up"
               PROVE  EndsWith(Inbox(d), a, Processed(a))
    BY <1>1 DEF UpToDate, Inbox, Processed, Pending
  <2>1. CASE d = c
    BY <1>6, <2>1 DEF EndsWith
  <2>2. CASE d # c
    <3>1. conn[f] = d /\ ~Pending(f, a)
      BY <1>1, <1>7, <2>2 DEF Pending
    <3> QED
      BY <1>2, <3>1 DEF UpToDate
  <2> QED
    BY <2>1, <2>2
<1> QED
  BY <1>9, <1>10, <1>11, <1>12, <1>13 DEF Messages, Moving

\* The message that is broadcast is appended to what the client behind fd is sent.
LEMMA MessagesSend ==
  ASSUME IInv, Messages, NEW fd \in Fds, SendWhole(fd)
  PROVE  Messages'
<1>1. /\ server = "broadcast" /\ server' = "broadcast" /\ Running
      /\ fd \in left /\ left' = left \ {fd} /\ peer[conn[fd]] = "up"
      /\ UNCHANGED <<buf, conn, backlog, peer, up, log, sent>>
      /\ down' = [down EXCEPT ![conn[fd]] = Append(@, buf)]
  BY DEF SendWhole, SendTo, Next_j, Running, tables, clients
<1>2. /\ Numbered /\ MessageTypes /\ NoGaps /\ Fresh /\ UpToDate /\ Broadcasting /\ Delivered
      /\ Selected /\ Connected /\ Backlogs
  BY <1>1 DEF IInv, Messages, Moving
<1> PICK c \in Clients : c = conn[fd]
  BY <1>1, <1>2 DEF Broadcasting
<1> PICK a \in Clients, k \in Nat : buf = <<a, k>>
  BY <1>1, <1>2 DEF Broadcasting, Message
<1>3. buf[1] = a /\ buf[2] = k /\ buf \in Message
  BY DEF Message
<1>4. c # a /\ k = Processed(a)
  BY <1>1, <1>2, <1>3 DEF Broadcasting
<1>5. /\ Inbox(c) \in Seq(Message) /\ log[c] \in Seq(Message) /\ down[c] \in Seq(Message)
      /\ Inbox(c) = log[c] \o down[c]
  BY <1>2, InboxType
<1>6. /\ down'[c] = Append(down[c], buf) /\ \A d \in Clients : d # c => down'[d] = down[d]
      /\ down' \in [Clients -> Seq(Message)]
  <2>1. Append(down[c], buf) \in Seq(Message)
    BY ONLY <1>3, <1>5
  <2>2. down \in [Clients -> Seq(Message)] /\ down' = [down EXCEPT ![c] = Append(down[c], buf)]
    BY <1>1, <1>2 DEF MessageTypes
  <2> QED
    BY <2>1, <2>2
<1>7. /\ Inbox(c)' = Append(Inbox(c), <<a, k>>)
      /\ \A d \in Clients : d # c => Inbox(d)' = Inbox(d)
  <2>1. Inbox(c)' = log[c] \o Append(down[c], buf)
    BY <1>1, <1>6 DEF Inbox
  <2>2. log[c] \o Append(down[c], buf) = Append(Inbox(c), buf)
    <3> PICK s \in Seq(Message), r \in Seq(Message), m \in Message :
               s = log[c] /\ r = down[c] /\ m = buf
      BY <1>3, <1>5
    <3>1. s \o Append(r, m) = Append(s \o r, m)
      BY AppendLast
    <3> QED
      BY <1>5, <3>1
  <2> QED
    BY <1>1, <1>6, <2>1, <2>2 DEF Inbox
<1>8. MessageTypes'
  BY <1>1, <1>2, <1>6 DEF MessageTypes
<1>9. EndsWith(Inbox(c), a, k - 1)
  <2>1. Pending(fd, a)
    BY <1>1, <1>3 DEF Pending
  <2> QED
    BY <1>1, <1>2, <1>4, <2>1 DEF UpToDate
<1>10. Consecutive(c, Append(Inbox(c), <<a, k>>)) /\ EndsWith(Append(Inbox(c), <<a, k>>), a, k)
  BY <1>2, <1>4, <1>5, <1>9, OneMore, NoGapsIs
<1>11. NoGaps'
  <2>1. \A d \in Clients : Consecutive(d, Inbox(d)')
    BY <1>2, <1>7, <1>10, NoGapsIs
  <2>2. NoGaps' <=> \A d \in Clients : Consecutive(d, Inbox(d)')
    BY DEF NoGaps, Consecutive, Later
  <2> QED
    BY <2>1, <2>2
<1>12. Numbered' /\ Broadcasting'
  BY <1>1, <1>2 DEF Numbered, Broadcasting, Processed
<1>13. Fresh'
  <2>1. peer[c] # "new" /\ \A l \in Listeners : \A i \in 1 .. Len(backlog[l]) : backlog[l][i] # c
    BY <1>1, <1>2 DEF Backlogs
  <2> QED
    <3> SUFFICES ASSUME NEW d \in Clients,
                        peer[d] = "new" \/ (\E l \in Listeners :
                          \E i \in 1 .. Len(backlog[l]) : backlog[l][i] = d)
                 PROVE  log[d] = <<>> /\ down'[d] = <<>>
      BY <1>1 DEF Fresh
    <3>1. d # c
      BY <2>1
    <3> QED
      BY <1>2, <1>6, <3>1 DEF Fresh
\* c is behind no other descriptor.
<1>14. \A f \in Fds : conn[f] = c => f = fd
  BY <1>2, ChatAssumption DEF Selected
<1>15. Delivered'
  <2> SUFFICES ASSUME NEW f \in Fds \ left', NEW d \in Clients, conn[f] = d, d # buf[1],
                      peer[d] = "up"
               PROVE  Inbox(d)' # <<>> /\ Inbox(d)'[Len(Inbox(d)')] = buf
    BY <1>1 DEF Delivered, Inbox
  <2>1. CASE f = fd
    <3>1. /\ Append(Inbox(c), buf) # <<>>
          /\ Append(Inbox(c), buf)[Len(Append(Inbox(c), buf))] = buf
      <4> PICK s \in Seq(Message), m \in Message : s = Inbox(c) /\ m = buf
        BY <1>3, <1>5
      <4>1. Append(s, m) # <<>> /\ Append(s, m)[Len(Append(s, m))] = m
        BY LastIs
      <4> QED
        BY <4>1
    <3> QED
      BY <1>7, <2>1, <3>1
  <2>2. CASE f # fd
    <3>1. d # c /\ f \in Fds \ left
      BY <1>1, <1>14, <2>2
    <3> QED
      BY <1>1, <1>2, <1>7, <3>1 DEF Delivered
  <2> QED
    BY <2>1, <2>2
<1>16. UpToDate'
  <2> SUFFICES ASSUME NEW f \in Fds, NEW b \in Clients, NEW d \in Clients,
                      conn[f] = d, peer[d] = "up"
               PROVE  EndsWith(Inbox(d)', b,
                               IF Pending(f, b)' THEN Processed(b) - 1 ELSE Processed(b))
    BY <1>1 DEF UpToDate, Inbox, Processed
  <2>1. CASE f = fd /\ b = a
    <3>1. ~Pending(f, b)'
      BY <1>1, <2>1 DEF Pending
    <3> QED
      BY <1>4, <1>7, <1>10, <2>1, <3>1
  <2>2. CASE f = fd /\ b # a
    <3>1. ~Pending(f, b)' /\ ~Pending(f, b)
      BY <1>1, <1>3, <2>2 DEF Pending
    <3>2. EndsWith(Inbox(c), b, Processed(b))
      BY <1>2, <2>2, <3>1 DEF UpToDate
    <3>3. EndsWith(Append(Inbox(c), <<a, k>>), b, Processed(b))
      BY <1>5, <2>2, <3>2, OneMore
    <3> QED
      BY <1>7, <2>2, <3>1, <3>3
  <2>3. CASE f # fd
    <3>1. d # c /\ (Pending(f, b)' <=> Pending(f, b))
      BY <1>1, <1>14, <2>3 DEF Pending
    <3> QED
      BY <1>2, <1>7, <3>1 DEF UpToDate
  <2> QED
    BY <2>1, <2>2, <2>3
<1> QED
  BY <1>8, <1>11, <1>12, <1>13, <1>15, <1>16 DEF Messages, Moving


\* The connection of c is no longer up: of what it was sent, what it has not read
\* is kept or lost, and the broadcast passes over its descriptor or not.
LEMMA MessagesHangUp ==
  ASSUME IInv, Messages, NEW c \in Clients, NEW state \in States \ {"new", "up"},
         peer[c] # "new", peer' = [peer EXCEPT ![c] = state],
         down' = down \/ down' = [down EXCEPT ![c] = <<>>],
         left' = left \/ \E fd \in left : conn[fd] = c /\ left' = left \ {fd},
         UNCHANGED <<server, conn, backlog, up, log, sent, buf>>
  PROVE  Messages'
<1>1. /\ MessageTypes /\ NoGaps /\ peer \in [Clients -> States]
      /\ conn \in [Fds -> Clients \cup {Nobody}]
  BY DEF Messages, IInv, Types
<1>2. /\ peer'[c] # "up" /\ peer'[c] # "new" /\ \A d \in Clients : d # c => peer'[d] = peer[d]
      /\ \A d \in Clients : d # c => down'[d] = down[d]
      /\ down'[c] = down[c] \/ down'[c] = <<>>
  BY <1>1 DEF MessageTypes
<1>3. down' \in [Clients -> Seq(Message)]
  <2>1. <<>> \in Seq(Message) /\ down \in [Clients -> Seq(Message)]
    BY <1>1 DEF MessageTypes
  <2> QED
    BY <2>1
<1>4. MessageTypes'
  BY <1>1, <1>3 DEF MessageTypes
<1>5. \A d \in Clients : d # c => Inbox(d)' = Inbox(d)
  BY <1>2 DEF Inbox
<1>6. Inbox(c)' = Inbox(c) \/ Inbox(c)' = log[c]
  <2>1. log[c] \in Seq(Message)
    BY <1>1 DEF MessageTypes
  <2>2. log[c] \o <<>> = log[c]
    BY <2>1
  <2> QED
    BY <1>2, <2>2 DEF Inbox
<1>7. NoGaps'
  <2>1. \A d \in Clients : Consecutive(d, Inbox(d))
    BY <1>1, NoGapsIs
  <2>2. Consecutive(c, log[c])
    <3> PICK s \in Seq(Message), t \in Seq(Message) : s = log[c] /\ t = down[c]
      BY <1>1, InboxType
    <3>1. Consecutive(c, s \o t)
      BY <2>1 DEF Inbox
    <3> QED
      BY <3>1, FirstPart
  <2>3. \A d \in Clients : Consecutive(d, Inbox(d)')
    BY <1>5, <1>6, <2>1, <2>2
  <2>4. NoGaps' <=> \A d \in Clients : Consecutive(d, Inbox(d)')
    BY DEF NoGaps, Consecutive, Later
  <2> QED
    BY <2>3, <2>4
<1>8. ASSUME Running
      PROVE  Moving'
  <2>1. Numbered /\ Broadcasting /\ Fresh /\ UpToDate /\ Delivered
    BY <1>8 DEF Messages, Moving
  <2>2. Numbered' /\ Broadcasting'
    BY <2>1 DEF Numbered, Broadcasting, Processed
  <2>3. Fresh'
    BY <1>2, <2>1 DEF Fresh
  <2>4. \A f \in Fds, d \in Clients : conn[f] = d /\ peer'[d] = "up" =>
          d # c /\ peer[d] = "up" /\ (f \in left <=> f \in left')
    BY <1>2
  <2>5. Delivered'
    BY <1>5, <2>1, <2>4 DEF Delivered
  <2>6. UpToDate'
    <3> SUFFICES ASSUME NEW f \in Fds, NEW a \in Clients, NEW d \in Clients,
                        conn[f] = d, peer'[d] = "up"
                 PROVE  EndsWith(Inbox(d)', a,
                                 IF Pending(f, a)' THEN Processed(a) - 1 ELSE Processed(a))
      BY DEF UpToDate, Inbox, Processed
    <3>1. d # c /\ peer[d] = "up" /\ (Pending(f, a)' <=> Pending(f, a))
      BY <2>4 DEF Pending
    <3> QED
      BY <1>5, <2>1, <3>1 DEF UpToDate
  <2> QED
    BY <2>2, <2>3, <2>5, <2>6 DEF Moving
<1> QED
  BY <1>4, <1>7, <1>8 DEF Messages, Running

LEMMA MessagesConnect ==
  ASSUME IInv, Messages, NEW c \in Clients, connect(c)
  PROVE  Messages'
<1>1. /\ Running /\ peer[c] = "new" /\ peer' = [peer EXCEPT ![c] = "up"]
      /\ backlog' = [backlog EXCEPT ![Listener(c)] = Append(@, c)]
      /\ UNCHANGED <<server, conn, buf, left, up, down, log, sent>>
  BY DEF connect, tables, clients
<1>2. /\ Numbered /\ MessageTypes /\ NoGaps /\ Fresh /\ UpToDate /\ Broadcasting /\ Delivered
      /\ Connected /\ peer \in [Clients -> States] /\ backlog \in [Listeners -> Seq(Clients)]
  BY <1>1 DEF IInv, Messages, Moving, Types
<1>3. peer'[c] = "up" /\ \A d \in Clients : d # c => peer'[d] = peer[d]
  BY <1>1, <1>2
<1>4. log[c] = <<>> /\ down[c] = <<>>
  BY <1>1, <1>2 DEF Fresh
<1>5. \A f \in Fds : conn[f] # c
  BY <1>1, <1>2, ChatAssumption DEF Connected
<1>6. MessageTypes' /\ Numbered' /\ Broadcasting'
  BY <1>1, <1>2 DEF MessageTypes, Numbered, Broadcasting, Processed
<1>7. NoGaps'
  BY <1>1, <1>2, NoGapsStays DEF Inbox
<1>8. Fresh'
  <2> SUFFICES ASSUME NEW d \in Clients, d # c,
                      peer'[d] = "new" \/ (\E l \in Listeners :
                        \E i \in 1 .. Len(backlog'[l]) : backlog'[l][i] = d)
               PROVE  log[d] = <<>> /\ down[d] = <<>>
    BY <1>1, <1>4 DEF Fresh
  <2>1. ASSUME NEW l \in Listeners, NEW i \in 1 .. Len(backlog'[l]), backlog'[l][i] = d
        PROVE  i \in 1 .. Len(backlog[l]) /\ backlog[l][i] = d
    <3>1. CASE l # Listener(c)
      BY <1>1, <1>2, <2>1, <3>1
    <3>2. CASE l = Listener(c)
      <4> PICK s \in Seq(Clients) : s = backlog[l]
        BY <1>2
      <4>1. backlog'[l] = Append(s, c)
        BY <1>1, <1>2, <3>2
      <4>2. /\ Len(s) \in Nat /\ Len(Append(s, c)) = Len(s) + 1
            /\ Append(s, c)[Len(s) + 1] = c
            /\ \A j \in 1 .. Len(s) : Append(s, c)[j] = s[j]
        OBVIOUS
      <4>3. i # Len(s) + 1
        BY <2>1, <4>1, <4>2
      <4> QED
        BY <2>1, <4>1, <4>2, <4>3
    <3> QED
      BY <3>1, <3>2
  <2> QED
    BY <1>2, <1>3, <2>1 DEF Fresh
<1>9. Delivered'
  BY <1>1, <1>2, <1>3, <1>5 DEF Delivered, Inbox
<1>10. UpToDate'
  BY <1>1, <1>2, <1>3, <1>5 DEF UpToDate, Inbox, Pending, Processed
<1> QED
  BY <1>6, <1>7, <1>8, <1>9, <1>10 DEF Messages, Moving

LEMMA MessagesType ==
  ASSUME IInv, Messages, NEW c \in Clients, th_stdin(c)
  PROVE  Messages'
<1>1. /\ Running /\ sent' = [sent EXCEPT ![c] = @ + 1]
      /\ up' = [up EXCEPT ![c] = Append(@, <<c, sent[c] + 1>>)]
      /\ UNCHANGED <<server, conn, buf, left, backlog, peer, down, log>>
  BY DEF th_stdin, tables
<1>2. /\ Numbered /\ MessageTypes /\ NoGaps /\ Fresh /\ UpToDate /\ Broadcasting /\ Delivered
  BY <1>1 DEF Messages, Moving
<1> PICK s \in Seq(Message), k \in Nat : s = up[c] /\ k = sent[c]
  BY <1>2 DEF MessageTypes
<1> PICK j \in Nat : j = k + 1
  OBVIOUS
<1> PICK m \in Message : m = <<c, j>>
  BY DEF Message
<1>3. /\ Len(s) \in Nat /\ Append(s, m) \in Seq(Message) /\ Len(Append(s, m)) = Len(s) + 1
      /\ Append(s, m)[Len(s) + 1] = m
      /\ \A i \in 1 .. Len(s) : Append(s, m)[i] = s[i]
  OBVIOUS
<1>4. /\ up'[c] = Append(s, m) /\ sent'[c] = k + 1 /\ sent' \in [Clients -> Nat]
      /\ up' \in [Clients -> Seq(Message)]
      /\ \A a \in Clients : a # c => up'[a] = up[a] /\ sent'[a] = sent[a]
  BY <1>1, <1>2, <1>3 DEF MessageTypes
<1>5. \A a \in Clients : Processed(a)' = Processed(a)
  <2>1. k + 1 - (Len(s) + 1) = k - Len(s)
    BY <1>3
  <2>2. Processed(c)' = k + 1 - (Len(s) + 1)
    BY <1>3, <1>4 DEF Processed
  <2>3. Processed(c) = k - Len(s)
    BY DEF Processed
  <2>4. \A a \in Clients : a # c => Processed(a)' = Processed(a)
    BY <1>4 DEF Processed
  <2> QED
    BY <2>1, <2>2, <2>3, <2>4
<1>6. MessageTypes'
  BY <1>1, <1>2, <1>4 DEF MessageTypes
<1>7. NoGaps'
  BY <1>1, <1>2, NoGapsStays DEF Inbox
<1>8. Numbered'
  <2> SUFFICES ASSUME NEW a \in Clients
               PROVE  /\ Len(up'[a]) <= sent'[a]
                      /\ \A i \in 1 .. Len(up'[a]) : up'[a][i] = <<a, Processed(a) + i>>
    BY <1>5 DEF Numbered
  <2>1. CASE a # c
    BY <1>2, <1>4, <2>1 DEF Numbered
  <2>2. CASE a = c
    <3>1. Len(s) <= k /\ Processed(c) = k - Len(s)
      BY <1>2 DEF Numbered, Processed
    <3>2. Len(up'[c]) <= sent'[c]
      BY <1>3, <1>4, <3>1
    <3>3. ASSUME NEW i \in 1 .. Len(up'[c]) PROVE up'[c][i] = <<c, Processed(c) + i>>
      <4>1. CASE i \in 1 .. Len(s)
        BY <1>2, <1>3, <1>4, <4>1 DEF Numbered
      <4>2. CASE i = Len(s) + 1
        <5>1. Processed(c) + i = k + 1
          BY <1>3, <3>1, <4>2
        <5> QED
          BY <1>3, <1>4, <4>2, <5>1
      <4> QED
        BY <1>3, <1>4, <4>1, <4>2
    <3> QED
      BY <2>2, <3>2, <3>3
  <2> QED
    BY <2>1, <2>2
<1>9. Broadcasting' /\ Fresh' /\ Delivered'
  BY <1>1, <1>2, <1>5 DEF Broadcasting, Fresh, Delivered, Inbox
<1>10. UpToDate'
  BY <1>1, <1>2, <1>5 DEF UpToDate, Inbox, Pending
<1> QED
  BY <1>6, <1>7, <1>8, <1>9, <1>10 DEF Messages, Moving

LEMMA MessagesPrint ==
  ASSUME IInv, Messages, NEW c \in Clients, receive(c)
  PROVE  Messages'
<1>1. /\ peer[c] = "up" /\ down[c] # <<>>
      /\ log' = [log EXCEPT ![c] = Append(@, Head(down[c]))]
      /\ down' = [down EXCEPT ![c] = Tail(@)]
      /\ UNCHANGED <<server, conn, buf, left, backlog, peer, up, sent>>
  BY DEF receive, tables
<1>2. MessageTypes /\ NoGaps
  BY DEF Messages
<1> PICK s \in Seq(Message), t \in Seq(Message) : s = log[c] /\ t = down[c] /\ t # <<>>
  BY <1>1, <1>2 DEF MessageTypes
<1>3. Append(s, Head(t)) \in Seq(Message) /\ Tail(t) \in Seq(Message)
  OBVIOUS
<1>4. /\ log'[c] = Append(s, Head(t)) /\ down'[c] = Tail(t)
      /\ log' \in [Clients -> Seq(Message)] /\ down' \in [Clients -> Seq(Message)]
      /\ \A d \in Clients : d # c => log'[d] = log[d] /\ down'[d] = down[d]
  BY <1>1, <1>2, <1>3 DEF MessageTypes
<1>5. \A d \in Clients : Inbox(d)' = Inbox(d)
  <2>1. Inbox(c)' = Append(s, Head(t)) \o Tail(t)
    BY <1>4 DEF Inbox
  <2>2. Inbox(c) = s \o t
    BY DEF Inbox
  <2>3. \A d \in Clients : d # c => Inbox(d)' = Inbox(d)
    BY <1>4 DEF Inbox
  <2> QED
    BY <2>1, <2>2, <2>3, Printed
<1>6. MessageTypes'
  BY <1>1, <1>2, <1>4 DEF MessageTypes
<1>7. NoGaps'
  BY <1>2, <1>5, NoGapsStays
<1>8. ASSUME Running
      PROVE  Moving'
  <2>1. Numbered /\ Broadcasting /\ Fresh /\ UpToDate /\ Delivered
    BY <1>8 DEF Messages, Moving
  <2>2. Numbered' /\ Broadcasting'
    BY <1>1, <2>1 DEF Numbered, Broadcasting, Processed
  <2>3. Fresh'
    BY <1>1, <1>4, <2>1 DEF Fresh
  <2>4. Delivered'
    BY <1>1, <1>5, <2>1 DEF Delivered
  <2>5. UpToDate'
    BY <1>1, <1>5, <2>1 DEF UpToDate, Pending, Processed
  <2> QED
    BY <2>2, <2>3, <2>4, <2>5 DEF Moving
<1> QED
  BY <1>1, <1>6, <1>7, <1>8 DEF Messages, Running


LEMMA NextMessages == IInv /\ Messages /\ [Next]_vars => Messages'
<1> SUFFICES ASSUME IInv, Messages, [Next]_vars
             PROVE  Messages'
  OBVIOUS
<1>1. CASE select
  <2>1. Running
    BY <1>1 DEF select, Running
  <2>2. UNCHANGED <<conn, backlog, peer, up, down, log, sent, buf, left>>
    BY <1>1 DEF select, tables, sockets, clients
  <2>3. server' = server \/ (server' # "broadcast" /\ left = {})
    BY <1>1 DEF select
  <2> QED
    BY <2>1, <2>2, <2>3, MessagesStay
<1>2. ASSUME NEW l \in Listeners, handlereg(l) PROVE Messages'
  BY <1>2, MessagesAccept
<1>3. ASSUME NEW fd \in Fds, RecvFails(fd) PROVE Messages'
  BY <1>3, MessagesExit DEF RecvFails
<1>4. ASSUME NEW fd \in Fds, RecvNothing(fd) PROVE Messages'
  BY <1>4, MessagesClose DEF RecvNothing, Turn, Running, sockets, clients
<1>5. ASSUME NEW fd \in Fds, RecvMessage(fd) PROVE Messages'
  BY <1>5, MessagesRecv
<1>6. ASSUME NEW fd \in Fds, SendWhole(fd) PROVE Messages'
  BY <1>6, MessagesSend
<1>7. ASSUME NEW fd \in Fds, SendLost(fd) PROVE Messages'
  <2> PICK state \in {"fin", "epipe"} : peer' = [peer EXCEPT ![conn[fd]] = state]
    BY <1>7 DEF SendLost
  <2> PICK c \in Clients : c = conn[fd]
    BY <1>7, ChatAssumption DEF SendLost
  <2>1. /\ state \in States \ {"new", "up"} /\ peer[c] # "new"
        /\ peer' = [peer EXCEPT ![c] = state] /\ down' = down
        /\ fd \in left /\ left' = left \ {fd}
    BY <1>7 DEF SendLost, SendTo, Next_j, States
  <2>2. UNCHANGED <<server, conn, backlog, up, log, sent, buf>>
    BY <1>7 DEF SendLost, tables, clients
  <2> QED
    BY <2>1, <2>2, MessagesHangUp
<1>8. ASSUME NEW fd \in Fds, SendRefused(fd) PROVE Messages'
  BY <1>8, MessagesClose DEF SendRefused, SendTo, Next_j, Running, sockets, clients
<1>9. ASSUME NEW fd \in Fds, SendKills(fd) PROVE Messages'
  BY <1>9, MessagesExit DEF SendKills
<1>10. CASE BroadcastDone
  BY <1>10, MessagesStay DEF BroadcastDone, Running, tables, sockets, clients
<1>11. CASE quit
  BY <1>11, MessagesExit DEF quit
<1>12. ASSUME NEW c \in Clients, connect(c) PROVE Messages'
  BY <1>12, MessagesConnect
<1>13. ASSUME NEW c \in Clients, th_stdin(c) PROVE Messages'
  BY <1>13, MessagesType
<1>14. ASSUME NEW c \in Clients, receive(c) PROVE Messages'
  BY <1>14, MessagesPrint
<1>15. ASSUME NEW c \in Clients, Leave(c) PROVE Messages'
  <2> PICK state \in {"fin", "rst"} : peer' = [peer EXCEPT ![c] = state]
    BY <1>15 DEF Leave
  <2>1. /\ state \in States \ {"new", "up"} /\ peer[c] # "new" /\ left' = left
        /\ down' = [down EXCEPT ![c] = <<>>]
    BY <1>15 DEF Leave, States
  <2>2. UNCHANGED <<server, conn, backlog, up, log, sent, buf>>
    BY <1>15 DEF Leave, tables, clients
  <2> QED
    BY <2>1, <2>2, MessagesHangUp
<1>16. CASE UNCHANGED vars
  <2>1. UNCHANGED <<server, conn, backlog, peer, up, down, log, sent, buf, left>>
    BY <1>16 DEF vars
  <2>2. MessageTypes'
    BY <2>1 DEF Messages, MessageTypes
  <2>3. NoGaps'
    BY <2>1, NoGapsStays DEF Messages, Inbox
  <2>4. CASE Running
    <3>1. UNCHANGED <<conn, backlog, peer, up, down, log, sent, buf, left>>
      BY <2>1
    <3>2. server' = server \/ (server' # "broadcast" /\ left = {})
      BY <2>1
    <3> QED
      BY <2>4, <3>1, <3>2, MessagesStay
  <2>5. CASE ~Running
    BY <2>1, <2>2, <2>3, <2>5 DEF Messages, Running
  <2> QED
    BY <2>4, <2>5
<1> QED
  BY <1>1, <1>2, <1>3, <1>4, <1>5, <1>6, <1>7, <1>8, <1>9, <1>10, <1>11, <1>12,
     <1>13, <1>14, <1>15, <1>16
     DEF Next, main, handlemsg, Broadcast, Client, Disconnected, Kill

\* The invariant of the messages, for all clients, lines and sizes of buffers.
THEOREM MessagesAlways == Spec => []Messages
<1>1. Init => IInv /\ Messages
  BY InitIInv, MessagesInit
<1>2. IInv /\ Messages /\ [Next]_vars => (IInv /\ Messages)'
  BY NextIInv, NextMessages
<1> QED
  BY <1>1, <1>2, PTL DEF Spec

\* What a client gets of another one has no gap, no repetition and no change of
\* order, and it gets nothing of itself (server.c 107-109), whoever connects,
\* dies or is slow.
THEOREM RunsOfMessages == Spec => []NoGaps
<1>1. Messages => NoGaps
  BY DEF Messages
<1> QED
  BY <1>1, MessagesAlways, PTL

\* Whoever has got a message of a client has got every message the server has
\* taken from that client since, but for the one it is just sending, and that
\* one only as long as his descriptor is ahead (server.c 96-115).
THEOREM NobodyBehind == Spec => [](Running => UpToDate)
<1>1. Messages => (Running => UpToDate)
  BY DEF Messages, Moving
<1> QED
  BY <1>1, MessagesAlways, PTL

\* When a broadcast is over, everyone who is connected but its sender has the
\* message last in what was sent to it (server.c 100-115).
THEOREM BroadcastReaches == Spec => EveryoneElse
<1> DEFINE A == BroadcastDone =>
                  \A fd \in master \ Listeners :
                    conn[fd] # buf[1] /\ peer[conn[fd]] = "up"
                      => Inbox(conn[fd]) # <<>> /\ buf = Inbox(conn[fd])[Len(Inbox(conn[fd]))]
<1>1. IInv /\ Messages /\ [Next]_vars => [A]_vars
  <2> SUFFICES ASSUME IInv, Messages, BroadcastDone, NEW fd \in master \ Listeners,
                      conn[fd] # buf[1], peer[conn[fd]] = "up"
               PROVE  Inbox(conn[fd]) # <<>> /\ buf = Inbox(conn[fd])[Len(Inbox(conn[fd]))]
    OBVIOUS
  <2>1. server = "broadcast" /\ left = {} /\ Delivered /\ Selected
    BY DEF BroadcastDone, Messages, Moving, IInv, Running
  <2>2. fd \in Fds /\ conn[fd] \in Clients
    BY <2>1 DEF Selected, IInv, Types
  <2> QED
    BY <2>1, <2>2 DEF Delivered
<1>2. EveryoneElse <=> [][A]_vars
  BY DEF EveryoneElse
<1> HIDE DEF A
<1>3. Spec => []IInv /\ []Messages /\ [][Next]_vars
  BY Invariance, MessagesAlways, PTL DEF Spec
<1> QED
  BY <1>1, <1>2, <1>3, PTL

=============================================================================
