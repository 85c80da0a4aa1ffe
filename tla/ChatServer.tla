------------------------------ MODULE ChatServer ------------------------------
(***************************************************************************)
(* cw10/zad2: a chat server that selects over two listening sockets and    *)
(* the connections accepted from them, and sends every message it receives *)
(* to the other connections.  A client is two threads on one socket: one   *)
(* sends the lines of its standard input, the other prints what arrives.   *)
(***************************************************************************)
EXTENDS Integers, Sequences, FiniteSets, FiniteSetsExt

CONSTANTS
  Clients,   \* the clients; each connects once
  Inet,      \* those that connect over the internet socket
  Mortals,   \* those that may be killed
  Typists,   \* those with lines on their standard input
  LINES,     \* how many each of them has (bound)
  CAP,       \* messages that fit in a socket buffer (bound)
  Nobody     \* the peer of a descriptor that is not open

ASSUME ChatAssumption ==
  /\ IsFiniteSet(Clients)
  /\ Inet \subseteq Clients /\ Mortals \subseteq Clients /\ Typists \subseteq Clients
  /\ LINES \in Nat /\ CAP \in Nat \ {0} /\ Nobody \notin Clients

VARIABLES
  server,    \* "loop", "broadcast", or how it ended: "quit", "failed", "killed"
  master,    \* the descriptors that are selected
  conn,      \* who is behind each descriptor
  biggest,
  readfds,   \* descriptors of this pass still to be looked at
  buf,       \* the message that is being broadcast
  left,      \* descriptors the broadcast loop has not reached
  backlog,   \* connections to accept, per listening socket
  peer,      \* state of each client's end of its connection
  up, down,  \* messages in the socket buffers, to and from the server
  log,       \* what each client has printed
  sent       \* lines each client has sent

vars == <<server, master, conn, biggest, readfds, buf, left, backlog, peer,
          up, down, log, sent>>

inetfd == 3
unixfd == 4
Listeners == {inetfd, unixfd}
Fds == 5 .. 4 + Cardinality(Clients)
Listener(c) == IF c \in Inet THEN inetfd ELSE unixfd

\* How a connection looks from the server (peer): "new", the client has not
\* called connect; "up"; "fin" or "rst", the client is gone and had read all or
\* not all it was sent; "epipe", it has answered a later segment with a reset.

Running == server \in {"loop", "broadcast"}

Init ==
  /\ server = "loop"
  /\ master = Listeners
  /\ conn = [fd \in Fds |-> Nobody]
  /\ biggest = Max(Listeners)
  /\ readfds = {}
  /\ buf = <<>>
  /\ left = {}
  /\ backlog = [l \in Listeners |-> <<>>]
  /\ peer = [c \in Clients |-> "new"]
  /\ up = [c \in Clients |-> <<>>]
  /\ down = [c \in Clients |-> <<>>]
  /\ log = [c \in Clients |-> <<>>]
  /\ sent = [c \in Clients |-> 0]

clients  == <<log, sent>>
sockets  == <<peer, up, down>>
tables   == <<master, conn, biggest>>

---------------------------------------------------------------------------
\* The server.

Readable(fd) ==
  IF fd \in Listeners
    THEN backlog[fd] # <<>>
    ELSE up[conn[fd]] # <<>> \/ peer[conn[fd]] # "up"

\* A pass of select that times out changes nothing and is not modelled.
select ==
  /\ server = "loop" /\ readfds = {}
  /\ \E fd \in master : Readable(fd)
  /\ readfds' = {fd \in master : Readable(fd)}
  /\ UNCHANGED <<server, tables, buf, left, backlog, sockets, clients>>

\* The process is gone, with its descriptors and what they had not delivered.
Exit(how) ==
  /\ server' = how
  /\ master' = {} /\ biggest' = Max(Listeners)
  /\ conn' = [fd \in Fds |-> Nobody]
  /\ readfds' = {} /\ left' = {} /\ buf' = <<>>
  /\ backlog' = [l \in Listeners |-> <<>>]
  /\ up' = [c \in Clients |-> <<>>]
  /\ UNCHANGED <<peer, down, clients>>

\* The loop over i: the lowest descriptor of the set that is left.
Turn(fd) == server = "loop" /\ fd \in readfds /\ fd = Min(readfds)

Taken(fd) == readfds' = readfds \ {fd}

\* accept returns the lowest descriptor that is free.
Accepted == Min({fd \in Fds : conn[fd] = Nobody})

Watch(fd) ==
  /\ master' = master \cup {fd}
  /\ biggest' = Max({biggest, fd})

handlereg(l) ==
  /\ Turn(l) /\ Taken(l)
  /\ conn' = [conn EXCEPT ![Accepted] = Head(backlog[l])]
  /\ backlog' = [backlog EXCEPT ![l] = Tail(@)]
  /\ Watch(Accepted)
  /\ UNCHANGED <<server, buf, left, sockets, clients>>

Close_KeepsBit(fd) == conn' = [conn EXCEPT ![fd] = Nobody] /\ UNCHANGED master

\* close and FD_CLR.
Close(fd) ==
  /\ conn' = [conn EXCEPT ![fd] = Nobody]
  /\ master' = master \ {fd}

Others_WithSender(fd) == master \ Listeners
Others_OffByOne(fd) == {k \in master \ (Listeners \cup {fd}) : k < biggest}

\* The descriptors the loop over j sends to.
Others(fd) == {k \in master \ (Listeners \cup {fd}) : k <= biggest}

\* recv on a descriptor that a broadcast of the same pass has closed, or on a
\* connection that was reset: error().
RecvFails(fd) ==
  /\ Turn(fd)
  /\ \/ conn[fd] = Nobody
     \/ conn[fd] # Nobody /\ up[conn[fd]] = <<>> /\ peer[conn[fd]] = "rst"
  /\ Exit("failed")

RecvNothing(fd) ==
  /\ Turn(fd) /\ Taken(fd)
  /\ conn[fd] # Nobody
  /\ up[conn[fd]] = <<>> /\ peer[conn[fd]] # "rst"
  /\ Close(fd)
  /\ UNCHANGED <<server, biggest, buf, left, backlog, sockets, clients>>

RecvMessage(fd) ==
  /\ Turn(fd) /\ Taken(fd)
  /\ conn[fd] # Nobody
  /\ up[conn[fd]] # <<>>
  /\ buf' = Head(up[conn[fd]])
  /\ up' = [up EXCEPT ![conn[fd]] = Tail(@)]
  /\ left' = Others(fd)
  /\ server' = "broadcast"
  /\ UNCHANGED <<tables, backlog, peer, down, clients>>

handlemsg(fd) == RecvFails(fd) \/ RecvNothing(fd) \/ RecvMessage(fd)

Next_j(fd) == server = "broadcast" /\ fd \in left /\ fd = Min(left)

SendTo(fd) == Next_j(fd) /\ left' = left \ {fd}

\* send blocks while the buffer is full.
SendWhole(fd) ==
  /\ SendTo(fd)
  /\ peer[conn[fd]] = "up" /\ Len(down[conn[fd]]) < CAP
  /\ down' = [down EXCEPT ![conn[fd]] = Append(@, buf)]
  /\ UNCHANGED <<server, tables, readfds, buf, backlog, peer, up, clients>>

\* The first segment after a client has closed is taken, and answered by a
\* reset that may come before or after the next send.
SendLost(fd) ==
  /\ SendTo(fd)
  /\ peer[conn[fd]] = "fin" /\ conn[fd] \in Inet
  /\ \E state \in {"fin", "epipe"} : peer' = [peer EXCEPT ![conn[fd]] = state]
  /\ UNCHANGED <<server, tables, readfds, buf, backlog, up, down, clients>>

\* ECONNRESET: the one error of send that comes without a signal.
SendRefused(fd) ==
  /\ SendTo(fd)
  /\ peer[conn[fd]] = "rst" /\ conn[fd] \in Inet
  /\ Close(fd)
  /\ UNCHANGED <<server, biggest, readfds, buf, backlog, sockets, clients>>

\* EPIPE raises SIGPIPE, which the server leaves at its default.
SendKills(fd) ==
  /\ Next_j(fd)
  /\ \/ peer[conn[fd]] = "epipe"
     \/ peer[conn[fd]] \in {"fin", "rst"} /\ conn[fd] \notin Inet
  /\ Exit("killed")

Broadcast(fd) == SendWhole(fd) \/ SendLost(fd) \/ SendRefused(fd) \/ SendKills(fd)

BroadcastDone ==
  /\ server = "broadcast" /\ left = {}
  /\ server' = "loop"
  /\ UNCHANGED <<tables, readfds, buf, left, backlog, sockets, clients>>

\* SIGINT.
quit ==
  /\ Running
  /\ Exit("quit")

---------------------------------------------------------------------------
\* A client.

connect(c) ==
  /\ Running /\ peer[c] = "new"
  /\ peer' = [peer EXCEPT ![c] = "up"]
  /\ backlog' = [backlog EXCEPT ![Listener(c)] = Append(@, c)]
  /\ UNCHANGED <<server, tables, readfds, buf, left, up, down, clients>>

Typing(c) == c \in Typists /\ sent[c] < LINES

th_stdin(c) ==
  /\ Running /\ peer[c] = "up"
  /\ Typing(c) /\ Len(up[c]) < CAP
  /\ sent' = [sent EXCEPT ![c] = @ + 1]
  /\ up' = [up EXCEPT ![c] = Append(@, <<c, sent[c] + 1>>)]
  /\ UNCHANGED <<server, tables, readfds, buf, left, backlog, peer, down, log>>

receive_AfterSending(c) ==
  /\ peer[c] = "up" /\ down[c] # <<>> /\ ~Typing(c)
  /\ log' = [log EXCEPT ![c] = Append(@, Head(down[c]))]
  /\ down' = [down EXCEPT ![c] = Tail(@)]
  /\ UNCHANGED <<server, tables, readfds, buf, left, backlog, peer, up, sent>>

\* The loop of the main thread.
receive(c) ==
  /\ peer[c] = "up" /\ down[c] # <<>>
  /\ log' = [log EXCEPT ![c] = Append(@, Head(down[c]))]
  /\ down' = [down EXCEPT ![c] = Tail(@)]
  /\ UNCHANGED <<server, tables, readfds, buf, left, backlog, peer, up, sent>>

Leave(c) ==
  /\ peer[c] = "up"
  /\ peer' = [peer EXCEPT ![c] = IF down[c] = <<>> THEN "fin" ELSE "rst"]
  /\ down' = [down EXCEPT ![c] = <<>>]
  /\ UNCHANGED <<server, tables, readfds, buf, left, backlog, up, clients>>

\* recv returns 0 once everything is read; send fails at once.
Disconnected(c) ==
  /\ ~Running
  /\ down[c] = <<>> \/ Typing(c)
  /\ Leave(c)

Kill(c) == c \in Mortals /\ Running /\ Leave(c)

Over == ~Running /\ \A c \in Clients : peer[c] # "up"

---------------------------------------------------------------------------

main ==
  \/ select
  \/ \E l \in Listeners : handlereg(l)
  \/ \E fd \in Fds : handlemsg(fd) \/ Broadcast(fd)
  \/ BroadcastDone

Client(c) ==
  connect(c) \/ th_stdin(c) \/ receive(c) \/ Disconnected(c) \/ Kill(c)

Next ==
  \/ main
  \/ quit
  \/ \E c \in Clients : Client(c)
  \/ Over /\ UNCHANGED vars

\* The server's loop goes on while it is not blocked, and every client's main
\* thread goes on receiving; nobody has to connect, to type or to die.
Fairness == WF_vars(main) /\ \A c \in Clients : WF_vars(receive(c))

Spec == Init /\ [][Next]_vars /\ Fairness

---------------------------------------------------------------------------

\* The descriptors that are selected are exactly the sockets that are open, and
\* none is above the bound of the server's loops (server.c 88-89, 101-102,
\* 112-113): a closed one would make select fail, a missing one is never served.
FdSetsRight ==
  Running =>
    /\ master = Listeners \cup {fd \in Fds : conn[fd] # Nobody}
    /\ \A fd \in master : fd <= biggest
    /\ \A c \in Clients : Cardinality({fd \in Fds : conn[fd] = c}) <= 1

Inbox(c) == log[c] \o down[c]

\* What a client gets of another one is a run of consecutive messages in the
\* order they were typed, each once, and it gets none of its own
\* (server.c 107-109), whoever else comes, goes or is slow.
NoGaps ==
  \A c \in Clients :
    /\ \A m \in 1 .. Len(Inbox(c)) : Inbox(c)[m][1] # c
    /\ \A m, n \in 1 .. Len(Inbox(c)) :
         LET next == {k \in m + 1 .. n : Inbox(c)[k][1] = Inbox(c)[m][1]}
         IN  n \in next => Inbox(c)[n][2] = Inbox(c)[m][2] + Cardinality(next)

\* When a broadcast ends, everyone who is connected, the sender apart, has the
\* message last in what was sent to it: "broadcast to everyone else".
EveryoneElse ==
  [][BroadcastDone =>
       \A fd \in master \ Listeners :
         conn[fd] # buf[1] /\ peer[conn[fd]] = "up"
           => Inbox(conn[fd]) # <<>> /\ buf = Inbox(conn[fd])[Len(Inbox(conn[fd]))]]_vars

\* A message a client has sent is taken by the server, unless one of them ends:
\* no circle of full buffers stops the server and the clients for ever, since
\* each client receives on a thread of its own.
MessagesMove ==
  \A c \in Typists : up[c] # <<>> ~> up[c] = <<>> \/ peer[c] # "up" \/ ~Running

\* A client whose connection fails a send is dropped ("disconnected",
\* server.c 110-113) and the server serves the others on.
DisconnectOnlyDrops == server # "killed"

=============================================================================
