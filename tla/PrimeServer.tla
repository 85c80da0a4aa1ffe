------------------------------ MODULE PrimeServer ------------------------------
(***************************************************************************)
(* cw06/zad1: a server hands out numbers over System V message queues and  *)
(* clients report which of them are prime.  A client registers with the    *)
(* id of a private queue (type 1), and from then on asks for a number      *)
(* (type 2) and reports on it (type 3), each time it has been answered.    *)
(***************************************************************************)
EXTENDS Integers, Sequences, FiniteSets

CONSTANTS
  Clients,    \* client processes; each runs once
  QUEUE,      \* messages that fit in a queue (409 of 40 bytes by default)
  RESTARTS    \* server queues that are made (bound)

\* client_queues has 100 entries and is not checked.
ASSUME PrimeAssumption ==
  /\ IsFiniteSet(Clients) /\ Cardinality(Clients) <= 100
  /\ QUEUE \in Nat \ {0} /\ RESTARTS \in Nat

VARIABLES
  server,         \* "off", "drain" (line 39), "loop", "replying" (a blocked send)
  exists,         \* there is a queue under the server's key
  server_queue,   \* the id of the last one made
  requests,       \* its messages
  client_queues,  \* the server's table
  reply,          \* the reply being sent, <<>> if there is none
  pc,             \* where each client is
  attached,       \* the server_queue of each client
  own,            \* the clients whose client_queue exists
  replies,        \* the messages of each client_queue
  client_id       \* of each client

vars == <<server, exists, server_queue, requests, client_queues, reply,
          pc, attached, own, replies, client_id>>

serverVars == <<server, exists, server_queue, client_queues, reply>>
clientVars == <<pc, attached, own, client_id>>

None == -1

\* One key, and nobody has used it yet.  Ids are numbered in the order of
\* their making: the first queue of a system has id 0.
Init ==
  /\ server = "off"
  /\ exists = FALSE
  /\ server_queue = None
  /\ requests = <<>>
  /\ client_queues = <<>>
  /\ reply = <<>>
  /\ pc = [c \in Clients |-> "off"]
  /\ attached = [c \in Clients |-> None]
  /\ own = {}
  /\ replies = [c \in Clients |-> <<>>]
  /\ client_id = [c \in Clients |-> None]

---------------------------------------------------------------------------
\* The server.

\* msgget with IPC_EXCL: a queue that is there already ends the new server.
Open ==
  /\ server = "off" /\ ~exists /\ server_queue < RESTARTS
  /\ server' = "drain"
  /\ exists' = TRUE
  /\ server_queue' = server_queue + 1
  /\ client_queues' = <<>>
  /\ UNCHANGED <<requests, reply, clientVars, replies>>

\* Whatever came before the server is ready is thrown away.
Drain ==
  /\ server = "drain"
  /\ IF exists /\ requests # <<>>
       THEN requests' = Tail(requests) /\ UNCHANGED server
       ELSE server' = "loop" /\ UNCHANGED requests
  /\ UNCHANGED <<exists, server_queue, client_queues, reply, clientVars, replies>>

Assigned_PreIncrement == Len(client_queues) + 1

\* client_id, counted from 0.
Assigned == Len(client_queues)

Receive ==
  /\ server = "loop" /\ exists /\ requests # <<>>
  /\ requests' = Tail(requests)
  /\ server' = "replying"
  /\ LET buf == Head(requests)
     IN  IF buf.type = 1
           THEN /\ client_queues' = Append(client_queues, buf.queue)
                /\ reply' = [type |-> 1, to |-> buf.queue, id |-> Assigned]
           ELSE /\ reply' = [type |-> buf.type, to |-> client_queues[buf.id + 1]]
                /\ UNCHANGED client_queues
  /\ UNCHANGED <<exists, server_queue, clientVars, replies>>

Answer_Again ==
  /\ server = "replying" /\ reply.to \in own
  /\ Len(replies[reply.to]) < QUEUE
  /\ replies' = [replies EXCEPT ![reply.to] = Append(@, reply)]
  /\ UNCHANGED <<server, reply, exists, server_queue, requests, client_queues, clientVars>>

Answer ==
  /\ server = "replying" /\ reply.to \in own
  /\ Len(replies[reply.to]) < QUEUE
  /\ replies' = [replies EXCEPT ![reply.to] = Append(@, reply)]
  /\ reply' = <<>>
  /\ server' = "loop"
  /\ UNCHANGED <<exists, server_queue, requests, client_queues, clientVars>>

\* The queue of a client is gone: the server ends if that was a registration,
\* and leaves its own queue behind.
AnswerFails ==
  /\ server = "replying" /\ reply.to \notin own
  /\ server' = IF reply.type = 1 THEN "off" ELSE "loop"
  /\ reply' = <<>>
  /\ UNCHANGED <<exists, server_queue, requests, client_queues, clientVars, replies>>

\* signalHandler: the queue goes with the server.
Interrupt ==
  /\ server # "off"
  /\ server' = "off"
  /\ exists' = FALSE /\ requests' = <<>> /\ reply' = <<>>
  /\ UNCHANGED <<server_queue, client_queues, clientVars, replies>>

---------------------------------------------------------------------------
\* A client.

At(c, from, to) == pc[c] = from /\ pc' = [pc EXCEPT ![c] = to]

Attach(c) ==
  /\ At(c, "off", "attached")
  /\ attached' = [attached EXCEPT ![c] = IF exists THEN server_queue ELSE None]
  /\ UNCHANGED <<serverVars, requests, own, replies, client_id>>

CreateQueue(c) ==
  /\ At(c, "attached", "register")
  /\ own' = own \cup {c}
  /\ UNCHANGED <<serverVars, requests, attached, replies, client_id>>

Connected(c) == exists /\ attached[c] = server_queue

\* msgsnd waits for room.  A client that waits has taken its reply in the
\* code, and has not in the model; nothing else looks at it.
Send(c, buf) ==
  /\ Len(requests) < QUEUE
  /\ requests' = Append(requests, buf)

\* A send to a queue that was removed fails, and later ones are not looked at.
SendOrNot(c, buf) ==
  IF Connected(c) THEN Send(c, buf) ELSE UNCHANGED requests

Register(c) ==
  /\ Connected(c)
  /\ At(c, "register", "loop")
  /\ Send(c, [type |-> 1, queue |-> c])
  /\ UNCHANGED <<serverVars, attached, own, replies, client_id>>

\* The client ends and leaves its queue behind.
RegisterFails(c) ==
  /\ ~Connected(c)
  /\ At(c, "register", "gone")
  /\ UNCHANGED <<serverVars, requests, attached, own, replies, client_id>>

Got(c, type) ==
  /\ pc[c] = "loop" /\ c \in own /\ replies[c] # <<>>
  /\ Head(replies[c]).type = type
  /\ replies' = [replies EXCEPT ![c] = Tail(@)]

OnId(c) ==
  /\ Got(c, 1)
  /\ client_id' = [client_id EXCEPT ![c] = Head(replies[c]).id]
  /\ SendOrNot(c, [type |-> 2, id |-> client_id'[c]])
  /\ UNCHANGED <<serverVars, pc, attached, own>>

\* Whether the number is prime is not modelled.
OnNumber(c) ==
  /\ Got(c, 2)
  /\ SendOrNot(c, [type |-> 3, id |-> client_id[c]])
  /\ UNCHANGED <<serverVars, clientVars>>

OnReceipt_Silent(c) ==
  /\ Got(c, 3)
  /\ UNCHANGED <<serverVars, requests, clientVars>>

OnReceipt(c) ==
  /\ Got(c, 3)
  /\ SendOrNot(c, [type |-> 2, id |-> client_id[c]])
  /\ UNCHANGED <<serverVars, clientVars>>

\* signalHandler.  client_queue is 0 until line 51, and 0 is the id of the
\* first queue of the system.
InterruptClient(c) ==
  /\ pc[c] \notin {"off", "gone"}
  /\ pc' = [pc EXCEPT ![c] = "gone"]
  /\ own' = own \ {c}
  /\ replies' = [replies EXCEPT ![c] = <<>>]
  /\ IF pc[c] = "attached" /\ exists /\ server_queue = 0
       THEN exists' = FALSE /\ requests' = <<>>
       ELSE UNCHANGED <<exists, requests>>
  /\ UNCHANGED <<server, server_queue, client_queues, reply, attached, client_id>>

---------------------------------------------------------------------------

main == Drain \/ Receive \/ Answer \/ AnswerFails

Loop(c) == OnId(c) \/ OnNumber(c) \/ OnReceipt(c)

\* Nobody is left; what they left behind stays.
Over == server = "off" /\ \A c \in Clients : pc[c] = "gone"

Next ==
  \/ Open \/ main \/ Interrupt
  \/ \E c \in Clients :
       \/ Attach(c) \/ CreateQueue(c) \/ Register(c) \/ RegisterFails(c)
       \/ Loop(c) \/ InterruptClient(c)
  \/ Over /\ UNCHANGED vars

\* Processes run.  Who gets the room that several clients wait for is open.
Fairness ==
  /\ WF_vars(main)
  /\ \A c \in Clients : WF_vars(Loop(c))

Spec == Init /\ [][Next]_vars /\ Fairness

---------------------------------------------------------------------------

\* What a client believes and what the server of its queue has in its table
\* agree, whoever registered, died or was restarted in between: the id a client
\* was given is the index of its own queue (server.c 47-51, client.c 69), and
\* so is the id in any request, so that nobody gets the answer of another.
IdsAgree ==
  \A c \in Clients :
    /\ Connected(c) /\ client_id[c] # None
         => /\ client_id[c] < Len(client_queues)
            /\ client_queues[client_id[c] + 1] = c
    /\ \A n \in 1 .. Len(requests) :
         requests[n].type # 1 =>
           LET id == requests[n].id + 1
           IN  id \in DOMAIN client_queues /\ client_id[client_queues[id]] = id - 1

About(buf, c) == IF buf.type = 1 THEN buf.queue = c ELSE client_queues[buf.id + 1] = c

\* The messages of a client that are on their way, in either direction.
InFlight(c) ==
  Cardinality({n \in 1 .. Len(requests) : About(requests[n], c)})
    + Len(replies[c])
    + IF reply # <<>> /\ reply.to = c THEN 1 ELSE 0

\* A client never has two messages on their way: each waits for the answer to
\* the one before, so its own queue never fills and the server's holds at most
\* one message a client (the sends of both sides could otherwise wait for
\* each other for ever).
OneInFlight == \A c \in Clients : InFlight(c) <= 1

\* Clients that have their id and whose server has not left them.
Working == {c \in Clients : pc[c] = "loop" /\ client_id[c] # None /\ Connected(c)}

\* While such clients are there, numbers are handed out for ever: whatever
\* queues are full and whoever dies, server and clients never all wait for
\* each other.
KeepsWorking ==
  Working # {} ~>
    \/ reply # <<>> /\ reply.type = 2
    \/ Working = {} \/ server = "off"

=============================================================================
