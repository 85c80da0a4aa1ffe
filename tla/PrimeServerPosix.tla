--------------------------- MODULE PrimeServerPosix ---------------------------
(***************************************************************************)
(* cw06/zad2: the server and the clients of cw06/zad1 over POSIX message   *)
(* queues.  Every queue is non-blocking and holds MAXMSG messages, what    *)
(* mq_send returns is often not looked at, and /server outlives its server.*)
(***************************************************************************)
EXTENDS Integers, Sequences, FiniteSets, Functions

CONSTANTS
  Clients,    \* client processes; each runs once
  Names,      \* names of client queues: one for each second a client starts in
  MAXMSG,     \* mq_maxmsg (10)
  RUNS        \* servers that are started (bound)

\* What is in client_names where no client is; a name starts with a slash.
NoName == "none"

\* client_names has 100 entries and is not checked.
ASSUME PosixAssumption ==
  /\ IsFiniteSet(Clients) /\ Cardinality(Clients) <= 100
  /\ NoName \notin Names
  /\ MAXMSG \in Nat \ {0} /\ RUNS \in Nat

VARIABLES
  server,        \* "off", "drain" and "stale" (line 39), "first" and "loop":
                 \* line 43, with buf not wiped yet and with buf wiped
  runs,          \* servers started so far
  inbox,         \* the messages of /server
  client_names,  \* the server's table
  pc,            \* where each client is
  server_queue,  \* the clients that could open /server
  client_name,   \* of each client
  linked,        \* the client queues that exist
  used,          \* the names that have been in use: a second does not come back
  box,           \* the messages of each client queue
  client_id      \* of each client, 0 before it is known

vars == <<server, runs, inbox, client_names, pc, server_queue, client_name,
          linked, used, box, client_id>>

serverVars == <<server, runs, client_names>>
clientVars == <<pc, server_queue, client_name, linked, used, client_id>>

Init ==
  /\ server = "off"
  /\ runs = 0
  /\ inbox = <<>>
  /\ client_names = <<>>
  /\ pc = [c \in Clients |-> "off"]
  /\ server_queue = {}
  /\ client_name = [c \in Clients |-> NoName]
  /\ linked = {}
  /\ used = {}
  /\ box = [n \in Names |-> <<>>]
  /\ client_id = [c \in Clients |-> 0]

---------------------------------------------------------------------------
\* The server.

Open ==
  /\ server = "off" /\ runs < RUNS
  /\ server' = "drain"
  /\ runs' = runs + 1
  /\ client_names' = <<>>
  /\ UNCHANGED <<inbox, clientVars, box>>

\* A long message that is drained leaves its tail in buf until line 100.
Drain ==
  /\ server \in {"drain", "stale"} /\ inbox # <<>>
  /\ server' = IF Head(inbox).type = 2 THEN server ELSE "stale"
  /\ inbox' = Tail(inbox)
  /\ UNCHANGED <<runs, client_names, clientVars, box>>

Drained ==
  /\ server \in {"drain", "stale"} /\ inbox = <<>>
  /\ server' = IF server = "stale" THEN "first" ELSE "loop"
  /\ UNCHANGED <<runs, inbox, client_names, clientVars, box>>

\* A pass of the loop that receives nothing.
Wipe ==
  /\ server = "first" /\ inbox = <<>>
  /\ server' = "loop"
  /\ UNCHANGED <<runs, inbox, client_names, clientVars, box>>

\* Clients do not send the NUL that ends a string: on top of a longer message
\* a name or an id reads on into what was there, and leads to no queue.
Garbled ==
  /\ server = "first" /\ inbox # <<>> /\ Head(inbox).type # 3
  /\ server' = "off"
  /\ inbox' = Tail(inbox)
  /\ UNCHANGED <<runs, client_names, clientVars, box>>

Takes(type) ==
  /\ server \in {"first", "loop"} /\ inbox # <<>>
  /\ Head(inbox).type = type
  /\ inbox' = Tail(inbox)

Reachable(name) == name \in linked /\ Len(box[name]) < MAXMSG

Reply(name, buf) == box' = [box EXCEPT ![name] = Append(@, buf)]

ServeRegistration ==
  /\ Takes(1)
  /\ LET name == Head(inbox).name
     IN  /\ client_names' = Append(client_names, name)
         /\ IF Reachable(name)
              THEN /\ Reply(name, [type |-> 1, id |-> Len(client_names)])
                   /\ server' = "loop"
              ELSE server' = "off" /\ UNCHANGED box
  /\ UNCHANGED <<runs, clientVars>>

\* The entries beyond the last client are empty names.
NameOf_FromOne(id) == IF id \in DOMAIN client_names THEN client_names[id] ELSE NoName

NameOf(id) == IF id < Len(client_names) THEN client_names[id + 1] ELSE NoName

ServeRequest ==
  /\ Takes(2)
  /\ LET name == NameOf(Head(inbox).id)
     IN  IF Reachable(name)
           THEN Reply(name, [type |-> 2]) /\ server' = "loop"
           ELSE server' = "off" /\ UNCHANGED box
  /\ UNCHANGED <<runs, client_names, clientVars>>

ServeReport_OnlyPrimes ==
  /\ Takes(3)
  /\ LET name == NameOf(Head(inbox).id)
     IN  IF Reachable(name) THEN Reply(name, [type |-> 3]) \/ UNCHANGED box ELSE UNCHANGED box
  /\ server' = "loop"
  /\ UNCHANGED <<runs, client_names, clientVars>>

ServeReport ==
  /\ Takes(3)
  /\ LET name == NameOf(Head(inbox).id)
     IN  IF Reachable(name) THEN Reply(name, [type |-> 3]) ELSE UNCHANGED box
  /\ server' = "loop"
  /\ UNCHANGED <<runs, client_names, clientVars>>

\* signalHandler closes the global server_queue, which main has not set:
\* /server stays, with its messages.
Interrupt ==
  /\ server # "off"
  /\ server' = "off"
  /\ UNCHANGED <<runs, inbox, client_names, clientVars, box>>

---------------------------------------------------------------------------
\* A client.

At(c, from, to) == pc[c] = from /\ pc' = [pc EXCEPT ![c] = to]

\* Clients that start in the same second draw the same name, and share a queue;
\* that one of them makes it again after another has unlinked it is left out.
Connect(c) ==
  /\ At(c, "off", "register")
  /\ server_queue' = IF runs > 0 THEN server_queue \cup {c} ELSE server_queue
  /\ \E n \in Names \ (used \ linked) :
       /\ client_name' = [client_name EXCEPT ![c] = n]
       /\ linked' = linked \cup {n}
       /\ used' = used \cup {n}
  /\ UNCHANGED <<serverVars, inbox, box, client_id>>

CanSend(c) == c \in server_queue /\ Len(inbox) < MAXMSG

\* mq_send to a full queue fails, and the message is lost.
SendOrLose(c, buf) == inbox' = IF CanSend(c) THEN Append(inbox, buf) ELSE inbox

Register(c) ==
  /\ CanSend(c)
  /\ At(c, "register", "loop")
  /\ SendOrLose(c, [type |-> 1, name |-> client_name[c]])
  /\ UNCHANGED <<serverVars, server_queue, client_name, linked, used, box, client_id>>

\* The client ends and leaves its queue behind.
RegisterFails(c) ==
  /\ ~CanSend(c)
  /\ At(c, "register", "left")
  /\ UNCHANGED <<serverVars, inbox, server_queue, client_name, linked, used, box, client_id>>

Got(c, type) ==
  /\ pc[c] = "loop" /\ box[client_name[c]] # <<>>
  /\ Head(box[client_name[c]]).type = type
  /\ box' = [box EXCEPT ![client_name[c]] = Tail(@)]

OnId(c) ==
  /\ Got(c, 1)
  /\ client_id' = [client_id EXCEPT ![c] = Head(box[client_name[c]]).id]
  /\ SendOrLose(c, [type |-> 2, id |-> client_id'[c]])
  /\ UNCHANGED <<serverVars, pc, server_queue, client_name, linked, used>>

\* Whether the number is prime is not modelled.
OnNumber(c) ==
  /\ Got(c, 2)
  /\ SendOrLose(c, [type |-> 3, id |-> client_id[c]])
  /\ UNCHANGED <<serverVars, clientVars>>

OnReceipt(c) ==
  /\ Got(c, 3)
  /\ SendOrLose(c, [type |-> 2, id |-> client_id[c]])
  /\ UNCHANGED <<serverVars, clientVars>>

\* signalHandler.
InterruptClient(c) ==
  /\ pc[c] \notin {"off", "left"}
  /\ pc' = [pc EXCEPT ![c] = "left"]
  /\ linked' = linked \ {client_name[c]}
  /\ UNCHANGED <<serverVars, inbox, server_queue, client_name, used, box, client_id>>

\* No server and no client is left to run within the bounds.
Over == server = "off" /\ runs = RUNS /\ \A c \in Clients : pc[c] \in {"off", "left"}

---------------------------------------------------------------------------

main ==
  Drain \/ Drained \/ Wipe \/ Garbled
    \/ ServeRegistration \/ ServeRequest \/ ServeReport

Loop(c) == OnId(c) \/ OnNumber(c) \/ OnReceipt(c)

Next ==
  \/ Open \/ main \/ Interrupt
  \/ \E c \in Clients :
       \/ Connect(c) \/ Register(c) \/ RegisterFails(c)
       \/ Loop(c) \/ InterruptClient(c)
  \/ Over /\ UNCHANGED vars

Spec == Init /\ [][Next]_vars

---------------------------------------------------------------------------

\* The clients that have registered and go on, and those among them that
\* something still comes for: a client acts only on the message it gets.
Working == {c \in Clients : pc[c] = "loop"}

Sender(m) == IF m.type = 1 THEN m.name ELSE NameOf(m.id)

GoOn ==
  {c \in Working : \/ box[client_name[c]] # <<>>
                   \/ \E k \in DOMAIN inbox : Sender(inbox[k]) = client_name[c]}

\* Clients that have lost their queue, to their own end or to that of another
\* client with the same name.
Lost == {c \in Clients : pc[c] \in {"loop", "left"} /\ client_name[c] \notin linked}

SharedName ==
  \E c, d \in Clients : c # d /\ client_name[c] = client_name[d] /\ client_name[c] # NoName

Waiting(name) == \E k \in DOMAIN inbox : inbox[k].type = 1 /\ inbox[k].name = name

\* Clients of an earlier server: this one has not heard of them.
Strangers ==
  {c \in Working : client_name[c] \notin Range(client_names) /\ ~Waiting(client_name[c])}

Undisturbed == Lost = {} /\ Strangers = {} /\ ~SharedName

\* When more clients register than /server holds messages, some lose a message
\* to a full queue and wait for ever (client.c 73, 87, 97; server.c 95: four
\* sends that are not repeated when they fail); but while nobody leaves and no
\* client of an earlier server is about, all go on or as many as it holds do.
SomeGoOn ==
  server \in {"first", "loop"} /\ Undisturbed
    => GoOn = Working \/ Cardinality(GoOn) >= MAXMSG

\* A server that has wiped buf ends by itself (lines 60 and 79) only if the queue
\* of a client has gone, if two clients share one (the answers of one then fill
\* the queue of another), or if clients of an earlier server are about: never
\* while clients with names of their own merely come and work.
EndsOnlyOnLoss ==
  [][server' = "off" /\ server = "loop" /\ ~Interrupt => ~Undisturbed]_vars

=============================================================================
