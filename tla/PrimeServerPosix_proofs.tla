------------------------ MODULE PrimeServerPosix_proofs ------------------------
(***************************************************************************)
(* Theorems about PrimeServerPosix: while nobody leaves and nobody is left *)
(* from an earlier server, each client has at most one message on its way, *)
(* none is lost but to a full /server, and the server does not end.        *)
(***************************************************************************)
EXTENDS PrimeServerPosix, FiniteSetTheorems, SequenceTheorems, TLAPS

---------------------------------------------------------------------------
\* The inductive invariant.

Message == [type : {1}, name : Names] \cup [type : {2, 3}, id : Nat]

Answer == [type : {1}, id : Nat] \cup [type : {2, 3}]

Types ==
  /\ server \in {"off", "drain", "stale", "first", "loop"}
  /\ runs \in Nat
  /\ inbox \in Seq(Message)
  /\ client_names \in Seq(Names)
  /\ pc \in [Clients -> {"off", "register", "loop", "left"}]
  /\ server_queue \in SUBSET Clients
  /\ client_name \in [Clients -> Names \cup {NoName}]
  /\ linked \in SUBSET Names
  /\ used \in SUBSET Names
  /\ box \in [Names -> Seq(Answer)]
  /\ client_id \in [Clients -> Nat]

\* A client that has started has a name that no later client makes again, and
\* one that has registered has opened /server.  A new server has an empty table.
Started ==
  /\ \A c \in Clients : pc[c] # "off" => client_name[c] \in used
  /\ \A c \in Clients : pc[c] = "off" => client_name[c] = NoName
  /\ Working \subseteq server_queue
  /\ server \in {"drain", "stale"} => client_names = <<>>

\* Whoever is heard of, in the table, in a registration or by an answer, works.
Heard ==
  Undisturbed =>
    \A n \in Names :
      n \in Range(client_names) \/ Waiting(n) \/ box[n] # <<>>
        => \E c \in Working : client_name[c] = n

Running == server \in {"first", "loop"} /\ Undisturbed

\* Who has sent a message that is still in /server, has no answer, and has sent
\* no other; its id is that of its entry in the table.
OneRequest ==
  Running =>
    /\ \A k \in DOMAIN inbox :
         inbox[k].type # 1 =>
           /\ inbox[k].id < Len(client_names)
           /\ \A c \in Working :
                client_name[c] = Sender(inbox[k]) => client_id[c] = inbox[k].id
    /\ \A k \in DOMAIN inbox : box[Sender(inbox[k])] = <<>>
    /\ \A k, l \in DOMAIN inbox : Sender(inbox[k]) = Sender(inbox[l]) => k = l

\* A client has one answer to read at most, after which its id is its own.
OneAnswer ==
  Running =>
    \A c \in Working :
      box[client_name[c]] # <<>> =>
        /\ Len(box[client_name[c]]) = 1
        /\ LET m == Head(box[client_name[c]])
           IN  NameOf(IF m.type = 1 THEN m.id ELSE client_id[c]) = client_name[c]

IInv == Types /\ Started /\ Heard /\ OneRequest /\ OneAnswer /\ SomeGoOn

---------------------------------------------------------------------------
\* Queues.

LEMMA TailFacts ==
  ASSUME NEW S, NEW s \in Seq(S), s # <<>>
  PROVE  /\ Tail(s) \in Seq(S) /\ Len(Tail(s)) = Len(s) - 1 /\ Len(s) \in Nat \ {0}
         /\ DOMAIN s = 1 .. Len(s) /\ DOMAIN Tail(s) = 1 .. (Len(s) - 1)
         /\ Head(s) = s[1] /\ Head(s) \in S
         /\ \A k \in DOMAIN Tail(s) : k + 1 \in DOMAIN s /\ Tail(s)[k] = s[k + 1]
  OBVIOUS

LEMMA TailOfOne ==
  ASSUME NEW S, NEW s \in Seq(S), Len(s) = 1
  PROVE  Tail(s) = <<>>
<1>1. Tail(s) \in Seq(S) /\ Len(Tail(s)) = 0
  OBVIOUS
<1> QED
  BY <1>1, EmptySeq

LEMMA AppendFacts ==
  ASSUME NEW S, NEW s \in Seq(S), NEW m \in S
  PROVE  /\ Append(s, m) \in Seq(S) /\ Len(Append(s, m)) = Len(s) + 1 /\ Len(s) \in Nat
         /\ DOMAIN s = 1 .. Len(s) /\ DOMAIN Append(s, m) = 1 .. (Len(s) + 1)
         /\ \A k \in DOMAIN s : Append(s, m)[k] = s[k]
         /\ Append(s, m)[Len(s) + 1] = m
  OBVIOUS

---------------------------------------------------------------------------
\* Type correctness.

LEMMA TypesInit == Init => Types
  BY PosixAssumption DEF Init, Types

\* What the client takes from its queue, and puts into that of the server.
LEMMA GotFacts ==
  ASSUME Types, Started, NEW c \in Clients, NEW type \in {1, 2, 3}, Got(c, type)
  PROVE  /\ c \in Working /\ c \in server_queue
         /\ client_name[c] \in Names /\ box[client_name[c]] # <<>>
         /\ box[client_name[c]] \in Seq(Answer)
         /\ Head(box[client_name[c]]) \in Answer
         /\ Head(box[client_name[c]]).type = type
         /\ Tail(box[client_name[c]]) \in Seq(Answer)
         /\ box' = [box EXCEPT ![client_name[c]] = Tail(@)]
         /\ box' \in [Names -> Seq(Answer)]
<1>1. c \in Working /\ c \in server_queue /\ client_name[c] \in used
  BY DEF Got, Working, Started
<1>2. client_name[c] \in Names
  BY <1>1 DEF Types
<1>3. box[client_name[c]] \in Seq(Answer) /\ box[client_name[c]] # <<>>
  BY <1>2 DEF Types, Got
<1>4. Tail(box[client_name[c]]) \in Seq(Answer) /\ Head(box[client_name[c]]) \in Answer
  BY ONLY <1>3
<1>5. box' = [box EXCEPT ![client_name[c]] = Tail(@)]
  BY DEF Got
<1>6. box' \in [Names -> Seq(Answer)]
  BY <1>4, <1>5 DEF Types
<1> QED
  BY <1>1, <1>2, <1>3, <1>4, <1>5, <1>6 DEF Got

\* What a message that is put into /server leaves there.
LEMMA SendFacts ==
  ASSUME Types, NEW c \in Clients, NEW m \in Message, SendOrLose(c, m)
  PROVE  inbox' \in Seq(Message)
<1>1. inbox \in Seq(Message)
  BY DEF Types
<1> QED
  BY <1>1, AppendFacts DEF SendOrLose

LEMMA ReplyFacts ==
  ASSUME Types, NEW name, NEW buf \in Answer, Reachable(name), Reply(name, buf)
  PROVE  /\ name \in Names /\ box' = [box EXCEPT ![name] = Append(box[name], buf)]
         /\ Append(box[name], buf) \in Seq(Answer)
         /\ box' \in [Names -> Seq(Answer)]
<1>1. name \in Names /\ box[name] \in Seq(Answer) /\ box \in [Names -> Seq(Answer)]
  BY DEF Types, Reachable
<1>2. Append(box[name], buf) \in Seq(Answer)
  BY ONLY <1>1, buf \in Answer
<1> QED
  BY <1>1, <1>2 DEF Reply

LEMMA TakesFacts ==
  ASSUME Types, NEW type \in {1, 2, 3}, Takes(type)
  PROVE  /\ inbox \in Seq(Message) /\ inbox # <<>>
         /\ Head(inbox) = inbox[1] /\ Head(inbox) \in Message
         /\ Head(inbox).type = type
         /\ type = 1 => Head(inbox).name \in Names
         /\ type # 1 => Head(inbox).id \in Nat
         /\ inbox' = Tail(inbox) /\ inbox' \in Seq(Message)
         /\ server \in {"first", "loop"}
<1>1. inbox \in Seq(Message) /\ inbox # <<>>
  BY DEF Types, Takes
<1>2. Head(inbox) = inbox[1] /\ Head(inbox) \in Message /\ Tail(inbox) \in Seq(Message)
  BY <1>1, TailFacts
<1>3. Head(inbox).type = type
  BY DEF Takes
<1>4. /\ type = 1 => Head(inbox).name \in Names
      /\ type # 1 => Head(inbox).id \in Nat
  BY <1>2, <1>3 DEF Message
<1> QED
  BY <1>1, <1>2, <1>3, <1>4 DEF Takes

LEMMA TypesStep == Types /\ Started /\ [Next]_vars => Types'
<1> SUFFICES ASSUME Types, Started, [Next]_vars PROVE Types'
  OBVIOUS
<1>1. CASE Open
  BY <1>1 DEF Types, Open, clientVars
<1>2. CASE Drain
  <2>1. inbox' \in Seq(Message)
    BY <1>2, TailFacts DEF Drain, Types
  <2> QED
    BY <1>2, <2>1 DEF Types, Drain, clientVars
<1>3. CASE Drained \/ Wipe \/ Interrupt
  BY <1>3 DEF Types, Drained, Wipe, Interrupt, clientVars
<1>4. CASE Garbled
  <2>1. inbox' \in Seq(Message)
    BY <1>4, TailFacts DEF Garbled, Types
  <2> QED
    BY <1>4, <2>1 DEF Types, Garbled, clientVars
<1>5. CASE ServeRegistration
  <2> DEFINE name == Head(inbox).name
             buf == [type |-> 1, id |-> Len(client_names)]
  <2>1. Takes(1)
    BY <1>5 DEF ServeRegistration
  <2>2. name \in Names /\ inbox' \in Seq(Message)
    BY <2>1, TakesFacts
  <2>3. client_names' \in Seq(Names) /\ buf \in Answer
    BY <1>5, <2>2 DEF ServeRegistration, Types, Answer
  <2>4. box' \in [Names -> Seq(Answer)] /\ server' \in {"loop", "off"}
    <3>1. CASE Reachable(name)
      <4>1. Reply(name, buf) /\ server' = "loop"
        BY <1>5, <3>1 DEF ServeRegistration
      <4> QED
        BY <3>1, <4>1, <2>3, ReplyFacts
    <3>2. CASE ~Reachable(name)
      BY <1>5, <3>2 DEF ServeRegistration, Types
    <3> QED
      BY <3>1, <3>2
  <2> QED
    BY <1>5, <2>2, <2>3, <2>4 DEF Types, ServeRegistration, clientVars
<1>6. CASE ServeRequest \/ ServeReport
  <2> DEFINE name == NameOf(Head(inbox).id)
  <2>1. PICK type \in {2, 3} : Takes(type)
    BY <1>6 DEF ServeRequest, ServeReport
  <2>2. inbox' \in Seq(Message)
    BY <2>1, TakesFacts
  <2>3. /\ server' \in {"loop", "off"}
        /\ UNCHANGED box \/ \E t \in {2, 3} : Reachable(name) /\ Reply(name, [type |-> t])
    BY <1>6 DEF ServeRequest, ServeReport
  <2>4. box' \in [Names -> Seq(Answer)]
    <3>1. \A t \in {2, 3} : [type |-> t] \in Answer
      BY DEF Answer
    <3>2. box \in [Names -> Seq(Answer)]
      BY DEF Types
    <3> HIDE DEF name
    <3> QED
      BY <2>3, <3>1, <3>2, ReplyFacts
  <2> QED
    BY <1>6, <2>2, <2>3, <2>4 DEF Types, ServeRequest, ServeReport, clientVars
<1>7. ASSUME NEW c \in Clients, Connect(c) PROVE Types'
  BY <1>7 DEF Types, Connect, At, serverVars
<1>8. ASSUME NEW c \in Clients, Register(c) PROVE Types'
  <2>1. client_name[c] \in Names
    BY <1>8 DEF Register, At, Started, Types
  <2>2. [type |-> 1, name |-> client_name[c]] \in Message
    BY <2>1 DEF Message
  <2>3. inbox' \in Seq(Message)
    BY <1>8, <2>2, SendFacts DEF Register
  <2> QED
    BY <1>8, <2>3 DEF Types, Register, At, serverVars
<1>9. ASSUME NEW c \in Clients, RegisterFails(c) \/ InterruptClient(c) PROVE Types'
  BY <1>9 DEF Types, RegisterFails, InterruptClient, At, serverVars
<1>10. ASSUME NEW c \in Clients, OnId(c) PROVE Types'
  <2> DEFINE id == Head(box[client_name[c]]).id
  <2>1. Got(c, 1)
    BY <1>10 DEF OnId
  <2>2. id \in Nat /\ box' \in [Names -> Seq(Answer)]
    BY <2>1, GotFacts DEF Answer
  <2>3. client_id' = [client_id EXCEPT ![c] = id] /\ client_id'[c] = id
    BY <1>10 DEF OnId, Types
  <2>4. [type |-> 2, id |-> id] \in Message
    BY <2>2 DEF Message
  <2>5. inbox' \in Seq(Message)
    BY <1>10, <2>3, <2>4, SendFacts DEF OnId
  <2> QED
    BY <1>10, <2>2, <2>3, <2>5 DEF Types, OnId, serverVars
<1>11. ASSUME NEW c \in Clients, OnNumber(c) \/ OnReceipt(c) PROVE Types'
  <2>1. \E t \in {2, 3} : Got(c, t)
    BY <1>11 DEF OnNumber, OnReceipt
  <2>2. box' \in [Names -> Seq(Answer)]
    BY <2>1, GotFacts
  <2>3. \A t \in {2, 3} : [type |-> t, id |-> client_id[c]] \in Message
    BY DEF Message, Types
  <2>4. inbox' \in Seq(Message)
    BY <1>11, <2>3, SendFacts DEF OnNumber, OnReceipt
  <2> QED
    BY <1>11, <2>2, <2>4 DEF Types, OnNumber, OnReceipt, serverVars, clientVars
<1>12. CASE UNCHANGED vars
  BY <1>12 DEF vars, Types
<1> QED
  BY <1>1, <1>2, <1>3, <1>4, <1>5, <1>6, <1>7, <1>8, <1>9, <1>10, <1>11, <1>12
  DEF Next, main, Loop

---------------------------------------------------------------------------
\* What a step leaves of the clients and of what has been heard of them.

LEMMA ClientStep ==
  Types /\ Started /\ [Next]_vars =>
    /\ \A c \in Clients :
         /\ pc[c] # "off" => client_name'[c] = client_name[c] /\ pc'[c] # "off"
         /\ pc[c] \in {"loop", "left"} => pc'[c] \in {"loop", "left"}
         /\ pc'[c] = "loop" /\ pc[c] # "loop" => Register(c)
         /\ pc[c] = "loop" /\ pc'[c] # "loop" => client_name[c] \notin linked'
    /\ \A n \in used : n \in used' /\ (n \notin linked => n \notin linked')
    /\ server_queue \subseteq server_queue'
<1> SUFFICES ASSUME Types, Started, [Next]_vars
             PROVE  /\ \A c \in Clients :
                         /\ pc[c] # "off" => client_name'[c] = client_name[c] /\ pc'[c] # "off"
                         /\ pc[c] \in {"loop", "left"} => pc'[c] \in {"loop", "left"}
                         /\ pc'[c] = "loop" /\ pc[c] # "loop" => Register(c)
                         /\ pc[c] = "loop" /\ pc'[c] # "loop" => client_name[c] \notin linked'
                    /\ \A n \in used : n \in used' /\ (n \notin linked => n \notin linked')
                    /\ server_queue \subseteq server_queue'
  OBVIOUS
<1>1. CASE UNCHANGED <<pc, server_queue, client_name, linked, used>>
  BY <1>1
<1>3. CASE \E d \in Clients : Connect(d)
  BY <1>3 DEF Connect, At, Types
<1>4. CASE \E d \in Clients : Register(d)
  BY <1>4 DEF Register, At, Types
<1>5. CASE \E d \in Clients : RegisterFails(d)
  BY <1>5 DEF RegisterFails, At, Types
<1>6. CASE \E d \in Clients : InterruptClient(d)
  BY <1>6 DEF InterruptClient, Types
<1>7. \/ UNCHANGED <<pc, server_queue, client_name, linked, used>>
      \/ \E d \in Clients : Connect(d) \/ Register(d) \/ RegisterFails(d) \/ InterruptClient(d)
  BY DEF Next, main, Loop, Open, Drain, Drained, Wipe, Garbled, ServeRegistration, ServeRequest,
     ServeReport, Interrupt, OnId, OnNumber, OnReceipt, clientVars, vars
<1> QED
  BY <1>1, <1>3, <1>4, <1>5, <1>6, <1>7

\* A step hears only of who registers: the others were in the table or in
\* /server before.
LEMMA HeardStep ==
  ASSUME Types, Started, [Next]_vars, NEW n \in Names,
         n \in Range(client_names') \/ Waiting(n)'
  PROVE  \/ n \in Range(client_names) \/ Waiting(n)
         \/ \E c \in Clients : Register(c) /\ client_name[c] = n
<1>1. /\ inbox \in Seq(Message) /\ client_names \in Seq(Names)
      /\ \A c \in Clients : pc[c] # "off" => client_name[c] \in Names
  BY DEF Types, Started
<1>2. CASE Waiting(n)' /\ ~Waiting(n)
  <2>1. ~(inbox # <<>> /\ inbox' = Tail(inbox)) /\ ~UNCHANGED inbox
    BY <1>1, <1>2, TailFacts DEF Waiting
  <2>2. PICK c \in Clients : Register(c) \/ OnId(c) \/ OnNumber(c) \/ OnReceipt(c)
    BY <2>1 DEF Next, main, Loop, Open, Drain, Drained, Wipe, Garbled, ServeRegistration,
       ServeRequest, ServeReport, Takes, Interrupt, Connect, RegisterFails, InterruptClient, vars
  <2>3. PICK m \in Message : /\ inbox' = Append(inbox, m)
                             /\ m.type = 1 => Register(c) /\ m.name = client_name[c]
    <3>1. CASE Register(c)
      <4>1. client_name[c] \in Names
        BY <1>1, <3>1 DEF Register, At
      <4> QED
        BY <2>1, <3>1, <4>1 DEF Register, SendOrLose, Message
    <3>2. CASE OnId(c)
      <4>1. inbox' = Append(inbox, [type |-> 2, id |-> client_id'[c]]) /\ Got(c, 1)
        BY <2>1, <3>2 DEF OnId, SendOrLose
      <4>2. Head(box[client_name[c]]).id \in Nat
        BY <4>1, GotFacts DEF Answer
      <4>3. client_id'[c] \in Nat
        BY <4>2, <3>2 DEF OnId, Types
      <4> QED
        BY <4>1, <4>3 DEF Message
    <3>3. CASE OnNumber(c) \/ OnReceipt(c)
      <4>1. PICK t \in {2, 3} : inbox' = Append(inbox, [type |-> t, id |-> client_id[c]])
        BY <2>1, <3>3 DEF OnNumber, OnReceipt, SendOrLose
      <4>2. client_id[c] \in Nat
        BY DEF Types
      <4> QED
        BY <4>1, <4>2 DEF Message
    <3> QED
      BY <2>2, <3>1, <3>2, <3>3
  <2>4. PICK k \in DOMAIN inbox' : inbox'[k].type = 1 /\ inbox'[k].name = n
    BY <1>2 DEF Waiting
  <2>5. k \notin DOMAIN inbox
    BY <1>1, <1>2, <2>3, <2>4, AppendFacts DEF Waiting
  <2>6. inbox'[k] = m
    BY <1>1, <2>3, <2>4, <2>5, AppendFacts
  <2> QED
    BY <2>3, <2>4, <2>6
<1>3. CASE n \in Range(client_names') /\ n \notin Range(client_names)
  <2>1. CASE ServeRegistration
    <3>1. /\ Head(inbox) = inbox[1] /\ inbox[1].type = 1 /\ 1 \in DOMAIN inbox
          /\ client_names' = Append(client_names, inbox[1].name) /\ inbox[1].name \in Names
      BY <2>1, TakesFacts, TailFacts DEF ServeRegistration
    <3>2. n = inbox[1].name
      BY <1>1, <1>3, <3>1, AppendFacts DEF Range
    <3> QED
      BY <3>1, <3>2 DEF Waiting
  <2>2. CASE client_names' = <<>>
    BY <1>3, <2>2 DEF Range
  <2>3. CASE UNCHANGED client_names
    BY <1>3, <2>3
  <2> QED
    BY <2>1, <2>2, <2>3 DEF Next, main, Loop, Open, Drain, Drained, Wipe, Garbled, ServeRequest,
       ServeReport, Interrupt, Connect, Register, RegisterFails, InterruptClient, OnId, OnNumber,
       OnReceipt, serverVars, vars
<1> QED
  BY <1>2, <1>3

LEMMA StartedStep == Types /\ Started /\ [Next]_vars => Started'
<1> SUFFICES ASSUME Types, Started, [Next]_vars PROVE Started'
  OBVIOUS
<1>1. \A c \in Clients : pc'[c] # "off" => client_name'[c] \in used'
  <2>1. CASE \E d \in Clients : Connect(d)
    BY <2>1 DEF Connect, At, Types, Started
  <2>2. CASE UNCHANGED <<client_name, used>> /\ \A c \in Clients : pc'[c] # "off" => pc[c] # "off"
    BY <2>2 DEF Started
  <2> QED
    BY <2>1, <2>2 DEF Next, main, Loop, Open, Drain, Drained, Wipe, Garbled, ServeRegistration,
       ServeRequest, ServeReport, Interrupt, Register, RegisterFails, InterruptClient, At, OnId,
       OnNumber, OnReceipt, clientVars, vars, Types
<1>2. \A c \in Clients : pc'[c] = "off" => client_name'[c] = NoName
  <2>1. CASE \E d \in Clients : Connect(d)
    BY <2>1 DEF Connect, At, Types, Started
  <2>2. CASE UNCHANGED client_name /\ \A c \in Clients : pc'[c] = "off" => pc[c] = "off"
    BY <2>2 DEF Started
  <2> QED
    BY <2>1, <2>2 DEF Next, main, Loop, Open, Drain, Drained, Wipe, Garbled, ServeRegistration,
       ServeRequest, ServeReport, Interrupt, Register, RegisterFails, InterruptClient, At, OnId,
       OnNumber, OnReceipt, clientVars, vars, Types
<1>3. Working' \subseteq server_queue'
  BY ClientStep DEF Started, Working, Register, CanSend
<1>4. server' \in {"drain", "stale"} => client_names' = <<>>
  BY DEF Started, Next, main, Loop, Open, Drain, Drained, Wipe, Garbled, ServeRegistration, Takes,
     ServeRequest, ServeReport, Interrupt, Connect, Register, RegisterFails, InterruptClient, OnId,
     OnNumber, OnReceipt, serverVars, vars, Types
<1> QED
  BY <1>1, <1>2, <1>3, <1>4 DEF Started

\* Once it is disturbed, the life of the queues stays so.
LEMMA UndisturbedBefore == Types /\ Started /\ [Next]_vars /\ Undisturbed' => Undisturbed
<1> SUFFICES ASSUME Types, Started, [Next]_vars, Undisturbed' PROVE Undisturbed
  OBVIOUS
<1>1. /\ \A c \in Clients : pc[c] # "off" => client_name'[c] = client_name[c] /\ pc'[c] # "off"
      /\ \A c \in Clients : pc[c] \in {"loop", "left"} => pc'[c] \in {"loop", "left"}
      /\ \A c \in Clients : pc[c] = "loop" /\ pc'[c] # "loop" => client_name[c] \notin linked'
      /\ \A n \in used : n \notin linked => n \notin linked'
  BY ClientStep
<1>2. \A c \in Clients : /\ pc[c] # "off" => client_name[c] \in used /\ client_name[c] \in Names
                         /\ pc[c] = "off" => client_name[c] = NoName
  BY DEF Started, Types
<1>3. Lost = {}
  BY <1>1, <1>2 DEF Undisturbed, Lost
<1>4. ~SharedName
  <2>1. SUFFICES ASSUME NEW c \in Clients, NEW d \in Clients, c # d,
                        client_name[c] = client_name[d], client_name[c] # NoName
                 PROVE  FALSE
    BY DEF SharedName
  <2>2. client_name'[c] = client_name[c] /\ client_name'[d] = client_name[d]
    BY <1>1, <1>2, <2>1
  <2> QED
    BY <2>1, <2>2 DEF Undisturbed, SharedName
<1>5. Strangers = {}
  <2>1. SUFFICES ASSUME NEW c \in Strangers PROVE FALSE
    OBVIOUS
  <2>2. /\ c \in Clients /\ pc[c] = "loop" /\ client_name[c] \in Names
        /\ client_name[c] \notin Range(client_names) /\ ~Waiting(client_name[c])
    BY <1>2, <2>1 DEF Strangers, Working
  <2>3. client_name'[c] = client_name[c]
    BY <1>1, <2>2
  <2>4. pc'[c] = "loop"
    BY <1>1, <2>2, <2>3 DEF Undisturbed, Lost
  <2>5. PICK n \in Names : n = client_name[c]
    BY <2>2
  <2>6. n \in Range(client_names') \/ Waiting(n)'
    <3>1. c \notin Strangers' /\ c \in Working'
      BY <2>2, <2>4 DEF Undisturbed, Working
    <3>2. (client_name'[c] = n /\ client_name'[c] \notin Range(client_names') /\ ~Waiting(n)')
             => c \in Strangers'
      BY <3>1 DEF Strangers, Waiting
    <3> QED
      BY <2>3, <2>5, <3>1, <3>2
  <2>7. PICK d \in Clients : Register(d) /\ client_name[d] = n
    BY <2>2, <2>5, <2>6, HeardStep
  <2>8. pc[d] = "register" /\ client_name[d] = client_name[c] /\ client_name[c] # NoName
    BY <2>2, <2>5, <2>7, PosixAssumption DEF Register, At
  <2> QED
    BY <1>4, <2>2, <2>8 DEF SharedName
<1> QED
  BY <1>3, <1>4, <1>5 DEF Undisturbed

\* While undisturbed, who works keeps its name and its queue, and no other
\* client that has started has that name.
LEMMA WorkerFacts ==
  ASSUME Types, Started, [Next]_vars, Undisturbed', NEW c \in Working
  PROVE  /\ c \in Clients /\ c \in Working' /\ client_name'[c] = client_name[c]
         /\ client_name[c] \in Names /\ client_name[c] \in linked
         /\ c \in server_queue /\ c \in server_queue'
         /\ \A d \in Clients : client_name[d] = client_name[c] => d = c
<1>1. Undisturbed
  BY UndisturbedBefore
<1>2. /\ c \in Clients /\ pc[c] = "loop" /\ client_name[c] \in used /\ client_name[c] \in Names
      /\ c \in server_queue
  BY DEF Working, Started, Types
<1>3. client_name'[c] = client_name[c] /\ c \in server_queue'
  BY <1>2, ClientStep
<1>4. pc'[c] = "loop"
  BY <1>2, <1>3, ClientStep DEF Undisturbed, Lost
<1>5. client_name[c] \in linked /\ client_name[c] # NoName
  BY <1>1, <1>2, PosixAssumption DEF Undisturbed, Lost
<1>6. \A d \in Clients : client_name[d] = client_name[c] => d = c
  BY <1>1, <1>2, <1>5 DEF Undisturbed, SharedName
<1> QED
  BY <1>2, <1>3, <1>4, <1>5, <1>6 DEF Working

\* A client that registers is not heard of yet.
LEMMA RegisterFacts ==
  ASSUME Types, Started, Heard, Undisturbed, NEW c \in Clients, pc[c] # "loop"
  PROVE  /\ client_name[c] \notin Range(client_names) /\ ~Waiting(client_name[c])
         /\ client_name[c] \in Names => box[client_name[c]] = <<>>
<1>1. CASE client_name[c] \notin Names
  <2>1. client_names \in Seq(Names) /\ inbox \in Seq(Message)
    BY DEF Types
  <2>2. Range(client_names) \subseteq Names
    BY <2>1 DEF Range
  <2>3. \A k \in DOMAIN inbox : inbox[k].type = 1 => inbox[k].name \in Names
    BY <2>1 DEF Message
  <2> QED
    BY <1>1, <2>2, <2>3 DEF Waiting
<1>2. CASE client_name[c] \in Names
  <2>1. SUFFICES ASSUME NEW d \in Working, client_name[d] = client_name[c] PROVE FALSE
    BY <1>2 DEF Heard
  <2>2. d \in Clients /\ d # c /\ client_name[c] # NoName
    BY <1>2, PosixAssumption DEF Working
  <2> QED
    BY <2>1, <2>2 DEF Undisturbed, SharedName
<1> QED
  BY <1>1, <1>2

LEMMA HeardInv == Types /\ Started /\ Heard /\ [Next]_vars => Heard'
<1> SUFFICES ASSUME Types, Started, Heard, [Next]_vars, Undisturbed', NEW n \in Names,
                    n \in Range(client_names') \/ Waiting(n)' \/ box'[n] # <<>>
             PROVE  \E c \in Working' : client_name'[c] = n
  BY DEF Heard, Waiting
<1>1. Undisturbed
  BY UndisturbedBefore
<1>2. CASE \E c \in Working : client_name[c] = n
  BY <1>2, WorkerFacts
<1>3. CASE \E c \in Clients : Register(c) /\ client_name[c] = n
  BY <1>3 DEF Register, At, Types, Working
<1>4. n \in Range(client_names) \/ Waiting(n) \/ box[n] # <<>>
        \/ \E c \in Clients : Register(c) /\ client_name[c] = n
  <2>1. CASE n \in Range(client_names') \/ Waiting(n)'
    BY <2>1, HeardStep
  <2>2. CASE box'[n] # <<>> /\ box[n] = <<>>
    <3>1. box \in [Names -> Seq(Answer)]
      BY DEF Types
    <3>2. ASSUME NEW c \in Clients, NEW t \in {1, 2, 3}, Got(c, t) PROVE FALSE
      <4>1. /\ box' = [box EXCEPT ![client_name[c]] = Tail(@)]
            /\ client_name[c] \in Names /\ box[client_name[c]] # <<>>
        BY <3>2, GotFacts
      <4> QED
        BY <2>2, <3>1, <4>1
    <3>3. CASE ServeRegistration
      <4>1. /\ Head(inbox) = inbox[1] /\ inbox[1].type = 1 /\ 1 \in DOMAIN inbox
        BY <3>3, TakesFacts, TailFacts DEF ServeRegistration
      <4>2. n = inbox[1].name
        BY <2>2, <3>1, <3>3, <4>1 DEF ServeRegistration, Reply
      <4> QED
        BY <4>1, <4>2 DEF Waiting
    <3>4. CASE ServeRequest \/ ServeReport
      <4> DEFINE id == Head(inbox).id
      <4>1. id \in Nat
        BY <3>4, TakesFacts DEF ServeRequest, ServeReport
      <4>2. n = NameOf(id)
        BY <2>2, <3>1, <3>4 DEF ServeRequest, ServeReport, Reply
      <4>3. client_names \in Seq(Names) /\ n # NoName
        BY PosixAssumption DEF Types
      <4> HIDE DEF id
      <4> QED
        BY <4>1, <4>2, <4>3 DEF NameOf, Range
    <3> QED
      BY <2>2, <3>2, <3>3, <3>4 DEF Next, main, Loop, Open, Drain, Drained, Wipe, Garbled,
         Interrupt, Connect, Register, RegisterFails, InterruptClient, OnId, OnNumber, OnReceipt,
         vars
  <2> QED
    BY <2>1, <2>2
<1> QED
  BY <1>1, <1>2, <1>3, <1>4 DEF Heard

---------------------------------------------------------------------------
\* Requests and answers while the server runs undisturbed.

\* Sender and NameOf, of a given table.
NameIn(id, table) == IF id < Len(table) THEN table[id + 1] ELSE NoName

SenderIn(m, table) == IF m.type = 1 THEN m.name ELSE NameIn(m.id, table)

LEMMA AsMany ==
  ASSUME NEW S, IsFiniteSet(S), NEW n \in Nat, NEW f \in [1 .. n -> S],
         \A i, j \in 1 .. n : f[i] = f[j] => i = j
  PROVE  Cardinality(S) >= n
<1>1. IsFiniteSet(1 .. n) /\ Cardinality(1 .. n) = n
  BY FS_Interval
<1>2. Cardinality(S) \in Nat
  BY FS_CardinalityType
<1> QED
  BY <1>1, <1>2, FS_PigeonHole

\* Each sender works, and stays the sender when the table grows.
LEMMA SenderFacts ==
  ASSUME Types, Started, Heard, OneRequest, Running, NEW k \in DOMAIN inbox
  PROVE  /\ inbox[k] \in Message
         /\ inbox[k].type # 1 => inbox[k].id \in Nat /\ inbox[k].id < Len(client_names)
         /\ SenderIn(inbox[k], client_names) \in Names
         /\ \E c \in Working : client_name[c] = SenderIn(inbox[k], client_names)
         /\ box[SenderIn(inbox[k], client_names)] = <<>>
         /\ \A l \in DOMAIN inbox :
              SenderIn(inbox[k], client_names) = SenderIn(inbox[l], client_names) => k = l
         /\ \A n \in Names :
              SenderIn(inbox[k], Append(client_names, n)) = SenderIn(inbox[k], client_names)
<1>1. inbox \in Seq(Message) /\ client_names \in Seq(Names)
  BY DEF Types
<1>2. inbox[k] \in Message
  BY <1>1
<1>3. inbox[k].type # 1 => inbox[k].id \in Nat /\ inbox[k].id < Len(client_names)
  BY <1>2 DEF OneRequest, Message
<1>4. \A l \in DOMAIN inbox : Sender(inbox[l]) = SenderIn(inbox[l], client_names)
  BY DEF Sender, SenderIn, NameOf, NameIn
<1>5. /\ SenderIn(inbox[k], client_names) \in Names
      /\ \/ SenderIn(inbox[k], client_names) \in Range(client_names)
         \/ Waiting(SenderIn(inbox[k], client_names))
  <2>1. CASE inbox[k].type = 1
    <3>1. SenderIn(inbox[k], client_names) = inbox[k].name /\ inbox[k].name \in Names
      BY <1>2, <2>1 DEF SenderIn, Message
    <3> QED
      BY <2>1, <3>1 DEF Waiting
  <2>2. CASE inbox[k].type # 1
    <3>1. inbox[k].id + 1 \in DOMAIN client_names
      BY <1>1, <1>3, <2>2
    <3>2. SenderIn(inbox[k], client_names) = client_names[inbox[k].id + 1]
      BY <1>3, <2>2 DEF SenderIn, NameIn
    <3> QED
      BY <1>1, <3>1, <3>2 DEF Range
  <2> QED
    BY <2>1, <2>2
<1>6. \E c \in Working : client_name[c] = SenderIn(inbox[k], client_names)
  BY <1>5 DEF Heard, Running
<1>7. ASSUME NEW n \in Names
      PROVE  SenderIn(inbox[k], Append(client_names, n)) = SenderIn(inbox[k], client_names)
  BY <1>1, <1>3 DEF SenderIn, NameIn
<1> QED
  BY <1>2, <1>3, <1>4, <1>5, <1>6, <1>7 DEF OneRequest

\* Who works after a step that leaves the queues undisturbed.
LEMMA WorkingStep ==
  ASSUME Types, Started, [Next]_vars, Undisturbed'
  PROVE  /\ \A c \in Working : c \in Working' /\ client_name'[c] = client_name[c]
         /\ \A c \in Working' : c \in Clients /\ (c \in Working \/ Register(c))
<1>1. \A c \in Working' : c \in Clients /\ (c \in Working \/ Register(c))
  BY ClientStep DEF Working
<1> QED
  BY <1>1, WorkerFacts

\* The three invariants, in terms of what the step leaves.
LEMMA RunningGoal ==
  ASSUME Types, Started, [Next]_vars, Running',
         \A c \in Working' : c \in Working,
         \A k \in DOMAIN inbox' :
           /\ inbox'[k].type # 1 =>
                /\ inbox'[k].id < Len(client_names')
                /\ \A c \in Working :
                     client_name[c] = SenderIn(inbox'[k], client_names')
                       => client_id'[c] = inbox'[k].id
           /\ box'[SenderIn(inbox'[k], client_names')] = <<>>
           /\ \A l \in DOMAIN inbox' :
                SenderIn(inbox'[k], client_names') = SenderIn(inbox'[l], client_names') => k = l,
         \A c \in Working :
           box'[client_name[c]] # <<>> =>
             /\ Len(box'[client_name[c]]) = 1
             /\ NameIn(IF Head(box'[client_name[c]]).type = 1
                         THEN Head(box'[client_name[c]]).id ELSE client_id'[c], client_names')
                  = client_name[c]
  PROVE  OneRequest' /\ OneAnswer'
<1>1. Working' = Working /\ \A c \in Working : client_name'[c] = client_name[c]
  BY WorkingStep DEF Running
<1>2. OneRequest'
  BY <1>1 DEF OneRequest, Sender, NameOf, SenderIn, NameIn
<1>3. OneAnswer'
  BY <1>1 DEF OneAnswer, NameOf, NameIn
<1> QED
  BY <1>2, <1>3

\* And the clients that go on.
LEMMA GoOnGoal ==
  ASSUME Types, Started, [Next]_vars, Undisturbed',
         \A c \in Working' : c \in Working,
         NEW S, S = {c \in Working : \/ box'[client_name[c]] # <<>>
                                     \/ \E k \in DOMAIN inbox' :
                                          SenderIn(inbox'[k], client_names') = client_name[c]}
  PROVE  GoOn' = S /\ Working' = Working
<1>1. Working' = Working /\ \A c \in Working : client_name'[c] = client_name[c]
  BY WorkingStep
<1> QED
  BY <1>1 DEF GoOn, Sender, NameOf, SenderIn, NameIn

GoOnNow ==
  {c \in Working : \/ box[client_name[c]] # <<>>
                   \/ \E k \in DOMAIN inbox :
                        SenderIn(inbox[k], client_names) = client_name[c]}

LEMMA GoOnIsNow == GoOn = GoOnNow
  BY DEF GoOn, GoOnNow, Sender, NameOf, SenderIn, NameIn

\* The server takes the first message and answers its sender.
LEMMA ServerAnswers ==
  ASSUME Types, Started, Heard, OneRequest, OneAnswer, SomeGoOn, Running, [Next]_vars, Running',
         inbox # <<>>, inbox' = Tail(inbox), UNCHANGED <<pc, client_name, client_id>>,
         NEW n \in Names, n = SenderIn(inbox[1], client_names), NEW b \in Answer,
         box' = [box EXCEPT ![n] = Append(box[n], b)],
         \/ /\ inbox[1].type = 1 /\ b.type = 1 /\ b.id = Len(client_names)
            /\ client_names' = Append(client_names, n)
         \/ inbox[1].type # 1 /\ b.type # 1 /\ UNCHANGED client_names
  PROVE  OneRequest' /\ OneAnswer' /\ SomeGoOn'
<1>1. /\ inbox \in Seq(Message) /\ client_names \in Seq(Names)
      /\ box \in [Names -> Seq(Answer)] /\ Len(client_names) \in Nat
  BY DEF Types
<1>2. /\ DOMAIN inbox' = 1 .. (Len(inbox) - 1) /\ DOMAIN inbox = 1 .. Len(inbox)
      /\ Len(inbox) \in Nat \ {0} /\ 1 \in DOMAIN inbox
      /\ \A k \in DOMAIN inbox' : k + 1 \in DOMAIN inbox /\ inbox'[k] = inbox[k + 1]
  BY <1>1, TailFacts
<1>3. \A k \in DOMAIN inbox : SenderIn(inbox[k], client_names') = SenderIn(inbox[k], client_names)
  BY SenderFacts
<1>4. Len(client_names) <= Len(client_names')
  BY <1>1
<1>5. box[n] = <<>> /\ box'[n] = <<b>> /\ box'[n] # <<>>
  <2>1. box[n] = <<>>
    BY <1>2, SenderFacts
  <2> QED
    BY <1>1, <2>1
<1>6. \A m \in Names : m # n => box'[m] = box[m]
  BY <1>1
<1>7. ASSUME NEW k \in DOMAIN inbox'
      PROVE  /\ inbox'[k] = inbox[k + 1] /\ k + 1 \in DOMAIN inbox
             /\ SenderIn(inbox'[k], client_names') = SenderIn(inbox[k + 1], client_names)
             /\ SenderIn(inbox[k + 1], client_names) # n
             /\ SenderIn(inbox[k + 1], client_names) \in Names
  <2>1. inbox'[k] = inbox[k + 1] /\ k + 1 \in DOMAIN inbox /\ k + 1 # 1
    BY <1>2
  <2>2. SenderIn(inbox[k + 1], client_names) = n => k + 1 = 1
    BY <1>2, <2>1, SenderFacts
  <2> QED
    BY <1>3, <2>1, <2>2, SenderFacts
<1>8. \A c \in Working' : c \in Working
  BY DEF Working
<1>9. ASSUME NEW k \in DOMAIN inbox'
      PROVE  /\ inbox'[k].type # 1 =>
                  /\ inbox'[k].id < Len(client_names')
                  /\ \A c \in Working :
                       client_name[c] = SenderIn(inbox'[k], client_names')
                         => client_id'[c] = inbox'[k].id
             /\ box'[SenderIn(inbox'[k], client_names')] = <<>>
             /\ \A l \in DOMAIN inbox' :
                  SenderIn(inbox'[k], client_names') = SenderIn(inbox'[l], client_names') => k = l
  <2>1. /\ inbox'[k] = inbox[k + 1] /\ k + 1 \in DOMAIN inbox
        /\ SenderIn(inbox'[k], client_names') = SenderIn(inbox[k + 1], client_names)
        /\ SenderIn(inbox[k + 1], client_names) # n
        /\ SenderIn(inbox[k + 1], client_names) \in Names
    BY <1>7
  <2>2. box'[SenderIn(inbox'[k], client_names')] = <<>>
    BY <1>6, <2>1, SenderFacts
  <2>3. ASSUME inbox'[k].type # 1
        PROVE  /\ inbox'[k].id < Len(client_names')
               /\ \A c \in Working :
                    client_name[c] = SenderIn(inbox'[k], client_names')
                      => client_id'[c] = inbox'[k].id
    <3>1. inbox[k + 1].id \in Nat /\ inbox[k + 1].id < Len(client_names)
      BY <2>1, <2>3, SenderFacts
    <3>2. Len(client_names') \in Nat
      BY <1>1
    <3>3. inbox'[k].id < Len(client_names')
      BY <1>1, <1>4, <2>1, <3>1, <3>2
    <3>4. \A c \in Working :
            client_name[c] = Sender(inbox[k + 1]) => client_id[c] = inbox[k + 1].id
      BY <2>1, <2>3 DEF OneRequest
    <3>5. Sender(inbox[k + 1]) = SenderIn(inbox[k + 1], client_names)
      BY DEF Sender, SenderIn, NameOf, NameIn
    <3> QED
      BY <2>1, <3>3, <3>4, <3>5
  <2>4. ASSUME NEW l \in DOMAIN inbox',
               SenderIn(inbox'[k], client_names') = SenderIn(inbox'[l], client_names')
        PROVE  k = l
    <3>1. /\ SenderIn(inbox'[l], client_names') = SenderIn(inbox[l + 1], client_names)
          /\ l + 1 \in DOMAIN inbox
      BY <1>7
    <3>2. k + 1 = l + 1
      BY <2>1, <2>4, <3>1, SenderFacts
    <3> QED
      BY <1>2, <3>2
  <2> QED
    BY <2>2, <2>3, <2>4
<1>10. ASSUME NEW c \in Working, box'[client_name[c]] # <<>>
       PROVE  /\ Len(box'[client_name[c]]) = 1
              /\ NameIn(IF Head(box'[client_name[c]]).type = 1
                          THEN Head(box'[client_name[c]]).id ELSE client_id'[c], client_names')
                   = client_name[c]
  <2>1. client_name[c] \in Names
    BY WorkerFacts DEF Running
  <2>2. CASE client_name[c] = n
    <3>1. Len(box'[n]) = 1 /\ Head(box'[n]) = b
      BY <1>5
    <3>2. CASE inbox[1].type = 1
      <4>1. b.type = 1 /\ b.id = Len(client_names) /\ client_names' = Append(client_names, n)
        BY <3>2
      <4>2. NameIn(b.id, client_names') = n
        BY <1>1, <4>1 DEF NameIn
      <4> QED
        BY <2>2, <3>1, <4>1, <4>2
    <3>3. CASE inbox[1].type # 1
      <4>1. client_id[c] = inbox[1].id
        <5>1. Sender(inbox[1]) = SenderIn(inbox[1], client_names)
          BY DEF Sender, SenderIn, NameOf, NameIn
        <5> QED
          BY <1>2, <2>2, <3>3, <5>1 DEF OneRequest
      <4>2. NameIn(client_id'[c], client_names') = n /\ b.type # 1
        BY <3>3, <4>1 DEF SenderIn
      <4> QED
        BY <2>2, <3>1, <4>2
    <3> QED
      BY <3>2, <3>3
  <2>3. CASE client_name[c] # n
    <3> DEFINE m == Head(box[client_name[c]])
               i == IF m.type = 1 THEN m.id ELSE client_id[c]
    <3>1. box'[client_name[c]] = box[client_name[c]]
      BY <1>6, <2>1, <2>3
    <3>2. Len(box[client_name[c]]) = 1 /\ NameOf(i) = client_name[c]
      BY <1>10, <3>1 DEF OneAnswer
    <3>3. client_name[c] # NoName
      BY <2>1, PosixAssumption
    <3>4. i < Len(client_names) /\ client_names[i + 1] = client_name[c]
      BY <3>2, <3>3 DEF NameOf
    <3>5. i \in Nat
      <4>1. box[client_name[c]] \in Seq(Answer) /\ box[client_name[c]] # <<>>
        BY <1>1, <1>10, <2>1, <3>1
      <4>2. m \in Answer
        BY <4>1, TailFacts
      <4>3. client_id[c] \in Nat
        BY DEF Types, Working
      <4> QED
        BY <4>2, <4>3 DEF Answer
    <3> HIDE DEF i
    <3>6. NameIn(i, client_names') = client_name[c]
      <4>1. CASE client_names' = Append(client_names, n)
        <5>1. i + 1 \in DOMAIN client_names /\ i < Len(client_names')
          BY <1>1, <3>4, <3>5, <4>1
        <5>2. client_names'[i + 1] = client_names[i + 1]
          BY <1>1, <4>1, <5>1, AppendFacts
        <5> QED
          BY <3>4, <5>1, <5>2 DEF NameIn
      <4>2. CASE UNCHANGED client_names
        BY <3>4, <4>2 DEF NameIn
      <4> QED
        BY <4>1, <4>2
    <3> QED
      BY <3>1, <3>2, <3>6 DEF i
  <2> QED
    BY <2>2, <2>3
<1>11. OneRequest' /\ OneAnswer'
  BY ONLY <1>8, <1>9, <1>10, RunningGoal, Types, Started, [Next]_vars, Running'
<1>12. GoOn' = GoOn /\ Working' = Working
  <2>1. \A c \in Working :
          (\/ box'[client_name[c]] # <<>>
           \/ \E k \in DOMAIN inbox' : SenderIn(inbox'[k], client_names') = client_name[c])
          <=> (\/ box[client_name[c]] # <<>>
               \/ \E k \in DOMAIN inbox : SenderIn(inbox[k], client_names) = client_name[c])
    <3> SUFFICES ASSUME NEW c \in Working
                 PROVE (\/ box'[client_name[c]] # <<>>
                        \/ \E k \in DOMAIN inbox' : SenderIn(inbox'[k], client_names') = client_name[c])
                       <=> (\/ box[client_name[c]] # <<>>
                            \/ \E k \in DOMAIN inbox : SenderIn(inbox[k], client_names) = client_name[c])
      OBVIOUS
    <3>1. client_name[c] \in Names
      BY WorkerFacts DEF Running
    <3>2. CASE client_name[c] = n
      <4>1. box'[client_name[c]] # <<>>
        BY <1>5, <3>2
      <4>2. \E k \in DOMAIN inbox : SenderIn(inbox[k], client_names) = client_name[c]
        BY <1>2, <3>2
      <4> QED
        BY <4>1, <4>2
    <3>3. CASE client_name[c] # n
      <4>1. box'[client_name[c]] = box[client_name[c]]
        BY <1>6, <3>1, <3>3
      <4>2. ASSUME NEW k \in DOMAIN inbox, SenderIn(inbox[k], client_names) = client_name[c]
            PROVE  \E l \in DOMAIN inbox' : SenderIn(inbox'[l], client_names') = client_name[c]
        <5>1. k # 1
          BY <3>3, <4>2
        <5>2. k - 1 \in DOMAIN inbox' /\ (k - 1) + 1 = k
          BY <1>2, <5>1
        <5> QED
          BY <1>7, <4>2, <5>2
      <4>3. ASSUME NEW k \in DOMAIN inbox', SenderIn(inbox'[k], client_names') = client_name[c]
            PROVE  \E l \in DOMAIN inbox : SenderIn(inbox[l], client_names) = client_name[c]
        BY <1>7, <4>3
      <4> QED
        BY <4>1, <4>2, <4>3
    <3> QED
      BY <3>2, <3>3
  <2>2. GoOnNow = {c \in Working : \/ box'[client_name[c]] # <<>>
                                   \/ \E k \in DOMAIN inbox' :
                                        SenderIn(inbox'[k], client_names') = client_name[c]}
    BY <2>1 DEF GoOnNow
  <2>3. PICK S : S = GoOnNow
    OBVIOUS
  <2> QED
    BY <1>8, <2>2, <2>3, GoOnGoal, GoOnIsNow DEF Running
<1>13. SomeGoOn'
  BY <1>12 DEF SomeGoOn, Running
<1> QED
  BY <1>11, <1>13

\* Each message in /server is of a client of its own: when it is full, as many
\* go on as it holds.
LEMMA FullQueue ==
  ASSUME Types, Started, Heard, OneRequest, Running, ~(Len(inbox) < MAXMSG)
  PROVE  \A S : /\ IsFiniteSet(S)
                /\ \A c \in Working :
                     (\E k \in DOMAIN inbox : SenderIn(inbox[k], client_names) = client_name[c])
                       => c \in S
                => Cardinality(S) >= MAXMSG
<1> SUFFICES ASSUME NEW S, IsFiniteSet(S),
                    \A c \in Working :
                      (\E k \in DOMAIN inbox : SenderIn(inbox[k], client_names) = client_name[c])
                        => c \in S
             PROVE  Cardinality(S) >= MAXMSG
  OBVIOUS
<1> DEFINE f == [k \in 1 .. Len(inbox) |->
                   CHOOSE c \in Working : client_name[c] = SenderIn(inbox[k], client_names)]
<1>1. Len(inbox) \in Nat /\ DOMAIN inbox = 1 .. Len(inbox)
  BY DEF Types
<1>2. \A k \in 1 .. Len(inbox) :
        f[k] \in Working /\ client_name[f[k]] = SenderIn(inbox[k], client_names)
  BY <1>1, SenderFacts
<1>3. f \in [1 .. Len(inbox) -> S]
  BY <1>1, <1>2
<1>4. \A k, l \in 1 .. Len(inbox) : f[k] = f[l] => k = l
  BY <1>1, <1>2, SenderFacts
<1>5. PICK n \in Nat : n = Len(inbox)
  BY <1>1
<1> HIDE DEF f
<1>6. Cardinality(S) >= n
  BY <1>3, <1>4, <1>5, AsMany
<1>7. Cardinality(S) \in Nat
  BY FS_CardinalityType
<1> QED
  BY <1>5, <1>6, <1>7, PosixAssumption

\* A client takes its answer, and the message it sends is lost or the only one
\* of its in /server.
LEMMA ClientSends ==
  ASSUME Types, Started, Heard, OneRequest, OneAnswer, SomeGoOn, Running, [Next]_vars, Running',
         UNCHANGED <<pc, client_name, client_names>>, NEW c \in Working,
         NEW n \in Names, n = client_name[c], box[n] # <<>>,
         box' = [box EXCEPT ![n] = Tail(@)],
         NEW i \in Nat, i = IF Head(box[n]).type = 1 THEN Head(box[n]).id ELSE client_id[c],
         client_id' = [client_id EXCEPT ![c] = i],
         NEW m \in Message, m.type # 1, m.id = i, SendOrLose(c, m)
  PROVE  OneRequest' /\ OneAnswer' /\ SomeGoOn'
<1>1. /\ inbox \in Seq(Message) /\ client_names \in Seq(Names)
      /\ box \in [Names -> Seq(Answer)] /\ Len(client_names) \in Nat
      /\ client_id \in [Clients -> Nat]
  BY DEF Types
<1>2. c \in Clients /\ c \in server_queue /\ \A d \in Clients : client_name[d] = n => d = c
  BY WorkerFacts DEF Running
<1>3. Len(box[n]) = 1 /\ NameOf(i) = n
  BY DEF OneAnswer
<1>4. i < Len(client_names) /\ SenderIn(m, client_names) = n
  BY <1>3, PosixAssumption DEF NameOf, SenderIn, NameIn
<1>5. box'[n] = <<>> /\ \A o \in Names : o # n => box'[o] = box[o]
  <2>1. box[n] \in Seq(Answer)
    BY <1>1
  <2>2. Tail(box[n]) = <<>>
    BY ONLY <1>3, <2>1, TailOfOne
  <2> QED
    BY <1>1, <2>2
<1>6. \A k \in DOMAIN inbox : SenderIn(inbox[k], client_names) # n
  BY SenderFacts
<1>7. \A d \in Working' : d \in Working
  BY DEF Working
<1>8. \A d \in Working : d \in Clients /\ (d # c => client_id'[d] = client_id[d])
  BY <1>1 DEF Working
<1>9. client_id'[c] = i
  BY <1>1, <1>2
<1>10. ASSUME NEW k \in DOMAIN inbox
       PROVE  /\ inbox[k].type # 1 =>
                   /\ inbox[k].id < Len(client_names)
                   /\ \A d \in Working :
                        client_name[d] = SenderIn(inbox[k], client_names)
                          => client_id'[d] = inbox[k].id
              /\ box'[SenderIn(inbox[k], client_names)] = <<>>
  <2>1. Sender(inbox[k]) = SenderIn(inbox[k], client_names)
    BY DEF Sender, SenderIn, NameOf, NameIn
  <2>2. box'[SenderIn(inbox[k], client_names)] = <<>>
    BY <1>5, <1>6, SenderFacts
  <2> QED
    BY <1>6, <1>8, <2>1, <2>2 DEF OneRequest
<1>11. ASSUME NEW d \in Working, box'[client_name[d]] # <<>>
       PROVE  /\ Len(box'[client_name[d]]) = 1
              /\ NameIn(IF Head(box'[client_name[d]]).type = 1
                          THEN Head(box'[client_name[d]]).id ELSE client_id'[d], client_names')
                   = client_name[d]
  <2>1. client_name[d] \in Names /\ d \in Clients
    BY WorkerFacts DEF Running
  <2>2. client_name[d] # n /\ d # c
    BY <1>5, <1>11
  <2>3. box'[client_name[d]] = box[client_name[d]] /\ client_id'[d] = client_id[d]
    BY <1>5, <1>8, <2>1, <2>2
  <2> QED
    BY <1>11, <2>3 DEF OneAnswer, NameOf, NameIn
<1> DEFINE S == {d \in Working : \/ box'[client_name[d]] # <<>>
                                 \/ \E k \in DOMAIN inbox' :
                                      SenderIn(inbox'[k], client_names') = client_name[d]}
<1>12. GoOn' = S /\ Working' = Working
  BY <1>7, GoOnGoal DEF Running
<1>13. CASE CanSend(c)
  <2>1. /\ inbox' = Append(inbox, m) /\ DOMAIN inbox' = 1 .. (Len(inbox) + 1)
        /\ DOMAIN inbox = 1 .. Len(inbox) /\ Len(inbox) \in Nat
        /\ \A k \in DOMAIN inbox : inbox'[k] = inbox[k]
        /\ inbox'[Len(inbox) + 1] = m
    BY <1>1, <1>13, AppendFacts DEF SendOrLose
  <2>2. \A k \in DOMAIN inbox' : k \in DOMAIN inbox \/ k = Len(inbox) + 1
    BY <2>1
  <2>3. ASSUME NEW k \in DOMAIN inbox'
        PROVE  /\ inbox'[k].type # 1 =>
                    /\ inbox'[k].id < Len(client_names')
                    /\ \A d \in Working :
                         client_name[d] = SenderIn(inbox'[k], client_names')
                           => client_id'[d] = inbox'[k].id
               /\ box'[SenderIn(inbox'[k], client_names')] = <<>>
               /\ \A l \in DOMAIN inbox' :
                    SenderIn(inbox'[k], client_names') = SenderIn(inbox'[l], client_names') => k = l
    <3>1. CASE k \in DOMAIN inbox
      <4>1. inbox'[k] = inbox[k] /\ SenderIn(inbox'[k], client_names') # n
        BY <1>6, <2>1, <3>1
      <4>2. ASSUME NEW l \in DOMAIN inbox',
                   SenderIn(inbox'[k], client_names') = SenderIn(inbox'[l], client_names')
            PROVE  k = l
        <5>1. l \in DOMAIN inbox /\ inbox'[l] = inbox[l]
          BY <1>4, <2>1, <2>2, <4>1, <4>2
        <5> QED
          BY <3>1, <4>1, <4>2, <5>1, SenderFacts
      <4> QED
        BY <1>10, <3>1, <4>1, <4>2
    <3>2. CASE k = Len(inbox) + 1
      <4>1. inbox'[k] = m /\ SenderIn(inbox'[k], client_names') = n
        BY <1>4, <2>1, <3>2
      <4>2. ASSUME NEW l \in DOMAIN inbox',
                   SenderIn(inbox'[k], client_names') = SenderIn(inbox'[l], client_names')
            PROVE  k = l
        <5>1. l \notin DOMAIN inbox
          BY <1>6, <2>1, <4>1, <4>2
        <5> QED
          BY <2>2, <3>2, <5>1
      <4>3. \A d \in Working : client_name[d] = n => client_id'[d] = m.id
        BY <1>2, <1>8, <1>9
      <4> QED
        BY <1>4, <1>5, <4>1, <4>2, <4>3
    <3> QED
      BY <2>2, <3>1, <3>2
  <2>4. OneRequest' /\ OneAnswer'
    BY ONLY <1>7, <2>3, <1>11, RunningGoal, Types, Started, [Next]_vars, Running'
  <2>5. S = GoOnNow
    <3> SUFFICES ASSUME NEW d \in Working
                 PROVE  (\/ box'[client_name[d]] # <<>>
                         \/ \E k \in DOMAIN inbox' :
                              SenderIn(inbox'[k], client_names') = client_name[d])
                        <=> (\/ box[client_name[d]] # <<>>
                             \/ \E k \in DOMAIN inbox :
                                  SenderIn(inbox[k], client_names) = client_name[d])
      BY DEF GoOnNow
    <3>1. client_name[d] \in Names
      BY WorkerFacts DEF Running
    <3>2. CASE client_name[d] = n
      <4>1. Len(inbox) + 1 \in DOMAIN inbox'
        BY <2>1
      <4> QED
        BY <1>4, <2>1, <3>2, <4>1
    <3>3. CASE client_name[d] # n
      <4>1. box'[client_name[d]] = box[client_name[d]]
        BY <1>5, <3>1, <3>3
      <4>2. (\E k \in DOMAIN inbox' : SenderIn(inbox'[k], client_names') = client_name[d])
              <=> (\E k \in DOMAIN inbox : SenderIn(inbox[k], client_names) = client_name[d])
        BY <1>4, <2>1, <2>2, <3>3
      <4> QED
        BY <4>1, <4>2
    <3> QED
      BY <3>2, <3>3
  <2>6. GoOn' = GoOn
    BY <1>12, <2>5, GoOnIsNow
  <2> QED
    BY <1>12, <2>4, <2>6 DEF SomeGoOn, Running
<1>14. CASE ~CanSend(c)
  <2>1. UNCHANGED inbox /\ ~(Len(inbox) < MAXMSG)
    BY <1>2, <1>14 DEF SendOrLose, CanSend
  <2>2. ASSUME NEW k \in DOMAIN inbox'
        PROVE  /\ inbox'[k].type # 1 =>
                    /\ inbox'[k].id < Len(client_names')
                    /\ \A d \in Working :
                         client_name[d] = SenderIn(inbox'[k], client_names')
                           => client_id'[d] = inbox'[k].id
               /\ box'[SenderIn(inbox'[k], client_names')] = <<>>
               /\ \A l \in DOMAIN inbox' :
                    SenderIn(inbox'[k], client_names') = SenderIn(inbox'[l], client_names') => k = l
    BY <1>10, <2>1, SenderFacts
  <2>3. OneRequest' /\ OneAnswer'
    BY ONLY <1>7, <2>2, <1>11, RunningGoal, Types, Started, [Next]_vars, Running'
  <2>4. IsFiniteSet(S)
    <3>1. S \in SUBSET Clients
      BY DEF Working
    <3> QED
      BY <3>1, FS_Subset, PosixAssumption
  <2>5. \A d \in Working :
          (\E k \in DOMAIN inbox : SenderIn(inbox[k], client_names) = client_name[d]) => d \in S
    BY <2>1
  <2>6. PICK T : T = S
    OBVIOUS
  <2> HIDE DEF S
  <2>7. Cardinality(T) >= MAXMSG
    BY <2>1, <2>4, <2>5, <2>6, FullQueue
  <2> QED
    BY <1>12, <2>3, <2>6, <2>7 DEF SomeGoOn
<1> QED
  BY <1>13, <1>14

\* The server starts with empty queues, and nobody who works.
LEMMA Restarts ==
  ASSUME Types, Started, Heard, [Next]_vars, Undisturbed', Drained
  PROVE  OneRequest' /\ OneAnswer' /\ SomeGoOn'
<1>1. inbox = <<>> /\ client_names = <<>> /\ UNCHANGED <<inbox, client_names, pc, client_name>>
  BY DEF Drained, Started, clientVars
<1>2. Undisturbed
  BY UndisturbedBefore
<1>3. Working = {}
  BY <1>1, <1>2 DEF Undisturbed, Strangers, Waiting, Range
<1>4. Working' = {}
  BY <1>1, <1>3 DEF Working
<1>5. OneRequest' /\ OneAnswer'
  BY <1>1, <1>4 DEF OneRequest, OneAnswer
<1>6. SomeGoOn'
  BY <1>4 DEF SomeGoOn, GoOn
<1> QED
  BY <1>5, <1>6

\* A step that leaves the queues, and who works, as they are.
LEMMA Stays ==
  ASSUME Types, Started, Heard, OneRequest, OneAnswer, SomeGoOn, Running, [Next]_vars, Running',
         UNCHANGED <<inbox, box, client_names, client_id>>, \A c \in Working' : c \in Working
  PROVE  OneRequest' /\ OneAnswer' /\ SomeGoOn'
<1>1. Working' = Working /\ \A c \in Working : client_name'[c] = client_name[c]
  BY WorkingStep DEF Running
<1>2. OneRequest' /\ OneAnswer'
  BY <1>1 DEF OneRequest, OneAnswer, Sender, NameOf
<1>3. GoOn' = GoOn
  BY <1>1 DEF GoOn, Sender, NameOf
<1> QED
  BY <1>1, <1>2, <1>3 DEF SomeGoOn, Running

\* A client that registers has nothing else on its way.
LEMMA Registers ==
  ASSUME Types, Started, Heard, OneRequest, OneAnswer, SomeGoOn, Running, [Next]_vars, Running',
         NEW c \in Clients, Register(c)
  PROVE  OneRequest' /\ OneAnswer' /\ SomeGoOn'
<1> DEFINE n == client_name[c]
           m == [type |-> 1, name |-> client_name[c]]
<1>1. /\ inbox \in Seq(Message) /\ client_names \in Seq(Names)
      /\ pc \in [Clients -> {"off", "register", "loop", "left"}]
  BY DEF Types
<1>2. /\ pc[c] = "register" /\ pc' = [pc EXCEPT ![c] = "loop"] /\ inbox' = Append(inbox, m)
      /\ UNCHANGED <<box, client_names, client_name, client_id>>
  BY DEF Register, At, SendOrLose, serverVars
<1>3. n \in Names /\ m \in Message
  BY <1>2 DEF Started, Types, Message
<1>4. /\ n \notin Range(client_names) /\ ~Waiting(n) /\ box[n] = <<>>
  BY <1>2, <1>3, RegisterFacts DEF Running
<1>5. Working' = Working \cup {c} /\ c \notin Working
  BY <1>1, <1>2 DEF Working
<1>6. /\ DOMAIN inbox' = 1 .. (Len(inbox) + 1)
      /\ DOMAIN inbox = 1 .. Len(inbox) /\ Len(inbox) \in Nat
      /\ \A k \in DOMAIN inbox : inbox'[k] = inbox[k]
      /\ inbox'[Len(inbox) + 1] = m
  BY <1>1, <1>2, <1>3, AppendFacts
<1>7. SenderIn(m, client_names) = n /\ m.type = 1
  BY DEF SenderIn
<1>8. \A d \in Working : client_name[d] # n
  BY <1>3, <1>5, PosixAssumption DEF Running, Undisturbed, SharedName, Working
<1> HIDE DEF n, m
<1>9. \A k \in DOMAIN inbox : SenderIn(inbox[k], client_names) # n
  BY <1>8, SenderFacts
<1>10. \A k \in DOMAIN inbox' : k \in DOMAIN inbox \/ k = Len(inbox) + 1
  BY <1>6
<1>11. \A k \in DOMAIN inbox : Sender(inbox[k]) = SenderIn(inbox[k], client_names)
  BY DEF Sender, SenderIn, NameOf, NameIn
<1>12. ASSUME NEW k \in DOMAIN inbox'
       PROVE  /\ inbox'[k].type # 1 =>
                   /\ inbox'[k].id < Len(client_names')
                   /\ \A d \in Working' :
                        client_name'[d] = SenderIn(inbox'[k], client_names')
                          => client_id'[d] = inbox'[k].id
              /\ box'[SenderIn(inbox'[k], client_names')] = <<>>
              /\ \A l \in DOMAIN inbox' :
                   SenderIn(inbox'[k], client_names') = SenderIn(inbox'[l], client_names') => k = l
  <2>1. CASE k \in DOMAIN inbox
    <3>1. inbox'[k] = inbox[k] /\ SenderIn(inbox'[k], client_names') # n
      BY <1>2, <1>6, <1>9, <2>1
    <3>2. box'[SenderIn(inbox'[k], client_names')] = <<>>
      BY <1>2, <2>1, <3>1, SenderFacts
    <3>3. ASSUME NEW l \in DOMAIN inbox',
                 SenderIn(inbox'[k], client_names') = SenderIn(inbox'[l], client_names')
          PROVE  k = l
      <4>1. l \in DOMAIN inbox /\ inbox'[l] = inbox[l]
        BY <1>2, <1>6, <1>7, <1>10, <3>1, <3>3
      <4> QED
        BY <1>2, <2>1, <3>1, <3>3, <4>1, SenderFacts
    <3>4. ASSUME inbox'[k].type # 1
          PROVE  /\ inbox'[k].id < Len(client_names')
                 /\ \A d \in Working' :
                      client_name'[d] = SenderIn(inbox'[k], client_names')
                        => client_id'[d] = inbox'[k].id
      <4>1. inbox[k].id < Len(client_names)
        BY <2>1, <3>1, <3>4, SenderFacts
      <4>2. ASSUME NEW d \in Working', client_name'[d] = SenderIn(inbox'[k], client_names')
            PROVE  client_id'[d] = inbox'[k].id
        <5>1. d \in Working
          BY <1>2, <1>5, <3>1, <4>2 DEF n
        <5> QED
          BY <1>2, <1>11, <2>1, <3>1, <3>4, <4>2, <5>1 DEF OneRequest
      <4> QED
        BY <1>2, <3>1, <4>1, <4>2
    <3> QED
      BY <3>2, <3>3, <3>4
  <2>2. CASE k = Len(inbox) + 1
    <3>1. inbox'[k] = m /\ SenderIn(inbox'[k], client_names') = n
      BY <1>2, <1>6, <1>7, <2>2
    <3>2. ASSUME NEW l \in DOMAIN inbox',
                 SenderIn(inbox'[k], client_names') = SenderIn(inbox'[l], client_names')
          PROVE  k = l
      <4>1. l \notin DOMAIN inbox
        BY <1>2, <1>6, <1>9, <3>1, <3>2
      <4> QED
        BY <1>10, <2>2, <4>1
    <3> QED
      BY <1>2, <1>4, <1>7, <3>1, <3>2
  <2> QED
    BY <1>10, <2>1, <2>2
<1>13. OneRequest'
  BY <1>12 DEF OneRequest, Sender, NameOf, SenderIn, NameIn
<1>14. OneAnswer'
  BY <1>2, <1>4, <1>5 DEF OneAnswer, NameOf, n
<1>15. GoOn' = GoOn \cup {c}
  <2>1. ASSUME NEW d \in Working
        PROVE  (\E k \in DOMAIN inbox' : SenderIn(inbox'[k], client_names) = client_name[d])
                 <=> (\E k \in DOMAIN inbox : SenderIn(inbox[k], client_names) = client_name[d])
    BY <1>6, <1>7, <1>8, <1>10
  <2>2. \E k \in DOMAIN inbox' : SenderIn(inbox'[k], client_names) = client_name[c]
    BY <1>6, <1>7 DEF n
  <2>3. GoOn' = {d \in Working' : \/ box[client_name[d]] # <<>>
                                  \/ \E k \in DOMAIN inbox' :
                                       SenderIn(inbox'[k], client_names) = client_name[d]}
    BY <1>2 DEF GoOn, Sender, NameOf, SenderIn, NameIn
  <2> QED
    BY <1>5, <2>1, <2>2, <2>3, GoOnIsNow DEF GoOnNow
<1>16. SomeGoOn'
  <2>1. CASE GoOn = Working
    BY <1>5, <1>15, <2>1 DEF SomeGoOn
  <2>2. CASE Cardinality(GoOn) >= MAXMSG
    <3>1. GoOn' \in SUBSET Clients /\ GoOn \in SUBSET GoOn'
      BY <1>15 DEF GoOn, Working
    <3>2. PICK S : S = GoOn
      OBVIOUS
    <3>3. PICK T : T = GoOn'
      OBVIOUS
    <3>4. IsFiniteSet(T)
      BY <3>1, <3>3, FS_Subset, PosixAssumption
    <3>5. /\ Cardinality(S) <= Cardinality(T)
          /\ Cardinality(S) \in Nat /\ Cardinality(T) \in Nat
      BY <3>1, <3>2, <3>3, <3>4, FS_Subset, FS_CardinalityType
    <3>6. Cardinality(T) >= MAXMSG
      BY <2>2, <3>2, <3>5, PosixAssumption
    <3> QED
      BY <3>3, <3>6 DEF SomeGoOn
  <2> QED
    BY <2>1, <2>2 DEF SomeGoOn, Running
<1> QED
  BY <1>13, <1>14, <1>16

\* The sender of the first message can be answered.
LEMMA HeadReachable ==
  ASSUME Types, Started, Heard, OneRequest, Running, inbox # <<>>
  PROVE  /\ 1 \in DOMAIN inbox /\ Head(inbox) = inbox[1]
         /\ SenderIn(inbox[1], client_names) \in Names
         /\ Reachable(SenderIn(inbox[1], client_names))
         /\ inbox[1].type = 1 => SenderIn(inbox[1], client_names) = inbox[1].name
         /\ inbox[1].type # 1 => SenderIn(inbox[1], client_names) = NameOf(inbox[1].id)
<1>1. inbox \in Seq(Message)
  BY DEF Types
<1>2. 1 \in DOMAIN inbox /\ Head(inbox) = inbox[1]
  BY <1>1, TailFacts
<1>3. PICK n \in Names : n = SenderIn(inbox[1], client_names)
  BY <1>2, SenderFacts
<1>4. box[n] = <<>> /\ \E c \in Working : client_name[c] = n
  BY <1>2, <1>3, SenderFacts
<1>5. n \in linked
  BY <1>4 DEF Running, Undisturbed, Lost, Working
<1>6. Len(box[n]) < MAXMSG
  BY <1>4, PosixAssumption
<1>7. Reachable(n)
  BY <1>5, <1>6 DEF Reachable
<1> QED
  BY <1>2, <1>3, <1>7 DEF SenderIn, NameIn, NameOf

LEMMA RunningStep ==
  Types /\ Started /\ Heard /\ OneRequest /\ OneAnswer /\ SomeGoOn /\ [Next]_vars
    => OneRequest' /\ OneAnswer' /\ SomeGoOn'
<1> SUFFICES ASSUME Types, Started, Heard, OneRequest, OneAnswer, SomeGoOn, [Next]_vars
             PROVE  OneRequest' /\ OneAnswer' /\ SomeGoOn'
  OBVIOUS
<1>1. CASE ~Running'
  BY <1>1 DEF OneRequest, OneAnswer, SomeGoOn, Running
<1>2. CASE Drained /\ Running'
  BY <1>2, Restarts DEF Running
<1>3. CASE Running /\ Running'
  <2>1. inbox \in Seq(Message)
    BY DEF Types
  <2>2. CASE ServeRegistration
    <3>1. /\ Takes(1) /\ inbox # <<>> /\ Head(inbox).type = 1 /\ inbox' = Tail(inbox)
          /\ UNCHANGED <<pc, client_name, client_id>>
      BY <2>2 DEF ServeRegistration, Takes, clientVars
    <3>2. PICK n \in Names : n = SenderIn(inbox[1], client_names)
      BY <1>3, <3>1, HeadReachable
    <3>3. /\ Head(inbox) = inbox[1] /\ inbox[1].type = 1 /\ inbox[1].name = n /\ Reachable(n)
      BY <1>3, <3>1, <3>2, HeadReachable
    <3>4. PICK b : b = [type |-> 1, id |-> Len(client_names)]
      OBVIOUS
    <3>5. b \in Answer /\ b.type = 1 /\ b.id = Len(client_names)
      BY <3>4 DEF Answer, Types
    <3>6. /\ client_names' = Append(client_names, n)
          /\ box' = [box EXCEPT ![n] = Append(box[n], b)]
      BY <2>2, <3>3, <3>4 DEF ServeRegistration, Reply
    <3> QED
      BY <1>3, <3>1, <3>2, <3>3, <3>5, <3>6, ServerAnswers
  <2>3. CASE ServeRequest \/ ServeReport
    <3>1. /\ inbox # <<>> /\ Head(inbox).type # 1 /\ inbox' = Tail(inbox)
          /\ UNCHANGED <<pc, client_name, client_id, client_names>>
      BY <2>3 DEF ServeRequest, ServeReport, Takes, clientVars
    <3>2. PICK n \in Names : n = SenderIn(inbox[1], client_names)
      BY <1>3, <3>1, HeadReachable
    <3>3. /\ Head(inbox) = inbox[1] /\ inbox[1].type # 1 /\ NameOf(inbox[1].id) = n
          /\ Reachable(n)
      BY <1>3, <3>1, <3>2, HeadReachable
    <3>4. PICK t \in {2, 3} : box' = [box EXCEPT ![n] = Append(box[n], [type |-> t])]
      BY <2>3, <3>3 DEF ServeRequest, ServeReport, Reply
    <3>5. PICK b : b = [type |-> t]
      OBVIOUS
    <3>6. b \in Answer /\ b.type # 1
      BY <3>5 DEF Answer
    <3> QED
      BY <1>3, <3>1, <3>2, <3>3, <3>4, <3>5, <3>6, ServerAnswers
  <2>4. CASE \E c \in Clients : Register(c)
    BY <1>3, <2>4, Registers
  <2>5. CASE \E c \in Clients : Loop(c)
    <3>1. PICK c \in Clients : Loop(c)
      BY <2>5
    <3>2. PICK type \in {1, 2, 3} :
             /\ Got(c, type)
             /\ type = 1 => OnId(c)
             /\ type = 2 => OnNumber(c)
             /\ type = 3 => OnReceipt(c)
      BY <3>1 DEF Loop, OnId, OnNumber, OnReceipt
    <3>3. PICK n \in Names : n = client_name[c]
      BY <3>2, GotFacts
    <3>4. /\ c \in Working /\ box[n] # <<>> /\ box' = [box EXCEPT ![n] = Tail(@)]
          /\ Head(box[n]) \in Answer /\ Head(box[n]).type = type
          /\ UNCHANGED <<pc, client_name, client_names>>
      BY <3>1, <3>2, <3>3, GotFacts
      DEF Loop, OnId, OnNumber, OnReceipt, serverVars, clientVars
    <3>5. client_id \in [Clients -> Nat] /\ c \in Clients
      BY DEF Types
    <3> DEFINE h == Head(box[n])
    <3>6. PICK i \in Nat : i = IF h.type = 1 THEN h.id ELSE client_id[c]
      <4>1. h.type = 1 => h.id \in Nat
        BY <3>4 DEF Answer
      <4> HIDE DEF h
      <4> QED
        BY <3>5, <4>1
    <3>7. client_id' = [client_id EXCEPT ![c] = i] /\ client_id'[c] = i
      <4>1. CASE type = 1
        BY <3>2, <3>3, <3>4, <3>5, <3>6, <4>1 DEF OnId
      <4>2. CASE type # 1
        <5>1. UNCHANGED client_id /\ i = client_id[c]
          BY <3>2, <3>4, <3>6, <4>2 DEF OnNumber, OnReceipt, clientVars
        <5> QED
          BY <3>5, <5>1
      <4> QED
        BY <4>1, <4>2
    <3>8. PICK m : /\ m = [type |-> IF type = 2 THEN 3 ELSE 2, id |-> i]
      OBVIOUS
    <3>9. SendOrLose(c, m)
      BY <3>2, <3>3, <3>4, <3>6, <3>7, <3>8 DEF OnId, OnNumber, OnReceipt
    <3>10. m \in Message /\ m.type # 1 /\ m.id = i
      BY <3>8 DEF Message
    <3> QED
      BY <1>3, <3>3, <3>4, <3>6, <3>7, <3>9, <3>10, ClientSends
  <2>6. CASE UNCHANGED <<inbox, box, client_names, client_id>> /\ \A c \in Working' : c \in Working
    BY <1>3, <2>6, Stays
  <2>7. \/ ServeRegistration \/ ServeRequest \/ ServeReport
        \/ \E c \in Clients : Register(c) \/ Loop(c)
        \/ UNCHANGED <<inbox, box, client_names, client_id>>
    BY <1>3 DEF Running, Next, main, Open, Drain, Drained, Wipe, Garbled, Interrupt, Connect,
       RegisterFails, InterruptClient, serverVars, clientVars, vars
  <2>8. \A c \in Working' : c \in Working \/ Register(c)
    BY <1>3, WorkingStep DEF Running
  <2> QED
    BY <2>2, <2>3, <2>4, <2>5, <2>6, <2>7, <2>8 DEF Working
<1>4. Running' => Running \/ Drained
  <2>1. Running' => server' \in {"first", "loop"} /\ Undisturbed
    BY UndisturbedBefore DEF Running
  <2>2. server' \in {"first", "loop"} => server \in {"first", "loop"} \/ Drained
    BY DEF Types, Next, main, Open, Drain, Drained, Wipe, Garbled, ServeRegistration, Takes,
       ServeRequest, ServeReport, Interrupt, Connect, Register, RegisterFails, InterruptClient,
       Loop, OnId, OnNumber, OnReceipt, serverVars, vars
  <2> QED
    BY <2>1, <2>2 DEF Running
<1> QED
  BY <1>1, <1>2, <1>3, <1>4

---------------------------------------------------------------------------
\* The theorems.

LEMMA Invariance == Spec => []IInv
<1>1. Init => IInv
  <2>1. Init => Heard
    BY DEF Init, Heard, Waiting, Range
  <2>2. Init => Started /\ OneRequest /\ OneAnswer /\ SomeGoOn
    BY DEF Init, Started, Working, OneRequest, OneAnswer, Running, SomeGoOn
  <2> QED
    BY <2>1, <2>2, TypesInit DEF IInv
<1>2. IInv /\ [Next]_vars => IInv'
  BY TypesStep, StartedStep, HeardInv, RunningStep DEF IInv
<1> QED
  BY <1>1, <1>2, PTL DEF Spec

\* Every variable keeps its type.
THEOREM TypeCorrect == Spec => []Types
<1>1. IInv => Types
  BY DEF IInv
<1> QED
  BY <1>1, Invariance, PTL

\* While nobody leaves and no client of an earlier server is about, all clients
\* that have registered go on, or as many as /server holds messages.
THEOREM SomeGoOnAlways == Spec => []SomeGoOn
<1>1. IInv => SomeGoOn
  BY DEF IInv
<1> QED
  BY <1>1, Invariance, PTL

\* While nobody leaves and no client of an earlier server is about, a client has
\* at most one message on its way: what it has sent has no answer yet, and the
\* id it sends is its own (client.c 73-97).
THEOREM OneMessageEach == Spec => [](OneRequest /\ OneAnswer)
<1>1. IInv => OneRequest /\ OneAnswer
  BY DEF IInv
<1> QED
  BY <1>1, Invariance, PTL

\* Under the same condition a server that has wiped buf does not end by itself
\* (server.c 60 and 79): no answer finds its client's queue full or gone.
THEOREM EndsOnlyOnLossAlways == Spec => EndsOnlyOnLoss
<1>1. IInv /\ [Next]_vars
        => [server' = "off" /\ server = "loop" /\ ~Interrupt => ~Undisturbed]_vars
  <2> SUFFICES ASSUME IInv, Next, server' = "off", server = "loop", ~Interrupt, Undisturbed
               PROVE  FALSE
    OBVIOUS
  <2>1. Types /\ Started /\ Heard /\ OneRequest /\ Running
    BY DEF IInv, Running
  <2>2. CASE ServeRegistration
    <3>1. inbox # <<>> /\ Head(inbox).type = 1 /\ ~Reachable(Head(inbox).name)
      BY <2>2 DEF ServeRegistration, Takes
    <3> QED
      BY <2>1, <3>1, HeadReachable
  <2>3. CASE ServeRequest
    <3>1. inbox # <<>> /\ Head(inbox).type = 2 /\ ~Reachable(NameOf(Head(inbox).id))
      BY <2>3 DEF ServeRequest, Takes
    <3> QED
      BY <2>1, <3>1, HeadReachable
  <2> QED
    BY <2>2, <2>3 DEF Next, main, Open, Drain, Drained, Wipe, Garbled, ServeReport, Connect,
       Register, RegisterFails, InterruptClient, Loop, OnId, OnNumber, OnReceipt, serverVars, vars
<1> QED
  BY <1>1, Invariance, PTL DEF Spec, EndsOnlyOnLoss

=============================================================================
