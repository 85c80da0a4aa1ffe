-------------------------- MODULE PrimeServer_proofs --------------------------
(***************************************************************************)
(* Proofs about the prime server over System V queues, for all clients,    *)
(* queue sizes, kills and restarts: what the server and its clients call   *)
(* each other agrees, a client that works has exactly one message under    *)
(* way, and server and clients never all wait.                             *)
(***************************************************************************)
EXTENDS PrimeServer, FiniteSetTheorems, TLAPS

Requests == [type : {1}, queue : Clients] \cup [type : {2, 3}, id : Nat]
Answers  == [type : {1}, to : Clients, id : Nat] \cup [type : {2, 3}, to : Clients]

Places == {"off", "attached", "register", "loop", "gone"}

Types ==
  /\ server \in {"off", "drain", "loop", "replying"}
  /\ exists \in BOOLEAN
  /\ server_queue \in Nat \cup {None}
  /\ requests \in Seq(Requests)
  /\ client_queues \in Seq(Clients)
  /\ server = "replying" => reply \in Answers
  /\ server # "replying" => reply = <<>>
  /\ pc \in [Clients -> Places]
  /\ attached \in [Clients -> Nat \cup {None}]
  /\ own \subseteq Clients
  /\ replies \in [Clients -> {<<>>} \cup {<<r>> : r \in Answers}]
  /\ client_id \in [Clients -> Nat \cup {None}]

\* The client found the queue that is the server's now.
Attached(c) == attached[c] = server_queue /\ server_queue # None

Registered(c) == \E k \in 1 .. Len(client_queues) : client_queues[k] = c

IsId(id, c) == id + 1 \in 1 .. Len(client_queues) /\ client_queues[id + 1] = c

\* The client that a request comes from.
Owner(b) == IF b.type = 1 THEN b.queue ELSE client_queues[b.id + 1]

\* A registration is its sender's first and only one; any other request gives
\* the sender's index in the table, and the sender knows it.
RequestOk(b) ==
  IF b.type = 1
    THEN Attached(b.queue) /\ pc[b.queue] \in {"loop", "gone"} /\ ~Registered(b.queue)
    ELSE b.id + 1 \in 1 .. Len(client_queues) /\ client_id[client_queues[b.id + 1]] = b.id

\* An answer to c is one to its registration, with its index, or c has its id.
AnswerOk(r, c) ==
  /\ Registered(c)
  /\ IF r.type = 1 THEN IsId(r.id, c) ELSE client_id[c] # None

\* Nothing is on its way to c.
Quiet(c) == replies[c] = <<>> /\ (server = "replying" => reply.to # c)

\* A queue that is gone has no messages.
Queue ==
  /\ exists => server_queue # None
  /\ ~exists => requests = <<>>

\* Each client is in the table once, after it found this server's queue.
Table ==
  /\ \A k \in 1 .. Len(client_queues) :
       Attached(client_queues[k]) /\ pc[client_queues[k]] \in {"loop", "gone"}
  /\ \A k, l \in 1 .. Len(client_queues) : client_queues[k] = client_queues[l] => k = l

\* Nobody has a queue of the future, and who has not registered has no answer.
Beginners ==
  \A c \in Clients :
    /\ attached[c] <= server_queue
    /\ pc[c] \in {"off", "attached", "register"} => replies[c] = <<>> /\ client_id[c] = None

Ids == \A c \in Clients : Attached(c) /\ client_id[c] # None => IsId(client_id[c], c)

\* The answers on their way, of which each client has one at most.
Waiting ==
  /\ \A c \in Clients, r \in Answers : Attached(c) /\ replies[c] = <<r>> => AnswerOk(r, c)
  /\ \A r \in Answers : server = "replying" /\ r = reply =>
       AnswerOk(r, r.to) /\ replies[r.to] = <<>>

\* The requests on their way, of which each client has one at most, and none
\* while an answer is on its way to it.
Asked ==
  /\ \A n \in 1 .. Len(requests) : \A b \in Requests :
       b = requests[n] => RequestOk(b) /\ Quiet(Owner(b))
  /\ \A m, n \in 1 .. Len(requests) : \A a, b \in Requests :
       a = requests[m] /\ b = requests[n] /\ Owner(a) = Owner(b) => m = n

IInv == Types /\ Queue /\ Table /\ Beginners /\ Ids /\ Waiting /\ Asked

---------------------------------------------------------------------------

LEMMA InitIInv == Init => IInv
<1> SUFFICES ASSUME Init
             PROVE  IInv
  OBVIOUS
<1>1. Types
  <2>1. requests \in Seq(Requests) /\ client_queues \in Seq(Clients)
    BY DEF Init
  <2> QED
    BY <2>1 DEF Init, Types, Places, None
<1>2. Queue /\ Table /\ Beginners /\ Ids /\ Waiting /\ Asked
  BY DEF Init, Queue, Table, Beginners, Ids, Waiting, Asked, None
<1> QED
  BY <1>1, <1>2 DEF IInv

\* What requests and answers are made of.
LEMMA RequestParts ==
  ASSUME NEW b \in Requests
  PROVE  \/ b.type = 1 /\ b.queue \in Clients
         \/ b.type \in {2, 3} /\ b.id \in Nat
BY DEF Requests

LEMMA AnswerParts ==
  ASSUME NEW r \in Answers
  PROVE  /\ r.to \in Clients
         /\ \/ r.type = 1 /\ r.id \in Nat
            \/ r.type \in {2, 3}
BY DEF Answers

LEMMA OwnerIsClient ==
  ASSUME Types, NEW b \in Requests, RequestOk(b)
  PROVE  Owner(b) \in Clients
BY RequestParts DEF Types, RequestOk, Owner

\* The queue without its first message, and with one more.
LEMMA TailOf ==
  ASSUME NEW S, NEW s \in Seq(S), s # <<>>
  PROVE  /\ Head(s) \in S /\ Head(s) = s[1] /\ 1 \in 1 .. Len(s)
         /\ Tail(s) \in Seq(S) /\ Len(Tail(s)) = Len(s) - 1
         /\ \A n \in 1 .. Len(Tail(s)) : Tail(s)[n] = s[n + 1] /\ n + 1 \in 2 .. Len(s)
OBVIOUS

LEMMA AppendTo ==
  ASSUME NEW S, NEW s \in Seq(S), NEW e \in S
  PROVE  /\ Append(s, e) \in Seq(S) /\ Len(Append(s, e)) = Len(s) + 1
         /\ Append(s, e)[Len(s) + 1] = e
         /\ \A n \in 1 .. Len(s) : Append(s, e)[n] = s[n]
OBVIOUS

\* The messages that are left of a queue are as good as they were, if each of
\* them is and its owner has not changed.
LEMMA AskedKept ==
  ASSUME Types, Asked,
         \/ requests' \in {requests, <<>>}
         \/ requests # <<>> /\ requests' = Tail(requests),
         \A b \in Requests :
           /\ RequestOk(b) /\ Quiet(Owner(b))
           /\ requests' = requests \/ Owner(b) # Owner(Head(requests))
           => RequestOk(b)' /\ Quiet(Owner(b))' /\ Owner(b)' = Owner(b)
  PROVE  Asked'
<1>1. requests \in Seq(Requests)
  BY DEF Types
<1>2. CASE requests' = requests
  <2>1. ASSUME NEW n \in 1 .. Len(requests), NEW b \in Requests, b = requests[n]
        PROVE  RequestOk(b)' /\ Quiet(Owner(b))' /\ Owner(b)' = Owner(b)
    BY <1>2, <2>1 DEF Asked
  <2>2. ASSUME NEW n \in 1 .. Len(requests'), NEW b \in Requests, b = requests'[n]
        PROVE  RequestOk(b)' /\ Quiet(Owner(b))'
    BY <1>2, <2>1, <2>2
  <2>3. ASSUME NEW m \in 1 .. Len(requests'), NEW n \in 1 .. Len(requests'),
               NEW a \in Requests, NEW b \in Requests,
               a = requests'[m], b = requests'[n], Owner(a)' = Owner(b)'
        PROVE  m = n
    <3>1. /\ m \in 1 .. Len(requests) /\ n \in 1 .. Len(requests)
          /\ a = requests[m] /\ b = requests[n]
      BY <1>2, <2>3
    <3>2. Owner(a)' = Owner(a) /\ Owner(b)' = Owner(b)
      BY <2>1, <3>1
    <3> QED
      BY <2>3, <3>1, <3>2 DEF Asked
  <2> QED
    BY <2>2, <2>3 DEF Asked
<1>3. CASE requests' = <<>>
  BY <1>3 DEF Asked
<1>4. CASE requests # <<>> /\ requests' = Tail(requests)
  <2>1. /\ Head(requests) = requests[1] /\ 1 \in 1 .. Len(requests)
        /\ \A n \in 1 .. Len(requests') :
             requests'[n] = requests[n + 1] /\ n + 1 \in 2 .. Len(requests)
        /\ Len(requests) \in Nat
        /\ Head(requests) \in Requests
    BY <1>1, <1>4, TailOf
  <2>2. ASSUME NEW n \in 1 .. Len(requests'), NEW b \in Requests, b = requests'[n]
        PROVE  RequestOk(b)' /\ Quiet(Owner(b))' /\ Owner(b)' = Owner(b)
    <3>1. n + 1 \in 1 .. Len(requests) /\ n + 1 # 1 /\ b = requests[n + 1]
      BY <2>1, <2>2
    <3>2. RequestOk(b) /\ Quiet(Owner(b)) /\ Owner(b) # Owner(Head(requests))
      BY <2>1, <3>1 DEF Asked
    <3> QED
      BY <3>2
  <2>3. ASSUME NEW m \in 1 .. Len(requests'), NEW n \in 1 .. Len(requests'),
               NEW a \in Requests, NEW b \in Requests,
               a = requests'[m], b = requests'[n], Owner(a)' = Owner(b)'
        PROVE  m = n
    <3>1. Owner(a)' = Owner(a) /\ Owner(b)' = Owner(b)
      BY <2>2, <2>3
    <3>2. m + 1 \in 1 .. Len(requests) /\ n + 1 \in 1 .. Len(requests)
          /\ a = requests[m + 1] /\ b = requests[n + 1]
      BY <2>1, <2>3
    <3>3. m + 1 = n + 1
      BY <2>3, <3>1, <3>2 DEF Asked
    <3> QED
      BY <3>3
  <2> QED
    BY <2>2, <2>3 DEF Asked
<1> QED
  BY <1>2, <1>3, <1>4

\* A message e is added, whose owner had none.
LEMMA AskedMore ==
  ASSUME Types, Asked, NEW e \in Requests, requests' = Append(requests, e),
         RequestOk(e)', Quiet(Owner(e))',
         \A b \in Requests :
           RequestOk(b) /\ Quiet(Owner(b))
           => /\ RequestOk(b)' /\ Quiet(Owner(b))' /\ Owner(b)' = Owner(b)
              /\ Owner(b) # Owner(e)'
  PROVE  Asked'
<1>1. /\ requests \in Seq(Requests) /\ Len(requests) \in Nat
      /\ Len(requests') = Len(requests) + 1
      /\ requests'[Len(requests) + 1] = e
      /\ \A n \in 1 .. Len(requests) : requests'[n] = requests[n]
  BY AppendTo DEF Types
<1>2. ASSUME NEW n \in 1 .. Len(requests'), NEW b \in Requests, b = requests'[n]
      PROVE  /\ RequestOk(b)' /\ Quiet(Owner(b))'
             /\ \/ n \in 1 .. Len(requests) /\ b = requests[n]
                   /\ Owner(b)' = Owner(b) /\ Owner(b) # Owner(e)'
                \/ n = Len(requests) + 1 /\ b = e
  <2>1. CASE n \in 1 .. Len(requests)
    <3>1. b = requests[n]
      BY <1>1, <1>2, <2>1
    <3>2. RequestOk(b) /\ Quiet(Owner(b))
      BY <3>1, <2>1 DEF Asked
    <3> QED
      BY <3>1, <3>2, <2>1
  <2>2. CASE n = Len(requests) + 1
    <3>1. b = e
      BY <1>1, <1>2, <2>2
    <3> QED
      BY <3>1, <2>2
  <2> QED
    BY <1>1, <2>1, <2>2
<1>3. ASSUME NEW m \in 1 .. Len(requests'), NEW n \in 1 .. Len(requests'),
             NEW a \in Requests, NEW b \in Requests,
             a = requests'[m], b = requests'[n], Owner(a)' = Owner(b)'
      PROVE  m = n
  <2>1. CASE m = Len(requests) + 1 /\ a = e
    BY <1>2, <1>3, <2>1
  <2>2. CASE n = Len(requests) + 1 /\ b = e
    BY <1>2, <1>3, <2>2
  <2>3. CASE /\ m \in 1 .. Len(requests) /\ a = requests[m]
             /\ n \in 1 .. Len(requests) /\ b = requests[n]
             /\ Owner(a)' = Owner(a) /\ Owner(b)' = Owner(b)
    BY <1>3, <2>3 DEF Asked
  <2> QED
    BY <1>2, <1>3, <2>1, <2>2, <2>3
<1> QED
  BY <1>2, <1>3 DEF Asked

---------------------------------------------------------------------------
\* The steps of the server.

LEMMA OpenStep == ASSUME IInv, Open PROVE IInv'
<1>1. /\ server_queue' \in Nat /\ server_queue' > server_queue
      /\ requests' = <<>> /\ client_queues' = <<>>
      /\ exists' = TRUE /\ server' = "drain" /\ reply' = <<>>
      /\ UNCHANGED <<clientVars, replies>>
  BY DEF IInv, Types, Queue, Open, None
<1>2. Types'
  <2>1. requests' \in Seq(Requests) /\ client_queues' \in Seq(Clients)
    BY <1>1
  <2> QED
    BY <1>1, <2>1 DEF IInv, Types, clientVars
<1>3. Queue' /\ Table'
  BY <1>1 DEF Queue, Table, None
<1>4. Beginners'
  BY <1>1 DEF IInv, Types, Beginners, clientVars, None
<1>5. \A c \in Clients : ~Attached(c)'
  BY <1>1 DEF IInv, Types, Beginners, Attached, clientVars, None
<1>6. Ids' /\ Waiting' /\ Asked'
  BY <1>1, <1>5 DEF Ids, Waiting, Asked
<1> QED
  BY <1>2, <1>3, <1>4, <1>6 DEF IInv

LEMMA DrainStep == ASSUME IInv, Drain PROVE IInv'
<1>1. /\ server = "drain" /\ server' \in {"drain", "loop"}
      /\ \/ requests' = requests
         \/ requests # <<>> /\ requests' = Tail(requests) /\ exists
      /\ UNCHANGED <<exists, server_queue, client_queues, reply, clientVars, replies>>
  BY DEF Drain
<1>2. Types'
  <2>1. requests' \in Seq(Requests)
    <3>1. requests \in Seq(Requests)
      BY DEF IInv, Types
    <3> QED
      BY <1>1, <3>1, TailOf
  <2> QED
    BY <1>1, <2>1 DEF IInv, Types, clientVars
<1>3. Queue' /\ Table' /\ Beginners' /\ Ids' /\ Waiting'
  BY <1>1 DEF IInv, Queue, Table, Beginners, Ids, Waiting, Attached, IsId, AnswerOk,
              Registered, clientVars
<1>4. Asked'
  <2>1. \A b \in Requests : RequestOk(b) /\ Quiet(Owner(b)) =>
          RequestOk(b)' /\ Quiet(Owner(b))' /\ Owner(b)' = Owner(b)
    BY <1>1 DEF RequestOk, Quiet, Owner, Attached, Registered, clientVars
  <2> QED
    BY <1>1, <2>1, AskedKept DEF IInv
<1> QED
  BY <1>2, <1>3, <1>4 DEF IInv

\* What a message that is there to be received says.
LEMMA FirstRequest ==
  ASSUME IInv, requests # <<>>
  PROVE  /\ Head(requests) \in Requests
         /\ RequestOk(Head(requests)) /\ Quiet(Owner(Head(requests)))
         /\ Tail(requests) \in Seq(Requests)
<1>1. requests \in Seq(Requests)
  BY DEF IInv, Types
<1>2. /\ Head(requests) \in Requests /\ Head(requests) = requests[1]
      /\ 1 \in 1 .. Len(requests) /\ Tail(requests) \in Seq(Requests)
  BY <1>1, TailOf
<1> QED
  BY <1>2 DEF IInv, Asked

LEMMA ReceiveRegistration ==
  ASSUME IInv, Receive, Head(requests).type = 1 PROVE IInv'
<1> PICK b0 \in Requests : b0 = Head(requests)
  BY FirstRequest DEF Receive
<1>0. /\ Head(requests).queue \in Clients /\ Len(client_queues) \in Nat
  BY RequestParts DEF IInv, Types
<1> PICK q \in Clients : q = Head(requests).queue
  BY <1>0
<1> PICK k \in Nat : k = Len(client_queues)
  BY <1>0
<1>1. /\ Attached(q) /\ pc[q] \in {"loop", "gone"} /\ ~Registered(q)
      /\ Quiet(q) /\ Owner(Head(requests)) = q /\ Tail(requests) \in Seq(Requests)
      /\ requests # <<>>
  BY FirstRequest, RequestParts DEF Receive, RequestOk, Owner
<1>2. /\ server = "loop" /\ exists /\ server' = "replying" /\ requests' = Tail(requests)
      /\ client_queues' = Append(client_queues, q)
      /\ reply' = [type |-> 1, to |-> q, id |-> k]
      /\ UNCHANGED <<exists, server_queue, clientVars, replies>>
  BY DEF Receive, Assigned
<1>3. /\ client_queues' \in Seq(Clients) /\ Len(client_queues') = k + 1
      /\ client_queues'[k + 1] = q
      /\ \A n \in 1 .. k : client_queues'[n] = client_queues[n]
  BY <1>1, <1>2, AppendTo DEF IInv, Types
<1>4. \A n \in 1 .. k : client_queues[n] # q
  BY <1>1 DEF Registered
<1>5. Types'
  <2>1. reply' \in Answers
    BY <1>1, <1>2, <1>3 DEF Answers
  <2> QED
    BY <1>1, <1>2, <1>3, <2>1 DEF IInv, Types, clientVars
<1>6. Queue' /\ Beginners'
  BY <1>2 DEF IInv, Queue, Beginners, clientVars
<1>7. Table'
  BY <1>1, <1>2, <1>3, <1>4 DEF IInv, Table, Attached, clientVars
<1>8. \A c \in Clients, id \in Nat : IsId(id, c) => IsId(id, c)'
  BY <1>2, <1>3 DEF IsId
<1>9. /\ \A c \in Clients : Registered(c) => Registered(c)'
      /\ \A c \in Clients : c # q /\ ~Registered(c) => ~Registered(c)'
      /\ Registered(q)' /\ IsId(k, q)'
  BY <1>2, <1>3 DEF Registered, IsId
<1>10. Ids'
  BY <1>2, <1>8 DEF IInv, Types, Ids, Attached, clientVars
<1>11. Waiting'
  <2>1. ASSUME NEW c \in Clients, NEW r \in Answers, Attached(c)', replies'[c] = <<r>>
        PROVE  AnswerOk(r, c)'
    <3>1. AnswerOk(r, c)
      BY <1>2, <2>1 DEF IInv, Waiting, Attached, clientVars
    <3> QED
      BY <1>2, <1>8, <1>9, <3>1, AnswerParts DEF AnswerOk, clientVars
  <2>2. ASSUME NEW r \in Answers, r = reply'
        PROVE  AnswerOk(r, r.to)' /\ replies'[r.to] = <<>>
    <3>1. r.type = 1 /\ r.to = q /\ r.id = k
      BY <1>2, <2>2
    <3> QED
      BY <1>1, <1>2, <1>9, <3>1 DEF AnswerOk, Quiet
  <2> QED
    BY <2>1, <2>2 DEF Waiting
<1>12. Asked'
  <2>1. ASSUME NEW b \in Requests, RequestOk(b), Quiet(Owner(b)), Owner(b) # q
        PROVE  RequestOk(b)' /\ Quiet(Owner(b))' /\ Owner(b)' = Owner(b)
    <3>1. Owner(b)' = Owner(b) /\ RequestOk(b)'
      BY <1>2, <1>3, <1>9, <2>1, RequestParts
         DEF RequestOk, Owner, Attached, clientVars
    <3>2. Quiet(Owner(b))'
      BY <1>2, <2>1, <3>1 DEF Quiet
    <3> QED
      BY <3>1, <3>2
  <2>2. requests' # requests
    <3>1. requests \in Seq(Requests)
      BY DEF IInv, Types
    <3> QED
      BY <1>1, <1>2, <3>1, TailOf
  <2> QED
    BY <1>1, <1>2, <2>1, <2>2, AskedKept DEF IInv
<1> QED
  BY <1>5, <1>6, <1>7, <1>10, <1>11, <1>12 DEF IInv

LEMMA ReceiveReport ==
  ASSUME IInv, Receive, Head(requests).type # 1 PROVE IInv'
<1> PICK b0 \in Requests : b0 = Head(requests)
  BY FirstRequest DEF Receive
<1>0. /\ b0.type \in {2, 3} /\ b0.id \in Nat /\ b0.id + 1 \in 1 .. Len(client_queues)
      /\ RequestOk(b0) /\ client_queues[b0.id + 1] \in Clients
  BY FirstRequest, RequestParts DEF Receive, RequestOk, IInv, Types
<1> PICK q \in Clients : q = client_queues[b0.id + 1]
  BY <1>0
<1>1. /\ client_id[q] = b0.id /\ Registered(q)
      /\ Quiet(q) /\ Owner(b0) = q /\ Tail(requests) \in Seq(Requests)
      /\ requests # <<>>
  BY <1>0, FirstRequest DEF Receive, RequestOk, Owner, Registered
<1>2. /\ server = "loop" /\ exists /\ server' = "replying" /\ requests' = Tail(requests)
      /\ reply' = [type |-> b0.type, to |-> q]
      /\ UNCHANGED <<exists, server_queue, client_queues, clientVars, replies>>
  BY DEF Receive
<1>3. Types'
  <2>1. reply' \in Answers
    BY <1>0, <1>2 DEF Answers
  <2> QED
    BY <1>1, <1>2, <2>1 DEF IInv, Types, clientVars
<1>4. Queue' /\ Table' /\ Beginners' /\ Ids'
  BY <1>2 DEF IInv, Queue, Table, Beginners, Ids, Attached, IsId, clientVars
<1>5. Waiting'
  <2>1. \A c \in Clients, r \in Answers : Attached(c)' /\ replies'[c] = <<r>> =>
          AnswerOk(r, c)'
    BY <1>2 DEF IInv, Waiting, Attached, AnswerOk, Registered, IsId, clientVars
  <2>2. ASSUME NEW r \in Answers, r = reply'
        PROVE  AnswerOk(r, r.to)' /\ replies'[r.to] = <<>>
    <3>1. r.type # 1 /\ r.to = q
      BY <1>0, <1>2, <2>2
    <3> QED
      BY <1>0, <1>1, <1>2, <3>1 DEF AnswerOk, Quiet, Registered, clientVars, None
  <2> QED
    BY <2>1, <2>2 DEF Waiting
<1>6. Asked'
  <2>1. ASSUME NEW b \in Requests, RequestOk(b), Quiet(Owner(b)), Owner(b) # q
        PROVE  RequestOk(b)' /\ Quiet(Owner(b))' /\ Owner(b)' = Owner(b)
    BY <1>2, <2>1 DEF Quiet, RequestOk, Owner, Attached, Registered, clientVars
  <2>2. requests' # requests
    <3>1. requests \in Seq(Requests)
      BY DEF IInv, Types
    <3> QED
      BY <1>1, <1>2, <3>1, TailOf
  <2> QED
    BY <1>1, <1>2, <2>1, <2>2, AskedKept DEF IInv
<1> QED
  BY <1>3, <1>4, <1>5, <1>6 DEF IInv

\* The answer waits where its client looks for it.
LEMMA AnswerStep == ASSUME IInv, Answer PROVE IInv'
<1>1. server = "replying" /\ reply \in Answers
  BY DEF Answer, IInv, Types
<1> PICK r0 \in Answers : r0 = reply
  BY <1>1
<1> PICK q \in Clients : q = r0.to
  BY AnswerParts
<1>2. /\ AnswerOk(r0, q) /\ replies[q] = <<>>
      /\ reply' = <<>> /\ server' = "loop"
      /\ replies' = [replies EXCEPT ![q] = <<r0>>]
      /\ UNCHANGED <<exists, server_queue, requests, client_queues, clientVars>>
  <2>1. AnswerOk(r0, q) /\ replies[q] = <<>>
    BY <1>1 DEF IInv, Waiting
  <2>2. Append(replies[q], r0) = <<r0>>
    BY <2>1
  <2> QED
    BY <2>1, <2>2 DEF Answer
<1>3. /\ replies'[q] = <<r0>>
      /\ \A c \in Clients : c # q => replies'[c] = replies[c]
  BY <1>2 DEF IInv, Types
<1>4. Types'
  BY <1>2 DEF IInv, Types, clientVars
<1>5. Queue' /\ Table' /\ Ids'
  BY <1>2 DEF IInv, Queue, Table, Ids, Attached, IsId, clientVars
<1>6. Beginners'
  <2>1. pc[q] \in {"loop", "gone"}
    BY <1>2 DEF AnswerOk, Registered, IInv, Table
  <2> QED
    BY <1>2, <1>3, <2>1 DEF IInv, Beginners, clientVars
<1>7. Waiting'
  <2>1. \A c \in Clients, r \in Answers : AnswerOk(r, c)' = AnswerOk(r, c)
    BY <1>2 DEF AnswerOk, Registered, IsId, clientVars
  <2>2. ASSUME NEW c \in Clients, NEW r \in Answers, Attached(c)', replies'[c] = <<r>>
        PROVE  AnswerOk(r, c)'
    <3>1. CASE c = q
      <4>1. r = r0
        BY <1>3, <2>2, <3>1
      <4> QED
        BY <1>2, <2>1, <3>1, <4>1
    <3>2. CASE c # q
      BY <1>2, <1>3, <2>1, <2>2, <3>2 DEF IInv, Waiting, Attached, clientVars
    <3> QED
      BY <3>1, <3>2
  <2> QED
    BY <1>2, <2>2 DEF Waiting
<1>8. Asked'
  <2>1. \A b \in Requests : RequestOk(b) /\ Quiet(Owner(b)) =>
          RequestOk(b)' /\ Quiet(Owner(b))' /\ Owner(b)' = Owner(b)
    <3>1. ASSUME NEW b \in Requests, RequestOk(b), Quiet(Owner(b))
          PROVE  RequestOk(b)' /\ Quiet(Owner(b))' /\ Owner(b)' = Owner(b)
      <4>1. RequestOk(b)' /\ Owner(b)' = Owner(b) /\ Owner(b) \in Clients
        BY <1>2, <3>1, OwnerIsClient
           DEF IInv, RequestOk, Owner, Attached, Registered, clientVars
      <4>2. Owner(b) # q
        BY <1>1, <3>1 DEF Quiet
      <4> QED
        BY <1>2, <1>3, <3>1, <4>1, <4>2 DEF Quiet
    <3> QED
      BY <3>1
  <2> QED
    BY <1>2, <2>1, AskedKept DEF IInv
<1> QED
  BY <1>4, <1>5, <1>6, <1>7, <1>8 DEF IInv

LEMMA AnswerFailsStep == ASSUME IInv, AnswerFails PROVE IInv'
<1>1. /\ server = "replying" /\ server' \in {"off", "loop"} /\ reply' = <<>>
      /\ UNCHANGED <<exists, server_queue, requests, client_queues, clientVars, replies>>
  BY DEF AnswerFails
<1>2. Types'
  BY <1>1 DEF IInv, Types, clientVars
<1>3. Queue' /\ Table' /\ Beginners' /\ Ids' /\ Waiting'
  BY <1>1 DEF IInv, Queue, Table, Beginners, Ids, Waiting, Attached, IsId, AnswerOk,
              Registered, clientVars
<1>4. Asked'
  <2>1. \A b \in Requests : RequestOk(b) /\ Quiet(Owner(b)) =>
          RequestOk(b)' /\ Quiet(Owner(b))' /\ Owner(b)' = Owner(b)
    BY <1>1 DEF RequestOk, Quiet, Owner, Attached, Registered, clientVars
  <2> QED
    BY <1>1, <2>1, AskedKept DEF IInv
<1> QED
  BY <1>2, <1>3, <1>4 DEF IInv

LEMMA InterruptStep == ASSUME IInv, Interrupt PROVE IInv'
<1>1. /\ server' = "off" /\ exists' = FALSE /\ requests' = <<>> /\ reply' = <<>>
      /\ UNCHANGED <<server_queue, client_queues, clientVars, replies>>
  BY DEF Interrupt
<1>2. Types'
  <2>1. requests' \in Seq(Requests)
    BY <1>1
  <2> QED
    BY <1>1, <2>1 DEF IInv, Types, clientVars
<1>3. Queue' /\ Table' /\ Beginners' /\ Ids' /\ Waiting'
  BY <1>1 DEF IInv, Queue, Table, Beginners, Ids, Waiting, Attached, IsId, AnswerOk,
              Registered, clientVars
<1>4. Asked'
  BY <1>1 DEF Asked
<1> QED
  BY <1>2, <1>3, <1>4 DEF IInv

---------------------------------------------------------------------------
\* The steps of a client.

\* A client that has not registered has nothing on its way.
LEMMA NotYetThere ==
  ASSUME IInv, NEW c \in Clients, pc[c] \in {"off", "attached", "register"}
  PROVE  /\ ~Registered(c) /\ Quiet(c) /\ client_id[c] = None
         /\ \A b \in Requests : RequestOk(b) => Owner(b) # c
<1>1. ~Registered(c) /\ replies[c] = <<>> /\ client_id[c] = None
  BY DEF IInv, Table, Beginners, Registered
<1>2. server = "replying" => reply.to # c
  BY <1>1 DEF IInv, Types, Waiting, AnswerOk
<1>3. ASSUME NEW b \in Requests, RequestOk(b) PROVE Owner(b) # c
  BY <1>1, <1>3, RequestParts DEF RequestOk, Owner, Registered
<1> QED
  BY <1>1, <1>2, <1>3 DEF Quiet

\* Before it registers: only its place and its handle of the server's queue.
LEMMA BeginStep ==
  ASSUME IInv, NEW c \in Clients, Attach(c) \/ CreateQueue(c) \/ RegisterFails(c)
  PROVE  IInv'
<1>1. /\ pc[c] \in {"off", "attached", "register"}
      /\ \E to \in Places : pc' = [pc EXCEPT ![c] = to]
      /\ \/ attached' = attached
         \/ \E h \in {server_queue, None} : attached' = [attached EXCEPT ![c] = h]
      /\ own' \in {own, own \cup {c}}
      /\ UNCHANGED <<serverVars, requests, replies, client_id>>
  BY DEF Attach, CreateQueue, RegisterFails, At, Places
<1>2. /\ ~Registered(c) /\ Quiet(c) /\ client_id[c] = None
      /\ \A b \in Requests : RequestOk(b) => Owner(b) # c
  BY <1>1, NotYetThere
<1>3. Types'
  BY <1>1 DEF IInv, Types, serverVars
<1>4. \A d \in Clients : d # c => pc'[d] = pc[d] /\ attached'[d] = attached[d]
  BY <1>1 DEF IInv, Types
<1>5. Queue' /\ Table'
  BY <1>1, <1>2, <1>4 DEF IInv, Types, Queue, Table, Attached, Registered, serverVars
<1>6. Beginners'
  <2>1. attached'[c] <= server_queue
    BY <1>1 DEF IInv, Types, Beginners, None
  <2>2. replies'[c] = <<>> /\ client_id'[c] = None
    BY <1>1, <1>2 DEF Quiet
  <2> QED
    BY <1>1, <1>4, <2>1, <2>2 DEF IInv, Beginners, serverVars
<1>7. Ids' /\ Waiting'
  BY <1>1, <1>2, <1>4 DEF IInv, Ids, Waiting, Attached, IsId, AnswerOk, Registered,
                          Quiet, serverVars
<1>8. Asked'
  <2>1. ASSUME NEW b \in Requests, RequestOk(b), Quiet(Owner(b))
        PROVE  RequestOk(b)' /\ Quiet(Owner(b))' /\ Owner(b)' = Owner(b)
    <3>1. Owner(b) \in Clients /\ Owner(b) # c
      BY <1>2, <2>1, OwnerIsClient DEF IInv
    <3> QED
      BY <1>1, <1>4, <2>1, <3>1
         DEF RequestOk, Quiet, Owner, Attached, Registered, serverVars
  <2> QED
    BY <1>1, <2>1, AskedKept DEF IInv
<1> QED
  BY <1>3, <1>5, <1>6, <1>7, <1>8 DEF IInv

LEMMA RegisterStep == ASSUME IInv, NEW c \in Clients, Register(c) PROVE IInv'
<1>1. /\ pc[c] = "register" /\ pc' = [pc EXCEPT ![c] = "loop"]
      /\ exists /\ attached[c] = server_queue
      /\ requests' = Append(requests, [type |-> 1, queue |-> c])
      /\ UNCHANGED <<serverVars, attached, own, replies, client_id>>
  BY DEF Register, At, Connected, Send
<1>2. /\ ~Registered(c) /\ Quiet(c) /\ client_id[c] = None
      /\ \A b \in Requests : RequestOk(b) => Owner(b) # c
  BY <1>1, NotYetThere
<1> PICK e \in Requests : e = [type |-> 1, queue |-> c]
  BY DEF Requests
<1>3. requests' \in Seq(Requests)
  BY <1>1, AppendTo DEF IInv, Types
<1>4. pc'[c] = "loop" /\ \A d \in Clients : d # c => pc'[d] = pc[d]
  BY <1>1 DEF IInv, Types
<1>5. Types'
  BY <1>1, <1>3 DEF IInv, Types, Places, serverVars
<1>6. Queue' /\ Table' /\ Beginners' /\ Ids' /\ Waiting'
  <2>1. Queue'
    BY <1>1 DEF IInv, Queue, serverVars
  <2>2. Table'
    BY <1>1, <1>2, <1>4 DEF IInv, Types, Table, Attached, Registered, serverVars
  <2>3. Beginners'
    BY <1>1, <1>4 DEF IInv, Beginners, serverVars
  <2>4. Ids' /\ Waiting'
    BY <1>1 DEF IInv, Ids, Waiting, Attached, IsId, AnswerOk, Registered, serverVars
  <2> QED
    BY <2>1, <2>2, <2>3, <2>4
<1>7. Asked'
  <2>1. ASSUME NEW b \in Requests, RequestOk(b), Quiet(Owner(b))
        PROVE  /\ RequestOk(b)' /\ Quiet(Owner(b))' /\ Owner(b)' = Owner(b)
               /\ Owner(b) # Owner(e)'
    <3>1. Owner(b) \in Clients /\ Owner(b) # c
      BY <1>2, <2>1, OwnerIsClient DEF IInv
    <3> QED
      BY <1>1, <1>4, <2>1, <3>1
         DEF RequestOk, Quiet, Owner, Attached, Registered, serverVars
  <2>2. RequestOk(e)' /\ Quiet(Owner(e))'
    BY <1>1, <1>2, <1>4
       DEF IInv, Queue, RequestOk, Quiet, Owner, Attached, Registered, serverVars
  <2> QED
    BY <1>1, <2>1, <2>2, AskedMore DEF IInv
<1> QED
  BY <1>5, <1>6, <1>7 DEF IInv

\* What a client that takes an answer knows.
LEMMA Taking ==
  ASSUME IInv, NEW c \in Clients, NEW type \in {1, 2, 3}, Got(c, type)
  PROVE  /\ pc[c] = "loop" /\ Head(replies[c]) \in Answers
         /\ replies[c] = <<Head(replies[c])>> /\ Head(replies[c]).type = type
         /\ replies'[c] = <<>> /\ replies' \in [Clients -> {<<>>} \cup {<<r>> : r \in Answers}]
         /\ \A d \in Clients : d # c => replies'[d] = replies[d]
         /\ server = "replying" => reply.to # c
         /\ \A b \in Requests : Quiet(Owner(b)) => Owner(b) # c
         /\ Attached(c) => AnswerOk(Head(replies[c]), c)
<1>1. /\ pc[c] = "loop" /\ replies[c] # <<>> /\ Head(replies[c]).type = type
      /\ replies' = [replies EXCEPT ![c] = Tail(@)]
  BY DEF Got
<1> PICK r \in Answers : replies[c] = <<r>>
  BY <1>1 DEF IInv, Types
<1>2. Head(replies[c]) = r /\ Tail(replies[c]) = <<>>
  OBVIOUS
<1>3. /\ replies'[c] = <<>> /\ \A d \in Clients : d # c => replies'[d] = replies[d]
      /\ replies' \in [Clients -> {<<>>} \cup {<<x>> : x \in Answers}]
  BY <1>1, <1>2 DEF IInv, Types
<1>4. server = "replying" => reply.to # c
  BY <1>1 DEF IInv, Types, Waiting
<1>5. \A b \in Requests : Quiet(Owner(b)) => Owner(b) # c
  BY <1>1 DEF Quiet
<1>6. Attached(c) => AnswerOk(r, c)
  BY DEF IInv, Waiting
<1> QED
  BY <1>1, <1>2, <1>3, <1>4, <1>5, <1>6

\* A client that takes an answer asks again, with its id, if its server is there.
LEMMA AskAgain ==
  ASSUME IInv, NEW c \in Clients, NEW type \in {1, 2, 3}, Got(c, type),
         NEW id \in Nat \cup {None}, NEW u \in {2, 3},
         Attached(c) => id \in Nat /\ IsId(id, c),
         client_id' = [client_id EXCEPT ![c] = id],
         SendOrNot(c, [type |-> u, id |-> id]),
         UNCHANGED <<serverVars, pc, attached, own>>
  PROVE  IInv'
<1> DEFINE e == [type |-> u, id |-> id]
<1>0. e.type \in {2, 3} /\ e.id = id /\ (id \in Nat => e \in Requests)
  BY DEF Requests
<1>1. /\ pc[c] = "loop" /\ replies'[c] = <<>>
      /\ replies' \in [Clients -> {<<>>} \cup {<<r>> : r \in Answers}]
      /\ \A d \in Clients : d # c => replies'[d] = replies[d]
      /\ server = "replying" => reply.to # c
      /\ \A b \in Requests : Quiet(Owner(b)) => Owner(b) # c
  BY Taking
<1>2. client_id'[c] = id /\ \A d \in Clients : d # c => client_id'[d] = client_id[d]
  BY DEF IInv, Types
<1>3. \/ requests' = requests
      \/ exists /\ Attached(c) /\ requests' = Append(requests, e)
  BY DEF SendOrNot, Send, Connected, Attached, IInv, Queue
<1> HIDE DEF e
<1>4. Types'
  <2>1. requests' \in Seq(Requests)
    <3>1. requests \in Seq(Requests)
      BY DEF IInv, Types
    <3>2. Attached(c) => e \in Requests
      BY <1>0
    <3> QED
      BY <1>3, <3>1, <3>2, AppendTo
  <2>2. client_id' \in [Clients -> Nat \cup {None}]
    BY DEF IInv, Types
  <2> QED
    BY <1>1, <2>1, <2>2 DEF IInv, Types, serverVars
<1>5. Queue' /\ Table'
  BY <1>3 DEF IInv, Queue, Table, Attached, serverVars
<1>6. Beginners'
  BY <1>1, <1>2 DEF IInv, Beginners, serverVars
<1>7. Ids'
  BY <1>2 DEF IInv, Ids, Attached, IsId, serverVars
<1>8. Waiting'
  <2>1. \A d \in Clients, r \in Answers : d # c /\ AnswerOk(r, d) => AnswerOk(r, d)'
    BY <1>2 DEF AnswerOk, Registered, IsId, serverVars
  <2>2. \A d \in Clients, r \in Answers : Attached(d)' /\ replies'[d] = <<r>> => AnswerOk(r, d)'
    <3> SUFFICES ASSUME NEW d \in Clients, NEW r \in Answers, Attached(d)', replies'[d] = <<r>>
                 PROVE  AnswerOk(r, d)'
      OBVIOUS
    <3>1. d # c /\ replies[d] = <<r>>
      BY <1>1
    <3>2. AnswerOk(r, d)
      BY <3>1 DEF IInv, Waiting, Attached, serverVars
    <3> QED
      BY <2>1, <3>1, <3>2
  <2>3. ASSUME NEW r \in Answers, server' = "replying", r = reply'
        PROVE  AnswerOk(r, r.to)' /\ replies'[r.to] = <<>>
    <3>1. r.to \in Clients /\ r.to # c /\ r = reply /\ server = "replying"
      BY <1>1, <2>3, AnswerParts DEF serverVars
    <3> QED
      BY <1>1, <2>1, <3>1 DEF IInv, Waiting
  <2> QED
    BY <2>2, <2>3 DEF Waiting
<1>9. Asked'
  <2>1. ASSUME NEW b \in Requests, RequestOk(b), Quiet(Owner(b))
        PROVE  /\ RequestOk(b)' /\ Quiet(Owner(b))' /\ Owner(b)' = Owner(b)
               /\ Owner(b) # c
    <3>1. Owner(b) \in Clients /\ Owner(b) # c
      BY <1>1, <2>1, OwnerIsClient DEF IInv
    <3> QED
      BY <1>1, <1>2, <2>1, <3>1
         DEF RequestOk, Quiet, Owner, Attached, Registered, serverVars
  <2>2. CASE requests' = requests
    BY <2>1, <2>2, AskedKept DEF IInv
  <2>3. CASE exists /\ Attached(c) /\ requests' = Append(requests, e)
    <3>1. e \in Requests /\ Owner(e)' = c
      BY <1>0, <2>3 DEF Owner, IsId, serverVars
    <3>2. RequestOk(e)'
      BY <1>0, <1>2, <2>3 DEF RequestOk, IsId, serverVars
    <3>3. Quiet(c)'
      BY <1>1 DEF Quiet, serverVars
    <3> QED
      BY <2>1, <2>3, <3>1, <3>2, <3>3, AskedMore DEF IInv
  <2> QED
    BY <1>3, <2>2, <2>3
<1> QED
  BY <1>4, <1>5, <1>6, <1>7, <1>8, <1>9 DEF IInv

\* A turn of the client's loop: it takes an answer of the given type and sends
\* a request of type u with this id.
Asks(c, type, id, u) ==
  /\ Got(c, type)
  /\ Attached(c) => id \in Nat /\ IsId(id, c)
  /\ client_id' = [client_id EXCEPT ![c] = id]
  /\ SendOrNot(c, [type |-> u, id |-> id])
  /\ UNCHANGED <<serverVars, pc, attached, own>>

LEMMA Asking ==
  ASSUME IInv, NEW c \in Clients, Loop(c)
  PROVE  \E type \in {1, 2, 3}, id \in Nat \cup {None}, u \in {2, 3} : Asks(c, type, id, u)
<1>1. CASE OnId(c)
  <2> PICK r \in Answers : r = Head(replies[c]) /\ r.type = 1 /\ (Attached(c) => AnswerOk(r, c))
    BY <1>1, Taking DEF OnId
  <2> PICK id \in Nat : id = r.id
    BY AnswerParts DEF Answers
  <2>1. client_id' = [client_id EXCEPT ![c] = id] /\ client_id'[c] = id
    BY <1>1 DEF OnId, IInv, Types
  <2>2. SendOrNot(c, [type |-> 2, id |-> id])
    BY <1>1, <2>1 DEF OnId
  <2>3. Attached(c) => id \in Nat /\ IsId(id, c)
    BY DEF AnswerOk
  <2>4. Got(c, 1) /\ UNCHANGED <<serverVars, pc, attached, own>>
    BY <1>1 DEF OnId
  <2>5. id \in Nat \cup {None}
    OBVIOUS
  <2> QED
    BY <2>1, <2>2, <2>3, <2>4, <2>5 DEF Asks
<1>2. CASE OnNumber(c) \/ OnReceipt(c)
  <2> PICK t \in {2, 3} : Got(c, t)
    BY <1>2 DEF OnNumber, OnReceipt
  <2> PICK u \in {2, 3} : SendOrNot(c, [type |-> u, id |-> client_id[c]])
    BY <1>2 DEF OnNumber, OnReceipt
  <2> PICK id \in Nat \cup {None} : id = client_id[c]
    BY DEF IInv, Types
  <2>1. Attached(c) => id \in Nat /\ IsId(id, c)
    BY Taking DEF AnswerOk, IInv, Ids
  <2>2. client_id' = [client_id EXCEPT ![c] = id]
    BY <1>2 DEF OnNumber, OnReceipt, clientVars, IInv, Types
  <2>3. UNCHANGED <<serverVars, pc, attached, own>>
    BY <1>2 DEF OnNumber, OnReceipt, clientVars
  <2> QED
    BY <2>1, <2>2, <2>3 DEF Asks
<1> QED
  BY <1>1, <1>2 DEF Loop

LEMMA LoopStep == ASSUME IInv, NEW c \in Clients, Loop(c) PROVE IInv'
BY Asking, AskAgain DEF Asks

LEMMA InterruptClientStep == ASSUME IInv, NEW c \in Clients, InterruptClient(c) PROVE IInv'
<1>1. /\ pc[c] \notin {"off", "gone"} /\ pc' = [pc EXCEPT ![c] = "gone"]
      /\ own' = own \ {c} /\ replies' = [replies EXCEPT ![c] = <<>>]
      /\ \/ exists' = FALSE /\ requests' = <<>>
         \/ UNCHANGED <<exists, requests>>
      /\ UNCHANGED <<server, server_queue, client_queues, reply, attached, client_id>>
  BY DEF InterruptClient
<1>2. /\ pc'[c] = "gone" /\ replies'[c] = <<>>
      /\ \A d \in Clients : d # c => pc'[d] = pc[d] /\ replies'[d] = replies[d]
  BY <1>1 DEF IInv, Types
<1>3. Types'
  <2>1. requests' \in Seq(Requests)
    <3>1. requests \in Seq(Requests) /\ <<>> \in Seq(Requests)
      BY DEF IInv, Types
    <3> QED
      BY <1>1, <3>1
  <2> QED
    BY <1>1, <2>1 DEF IInv, Types, Places
<1>4. Queue' /\ Table' /\ Beginners' /\ Ids'
  <2>1. Queue'
    BY <1>1 DEF IInv, Queue
  <2>2. Table'
    BY <1>1, <1>2 DEF IInv, Types, Table, Attached
  <2>3. Beginners' /\ Ids'
    BY <1>1, <1>2 DEF IInv, Beginners, Ids, Attached, IsId
  <2> QED
    BY <2>1, <2>2, <2>3
<1>5. Waiting'
  <2>1. \A d \in Clients, r \in Answers : AnswerOk(r, d) => AnswerOk(r, d)'
    BY <1>1 DEF AnswerOk, Registered, IsId
  <2>2. ASSUME NEW d \in Clients, NEW r \in Answers, Attached(d)', replies'[d] = <<r>>
        PROVE  AnswerOk(r, d)'
    <3>1. replies[d] = <<r>>
      BY <1>2, <2>2
    <3> QED
      BY <1>1, <2>1, <2>2, <3>1 DEF IInv, Waiting, Attached
  <2>3. ASSUME NEW r \in Answers, server' = "replying", r = reply'
        PROVE  AnswerOk(r, r.to)' /\ replies'[r.to] = <<>>
    <3>1. r.to \in Clients /\ r = reply /\ server = "replying"
      BY <1>1, <2>3, AnswerParts
    <3> QED
      BY <1>2, <2>1, <3>1 DEF IInv, Waiting
  <2> QED
    BY <2>2, <2>3 DEF Waiting
<1>6. Asked'
  <2>1. ASSUME NEW b \in Requests, RequestOk(b), Quiet(Owner(b))
        PROVE  RequestOk(b)' /\ Quiet(Owner(b))' /\ Owner(b)' = Owner(b)
    <3>1. Owner(b) \in Clients /\ Owner(b)' = Owner(b)
      BY <1>1, <2>1, OwnerIsClient DEF IInv, Owner
    <3>2. RequestOk(b)'
      BY <1>1, <1>2, <2>1, <3>1, RequestParts DEF RequestOk, Owner, Attached, Registered
    <3>3. Quiet(Owner(b))'
      BY <1>1, <1>2, <2>1, <3>1 DEF Quiet
    <3> QED
      BY <3>1, <3>2, <3>3
  <2> QED
    BY <1>1, <2>1, AskedKept DEF IInv
<1> QED
  BY <1>3, <1>4, <1>5, <1>6 DEF IInv

---------------------------------------------------------------------------

LEMMA NextIInv == IInv /\ [Next]_vars => IInv'
<1> SUFFICES ASSUME IInv, [Next]_vars
             PROVE  IInv'
  OBVIOUS
<1>1. CASE Open \/ main \/ Interrupt
  BY <1>1, OpenStep, DrainStep, ReceiveRegistration, ReceiveReport, AnswerStep,
     AnswerFailsStep, InterruptStep DEF main
<1>2. ASSUME NEW c \in Clients,
             \/ Attach(c) \/ CreateQueue(c) \/ Register(c) \/ RegisterFails(c)
             \/ Loop(c) \/ InterruptClient(c)
      PROVE  IInv'
  BY <1>2, BeginStep, RegisterStep, LoopStep, InterruptClientStep
<1>3. CASE UNCHANGED vars
  <2>1. Types' /\ Queue' /\ Table' /\ Beginners' /\ Ids'
    BY <1>3 DEF vars, IInv, Types, Queue, Table, Beginners, Ids, Attached, IsId
  <2>2. Waiting'
    BY <1>3 DEF vars, IInv, Waiting, Attached, AnswerOk, Registered, IsId
  <2>3. Asked'
    BY <1>3 DEF vars, IInv, Asked, RequestOk, Quiet, Owner, Attached, Registered
  <2> QED
    BY <2>1, <2>2, <2>3 DEF IInv
<1> QED
  BY <1>1, <1>2, <1>3 DEF Next

\* The invariant of the server and its clients, for all their numbers.
THEOREM Invariance == Spec => []IInv
BY InitIInv, NextIInv, PTL DEF Spec

\* A client and the server of its queue agree on the client's id, and so does
\* every request (server.c 47-62, client.c 69-87), however many clients there
\* are and however often one of them or the server dies and comes back.
THEOREM IdsNeverMixed == Spec => []IdsAgree
<1>1. IInv => IdsAgree
  <2> SUFFICES ASSUME IInv
               PROVE  IdsAgree
    OBVIOUS
  <2>1. ASSUME NEW c \in Clients, Connected(c), client_id[c] # None
        PROVE  client_id[c] < Len(client_queues) /\ client_queues[client_id[c] + 1] = c
    <3>1. Attached(c)
      BY <2>1 DEF Connected, Attached, IInv, Queue
    <3>2. IsId(client_id[c], c) /\ client_id[c] \in Nat /\ Len(client_queues) \in Nat
      BY <2>1, <3>1 DEF IInv, Types, Ids
    <3> QED
      BY <3>2 DEF IsId
  <2>2. ASSUME NEW n \in 1 .. Len(requests), requests[n].type # 1
        PROVE  LET id == requests[n].id + 1
               IN  id \in DOMAIN client_queues /\ client_id[client_queues[id]] = id - 1
    <3> PICK b \in Requests : b = requests[n]
      BY DEF IInv, Types
    <3>1. RequestOk(b) /\ b.type # 1 /\ b.id \in Nat
      BY <2>2, RequestParts DEF IInv, Asked
    <3>2. b.id + 1 \in 1 .. Len(client_queues) /\ client_id[client_queues[b.id + 1]] = b.id
      BY <3>1 DEF RequestOk
    <3> QED
      BY <3>1, <3>2 DEF IInv, Types
  <2> QED
    BY <2>1, <2>2 DEF IdsAgree
<1> QED
  BY Invariance, <1>1, PTL

\* Of each client there is at most one message on its way, be it a request, an
\* answer in its queue or the answer that the server is sending.
THEOREM NeverTwoInFlight == Spec => []OneInFlight
<1>1. IInv => OneInFlight
  <2> SUFFICES ASSUME IInv, NEW c \in Clients
               PROVE  InFlight(c) <= 1
    BY DEF OneInFlight
  <2> DEFINE Mine == {n \in 1 .. Len(requests) : About(requests[n], c)}
  <2>1. ASSUME NEW n \in Mine
        PROVE  /\ requests[n] \in Requests /\ Owner(requests[n]) = c /\ Quiet(c)
               /\ n \in 1 .. Len(requests)
    <3> PICK b \in Requests : b = requests[n]
      BY DEF IInv, Types
    <3>1. Owner(b) = c
      BY DEF About, Owner
    <3> QED
      BY <3>1 DEF IInv, Asked
  <2>2. /\ Len(replies[c]) \in {0, 1}
        /\ replies[c] = <<>> => Len(replies[c]) = 0
    BY DEF IInv, Types
  <2>3. (reply # <<>> /\ reply.to = c) => server = "replying" /\ replies[c] = <<>>
    BY DEF IInv, Types, Waiting
  <2> DEFINE Sent == IF reply # <<>> /\ reply.to = c THEN 1 ELSE 0
  <2>4. InFlight(c) = Cardinality(Mine) + Len(replies[c]) + Sent
    BY DEF InFlight
  <2>5. /\ Sent \in {0, 1} /\ Sent + Len(replies[c]) \in {0, 1}
        /\ ~(reply # <<>> /\ reply.to = c) => Sent = 0
    <3>1. CASE reply # <<>> /\ reply.to = c
      <4>1. Sent = 1 /\ Len(replies[c]) = 0
        BY <2>2, <2>3, <3>1
      <4> QED
        BY <3>1, <4>1
    <3>2. CASE ~(reply # <<>> /\ reply.to = c)
      <4>1. Sent = 0
        BY <3>2
      <4> HIDE DEF Sent
      <4> QED
        BY <2>2, <4>1
    <3> QED
      BY <3>1, <3>2
  <2> HIDE DEF Mine, Sent
  <2>6. CASE Mine = {}
    <3>1. Cardinality(Mine) = 0
      BY <2>6, FS_EmptySet
    <3> QED
      BY <2>2, <2>4, <2>5, <3>1
  <2>7. ASSUME NEW n \in Mine
        PROVE  InFlight(c) <= 1
    <3>1. Mine = {n}
      <4>1. ASSUME NEW m \in Mine
            PROVE  m = n
        BY <2>1, <2>7 DEF IInv, Asked
      <4> QED
        BY <4>1
    <3>2. Cardinality(Mine) = 1
      BY <3>1, FS_Singleton
    <3>3. replies[c] = <<>> /\ ~(reply # <<>> /\ reply.to = c)
      BY <2>1, <2>3 DEF Quiet
    <3> QED
      BY <2>2, <2>4, <2>5, <3>2, <3>3
  <2> QED
    BY <2>6, <2>7
<1> QED
  BY Invariance, <1>1, PTL

---------------------------------------------------------------------------
\* A client that works never waits for nothing.

\* A message from or to c is on its way.
Carried(c) ==
  \/ \E n \in 1 .. Len(requests) : Owner(requests[n]) = c
  \/ replies[c] # <<>>
  \/ server = "replying" /\ reply.to = c

\* Its queue is there, so that it can be answered, and the server that drains
\* its queue has nobody in its table whose request it could throw away.
Baton ==
  /\ server = "drain" => client_queues = <<>>
  /\ \A c \in Clients : pc[c] \in {"register", "loop"} => c \in own
  /\ \A c \in Working : Carried(c)

\* A request stays in the queue while others come.
LEMMA StaysInQueue ==
  ASSUME IInv, NEW c, NEW n \in 1 .. Len(requests), Owner(requests[n]) = c,
         client_queues' = client_queues,
         requests' = requests \/ \E e \in Requests : requests' = Append(requests, e)
  PROVE  Carried(c)'
<1>1. requests \in Seq(Requests) /\ Len(requests) \in Nat
  BY DEF IInv, Types
<1> PICK b \in Requests : b = requests[n]
  BY <1>1
<1>2. n \in 1 .. Len(requests') /\ requests'[n] = b
  BY <1>1, AppendTo
<1>3. Owner(b)' = c
  BY DEF Owner
<1> QED
  BY <1>2, <1>3 DEF Carried


LEMMA ServerKeepsBaton ==
  ASSUME IInv, Baton, Receive \/ Answer \/ AnswerFails \/ Drain
  PROVE  Baton'
<1>1. Working' = Working /\ UNCHANGED <<pc, own>>
  BY DEF Receive, Answer, AnswerFails, Drain, Working, Connected, clientVars
<1>2. server' = "drain" => client_queues' = <<>>
  BY DEF Receive, Answer, AnswerFails, Drain, Baton
<1>3. ASSUME NEW c \in Working, Carried(c)
      PROVE  Carried(c)'
  <2>1. c \in Clients /\ c \in own /\ Attached(c) /\ IsId(client_id[c], c)
    BY <1>3 DEF Working, Baton, Connected, Attached, IInv, Queue, Ids
  <2>2. CASE Drain
    <3>1. client_queues = <<>>
      BY <2>2 DEF Drain, Baton
    <3> QED
      BY <2>1, <3>1 DEF IsId
  <2>3. CASE Answer
    <3>1. CASE reply.to = c
      <4>1. replies'[c] # <<>>
        BY <2>1, <2>3, <3>1 DEF Answer, IInv, Types
      <4> QED
        BY <4>1 DEF Carried
    <3>2. CASE reply.to # c
      <4>1. replies'[c] = replies[c]
        BY <2>1, <2>3, <3>2 DEF Answer, IInv, Types
      <4>2. requests' = requests /\ client_queues' = client_queues
        BY <2>3 DEF Answer
      <4> QED
        BY <1>3, <3>2, <4>1, <4>2, StaysInQueue DEF Carried
    <3> QED
      BY <3>1, <3>2
  <2>4. CASE AnswerFails
    <3>1. UNCHANGED <<requests, client_queues, replies>> /\ reply.to # c
      BY <2>1, <2>4 DEF AnswerFails
    <3> QED
      BY <1>3, <3>1, StaysInQueue DEF Carried
  <2>5. CASE Receive
    <3>1. server = "loop" /\ replies' = replies /\ requests' = Tail(requests) /\ requests # <<>>
      BY <2>5 DEF Receive
    <3>2. CASE replies[c] # <<>>
      BY <3>1, <3>2 DEF Carried
    <3>3. CASE replies[c] = <<>>
      <4> PICK n \in 1 .. Len(requests) : Owner(requests[n]) = c
        BY <1>3, <3>1, <3>3 DEF Carried
      <4> PICK b \in Requests : b = requests[n]
        BY DEF IInv, Types
      <4>1. RequestOk(b)
        BY DEF IInv, Asked
      <4>2. CASE n = 1
        <5>1. b = Head(requests)
          BY <3>1, <4>2, TailOf DEF IInv, Types
        <5>2. server' = "replying" /\ reply'.to = Owner(b)
          BY <2>5, <5>1 DEF Receive, Owner
        <5> QED
          BY <5>2 DEF Carried
      <4>3. CASE n # 1
        <5>1. requests \in Seq(Requests)
          BY DEF IInv, Types
        <5>2. n - 1 \in 1 .. Len(requests') /\ requests'[n - 1] = b
          BY <3>1, <4>3, <5>1, TailOf
        <5>3. Owner(b)' = Owner(b)
          <6>1. CASE b.type = 1
            BY <6>1 DEF Owner
          <6>2. CASE b.type # 1
            <7>1. b.id + 1 \in 1 .. Len(client_queues)
              BY <4>1, <6>2 DEF RequestOk
            <7>2. \/ client_queues' = client_queues
                  \/ \E q \in Clients : client_queues' = Append(client_queues, q)
              <8>1. Head(requests) \in Requests
                BY <3>1, <5>1, TailOf
              <8> QED
                BY <2>5, <8>1, RequestParts DEF Receive
            <7>3. client_queues'[b.id + 1] = client_queues[b.id + 1]
              BY <7>1, <7>2, AppendTo DEF IInv, Types
            <7> QED
              BY <6>2, <7>3 DEF Owner
          <6> QED
            BY <6>1, <6>2
        <5> QED
          BY <5>2, <5>3 DEF Carried
      <4> QED
        BY <4>2, <4>3
    <3> QED
      BY <3>2, <3>3
  <2> QED
    BY <2>2, <2>3, <2>4, <2>5
<1> QED
  BY <1>1, <1>2, <1>3 DEF Baton

\* A server that comes or goes leaves nobody who works.
LEMMA NobodyLeft ==
  ASSUME IInv, Baton, Open \/ Interrupt
  PROVE  Baton'
<1>1. Working' = {}
  <2>1. CASE Interrupt
    BY <2>1 DEF Interrupt, Working, Connected
  <2>2. CASE Open
    <3>1. \A c \in Clients : attached'[c] # server_queue'
      BY <2>2 DEF Open, IInv, Types, Beginners, clientVars, None
    <3> QED
      BY <3>1 DEF Working, Connected
  <2> QED
    BY <2>1, <2>2
<1>2. UNCHANGED <<pc, own>> /\ (server' = "drain" => client_queues' = <<>>)
  BY DEF Open, Interrupt, clientVars
<1> QED
  BY <1>1, <1>2 DEF Baton

\* A client that begins or ends: the others are carried as they were.
LEMMA ComesAndGoes ==
  ASSUME IInv, Baton, NEW c \in Clients,
         \/ Attach(c) \/ CreateQueue(c) \/ Register(c) \/ RegisterFails(c)
         \/ InterruptClient(c)
  PROVE  Baton'
<1>1. server' = server /\ client_queues' = client_queues /\ reply' = reply
  BY DEF Attach, CreateQueue, Register, RegisterFails, InterruptClient, serverVars
<1>2. \A d \in Clients \ {c} : /\ pc'[d] = pc[d] /\ attached'[d] = attached[d]
                               /\ d \in own' <=> d \in own
                               /\ replies'[d] = replies[d] /\ client_id'[d] = client_id[d]
  BY DEF IInv, Types, Attach, CreateQueue, Register, RegisterFails, InterruptClient, At
<1>3. pc'[c] \in {"register", "loop"} => c \in own'
  BY DEF IInv, Types, Baton, Attach, CreateQueue, Register, RegisterFails, InterruptClient, At
<1>4. c \notin Working'
  BY DEF IInv, Types, Beginners, Working, Attach, CreateQueue, Register, RegisterFails,
         InterruptClient, At
<1>5. \/ Working' = {}
      \/ /\ exists' = exists /\ server_queue' = server_queue
         /\ requests' = requests \/ \E e \in Requests : requests' = Append(requests, e)
  <2>1. CASE Register(c)
    <3>1. [type |-> 1, queue |-> c] \in Requests
      BY DEF Requests
    <3> QED
      BY <2>1, <3>1 DEF Register, Send, serverVars
  <2>2. CASE Attach(c) \/ CreateQueue(c) \/ RegisterFails(c)
    BY <2>2 DEF Attach, CreateQueue, RegisterFails, serverVars
  <2>3. CASE InterruptClient(c)
    BY <2>3 DEF InterruptClient, Working, Connected
  <2> QED
    BY <2>1, <2>2, <2>3
<1>6. ASSUME NEW d \in Working'
      PROVE  Carried(d)'
  <2>1. d \in Working /\ d # c /\ d \in Clients
    BY <1>2, <1>4, <1>5, <1>6 DEF Working, Connected
  <2>2. CASE replies[d] # <<>> \/ (server = "replying" /\ reply.to = d)
    BY <1>1, <1>2, <2>1, <2>2 DEF Carried
  <2>3. CASE \E n \in 1 .. Len(requests) : Owner(requests[n]) = d
    BY <1>1, <1>5, <1>6, <2>3, StaysInQueue
  <2> QED
    BY <2>1, <2>2, <2>3 DEF Baton, Carried
<1> QED
  BY <1>1, <1>2, <1>3, <1>6 DEF Baton

\* A client that takes an answer asks again if its server is there.
LEMMA LoopKeepsBaton ==
  ASSUME IInv, Baton, NEW c \in Clients, Loop(c)
  PROVE  Baton'
<1> PICK type \in {1, 2, 3}, id \in Nat \cup {None}, u \in {2, 3} : Asks(c, type, id, u)
  BY Asking
<1> PICK e : e = [type |-> u, id |-> id]
  OBVIOUS
<1>1. /\ Got(c, type) /\ client_id' = [client_id EXCEPT ![c] = id]
      /\ Attached(c) => id \in Nat /\ IsId(id, c)
      /\ UNCHANGED <<server, exists, server_queue, client_queues, reply, pc, attached, own>>
  BY DEF Asks, serverVars
<1>2. \/ ~Connected(c) /\ requests' = requests
      \/ Connected(c) /\ requests' = Append(requests, e)
  BY DEF Asks, SendOrNot, Send
<1>3. Connected(c) => Attached(c) /\ e \in Requests /\ Owner(e)' = c
  <2>1. Connected(c) => Attached(c)
    BY DEF Connected, Attached, IInv, Queue
  <2>2. id \in Nat => e \in Requests
    BY DEF Requests
  <2>3. IsId(id, c) => Owner(e)' = c
    BY <1>1 DEF Owner, IsId
  <2> QED
    BY <1>1, <2>1, <2>2, <2>3
<1>4. requests \in Seq(Requests) /\ Len(requests) \in Nat
  BY DEF IInv, Types
<1>5. ASSUME NEW d \in Working', d # c
      PROVE  Carried(d)'
  <2>1. d \in Working /\ d \in Clients /\ replies'[d] = replies[d]
    BY <1>1, <1>5, Taking DEF Working, Connected, IInv, Types
  <2>2. CASE replies[d] # <<>> \/ (server = "replying" /\ reply.to = d)
    BY <1>1, <2>1, <2>2 DEF Carried
  <2>3. CASE \E n \in 1 .. Len(requests) : Owner(requests[n]) = d
    BY <1>1, <1>2, <1>3, <2>3, StaysInQueue
  <2> QED
    BY <2>1, <2>2, <2>3 DEF Baton, Carried
<1>6. ASSUME c \in Working'
      PROVE  Carried(c)'
  <2>1. Connected(c)
    BY <1>1, <1>6 DEF Working, Connected
  <2>2. Len(requests) + 1 \in 1 .. Len(requests') /\ requests'[Len(requests) + 1] = e
    BY <1>2, <1>3, <1>4, <2>1, AppendTo
  <2> QED
    BY <1>3, <2>1, <2>2 DEF Carried
<1> QED
  BY <1>1, <1>5, <1>6 DEF Baton

LEMMA BatonKept == IInv /\ Baton /\ [Next]_vars => Baton'
<1> SUFFICES ASSUME IInv, Baton, [Next]_vars
             PROVE  Baton'
  OBVIOUS
<1>1. CASE UNCHANGED vars
  BY <1>1 DEF vars, Baton, Working, Connected, Carried, Owner
<1> QED
  BY <1>1, ServerKeepsBaton, NobodyLeft, ComesAndGoes, LoopKeepsBaton DEF Next, main

\* The server takes and answers, unless there is nothing to do.
ServerBlocked ==
  \/ server = "loop" /\ requests = <<>>
  \/ server = "replying" /\ reply.to \in own /\ Len(replies[reply.to]) >= QUEUE

\* The client has no answer to take, or no room for its next request.
ClientBlocked(c) == replies[c] = <<>> \/ Len(requests) >= QUEUE

\* Together with NeverTwoInFlight: while a client with an id is connected to
\* its server, exactly one message is on its way between them.
THEOREM NothingLost == Spec => [](\A c \in Working : Carried(c))
<1>1. Init => Baton
  BY DEF Init, Baton, Working
<1>2. Baton => \A c \in Working : Carried(c)
  BY DEF Baton
<1> QED
  BY <1>1, <1>2, BatonKept, Invariance, PTL DEF Spec

\* For any number of clients and any room in the queues, even one message, the
\* server and the clients that work never all wait: not for room (msgsnd of
\* server.c 55, 66 and 78, of client.c 72, 86 and 94), nor for a message.
THEOREM NeverStuck ==
  Spec => [](server # "off" /\ Working # {} =>
               ~ServerBlocked \/ \E c \in Working : ~ClientBlocked(c))
<1>1. ASSUME IInv, server # "off", NEW c \in Working, Carried(c), ServerBlocked
      PROVE  ~ClientBlocked(c)
  <2>1. server = "loop" /\ requests = <<>>
    <3>1. CASE server = "replying"
      <4>1. replies[reply.to] = <<>>
        <5>1. PICK r \in Answers : r = reply
          BY <1>1, <3>1 DEF IInv, Types
        <5>2. replies[r.to] = <<>>
          BY <1>1, <3>1, <5>1 DEF IInv, Waiting
        <5> QED
          BY <5>1, <5>2
      <4> QED
        BY <1>1, <3>1, <4>1, PrimeAssumption DEF ServerBlocked
    <3> QED
      BY <1>1, <3>1 DEF ServerBlocked
  <2>2. replies[c] # <<>>
    BY <1>1, <2>1 DEF Carried
  <2> QED
    BY <2>1, <2>2, PrimeAssumption DEF ClientBlocked
<1>2. IInv /\ (\A c \in Working : Carried(c))
        => (server # "off" /\ Working # {} =>
              ~ServerBlocked \/ \E c \in Working : ~ClientBlocked(c))
  BY <1>1
<1> QED
  BY <1>2, Invariance, NothingLost, PTL

=============================================================================
