---------------------------- MODULE RpcChannelProofs ----------------------------
(***************************************************************************)
(* Proofs about RpcChannel, for any connections, calls and addresses and   *)
(* any number of sequence numbers.                                         *)
(***************************************************************************)
EXTENDS RpcChannel, SequenceTheorems, TLAPS

-----------------------------------------------------------------------------
(* What is on its way *)

\* The client waits for the answer to this call under this id.
Waits(responses, id, call) == id \in DOMAIN responses /\ responses[id] = call

\* The messages of a stream to olad that will be answered.
Asking(u) == {i \in 1 .. Len(u) : u[i].call.kind # "stream"}

\* The two streams of a connection and the requests olad serves for it, against
\* the calls the client waits for: everything that is on its way carries the id
\* of the call it is about, and no id is on its way twice.
Matched(u, d, requests, responses) ==
    /\ \A i \in Asking(u) : /\ Waits(responses, u[i].id, u[i].call)
                            /\ u[i].id \notin DOMAIN requests
    /\ \A id \in DOMAIN requests : Waits(responses, id, requests[id])
    /\ \A j \in 1 .. Len(d) : /\ Waits(responses, d[j].id, d[j].call)
                              /\ d[j].id \notin DOMAIN requests
    /\ \A i, j \in Asking(u) : u[i].id = u[j].id => i = j
    /\ \A i, j \in 1 .. Len(d) : d[i].id = d[j].id => i = j
    /\ \A i \in Asking(u), j \in 1 .. Len(d) : u[i].id # d[j].id

\* The calls a client waits for were made on this connection.
Known(c) ==
    \A id \in DOMAIN m_responses[c] :
        m_responses[c][id] \in made /\ m_responses[c][id].on = c

\* Each is waited for under one id, and its callback has not run.
Registered(c) ==
    /\ \A id \in DOMAIN m_responses[c] : runs[m_responses[c][id]] = <<>>
    /\ \A i, j \in DOMAIN m_responses[c] :
          m_responses[c][i] = m_responses[c][j] => i = j

\* The inductive invariant behind OwnAnswers.
AnswersInv ==
    /\ \A c \in Connections \ reused :
          /\ Matched(up[c], down[c], m_requests[c], m_responses[c])
          /\ Registered(c)
    /\ \A c \in Connections : Known(c)
    /\ \A call \in Calls : call \notin made => runs[call] = <<>>
    /\ OwnAnswers

\* What a client sends is about calls of its connection.
StreamInv ==
    \A c \in Connections : \A i \in 1 .. Len(up[c]) : up[c][i].call.on = c

\* As long as no address was given out twice, clients have addresses of their
\* own, and those of the deleted ones are not in the broker.
BrokerInv ==
    shared = {} =>
        /\ \A c, d \in Connections :
              address[c] = address[d] /\ address[c] # None => c = d
        /\ \A c \in Connections :
              server[c] = "deleted" => address[c] \notin m_clients

\* A call the RDM code works on is still among the requests.
WorkInv ==
    \A call \in work : call.on \notin reused => ServedAs(call) # {}

\* The inductive invariant behind BrokerProtectsRDM, together with AnswersInv.
ProtectInv == StreamInv /\ BrokerInv /\ WorkInv /\ BrokerProtectsRDM

-----------------------------------------------------------------------------
(* Sequences and tables *)

\* The places of a sequence that has grown at its end.
LEMMA AppendFacts ==
    ASSUME NEW S, NEW s \in Seq(S), NEW e \in S
    PROVE  /\ Append(s, e) \in Seq(S)
           /\ Len(s) \in Nat
           /\ Len(Append(s, e)) = Len(s) + 1
           /\ \A i \in 1 .. Len(s) : Append(s, e)[i] = s[i]
           /\ Append(s, e)[Len(s) + 1] = e
           /\ \A i \in 1 .. Len(Append(s, e)) :
                 i \in 1 .. Len(s) \/ i = Len(s) + 1
  OBVIOUS

\* The places of a sequence that has lost its head.
LEMMA TailFacts ==
    ASSUME NEW S, NEW s \in Seq(S), s # <<>>
    PROVE  /\ Tail(s) \in Seq(S)
           /\ Head(s) = s[1] /\ Head(s) \in S
           /\ 1 \in 1 .. Len(s)
           /\ \A i \in 1 .. Len(Tail(s)) :
                 i + 1 \in 1 .. Len(s) /\ Tail(s)[i] = s[i + 1] /\ i + 1 # 1
           /\ \A i, j \in 1 .. Len(Tail(s)) : i + 1 = j + 1 => i = j
  OBVIOUS

\* Adding one message at the end, as SendMsg writes it.
LEMMA ConcatOne ==
    ASSUME NEW S, NEW s \in Seq(S), NEW e \in S
    PROVE  s \o <<e>> = Append(s, e)
  OBVIOUS

\* What Erase leaves of a table.
LEMMA EraseFacts ==
    ASSUME NEW m, NEW id
    PROVE  /\ DOMAIN Erase(m, id) = DOMAIN m \ {id}
           /\ \A i \in DOMAIN m : i # id => Erase(m, id)[i] = m[i]
  BY DEF Erase, Restrict

-----------------------------------------------------------------------------
(* Messages on their way: one lemma for each way they move                 *)

\* The id is not on its way.
Free(u, d, requests, id) ==
    /\ \A i \in Asking(u) : u[i].id # id
    /\ id \notin DOMAIN requests
    /\ \A j \in 1 .. Len(d) : d[j].id # id

\* olad reads a message.
LEMMA PopUp ==
    ASSUME NEW u \in Seq(Message), u # <<>>, NEW d, NEW q, NEW r,
           Matched(u, d, q, r)
    PROVE  /\ Matched(Tail(u), d, q, r)
           /\ Head(u).call.kind # "stream" =>
                 /\ Free(Tail(u), d, q, Head(u).id)
                 /\ Waits(r, Head(u).id, Head(u).call)
  <1> DEFINE v == Tail(u)
  <1>1. /\ Head(u) = u[1] /\ 1 \in 1 .. Len(u)
        /\ \A i \in 1 .. Len(v) : i + 1 \in 1 .. Len(u) /\ v[i] = u[i + 1]
                                  /\ i + 1 # 1
        /\ \A i, j \in 1 .. Len(v) : i + 1 = j + 1 => i = j
    BY TailFacts
  <1> HIDE DEF v
  <1>2. \A i \in Asking(v) : /\ i \in 1 .. Len(v) /\ i + 1 \in Asking(u)
                             /\ v[i] = u[i + 1] /\ i + 1 # 1
    BY <1>1 DEF Asking
  <1>3. Matched(v, d, q, r)
    <2>1. \A i \in Asking(v) : /\ Waits(r, v[i].id, v[i].call)
                               /\ v[i].id \notin DOMAIN q
      BY <1>2 DEF Matched
    <2>2. \A i, j \in Asking(v) : v[i].id = v[j].id => i = j
      BY <1>1, <1>2 DEF Matched
    <2>3. \A i \in Asking(v), j \in 1 .. Len(d) : v[i].id # d[j].id
      BY <1>2 DEF Matched
    <2> QED  BY <2>1, <2>2, <2>3 DEF Matched
  <1>4. ASSUME Head(u).call.kind # "stream"
        PROVE  Free(v, d, q, Head(u).id) /\ Waits(r, Head(u).id, Head(u).call)
    <2>1. 1 \in Asking(u)
      BY <1>1, <1>4 DEF Asking
    <2>2. \A i \in Asking(v) : v[i].id # u[1].id
      BY <1>2, <2>1 DEF Matched
    <2> QED  BY <1>1, <2>1, <2>2 DEF Free, Matched
  <1> QED  BY <1>3, <1>4 DEF v

\* The client reads a message.
LEMMA PopDown ==
    ASSUME NEW u, NEW d \in Seq(Message), d # <<>>, NEW q, NEW r,
           Matched(u, d, q, r)
    PROVE  /\ Matched(u, Tail(d), q, r)
           /\ Free(u, Tail(d), q, Head(d).id)
           /\ Waits(r, Head(d).id, Head(d).call)
  <1> DEFINE e == Tail(d)
  <1>1. /\ Head(d) = d[1] /\ 1 \in 1 .. Len(d)
        /\ \A i \in 1 .. Len(e) : i + 1 \in 1 .. Len(d) /\ e[i] = d[i + 1]
                                  /\ i + 1 # 1
        /\ \A i, j \in 1 .. Len(e) : i + 1 = j + 1 => i = j
    BY TailFacts
  <1> HIDE DEF e
  <1>2. \A j \in 1 .. Len(e) : /\ Waits(r, e[j].id, e[j].call)
                               /\ e[j].id \notin DOMAIN q
                               /\ e[j].id # d[1].id
    BY <1>1 DEF Matched
  <1>3. \A i, j \in 1 .. Len(e) : e[i].id = e[j].id => i = j
    BY <1>1 DEF Matched
  <1>4. \A i \in Asking(u), j \in 1 .. Len(e) : u[i].id # e[j].id
    BY <1>1 DEF Matched
  <1>5. Matched(u, e, q, r)
    BY <1>2, <1>3, <1>4 DEF Matched
  <1>6. Free(u, e, q, d[1].id) /\ Waits(r, d[1].id, d[1].call)
    BY <1>1, <1>2 DEF Matched, Free
  <1> QED  BY <1>1, <1>5, <1>6 DEF e

\* A request is erased.
LEMMA DropRequest ==
    ASSUME NEW u, NEW d, NEW q, NEW r, NEW id \in DOMAIN q,
           Matched(u, d, q, r)
    PROVE  /\ Matched(u, d, Erase(q, id), r)
           /\ Free(u, d, Erase(q, id), id)
           /\ Waits(r, id, q[id])
  <1>1. /\ DOMAIN Erase(q, id) = DOMAIN q \ {id}
        /\ \A i \in DOMAIN q : i # id => Erase(q, id)[i] = q[i]
    BY EraseFacts
  <1>2. Matched(u, d, Erase(q, id), r)
    BY <1>1 DEF Matched
  <1>3. Free(u, d, Erase(q, id), id) /\ Waits(r, id, q[id])
    BY <1>1 DEF Matched, Free
  <1> QED  BY <1>2, <1>3

\* A message to olad is written.
LEMMA AddUp ==
    ASSUME NEW u \in Seq(Message), NEW d, NEW q, NEW r, NEW m \in Message,
           Matched(u, d, q, r),
           m.call.kind # "stream" =>
               Free(u, d, q, m.id) /\ Waits(r, m.id, m.call)
    PROVE  Matched(Append(u, m), d, q, r)
  <1> DEFINE v == Append(u, m)
  <1>1. /\ \A i \in 1 .. Len(v) : i \in 1 .. Len(u) \/ i = Len(u) + 1
        /\ \A i \in 1 .. Len(u) : v[i] = u[i]
        /\ v[Len(u) + 1] = m
    BY AppendFacts
  <1> HIDE DEF v
  <1>2. \A i \in Asking(v) :
           \/ i \in Asking(u) /\ v[i] = u[i]
           \/ i = Len(u) + 1 /\ v[i] = m /\ m.call.kind # "stream"
    BY <1>1 DEF Asking
  <1>3. \A i \in Asking(v) : /\ Waits(r, v[i].id, v[i].call)
                             /\ v[i].id \notin DOMAIN q
    BY <1>2 DEF Matched, Free
  <1>4. \A i, j \in Asking(v) : v[i].id = v[j].id => i = j
    <2> SUFFICES ASSUME NEW i \in Asking(v), NEW j \in Asking(v),
                        v[i].id = v[j].id
                 PROVE  i = j
      OBVIOUS
    <2>1. CASE i \in Asking(u) /\ v[i] = u[i] /\ j \in Asking(u) /\ v[j] = u[j]
      BY <2>1 DEF Matched
    <2>2. CASE v[i] = m /\ m.call.kind # "stream" /\ j \in Asking(u)
               /\ v[j] = u[j]
      BY <2>2 DEF Free
    <2>3. CASE v[j] = m /\ m.call.kind # "stream" /\ i \in Asking(u)
               /\ v[i] = u[i]
      BY <2>3 DEF Free
    <2> QED  BY <1>2, <2>1, <2>2, <2>3
  <1>5. \A i \in Asking(v), j \in 1 .. Len(d) : v[i].id # d[j].id
    <2> TAKE i \in Asking(v), j \in 1 .. Len(d)
    <2> QED  BY <1>2 DEF Matched, Free
  <1>6. Matched(v, d, q, r)
    BY <1>3, <1>4, <1>5 DEF Matched
  <1> QED  BY <1>6 DEF v

\* A message to the client is written.
LEMMA AddDown ==
    ASSUME NEW u, NEW d \in Seq(Message), NEW q, NEW r, NEW m \in Message,
           Matched(u, d, q, r), Free(u, d, q, m.id), Waits(r, m.id, m.call)
    PROVE  Matched(u, d \o <<m>>, q, r)
  <1> DEFINE e == Append(d, m)
  <1>1. /\ \A i \in 1 .. Len(e) : i \in 1 .. Len(d) \/ i = Len(d) + 1
        /\ \A i \in 1 .. Len(d) : e[i] = d[i]
        /\ e[Len(d) + 1] = m
    BY AppendFacts
  <1> HIDE DEF e
  <1>2. \A i \in 1 .. Len(e) :
           \/ i \in 1 .. Len(d) /\ e[i] = d[i]
           \/ i = Len(d) + 1 /\ e[i] = m
    BY <1>1
  <1>3. \A i \in 1 .. Len(e) : /\ Waits(r, e[i].id, e[i].call)
                               /\ e[i].id \notin DOMAIN q
    BY <1>2 DEF Matched, Free
  <1>4. \A i, j \in 1 .. Len(e) : e[i].id = e[j].id => i = j
    BY <1>2 DEF Matched, Free
  <1>5. \A i \in Asking(u), j \in 1 .. Len(e) : u[i].id # e[j].id
    BY <1>2 DEF Matched, Free
  <1>6. Matched(u, e, q, r)
    BY <1>3, <1>4, <1>5 DEF Matched
  <1> QED  BY <1>6, ConcatOne DEF e

\* A request is served.
LEMMA AddRequest ==
    ASSUME NEW u, NEW d, NEW q, NEW r, NEW id, NEW call,
           Matched(u, d, q, r), Free(u, d, q, id), Waits(r, id, call)
    PROVE  Matched(u, d, Set(q, id, call), r)
  <1>1. /\ DOMAIN Set(q, id, call) = DOMAIN q \cup {id}
        /\ Set(q, id, call)[id] = call
        /\ \A i \in DOMAIN q : i # id => Set(q, id, call)[i] = q[i]
    BY DEF Set
  <1> QED  BY <1>1 DEF Matched, Free

\* The client waits for one more call: an id it did not wait for is free.
LEMMA WaitForOne ==
    ASSUME NEW u, NEW d, NEW q, NEW r, NEW id, NEW call,
           Matched(u, d, q, r), id \notin DOMAIN r
    PROVE  /\ Matched(u, d, q, Set(r, id, call))
           /\ Free(u, d, q, id)
           /\ Waits(Set(r, id, call), id, call)
  <1>1. /\ DOMAIN Set(r, id, call) = DOMAIN r \cup {id}
        /\ Set(r, id, call)[id] = call
        /\ \A i \in DOMAIN r : i # id => Set(r, id, call)[i] = r[i]
    BY DEF Set
  <1>2. \A i, c : Waits(r, i, c) => i # id /\ Waits(Set(r, id, call), i, c)
    BY <1>1 DEF Waits
  <1>3. Matched(u, d, q, Set(r, id, call))
    BY <1>2 DEF Matched
  <1>4. Free(u, d, q, id)
    BY <1>2 DEF Matched, Free
  <1> QED  BY <1>1, <1>3, <1>4 DEF Waits

\* The client waits for one call less: that of an id that is free.
LEMMA WaitNoMore ==
    ASSUME NEW u, NEW d, NEW q, NEW r, NEW id,
           Matched(u, d, q, r), Free(u, d, q, id)
    PROVE  Matched(u, d, q, Erase(r, id))
  <1>1. /\ DOMAIN Erase(r, id) = DOMAIN r \ {id}
        /\ \A i \in DOMAIN r : i # id => Erase(r, id)[i] = r[i]
    BY EraseFacts
  <1>2. \A i, c : Waits(r, i, c) /\ i # id => Waits(Erase(r, id), i, c)
    BY <1>1 DEF Waits
  <1> QED  BY <1>2 DEF Matched, Free

-----------------------------------------------------------------------------
(* Types *)

\* What m_responses[c] and m_requests[c] can be.
Tables == UNION {[D -> Calls] : D \in SUBSET Ids}

\* The type invariant, with the tables of every connection.
Types ==
    /\ connected \in [Connections -> BOOLEAN]
    /\ m_sequence \in [Connections -> Ids]
    /\ m_responses \in [Connections -> Tables]
    /\ m_requests \in [Connections -> Tables]
    /\ up \in [Connections -> Seq(Message)]
    /\ down \in [Connections -> Seq(Message)]
    /\ server \in [Connections -> {"none", "open", "closed", "deleted"}]
    /\ m_descriptor \in [Connections -> BOOLEAN]
    /\ address \in [Connections -> Addresses \cup {None}]
    /\ m_clients \subseteq Addresses
    /\ work \subseteq Calls
    /\ fault \in {"none", "null", "rdm", "discovery"}
    /\ made \subseteq Calls
    /\ runs \in [Calls -> Seq(Outcome)]
    /\ reused \subseteq Connections
    /\ shared \subseteq Addresses

\* Tables stay tables.
LEMMA TableTypes ==
    /\ <<>> \in Tables
    /\ \A m \in Tables : /\ Pending(m)
                         /\ \A id \in DOMAIN m : m[id] \in Calls /\ id \in Ids
    /\ \A m \in Tables, id \in Ids, call \in Calls : Set(m, id, call) \in Tables
    /\ \A m \in Tables : \A id : Erase(m, id) \in Tables
  <1>1. <<>> \in Tables
    <2>1. <<>> \in [{} -> Calls]
      OBVIOUS
    <2> QED  BY <2>1 DEF Tables
  <1>2. ASSUME NEW m \in Tables
        PROVE  /\ Pending(m)
               /\ \A id \in DOMAIN m : m[id] \in Calls /\ id \in Ids
    BY DEF Tables, Pending
  <1>3. ASSUME NEW m \in Tables, NEW id \in Ids, NEW call \in Calls
        PROVE  Set(m, id, call) \in Tables
    <2>1. DOMAIN m \cup {id} \in SUBSET Ids
      BY <1>2
    <2>2. Set(m, id, call) \in [DOMAIN m \cup {id} -> Calls]
      BY <1>2 DEF Set
    <2> QED  BY <2>1, <2>2 DEF Tables
  <1>4. ASSUME NEW m \in Tables, NEW id
        PROVE  Erase(m, id) \in Tables
    <2>1. DOMAIN m \ {id} \in SUBSET Ids
      BY <1>2
    <2>2. Erase(m, id) \in [DOMAIN m \ {id} -> Calls]
      BY <1>2 DEF Erase, Restrict
    <2> QED  BY <2>1, <2>2 DEF Tables
  <1> QED  BY <1>1, <1>2, <1>3, <1>4

\* The type invariant of the model follows.
LEMMA TypesImply == Types => TypeOK
  BY TableTypes DEF Types, TypeOK

\* What SendMsg may change keeps its type.
LEMMA SendMsgTypes ==
    ASSUME Types, NEW c \in Connections, NEW messages \in Seq(Message),
           SendMsg(c, messages)
    PROVE  /\ down' \in [Connections -> Seq(Message)]
           /\ server' \in [Connections -> {"none", "open", "closed", "deleted"}]
           /\ m_descriptor' \in [Connections -> BOOLEAN]
  <1> USE DEF Types
  <1>1. CASE messages = <<>> /\ UNCHANGED <<down, server, m_descriptor>>
    BY <1>1
  <1>2. CASE /\ down' = [down EXCEPT ![c] = @ \o messages]
             /\ UNCHANGED <<server, m_descriptor>>
    <2>1. down[c] \o messages \in Seq(Message)
      OBVIOUS
    <2> QED  BY <1>2, <2>1
  <1>3. CASE /\ m_descriptor' = [m_descriptor EXCEPT ![c] = FALSE]
             /\ server' = [server EXCEPT ![c] = "closed"]
             /\ UNCHANGED down
    BY <1>3
  <1> QED  BY <1>1, <1>2, <1>3 DEF SendMsg

\* RunDone adds an outcome.
LEMMA RunDoneTypes ==
    ASSUME Types, NEW call \in Calls, NEW ok \in BOOLEAN, NEW reply \in Calls,
           RunDone(call, ok, reply)
    PROVE  runs' \in [Calls -> Seq(Outcome)]
  <1>1. [ok |-> ok, reply |-> reply] \in Outcome
    BY DEF Outcome
  <1>2. Append(runs[call], [ok |-> ok, reply |-> reply]) \in Seq(Outcome)
    BY <1>1 DEF Types
  <1> QED  BY <1>2 DEF Types, RunDone

\* The initial state has the types.
LEMMA TypesInit == Init => Types
  <1> SUFFICES ASSUME Init PROVE Types
    OBVIOUS
  <1>1. 0 \in Ids
    BY ConstantsAssumption DEF Ids
  <1>2. <<>> \in Seq(Message) /\ <<>> \in Seq(Outcome)
    OBVIOUS
  <1> QED  BY <1>1, <1>2, TableTypes DEF Init, Types

\* The next sequence number is one.
LEMMA NextId ==
    ASSUME NEW id \in Ids
    PROVE  (id + 1) % SequenceSize \in Ids
  BY ConstantsAssumption DEF Ids

\* CallMethod keeps the types.
LEMMA CallMethodTypes ==
    ASSUME Types, NEW call \in Calls, CallMethod(call)
    PROVE  Types'
  <1> DEFINE c == call.on
             id == m_sequence[c]
             msg == [type |-> IF call.kind = "stream" THEN "STREAM_REQUEST"
                              ELSE "REQUEST", id |-> id, call |-> call]
  <1>1. c \in Connections
    BY ConstantsAssumption
  <1>2. id \in Ids
    BY <1>1 DEF Types
  <1>3. msg \in Message
    BY <1>2 DEF Message
  <1>4. up' \in [Connections -> Seq(Message)]
    <2>1. Append(up[c], msg) \in Seq(Message)
      BY <1>1, <1>3 DEF Types
    <2>2. up' = [up EXCEPT ![c] = Append(@, msg)]
      BY DEF CallMethod
    <2> QED  BY <2>1, <2>2 DEF Types
  <1>5. m_sequence' \in [Connections -> Ids]
    BY <1>1, <1>2, NextId DEF CallMethod, Types
  <1>6. /\ m_responses' \in [Connections -> Tables]
        /\ runs' \in [Calls -> Seq(Outcome)]
        /\ reused' \subseteq Connections
    <2>1. CASE call.kind = "stream"
      BY <2>1 DEF CallMethod, Types
    <2>2. CASE call.kind # "stream"
      <3>1. Register(call, id)
        BY <2>2 DEF CallMethod
      <3>2. m_responses' \in [Connections -> Tables]
        <4>1. Set(m_responses[c], id, call) \in Tables
          BY <1>1, <1>2, TableTypes DEF Types
        <4> QED  BY <3>1, <4>1 DEF Register, Types
      <3>3. runs' \in [Calls -> Seq(Outcome)]
        BY <3>1, RunDoneTypes DEF Register, Types
      <3> QED  BY <1>1, <3>1, <3>2, <3>3 DEF Register, Types
    <2> QED  BY <2>1, <2>2
  <1>7. made' \subseteq Calls
    BY DEF CallMethod, Types
  <1>8. UNCHANGED <<connected, down, address, m_clients, shared, server,
                    m_descriptor, m_requests, work, fault>>
    BY DEF CallMethod, brokerVars, serverVars
  <1> QED  BY <1>4, <1>5, <1>6, <1>7, <1>8 DEF Types

\* HandleResponse keeps the types.
LEMMA HandleResponseTypes ==
    ASSUME Types, NEW c \in Connections, HandleResponse(c)
    PROVE  Types'
  <1> DEFINE msg == Head(down[c])
  <1>1. down[c] \in Seq(Message) /\ down[c] # <<>>
    BY DEF HandleResponse, Types
  <1>2. msg \in Message /\ Tail(down[c]) \in Seq(Message)
    BY <1>1
  <1>3. down' \in [Connections -> Seq(Message)]
    BY <1>2 DEF HandleResponse, Types
  <1>4. m_responses[c] \in Tables
    BY DEF Types
  <1>5. m_responses' \in [Connections -> Tables]
    <2>1. Erase(m_responses[c], msg.id) \in Tables
      BY <1>4, TableTypes
    <2> QED  BY <2>1 DEF HandleResponse, Types
  <1>6. runs' \in [Calls -> Seq(Outcome)]
    <2>1. CASE msg.id \in DOMAIN m_responses[c]
      <3>1. m_responses[c][msg.id] \in Calls
        BY <1>4, <2>1, TableTypes
      <3>2. msg.call \in Calls
        BY <1>2 DEF Message
      <3>3. RunDone(m_responses[c][msg.id], msg.type = "RESPONSE", msg.call)
        BY <2>1 DEF HandleResponse
      <3> HIDE DEF msg
      <3> DEFINE ok == msg.type = "RESPONSE"
      <3>4. ok \in BOOLEAN
        OBVIOUS
      <3>5. RunDone(m_responses[c][msg.id], ok, msg.call)
        BY <3>3
      <3> HIDE DEF ok
      <3> QED  BY <3>1, <3>2, <3>4, <3>5, RunDoneTypes
    <2>2. CASE msg.id \notin DOMAIN m_responses[c]
      BY <2>2 DEF HandleResponse, Types
    <2> QED  BY <2>1, <2>2
  <1>7. UNCHANGED <<connected, m_sequence, up, address, m_clients, shared, server,
                    m_descriptor, m_requests, work, fault, made, reused>>
    BY DEF HandleResponse, brokerVars, serverVars
  <1> QED  BY <1>3, <1>5, <1>6, <1>7 DEF Types

\* HandleRequest keeps the types.
LEMMA HandleRequestTypes ==
    ASSUME Types, NEW c \in Connections, HandleRequest(c)
    PROVE  Types'
  <1> DEFINE msg == Head(up[c])
             taken == msg.id \in DOMAIN m_requests[c]
             old == IF taken THEN <<Failed(msg.id, m_requests[c][msg.id])>>
                    ELSE <<>>
             notImplemented == [type |-> "RESPONSE_NOT_IMPLEMENTED",
                                id |-> msg.id, call |-> msg.call]
  <1>1. up[c] \in Seq(Message) /\ up[c] # <<>>
    BY DEF HandleRequest, Types
  <1>2. msg \in Message /\ Tail(up[c]) \in Seq(Message)
    BY <1>1
  <1>3. msg.id \in Ids /\ msg.call \in Calls
    BY <1>2 DEF Message
  <1>4. up' \in [Connections -> Seq(Message)]
    BY <1>2 DEF HandleRequest, Types
  <1>5. m_requests[c] \in Tables
    BY DEF Types
  <1>6. \A id \in Ids, call \in Calls : Failed(id, call) \in Message
    BY DEF Failed, Message
  <1>7. old \in Seq(Message)
    <2>1. taken => Failed(msg.id, m_requests[c][msg.id]) \in Message
      BY <1>3, <1>5, <1>6, TableTypes
    <2> QED  BY <2>1
  <1>8. UNCHANGED <<connected, m_sequence, m_responses, address, m_clients, shared,
                    fault, made, runs, reused>>
    BY DEF HandleRequest, clientVars, brokerVars, historyVars
  <1> DEFINE sent == /\ down' \in [Connections -> Seq(Message)]
                     /\ server' \in [Connections ->
                                       {"none", "open", "closed", "deleted"}]
                     /\ m_descriptor' \in [Connections -> BOOLEAN]
             served == m_requests' \in [Connections -> Tables]
                       /\ work' \subseteq Calls
  <1>9. sent /\ served
    <2>1. CASE UNCHANGED <<m_requests, work, down, server, m_descriptor>>
      BY <2>1 DEF Types
    <2>2. CASE SendMsg(c, <<notImplemented>>) /\ UNCHANGED <<m_requests, work>>
      <3>1. <<notImplemented>> \in Seq(Message)
        BY <1>3 DEF Message
      <3>2. sent
        BY <2>2, <3>1, SendMsgTypes
      <3> QED  BY <2>2, <3>2 DEF Types
    <2>3. CASE /\ SendMsg(c, Append(old, Failed(msg.id, msg.call)))
               /\ m_requests' = [m_requests EXCEPT ![c] = Erase(@, msg.id)]
               /\ UNCHANGED work
      <3>1. Append(old, Failed(msg.id, msg.call)) \in Seq(Message)
        BY <1>3, <1>6, <1>7
      <3>2. sent
        BY <2>3, <3>1, SendMsgTypes
      <3>3. Erase(m_requests[c], msg.id) \in Tables
        BY <1>5, TableTypes
      <3> QED  BY <2>3, <3>2, <3>3 DEF Types
    <2>4. CASE /\ SendMsg(c, old)
               /\ m_requests' = [m_requests EXCEPT ![c] = Set(@, msg.id, msg.call)]
               /\ work' = work \cup {msg.call}
      <3>1. sent
        BY <2>4, <1>7, SendMsgTypes
      <3>2. Set(m_requests[c], msg.id, msg.call) \in Tables
        BY <1>3, <1>5, TableTypes
      <3> QED  BY <1>3, <2>4, <3>1, <3>2 DEF Types
    <2> QED  BY <2>1, <2>2, <2>3, <2>4 DEF HandleRequest
  <1> QED  BY <1>4, <1>8, <1>9 DEF Types

\* The completion of a request keeps the types of what it may change.
LEMMA RequestCompleteTypes ==
    ASSUME Types, NEW call \in Calls, call.kind \in {"rdm", "discovery"},
           RequestComplete(call)
    PROVE  /\ down' \in [Connections -> Seq(Message)]
           /\ server' \in [Connections -> {"none", "open", "closed", "deleted"}]
           /\ m_descriptor' \in [Connections -> BOOLEAN]
           /\ m_requests' \in [Connections -> Tables]
           /\ fault' \in {"none", "null", "rdm", "discovery"}
  <1> DEFINE c == call.on
             reply(id) == [type |-> "RESPONSE", id |-> id, call |-> call]
             sent(id) == IF m_descriptor[c] THEN <<reply(id)>> ELSE <<>>
  <1>1. c \in Connections
    BY ConstantsAssumption
  <1>2. ASSUME NEW id \in ServedAs(call), SendMsg(c, sent(id)),
               m_requests' = [m_requests EXCEPT ![c] = Erase(@, id)],
               UNCHANGED fault
        PROVE  /\ down' \in [Connections -> Seq(Message)]
               /\ server' \in [Connections ->
                                 {"none", "open", "closed", "deleted"}]
               /\ m_descriptor' \in [Connections -> BOOLEAN]
               /\ m_requests' \in [Connections -> Tables]
               /\ fault' \in {"none", "null", "rdm", "discovery"}
    <2>1. m_requests[c] \in Tables
      BY <1>1 DEF Types
    <2>2. id \in Ids
      BY <2>1, TableTypes DEF ServedAs
    <2>3. reply(id) \in Message
      BY <2>2 DEF Message
    <2>4. sent(id) \in Seq(Message)
      BY <2>3
    <2>5. Erase(m_requests[c], id) \in Tables
      BY <2>1, TableTypes
    <2>6. m_requests' \in [Connections -> Tables]
      BY <1>2, <2>5 DEF Types
    <2> HIDE DEF sent, reply
    <2> QED  BY <1>1, <1>2, <2>4, <2>6, SendMsgTypes DEF Types
  <1>3. ASSUME fault' = call.kind,
               UNCHANGED <<down, server, m_descriptor, m_requests>>
        PROVE  /\ down' \in [Connections -> Seq(Message)]
               /\ server' \in [Connections ->
                                 {"none", "open", "closed", "deleted"}]
               /\ m_descriptor' \in [Connections -> BOOLEAN]
               /\ m_requests' \in [Connections -> Tables]
               /\ fault' \in {"none", "null", "rdm", "discovery"}
    BY <1>3 DEF Types
  <1> QED  BY <1>2, <1>3 DEF RequestComplete

\* Every step keeps the types.
LEMMA TypesNext == Types /\ [Next]_vars => Types'
  <1> SUFFICES ASSUME Types, [Next]_vars PROVE Types'
    OBVIOUS
  <1>1. ASSUME NEW call \in Calls, CallMethod(call) PROVE Types'
    BY <1>1, CallMethodTypes
  <1>2. ASSUME NEW call \in Calls, CallFails(call) PROVE Types'
    <2>1. call.on \in Connections
      BY ConstantsAssumption
    <2>2. m_sequence' \in [Connections -> Ids]
      <3>1. (m_sequence[call.on] + 1) % SequenceSize \in Ids
        BY <2>1, NextId DEF Types
      <3> QED  BY <1>2, <3>1 DEF CallFails, Types
    <2>3. runs' \in [Calls -> Seq(Outcome)]
      BY <1>2, RunDoneTypes DEF CallFails, Types
    <2>4. /\ connected' \in [Connections -> BOOLEAN]
          /\ made' \subseteq Calls
          /\ UNCHANGED <<m_responses, reused, up, down, address, m_clients, shared,
                         server, m_descriptor, m_requests, work, fault>>
      BY <1>2 DEF CallFails, Types, brokerVars, serverVars
    <2> QED  BY <2>2, <2>3, <2>4 DEF Types
  <1>3. ASSUME NEW call \in Calls, RDMComplete(call) PROVE Types'
    <2>1. /\ down' \in [Connections -> Seq(Message)]
          /\ server' \in [Connections -> {"none", "open", "closed", "deleted"}]
          /\ m_descriptor' \in [Connections -> BOOLEAN]
          /\ m_requests' \in [Connections -> Tables]
          /\ fault' \in {"none", "null", "rdm", "discovery"}
      <3>1. CASE address[call.on] \in m_clients
        BY <1>3, <3>1, RequestCompleteTypes DEF RDMComplete
      <3>2. CASE address[call.on] \notin m_clients
        BY <1>3, <3>2 DEF RDMComplete, Types
      <3> QED  BY <3>1, <3>2
    <2>2. /\ work' \subseteq Calls
          /\ UNCHANGED <<connected, m_sequence, m_responses, up, address,
                         m_clients, shared, made, runs, reused>>
      BY <1>3 DEF RDMComplete, Types, clientVars, brokerVars, historyVars
    <2> QED  BY <2>1, <2>2 DEF Types
  <1>4. ASSUME NEW call \in Calls, RDMDiscoveryComplete(call) PROVE Types'
    <2>1. /\ down' \in [Connections -> Seq(Message)]
          /\ server' \in [Connections -> {"none", "open", "closed", "deleted"}]
          /\ m_descriptor' \in [Connections -> BOOLEAN]
          /\ m_requests' \in [Connections -> Tables]
          /\ fault' \in {"none", "null", "rdm", "discovery"}
      BY <1>4, RequestCompleteTypes DEF RDMDiscoveryComplete
    <2>2. /\ work' \subseteq Calls
          /\ UNCHANGED <<connected, m_sequence, m_responses, up, address,
                         m_clients, shared, made, runs, reused>>
      BY <1>4 DEF RDMDiscoveryComplete, Types, clientVars, brokerVars, historyVars
    <2> QED  BY <2>1, <2>2 DEF Types
  <1>5. ASSUME NEW c \in Connections, Disconnect(c) PROVE Types'
    BY <1>5 DEF Disconnect, Types, brokerVars, serverVars, historyVars
  <1>6. ASSUME NEW c \in Connections, HandleResponse(c) PROVE Types'
    BY <1>6, HandleResponseTypes
  <1>7. ASSUME NEW c \in Connections, NEW a \in Addresses,
               InternalNewConnection(c, a)
        PROVE  Types'
    BY <1>7 DEF InternalNewConnection, Types, historyVars
  <1>8. ASSUME NEW c \in Connections, ChannelClosed(c) PROVE Types'
    BY <1>8 DEF ChannelClosed, Types, clientVars, brokerVars, historyVars
  <1>9. ASSUME NEW c \in Connections, CleanupConnection(c) PROVE Types'
    BY <1>9 DEF CleanupConnection, Types, clientVars, historyVars
  <1>10. ASSUME NEW c \in Connections, HandleRequest(c) PROVE Types'
    BY <1>10, HandleRequestTypes
  <1>11. ASSUME NEW c \in Connections, ReadAfterClose(c) PROVE Types'
    BY <1>11 DEF ReadAfterClose, Types, clientVars, brokerVars, historyVars
  <1>12. CASE UNCHANGED vars
    BY <1>12 DEF vars, clientVars, brokerVars, serverVars, historyVars, Types
  <1> QED
    BY <1>1, <1>2, <1>3, <1>4, <1>5, <1>6, <1>7, <1>8, <1>9, <1>10, <1>11, <1>12
    DEF Next

\* Messages, tables and outcomes only hold sequence numbers and calls, of every
\* connection, whatever the clients do.
THEOREM TypeCorrect == Spec => []TypeOK
  <1>1. Spec => []Types
    BY TypesInit, TypesNext, PTL DEF Spec
  <1> QED  BY <1>1, TypesImply, PTL

-----------------------------------------------------------------------------
(* OwnAnswers *)

\* Streams, tables and history of one connection.
Connection(c) ==
    /\ Matched(up[c], down[c], m_requests[c], m_responses[c])
    /\ Registered(c)

\* Nothing is waited for and nothing is on its way.
LEMMA AnswersInit == Init => AnswersInv
  <1> SUFFICES ASSUME Init PROVE AnswersInv
    OBVIOUS
  <1>1. \A c \in Connections : Matched(<<>>, <<>>, <<>>, <<>>) /\ Registered(c)
                              /\ Known(c)
    BY DEF Init, Matched, Registered, Known, Asking
  <1>2. \A call \in Calls : runs[call] = <<>>
    BY DEF Init
  <1> QED  BY <1>1, <1>2 DEF Init, AnswersInv, OwnAnswers

\* A step that leaves streams, tables and history alone.
LEMMA SameAnswers ==
    ASSUME AnswersInv,
           UNCHANGED <<up, down, m_requests, m_responses, made, runs, reused>>
    PROVE  AnswersInv'
  BY DEF AnswersInv, Matched, Registered, Known, Waits, Asking, OwnAnswers

\* A call that is not waited for does not matter to the calls that are.
LEMMA RegisteredStays ==
    ASSUME Types, NEW c \in Connections, Registered(c), NEW call \in Calls,
           m_responses'[c] = m_responses[c],
           \A id \in DOMAIN m_responses[c] : m_responses[c][id] # call,
           \A other \in Calls : other # call => runs'[other] = runs[other]
    PROVE  Registered(c)'
  <1>1. \A id \in DOMAIN m_responses[c] : m_responses[c][id] \in Calls
    BY TableTypes DEF Types
  <1>2. \A id \in DOMAIN m_responses[c] :
           runs'[m_responses[c][id]] = runs[m_responses[c][id]]
    BY <1>1
  <1> QED  BY <1>2 DEF Registered

\* A call is registered under an id that nobody waits for, or the id is in use
\* and the connection counts as one on which ids were reused.
LEMMA CallMethodAnswers ==
    ASSUME Types, AnswersInv, NEW call \in Calls, CallMethod(call)
    PROVE  AnswersInv'
  <1> DEFINE c == call.on
             id == m_sequence[c]
             msg == [type |-> IF call.kind = "stream" THEN "STREAM_REQUEST"
                              ELSE "REQUEST", id |-> id, call |-> call]
             taken == id \in DOMAIN m_responses[c]
  <1>1. c \in Connections
    BY ConstantsAssumption
  <1>2. /\ call \notin made /\ made' = made \cup {call}
        /\ up' = [up EXCEPT ![c] = Append(@, msg)]
        /\ UNCHANGED <<down, m_requests>>
    BY DEF CallMethod, serverVars
  <1>3. call.kind = "stream" => UNCHANGED <<m_responses, runs, reused>>
    BY DEF CallMethod
  <1>4. call.kind # "stream" =>
          /\ m_responses' = [m_responses EXCEPT ![c] = Set(@, id, call)]
          /\ taken => c \in reused'
          /\ ~taken => UNCHANGED <<runs, reused>>
    <2>1. call.kind # "stream" => Register(call, id)
      BY DEF CallMethod
    <2> QED  BY <2>1 DEF Register
  <1>5. /\ reused \subseteq reused'
        /\ \A other \in Calls : other # call => runs'[other] = runs[other]
        /\ c \notin reused' => UNCHANGED runs
    <2>1. call.kind # "stream" => Register(call, id)
      BY DEF CallMethod
    <2> QED  BY <1>3, <1>4, <2>1 DEF Register, RunDone, Types
  <1>6. \A d \in Connections : \A i \in DOMAIN m_responses[d] :
           m_responses[d][i] # call
    BY <1>2 DEF AnswersInv, Known
  <1>7. ASSUME NEW d \in Connections, d \notin reused'
        PROVE  Connection(d)'
    <2>1. d \notin reused /\ Connection(d)
      BY <1>5, <1>7 DEF AnswersInv, Connection
    <2>2. CASE d # c
      <3>1. /\ up'[d] = up[d] /\ down'[d] = down[d]
            /\ m_requests'[d] = m_requests[d] /\ m_responses'[d] = m_responses[d]
        BY <1>1, <1>2, <1>3, <1>4, <2>2 DEF Types
      <3>2. Registered(d)'
        BY <1>2, <1>5, <1>6, <2>1, <3>1, RegisteredStays DEF Connection
      <3>3. Matched(up[d], down[d], m_requests[d], m_responses[d])'
        BY <2>1, <3>1 DEF Connection
      <3> QED  BY <3>2, <3>3 DEF Connection
    <2>3. CASE d = c /\ call.kind = "stream"
      <3>1. /\ up'[c] = Append(up[c], msg) /\ down'[c] = down[c]
            /\ m_requests'[c] = m_requests[c] /\ m_responses'[c] = m_responses[c]
        BY <1>1, <1>2, <1>3, <2>3 DEF Types
      <3>2. Registered(c)'
        BY <1>1, <1>2, <1>5, <1>6, <2>1, <2>3, <3>1, RegisteredStays
        DEF Connection
      <3>3. msg \in Message /\ up[c] \in Seq(Message) /\ msg.call.kind = "stream"
        BY <1>1, <2>3 DEF Types, Message
      <3>4. Matched(up[c], down[c], m_requests[c], m_responses[c])
        BY <2>1, <2>3 DEF Connection
      <3> HIDE DEF msg
      <3>5. Matched(Append(up[c], msg), down[c], m_requests[c], m_responses[c])
        BY <3>3, <3>4, AddUp
      <3> QED  BY <2>3, <3>1, <3>2, <3>5 DEF Connection
    <2>4. CASE d = c /\ call.kind # "stream"
      <3>1. ~taken /\ UNCHANGED <<runs, reused>>
        BY <1>4, <1>7, <2>4
      <3>2. /\ up'[c] = Append(up[c], msg) /\ down'[c] = down[c]
            /\ m_requests'[c] = m_requests[c]
            /\ m_responses'[c] = Set(m_responses[c], id, call)
        BY <1>1, <1>2, <1>4, <2>4 DEF Types
      <3>3. /\ msg \in Message /\ up[c] \in Seq(Message)
            /\ msg.id = id /\ msg.call = call
        BY <1>1 DEF Types, Message
      <3>4. Registered(c)'
        <4> DEFINE r == m_responses[c]
                   s == Set(r, id, call)
        <4>1. /\ DOMAIN s = DOMAIN r \cup {id}
              /\ s[id] = call
              /\ \A i \in DOMAIN r : i # id => s[i] = r[i]
          BY DEF Set
        <4>2. runs[call] = <<>>
          BY <1>2 DEF AnswersInv
        <4>3. \A i \in DOMAIN r : i # id /\ r[i] # call
          BY <1>6, <2>1, <2>4, <3>1
        <4>4. /\ \A i \in DOMAIN r : runs[r[i]] = <<>>
              /\ \A i, j \in DOMAIN r : r[i] = r[j] => i = j
          BY <2>1, <2>4 DEF Connection, Registered
        <4> HIDE DEF s, r, id
        <4>5. /\ \A i \in DOMAIN s : runs'[s[i]] = <<>>
              /\ \A i, j \in DOMAIN s : s[i] = s[j] => i = j
          BY <1>2, <3>1, <4>1, <4>2, <4>3, <4>4
        <4> QED  BY <3>2, <4>5 DEF Registered, s, r
      <3>5. Matched(up[c], down[c], m_requests[c], m_responses[c])
        BY <2>1, <2>4 DEF Connection
      <3> HIDE DEF msg, id
      <3>6. /\ Matched(up[c], down[c], m_requests[c], Set(m_responses[c], id, call))
            /\ Free(up[c], down[c], m_requests[c], id)
            /\ Waits(Set(m_responses[c], id, call), id, call)
        BY <3>1, <3>5, WaitForOne
      <3>7. Matched(Append(up[c], msg), down[c], m_requests[c],
                    Set(m_responses[c], id, call))
        BY <3>3, <3>6, AddUp
      <3> QED  BY <2>4, <3>2, <3>4, <3>7 DEF Connection
    <2> QED  BY <2>2, <2>3, <2>4
  <1>8. /\ \A other \in Calls : other \notin made' => runs'[other] = <<>>
        /\ \A d \in Connections : Known(d)'
    <2>1. \A other \in Calls : other \notin made' => runs'[other] = <<>>
      BY <1>2, <1>5 DEF AnswersInv
    <2>2. ASSUME NEW d \in Connections, NEW i \in DOMAIN m_responses'[d]
          PROVE  m_responses'[d][i] \in made' /\ m_responses'[d][i].on = d
      <3>1. CASE m_responses'[d] = m_responses[d]
        BY <1>2, <2>2, <3>1 DEF AnswersInv, Known
      <3>2. CASE d = c /\ m_responses'[c] = Set(m_responses[c], id, call)
        BY <1>2, <2>2, <3>2 DEF AnswersInv, Known, Set
      <3>3. \/ m_responses'[d] = m_responses[d]
            \/ d = c /\ m_responses'[c] = Set(m_responses[c], id, call)
        BY <1>1, <1>3, <1>4 DEF Types
      <3> QED  BY <3>1, <3>2, <3>3
    <2> QED  BY <2>1, <2>2 DEF Known
  <1>9. OwnAnswers'
    <2> SUFFICES ASSUME NEW other \in Calls, other.on \notin reused'
                 PROVE  runs'[other] = runs[other]
      BY <1>5 DEF AnswersInv, OwnAnswers
    <2> QED  BY <1>5
  <1> QED  BY <1>7, <1>8, <1>9 DEF AnswersInv, Connection

\* A call that could not be sent is failed, and not waited for.
LEMMA CallFailsAnswers ==
    ASSUME Types, AnswersInv, NEW call \in Calls, CallFails(call)
    PROVE  AnswersInv'
  <1> DEFINE failed == [ok |-> FALSE, reply |-> call]
  <1>1. /\ call \notin made /\ made' = made \cup {call}
        /\ UNCHANGED <<up, down, m_requests, m_responses, reused>>
    BY DEF CallFails, serverVars
  <1>2. runs[call] = <<>>
    BY <1>1 DEF AnswersInv
  <1>3. /\ \A other \in Calls : other # call => runs'[other] = runs[other]
        /\ runs'[call] = <<>> \/ runs'[call] = <<failed>>
    <2>1. CASE call.kind = "stream"
      BY <1>2, <2>1 DEF CallFails
    <2>2. CASE call.kind # "stream"
      <3>1. runs' = [runs EXCEPT ![call] = Append(@, failed)]
        BY <2>2 DEF CallFails, RunDone
      <3>2. Append(<<>>, failed) = <<failed>>
        OBVIOUS
      <3> QED  BY <1>2, <3>1, <3>2 DEF Types
    <2> QED  BY <2>1, <2>2
  <1>4. \A d \in Connections : \A i \in DOMAIN m_responses[d] :
           m_responses[d][i] # call
    BY <1>1 DEF AnswersInv, Known
  <1>5. ASSUME NEW d \in Connections, d \notin reused'
        PROVE  Connection(d)'
    <2>1. d \notin reused /\ Connection(d)
      BY <1>1, <1>5 DEF AnswersInv, Connection
    <2>2. Registered(d)'
      BY <1>1, <1>3, <1>4, <2>1, RegisteredStays DEF Connection
    <2> QED  BY <1>1, <2>1, <2>2 DEF Connection
  <1>6. /\ \A other \in Calls : other \notin made' => runs'[other] = <<>>
        /\ \A d \in Connections : Known(d)'
    BY <1>1, <1>3 DEF AnswersInv, Known
  <1>7. OwnAnswers'
    <2> SUFFICES ASSUME NEW other \in Calls, other.on \notin reused
                 PROVE  /\ Len(runs'[other]) <= 1
                        /\ \A i \in 1 .. Len(runs'[other]) :
                              runs'[other][i].reply = other
      BY <1>1 DEF OwnAnswers
    <2>1. CASE other # call
      BY <1>3, <2>1 DEF AnswersInv, OwnAnswers
    <2>2. CASE other = call
      <3>1. failed.reply = other
        BY <2>2
      <3>2. runs'[other] = <<>> \/ runs'[other] = <<failed>>
        BY <1>3, <2>2
      <3> HIDE DEF failed
      <3>3. CASE runs'[other] = <<>>
        BY <3>3
      <3>4. CASE runs'[other] = <<failed>>
        BY <3>1, <3>4
      <3> QED  BY <3>2, <3>3, <3>4
    <2> QED  BY <2>1, <2>2
  <1> QED  BY <1>5, <1>6, <1>7 DEF AnswersInv, Connection

\* The answer the client reads is that of the call it waits for.
LEMMA HandleResponseAnswers ==
    ASSUME Types, AnswersInv, NEW c \in Connections, HandleResponse(c)
    PROVE  AnswersInv'
  <1> DEFINE msg == Head(down[c])
             id == msg.id
             r == m_responses[c]
             call == r[id]
             outcome == [ok |-> msg.type = "RESPONSE", reply |-> msg.call]
  <1>1. down[c] \in Seq(Message) /\ down[c] # <<>>
    BY DEF HandleResponse, Types
  <1>2. /\ down' = [down EXCEPT ![c] = Tail(@)]
        /\ m_responses' = [m_responses EXCEPT ![c] = Erase(@, id)]
        /\ UNCHANGED <<up, m_requests, made, reused>>
    BY DEF HandleResponse, serverVars
  <1>3. /\ id \in DOMAIN r => runs' = [runs EXCEPT ![call] = Append(@, outcome)]
        /\ id \notin DOMAIN r => runs' = runs
    BY DEF HandleResponse, RunDone
  <1>4. \A i \in DOMAIN r : r[i] \in Calls
    BY TableTypes DEF Types
  <1>5. \A other \in Calls : (id \in DOMAIN r => other # call) =>
                                runs'[other] = runs[other]
    BY <1>3 DEF Types
  <1>6. id \in DOMAIN r => call \in made /\ call.on = c
    BY DEF AnswersInv, Known
  <1>7. ASSUME NEW d \in Connections, d \notin reused, d # c
        PROVE  Connection(d)'
    <2>1. Connection(d)
      BY <1>7 DEF AnswersInv, Connection
    <2>2. /\ up'[d] = up[d] /\ down'[d] = down[d]
          /\ m_requests'[d] = m_requests[d] /\ m_responses'[d] = m_responses[d]
      BY <1>2, <1>7 DEF Types
    <2>3. Registered(d)'
      <3>1. \A i \in DOMAIN m_responses[d] :
               m_responses[d][i] \in Calls /\ m_responses[d][i].on = d
        BY TableTypes DEF AnswersInv, Known, Types
      <3>2. \A i \in DOMAIN m_responses[d] :
               runs'[m_responses[d][i]] = runs[m_responses[d][i]]
        BY <1>5, <1>6, <1>7, <3>1
      <3> QED  BY <2>1, <2>2, <3>2 DEF Connection, Registered
    <2> QED  BY <2>1, <2>2, <2>3 DEF Connection
  <1>8. ASSUME c \notin reused
        PROVE  /\ Connection(c)'
               /\ id \in DOMAIN r /\ call = msg.call /\ runs'[call] = <<outcome>>
    <2>1. /\ Matched(up[c], down[c], m_requests[c], r)
          /\ Registered(c)
      BY <1>8 DEF AnswersInv
    <2>2. /\ Matched(up[c], Tail(down[c]), m_requests[c], r)
          /\ Free(up[c], Tail(down[c]), m_requests[c], id)
          /\ Waits(r, id, msg.call)
      BY <1>1, <2>1, PopDown
    <2>3. Matched(up[c], Tail(down[c]), m_requests[c], Erase(r, id))
      BY <2>2, WaitNoMore
    <2>4. id \in DOMAIN r /\ call = msg.call
      BY <2>2 DEF Waits
    <2>5. /\ DOMAIN Erase(r, id) = DOMAIN r \ {id}
          /\ \A i \in DOMAIN r : i # id => Erase(r, id)[i] = r[i]
      BY EraseFacts
    <2>6. m_responses'[c] = Erase(r, id) /\ down'[c] = Tail(down[c])
      BY <1>2 DEF Types
    <2>7. Registered(c)'
      <3>1. \A i \in DOMAIN r : runs[r[i]] = <<>>
        BY <2>1 DEF Registered
      <3>2. \A i, j \in DOMAIN r : r[i] = r[j] => i = j
        BY <2>1 DEF Registered
      <3>3. \A i \in DOMAIN r \ {id} : runs'[r[i]] = <<>>
        BY <1>4, <1>5, <2>4, <3>1, <3>2
      <3> QED  BY <2>5, <2>6, <3>2, <3>3 DEF Registered
    <2>8. runs'[call] = <<outcome>>
      <3>1. runs[call] = <<>> /\ call \in Calls
        BY <1>4, <2>1, <2>4 DEF Registered
      <3>2. Append(<<>>, outcome) = <<outcome>>
        OBVIOUS
      <3> QED  BY <1>3, <2>4, <3>1, <3>2 DEF Types
    <2> QED  BY <1>2, <2>3, <2>4, <2>6, <2>7, <2>8 DEF Connection
  <1>9. \A d \in Connections : Known(d)'
    <2> SUFFICES ASSUME NEW d \in Connections PROVE Known(d)'
      OBVIOUS
    <2>1. CASE d # c
      <3>1. m_responses'[d] = m_responses[d]
        BY <1>2, <2>1 DEF Types
      <3> QED  BY <1>2, <3>1 DEF AnswersInv, Known
    <2>2. CASE d = c
      <3>1. m_responses'[c] = Erase(r, id)
        BY <1>2 DEF Types
      <3>2. /\ DOMAIN Erase(r, id) = DOMAIN r \ {id}
            /\ \A i \in DOMAIN r : i # id => Erase(r, id)[i] = r[i]
        BY EraseFacts
      <3> QED  BY <1>2, <2>2, <3>1, <3>2 DEF AnswersInv, Known
    <2> QED  BY <2>1, <2>2
  <1>10. \A other \in Calls : other \notin made' => runs'[other] = <<>>
    BY <1>2, <1>5, <1>6 DEF AnswersInv
  <1>11. OwnAnswers'
    <2> SUFFICES ASSUME NEW other \in Calls, other.on \notin reused
                 PROVE  /\ Len(runs'[other]) <= 1
                        /\ \A i \in 1 .. Len(runs'[other]) :
                              runs'[other][i].reply = other
      BY <1>2 DEF OwnAnswers
    <2>1. CASE id \in DOMAIN r => other # call
      BY <1>5, <2>1 DEF AnswersInv, OwnAnswers
    <2>2. CASE id \in DOMAIN r /\ other = call
      <3>1. runs'[other] = <<outcome>> /\ outcome.reply = other
        BY <1>6, <1>8, <2>2
      <3> HIDE DEF outcome
      <3> QED  BY <3>1
    <2> QED  BY <2>1, <2>2
  <1> QED  BY <1>2, <1>7, <1>8, <1>9, <1>10, <1>11 DEF AnswersInv, Connection

\* A message of olad to a connection, sent or not.
LEMMA SendOne ==
    ASSUME Types, NEW c \in Connections, NEW m \in Message, SendMsg(c, <<m>>)
    PROVE  /\ down'[c] = down[c] \/ down'[c] = down[c] \o <<m>>
           /\ \A d \in Connections : d # c => down'[d] = down[d]
  <1>1. <<m>> # <<>>
    OBVIOUS
  <1> QED  BY <1>1 DEF SendMsg, Types

\* No message.
LEMMA SendNone ==
    ASSUME NEW c, SendMsg(c, <<>>)
    PROVE  down' = down
  BY DEF SendMsg

\* Steps that only move messages of one connection.
LEMMA MoveAnswers ==
    ASSUME Types, AnswersInv, NEW c \in Connections,
           UNCHANGED <<m_responses, made, runs, reused>>,
           \A d \in Connections \ {c} : /\ up'[d] = up[d] /\ down'[d] = down[d]
                                        /\ m_requests'[d] = m_requests[d],
           c \notin reused => Matched(up'[c], down'[c], m_requests'[c],
                                      m_responses[c])
    PROVE  AnswersInv'
  <1>1. ASSUME NEW d \in Connections, d \notin reused'
        PROVE  Matched(up[d], down[d], m_requests[d], m_responses[d])'
    <2>1. d \notin reused
      BY <1>1
    <2>2. CASE d = c
      BY <2>1, <2>2
    <2>3. CASE d # c
      BY <2>1, <2>3 DEF AnswersInv
    <2> QED  BY <2>2, <2>3
  <1>2. \A d \in Connections : Known(d)' /\ (d \notin reused => Registered(d)')
    BY DEF AnswersInv, Known, Registered
  <1>3. OwnAnswers' /\ \A call \in Calls : call \notin made' => runs'[call] = <<>>
    BY DEF AnswersInv, OwnAnswers
  <1> QED  BY <1>1, <1>2, <1>3 DEF AnswersInv

\* A request that olad reads has an id that it does not serve, and is answered
\* at once, or served, under this id.
LEMMA HandleRequestAnswers ==
    ASSUME Types, AnswersInv, NEW c \in Connections, HandleRequest(c)
    PROVE  AnswersInv'
  <1> DEFINE msg == Head(up[c])
             q == m_requests[c]
             r == m_responses[c]
             taken == msg.id \in DOMAIN q
             old == IF taken THEN <<Failed(msg.id, q[msg.id])>> ELSE <<>>
             notImplemented == [type |-> "RESPONSE_NOT_IMPLEMENTED",
                                id |-> msg.id, call |-> msg.call]
             failed == Failed(msg.id, msg.call)
  <1>1. up[c] \in Seq(Message) /\ up[c] # <<>> /\ down[c] \in Seq(Message)
    BY DEF HandleRequest, Types
  <1>2. msg \in Message
    BY <1>1
  <1>3. /\ notImplemented \in Message /\ failed \in Message
        /\ notImplemented.id = msg.id /\ notImplemented.call = msg.call
        /\ failed.id = msg.id /\ failed.call = msg.call
    BY <1>2 DEF Message, Failed
  <1>4. /\ up' = [up EXCEPT ![c] = Tail(@)]
        /\ UNCHANGED <<m_responses, made, runs, reused>>
    BY DEF HandleRequest, clientVars, historyVars
  <1>5. up'[c] = Tail(up[c]) /\ \A d \in Connections : d # c => up'[d] = up[d]
    BY <1>4 DEF Types
  <1>6. \/ UNCHANGED <<m_requests, down>>
        \/ /\ msg.call.kind = "unknown" /\ UNCHANGED m_requests
           /\ SendMsg(c, <<notImplemented>>)
        \/ /\ msg.call.kind = "failing"
           /\ SendMsg(c, Append(old, failed))
           /\ m_requests' = [m_requests EXCEPT ![c] = Erase(@, msg.id)]
        \/ /\ msg.call.kind \in {"rdm", "discovery"}
           /\ SendMsg(c, old)
           /\ m_requests' = [m_requests EXCEPT ![c] = Set(@, msg.id, msg.call)]
    BY DEF HandleRequest
  <1>7. \A d \in Connections \ {c} : /\ m_requests'[d] = m_requests[d]
                                     /\ down'[d] = down[d]
    <2>1. \A messages : SendMsg(c, messages) =>
             \A d \in Connections \ {c} : down'[d] = down[d]
      BY DEF SendMsg, Types
    <2> HIDE DEF msg, q, old, notImplemented, failed
    <2> QED  BY <1>6, <2>1 DEF Types
  <1>8. ASSUME c \notin reused
        PROVE  Matched(up'[c], down'[c], m_requests'[c], r)
    <2>1. Matched(up[c], down[c], q, r)
      BY <1>8 DEF AnswersInv
    <2> DEFINE u == Tail(up[c])
    <2>2. /\ Matched(u, down[c], q, r)
          /\ msg.call.kind # "stream" =>
                Free(u, down[c], q, msg.id) /\ Waits(r, msg.id, msg.call)
      BY <1>1, <2>1, PopUp
    <2>3. msg.call.kind # "stream" => old = <<>>
      BY <2>2 DEF Free
    <2>4. Append(<<>>, failed) = <<failed>>
      OBVIOUS
    <2> HIDE DEF msg, old, notImplemented, failed, u
    <2>5. CASE UNCHANGED <<m_requests, down>>
      BY <1>5, <2>2, <2>5 DEF u
    <2>6. CASE /\ msg.call.kind = "unknown" /\ UNCHANGED m_requests
               /\ SendMsg(c, <<notImplemented>>)
      <3>1. down'[c] = down[c] \/ down'[c] = down[c] \o <<notImplemented>>
        BY <1>3, <2>6, SendOne
      <3>2. Matched(u, down[c] \o <<notImplemented>>, q, r)
        BY <1>1, <1>3, <2>2, <2>6, AddDown
      <3> QED  BY <1>5, <2>2, <2>6, <3>1, <3>2 DEF u
    <2>7. CASE /\ msg.call.kind = "failing"
               /\ SendMsg(c, Append(old, failed))
               /\ m_requests' = [m_requests EXCEPT ![c] = Erase(@, msg.id)]
      <3>1. down'[c] = down[c] \/ down'[c] = down[c] \o <<failed>>
        BY <1>3, <2>3, <2>4, <2>7, SendOne
      <3>2. Matched(u, down[c] \o <<failed>>, q, r)
        BY <1>1, <1>3, <2>2, <2>7, AddDown
      <3>3. m_requests'[c] = q
        <4>1. msg.id \notin DOMAIN q
          BY <2>2, <2>7 DEF Free
        <4>2. q \in Tables
          BY DEF Types
        <4>3. Erase(q, msg.id) = q
          BY <4>1, <4>2 DEF Tables, Erase, Restrict
        <4> QED  BY <2>7, <4>3 DEF Types
      <3> QED  BY <1>5, <2>2, <3>1, <3>2, <3>3 DEF u
    <2>8. CASE /\ msg.call.kind \in {"rdm", "discovery"}
               /\ SendMsg(c, old)
               /\ m_requests' = [m_requests EXCEPT ![c] = Set(@, msg.id, msg.call)]
      <3>1. msg.call.kind # "stream"
        BY <2>8
      <3>2. down' = down
        BY <2>3, <2>8, <3>1, SendNone
      <3>3. Matched(u, down[c], Set(q, msg.id, msg.call), r)
        BY <2>2, <3>1, AddRequest
      <3>4. m_requests'[c] = Set(q, msg.id, msg.call)
        BY <2>8 DEF Types
      <3> QED  BY <1>5, <3>2, <3>3, <3>4 DEF u
    <2> QED  BY <1>6, <2>5, <2>6, <2>7, <2>8
  <1> QED  BY <1>4, <1>5, <1>7, <1>8, MoveAnswers

\* The answer to a request that was served goes out under its id.
LEMMA RequestCompleteAnswers ==
    ASSUME Types, AnswersInv, NEW call \in Calls, RequestComplete(call),
           UNCHANGED <<up, m_responses, made, runs, reused>>
    PROVE  AnswersInv'
  <1> DEFINE c == call.on
             reply(id) == [type |-> "RESPONSE", id |-> id, call |-> call]
             sent(id) == IF m_descriptor[c] THEN <<reply(id)>> ELSE <<>>
  <1>1. c \in Connections
    BY ConstantsAssumption
  <1>2. ASSUME NEW id \in ServedAs(call), SendMsg(c, sent(id)),
               m_requests' = [m_requests EXCEPT ![c] = Erase(@, id)]
        PROVE  AnswersInv'
    <2> DEFINE q == m_requests[c]
    <2>1. id \in DOMAIN q /\ q[id] = call
      BY DEF ServedAs
    <2>2. id \in Ids
      BY <1>1, <2>1, TableTypes DEF Types
    <2>3. /\ reply(id) \in Message
          /\ reply(id).id = id /\ reply(id).call = call
      BY <2>2 DEF Message
    <2> HIDE DEF reply
    <2>4. /\ down'[c] = down[c] \/ down'[c] = down[c] \o <<reply(id)>>
          /\ \A d \in Connections : d # c => down'[d] = down[d]
      BY <1>1, <1>2, <2>3, SendOne, SendNone DEF Types
    <2>5. /\ m_requests'[c] = Erase(q, id)
          /\ \A d \in Connections : d # c => m_requests'[d] = m_requests[d]
      BY <1>1, <1>2 DEF Types
    <2>6. ASSUME c \notin reused
          PROVE  Matched(up'[c], down'[c], m_requests'[c], m_responses[c])
      <3>1. Matched(up[c], down[c], q, m_responses[c])
        BY <1>1, <2>6 DEF AnswersInv
      <3>2. /\ Matched(up[c], down[c], Erase(q, id), m_responses[c])
            /\ Free(up[c], down[c], Erase(q, id), id)
            /\ Waits(m_responses[c], id, call)
        BY <2>1, <3>1, DropRequest
      <3>3. down[c] \in Seq(Message)
        BY <1>1 DEF Types
      <3>4. Matched(up[c], down[c] \o <<reply(id)>>, Erase(q, id), m_responses[c])
        BY <2>3, <3>2, <3>3, AddDown
      <3> QED  BY <2>4, <2>5, <3>2, <3>4
    <2> QED  BY <1>1, <2>4, <2>5, <2>6, MoveAnswers
  <1>3. CASE UNCHANGED <<down, m_requests>>
    BY <1>3, SameAnswers
  <1> QED  BY <1>2, <1>3 DEF RequestComplete

\* Every step keeps the answers apart.
LEMMA AnswersNext == Types /\ AnswersInv /\ [Next]_vars => AnswersInv'
  <1> SUFFICES ASSUME Types, AnswersInv, [Next]_vars PROVE AnswersInv'
    OBVIOUS
  <1>1. ASSUME NEW call \in Calls, CallMethod(call) PROVE AnswersInv'
    BY <1>1, CallMethodAnswers
  <1>2. ASSUME NEW call \in Calls, CallFails(call) PROVE AnswersInv'
    BY <1>2, CallFailsAnswers
  <1>3. ASSUME NEW call \in Calls, RDMComplete(call) PROVE AnswersInv'
    <2>1. UNCHANGED <<up, m_responses, made, runs, reused>>
      BY <1>3 DEF RDMComplete, clientVars, historyVars
    <2>2. RequestComplete(call) \/ UNCHANGED <<down, m_requests>>
      BY <1>3 DEF RDMComplete
    <2> QED  BY <2>1, <2>2, RequestCompleteAnswers, SameAnswers
  <1>4. ASSUME NEW call \in Calls, RDMDiscoveryComplete(call) PROVE AnswersInv'
    BY <1>4, RequestCompleteAnswers
    DEF RDMDiscoveryComplete, clientVars, historyVars
  <1>5. ASSUME NEW c \in Connections, Disconnect(c) PROVE AnswersInv'
    BY <1>5, SameAnswers DEF Disconnect, serverVars, historyVars
  <1>6. ASSUME NEW c \in Connections, HandleResponse(c) PROVE AnswersInv'
    BY <1>6, HandleResponseAnswers
  <1>7. ASSUME NEW c \in Connections, NEW a \in Addresses,
               InternalNewConnection(c, a)
        PROVE  AnswersInv'
    BY <1>7, SameAnswers DEF InternalNewConnection, historyVars
  <1>8. ASSUME NEW c \in Connections, ChannelClosed(c) PROVE AnswersInv'
    BY <1>8, SameAnswers DEF ChannelClosed, clientVars, historyVars
  <1>9. ASSUME NEW c \in Connections, CleanupConnection(c) PROVE AnswersInv'
    BY <1>9, SameAnswers DEF CleanupConnection, clientVars, historyVars
  <1>10. ASSUME NEW c \in Connections, HandleRequest(c) PROVE AnswersInv'
    BY <1>10, HandleRequestAnswers
  <1>11. ASSUME NEW c \in Connections, ReadAfterClose(c) PROVE AnswersInv'
    BY <1>11, SameAnswers DEF ReadAfterClose, clientVars, historyVars
  <1>12. CASE UNCHANGED vars
    BY <1>12, SameAnswers DEF vars, clientVars, serverVars, historyVars
  <1> QED
    BY <1>1, <1>2, <1>3, <1>4, <1>5, <1>6, <1>7, <1>8, <1>9, <1>10, <1>11, <1>12
    DEF Next

\* A client gets its own answers: the callback of a call is run at most once,
\* and with the reply to this call, in whatever order olad completes the calls
\* and connections come and go, as long as no sequence number was reused on the
\* connection while it was outstanding.
THEOREM AnswersAreOwn == Spec => []OwnAnswers
  <1>1. Spec => []Types
    BY TypesInit, TypesNext, PTL DEF Spec
  <1>2. Spec => []AnswersInv
    BY <1>1, AnswersInit, AnswersNext, PTL DEF Spec
  <1>3. AnswersInv => OwnAnswers
    BY DEF AnswersInv
  <1> QED  BY <1>2, <1>3, PTL

-----------------------------------------------------------------------------
(* BrokerProtectsRDM *)

\* No client and no work.
LEMMA ProtectInit == Init => ProtectInv
  BY DEF Init, ProtectInv, StreamInv, BrokerInv, WorkInv, BrokerProtectsRDM

\* SendMsg deletes no connection.
LEMMA SendMsgServer ==
    ASSUME Types, NEW c \in Connections, NEW messages, SendMsg(c, messages)
    PROVE  \A d \in Connections : server'[d] = "deleted" => server[d] = "deleted"
  BY DEF SendMsg, Types

\* A step that deletes no connection and leaves the addresses alone.
LEMMA BrokerStays ==
    ASSUME BrokerInv, UNCHANGED <<address, m_clients, shared>>,
           \A d \in Connections : server'[d] = "deleted" => server[d] = "deleted"
    PROVE  BrokerInv'
  BY DEF BrokerInv

\* A step that leaves the work and the requests alone, or takes work away.
LEMMA WorkStays ==
    ASSUME WorkInv, UNCHANGED m_requests, reused \subseteq reused',
           work' \subseteq work
    PROVE  WorkInv'
  BY DEF WorkInv, ServedAs

\* A client gets an address: one that is free, or it is counted as shared.
LEMMA InternalNewConnectionBroker ==
    ASSUME Types, BrokerInv, NEW c \in Connections, NEW a \in Addresses,
           InternalNewConnection(c, a)
    PROVE  BrokerInv'
  <1> SUFFICES ASSUME shared' = {}
               PROVE  /\ \A d, e \in Connections :
                            address'[d] = address'[e] /\ address'[d] # None
                               => d = e
                      /\ \A d \in Connections : server'[d] = "deleted" =>
                            address'[d] \notin m_clients'
    BY DEF BrokerInv
  <1>1. \A other \in Connections : address[other] # a
    BY DEF InternalNewConnection
  <1>2. shared = {}
    BY DEF InternalNewConnection
  <1>3. /\ address'[c] = a /\ server'[c] = "open"
        /\ \A d \in Connections : d # c => /\ address'[d] = address[d]
                                           /\ server'[d] = server[d]
        /\ m_clients' = m_clients \cup {a}
    BY DEF InternalNewConnection, Types
  <1>4. ASSUME NEW d \in Connections, NEW e \in Connections,
               address'[d] = address'[e], address'[d] # None
        PROVE  d = e
    BY <1>1, <1>2, <1>3, <1>4 DEF BrokerInv
  <1>5. ASSUME NEW d \in Connections, server'[d] = "deleted"
        PROVE  address'[d] \notin m_clients'
    BY <1>1, <1>2, <1>3, <1>5 DEF BrokerInv
  <1> QED  BY <1>4, <1>5

\* The client of a connection that is deleted leaves the broker.
LEMMA CleanupConnectionBroker ==
    ASSUME Types, BrokerInv, NEW c \in Connections, CleanupConnection(c)
    PROVE  BrokerInv'
  <1>1. /\ server'[c] = "deleted"
        /\ \A d \in Connections : d # c => server'[d] = server[d]
        /\ m_clients' = m_clients \ {address[c]}
        /\ UNCHANGED <<address, shared>>
    BY DEF CleanupConnection, Types
  <1> QED  BY <1>1 DEF BrokerInv

\* The calls served and the calls worked on: a request is served under an id of
\* its own, so that no other is lost.
LEMMA HandleRequestWork ==
    ASSUME Types, AnswersInv, StreamInv, WorkInv, NEW c \in Connections,
           HandleRequest(c)
    PROVE  WorkInv'
  <1> DEFINE msg == Head(up[c])
             q == m_requests[c]
  <1>1. up[c] \in Seq(Message) /\ up[c] # <<>>
    BY DEF HandleRequest, Types
  <1>2. UNCHANGED reused
    BY DEF HandleRequest, historyVars
  <1>3. \/ UNCHANGED <<m_requests, work>>
        \/ /\ msg.call.kind = "failing" /\ UNCHANGED work
           /\ m_requests' = [m_requests EXCEPT ![c] = Erase(@, msg.id)]
        \/ /\ msg.call.kind \in {"rdm", "discovery"}
           /\ m_requests' = [m_requests EXCEPT ![c] = Set(@, msg.id, msg.call)]
           /\ work' = work \cup {msg.call}
    BY DEF HandleRequest
  <1>4. ASSUME c \notin reused, msg.call.kind # "stream"
        PROVE  msg.id \notin DOMAIN q /\ msg.call.on = c
    <2>1. Matched(up[c], down[c], q, m_responses[c])
      BY <1>4 DEF AnswersInv
    <2>2. /\ Free(Tail(up[c]), down[c], q, msg.id)
          /\ Waits(m_responses[c], msg.id, msg.call)
      BY <1>1, <1>4, <2>1, PopUp
    <2> QED  BY <2>2 DEF Free, Waits, AnswersInv, Known
  <1>5. CASE UNCHANGED <<m_requests, work>>
    BY <1>2, <1>5, WorkStays
  <1>6. CASE /\ msg.call.kind = "failing" /\ UNCHANGED work
             /\ m_requests' = [m_requests EXCEPT ![c] = Erase(@, msg.id)]
    <2> SUFFICES ASSUME NEW call \in work, call.on \notin reused
                 PROVE  ServedAs(call)' # {}
      BY <1>2, <1>6 DEF WorkInv
    <2>1. call.on \in Connections
      BY ConstantsAssumption DEF Types
    <2>2. PICK id \in DOMAIN m_requests[call.on] : m_requests[call.on][id] = call
      BY DEF WorkInv, ServedAs
    <2>3. id \in DOMAIN m_requests'[call.on] /\ m_requests'[call.on][id] = call
      <3>1. CASE call.on # c
        BY <1>6, <2>1, <2>2, <3>1 DEF Types
      <3>2. CASE call.on = c
        <4>1. id # msg.id
          BY <1>4, <1>6, <2>2, <3>2
        <4>2. /\ DOMAIN Erase(q, msg.id) = DOMAIN q \ {msg.id}
              /\ \A i \in DOMAIN q : i # msg.id => Erase(q, msg.id)[i] = q[i]
          BY EraseFacts
        <4>3. m_requests'[c] = Erase(q, msg.id)
          BY <1>6 DEF Types
        <4> QED  BY <2>2, <3>2, <4>1, <4>2, <4>3
      <3> QED  BY <3>1, <3>2
    <2> QED  BY <2>3 DEF ServedAs
  <1>7. CASE /\ msg.call.kind \in {"rdm", "discovery"}
             /\ m_requests' = [m_requests EXCEPT ![c] = Set(@, msg.id, msg.call)]
             /\ work' = work \cup {msg.call}
    <2> SUFFICES ASSUME NEW call \in work', call.on \notin reused
                 PROVE  ServedAs(call)' # {}
      BY <1>2 DEF WorkInv
    <2>1. m_requests'[c] = Set(q, msg.id, msg.call)
      BY <1>7 DEF Types
    <2>2. /\ DOMAIN Set(q, msg.id, msg.call) = DOMAIN q \cup {msg.id}
          /\ Set(q, msg.id, msg.call)[msg.id] = msg.call
          /\ \A i \in DOMAIN q : i # msg.id => Set(q, msg.id, msg.call)[i] = q[i]
      BY DEF Set
    <2>3. CASE call \in work
      <3>1. call.on \in Connections
        BY <2>3, ConstantsAssumption DEF Types
      <3>2. PICK id \in DOMAIN m_requests[call.on] : m_requests[call.on][id] = call
        BY <2>3 DEF WorkInv, ServedAs
      <3>3. id \in DOMAIN m_requests'[call.on] /\ m_requests'[call.on][id] = call
        <4>1. CASE call.on # c
          BY <1>7, <3>1, <3>2, <4>1 DEF Types
        <4>2. CASE call.on = c
          <5>1. id # msg.id
            BY <1>4, <1>7, <3>2, <4>2
          <5> QED  BY <2>1, <2>2, <3>2, <4>2, <5>1
        <4> QED  BY <4>1, <4>2
      <3> QED  BY <3>3 DEF ServedAs
    <2>4. CASE call = msg.call
      <3>1. call.on = c
        BY <1>1, <2>4, TailFacts DEF StreamInv
      <3> QED  BY <2>1, <2>2, <2>4, <3>1 DEF ServedAs
    <2> QED  BY <1>7, <2>3, <2>4
  <1> QED  BY <1>3, <1>5, <1>6, <1>7

\* A completed call leaves the requests, and no other does.
LEMMA RequestCompleteWork ==
    ASSUME Types, WorkInv, NEW call \in Calls, RequestComplete(call),
           work' = work \ {call}, UNCHANGED reused
    PROVE  WorkInv'
  <1> DEFINE c == call.on
  <1>1. c \in Connections
    BY ConstantsAssumption
  <1>2. ASSUME NEW id \in ServedAs(call),
               m_requests' = [m_requests EXCEPT ![c] = Erase(@, id)]
        PROVE  WorkInv'
    <2> SUFFICES ASSUME NEW other \in work, other # call, other.on \notin reused
                 PROVE  ServedAs(other)' # {}
      BY DEF WorkInv
    <2>1. other.on \in Connections
      BY ConstantsAssumption DEF Types
    <2>2. PICK j \in DOMAIN m_requests[other.on] : m_requests[other.on][j] = other
      BY DEF WorkInv, ServedAs
    <2>3. j \in DOMAIN m_requests'[other.on] /\ m_requests'[other.on][j] = other
      <3>1. CASE other.on # c
        BY <1>1, <1>2, <2>1, <2>2, <3>1 DEF Types
      <3>2. CASE other.on = c
        <4>1. j # id
          BY <2>2, <3>2 DEF ServedAs
        <4>2. LET q == m_requests[c] IN
              /\ DOMAIN Erase(q, id) = DOMAIN q \ {id}
              /\ \A i \in DOMAIN q : i # id => Erase(q, id)[i] = q[i]
          BY EraseFacts
        <4>3. m_requests'[c] = Erase(m_requests[c], id)
          BY <1>1, <1>2 DEF Types
        <4> QED  BY <2>2, <3>2, <4>1, <4>2, <4>3
      <3> QED  BY <3>1, <3>2
    <2> QED  BY <2>3 DEF ServedAs
  <1>3. CASE UNCHANGED m_requests
    BY <1>3, WorkStays
  <1> QED  BY <1>2, <1>3 DEF RequestComplete

\* The completion of a call deletes no connection.
LEMMA RequestCompleteServer ==
    ASSUME Types, NEW call \in Calls, RequestComplete(call)
    PROVE  \A d \in Connections : server'[d] = "deleted" => server[d] = "deleted"
  <1>1. call.on \in Connections
    BY ConstantsAssumption
  <1>2. (\E messages : SendMsg(call.on, messages)) \/ UNCHANGED server
    BY DEF RequestComplete
  <1> QED  BY <1>1, <1>2, SendMsgServer

\* A step that writes nothing to olad.
LEMMA StreamStays ==
    ASSUME StreamInv, UNCHANGED up
    PROVE  StreamInv'
  BY DEF StreamInv

\* Every step keeps what protects the RDM code's callbacks.
LEMMA ProtectNext ==
    Types /\ AnswersInv /\ ProtectInv /\ [Next]_vars => ProtectInv'
  <1> SUFFICES ASSUME Types, AnswersInv, ProtectInv, [Next]_vars
               PROVE  ProtectInv'
    OBVIOUS
  <1> USE DEF ProtectInv
  <1>1. ASSUME NEW call \in Calls, CallMethod(call), fault = "none"
        PROVE  ProtectInv'
    <2> DEFINE c == call.on
               msg == [type |-> IF call.kind = "stream" THEN "STREAM_REQUEST"
                                ELSE "REQUEST", id |-> m_sequence[c],
                       call |-> call]
    <2>1. c \in Connections
      BY ConstantsAssumption
    <2>2. UNCHANGED <<address, m_clients, shared, server, m_requests, work, fault>>
      BY <1>1 DEF CallMethod, brokerVars, serverVars
    <2>3. reused \subseteq reused'
      BY <1>1 DEF CallMethod, Register
    <2>4. StreamInv'
      <3>1. msg \in Message /\ msg.call = call /\ up[c] \in Seq(Message)
        BY <2>1 DEF Types, Message
      <3>2. up' = [up EXCEPT ![c] = Append(@, msg)]
        BY <1>1 DEF CallMethod
      <3> HIDE DEF msg
      <3>3. /\ \A i \in 1 .. Len(up[c]) : Append(up[c], msg)[i] = up[c][i]
            /\ Append(up[c], msg)[Len(up[c]) + 1] = msg
            /\ \A i \in 1 .. Len(Append(up[c], msg)) :
                  i \in 1 .. Len(up[c]) \/ i = Len(up[c]) + 1
        BY <3>1, AppendFacts
      <3>4. /\ up'[c] = Append(up[c], msg)
            /\ \A d \in Connections : d # c => up'[d] = up[d]
        BY <2>1, <3>2 DEF Types
      <3> QED  BY <3>1, <3>3, <3>4 DEF StreamInv
    <2>5. BrokerInv' /\ WorkInv'
      BY <2>2, <2>3, BrokerStays, WorkStays
    <2> QED  BY <1>1, <2>2, <2>4, <2>5 DEF BrokerProtectsRDM
  <1>2. ASSUME NEW call \in Calls, CallFails(call), fault = "none"
        PROVE  ProtectInv'
    <2>1. UNCHANGED <<up, address, m_clients, shared, server, m_requests, work,
                      fault, reused>>
      BY <1>2 DEF CallFails, brokerVars, serverVars
    <2> QED  BY <2>1, StreamStays, BrokerStays, WorkStays DEF BrokerProtectsRDM
  <1>3. ASSUME NEW call \in Calls, RDMComplete(call), fault = "none"
        PROVE  ProtectInv'
    <2>1. /\ UNCHANGED <<up, address, m_clients, shared, reused>>
          /\ call \in work /\ work' = work \ {call} /\ call.kind = "rdm"
      BY <1>3 DEF RDMComplete, clientVars, brokerVars, historyVars
    <2>2. CASE address[call.on] \in m_clients
      <3>1. RequestComplete(call)
        BY <1>3, <2>2 DEF RDMComplete
      <3>2. BrokerInv'
        BY <2>1, <3>1, RequestCompleteServer, BrokerStays
      <3>3. WorkInv'
        BY <2>1, <3>1, RequestCompleteWork
      <3>4. BrokerProtectsRDM'
        <4> SUFFICES ASSUME fault' # "none", shared = {}, reused = {}
                     PROVE  FALSE
          BY <2>1 DEF BrokerProtectsRDM
        <4>1. server[call.on] = "deleted" \/ ServedAs(call) = {}
          BY <1>3, <3>1 DEF RequestComplete
        <4>2. call.on \in Connections
          BY ConstantsAssumption
        <4>3. server[call.on] # "deleted"
          BY <2>2, <4>2 DEF BrokerInv
        <4>4. ServedAs(call) # {}
          BY <2>1, <4>2 DEF WorkInv
        <4> QED  BY <4>1, <4>3, <4>4
      <3> QED  BY <2>1, <3>2, <3>3, <3>4, StreamStays
    <2>3. CASE address[call.on] \notin m_clients
      <3>1. UNCHANGED <<server, m_requests, fault>>
        BY <1>3, <2>3 DEF RDMComplete
      <3> QED
        BY <2>1, <3>1, StreamStays, BrokerStays, WorkStays DEF BrokerProtectsRDM
    <2> QED  BY <2>2, <2>3
  <1>4. ASSUME NEW call \in Calls, RDMDiscoveryComplete(call), fault = "none"
        PROVE  ProtectInv'
    <2>1. /\ UNCHANGED <<up, address, m_clients, shared, reused>>
          /\ work' = work \ {call} /\ call.kind = "discovery"
          /\ RequestComplete(call)
      BY <1>4 DEF RDMDiscoveryComplete, clientVars, brokerVars, historyVars
    <2>2. fault' # "rdm"
      BY <1>4, <2>1 DEF RequestComplete
    <2> QED
      BY <2>1, <2>2, StreamStays, RequestCompleteServer, BrokerStays,
         RequestCompleteWork
      DEF BrokerProtectsRDM
  <1>5. ASSUME NEW c \in Connections, Disconnect(c)
        PROVE  ProtectInv'
    <2>1. UNCHANGED <<up, address, m_clients, shared, server, m_requests, work,
                      fault, reused>>
      BY <1>5 DEF Disconnect, brokerVars, serverVars, historyVars
    <2> QED  BY <2>1, StreamStays, BrokerStays, WorkStays DEF BrokerProtectsRDM
  <1>6. ASSUME NEW c \in Connections, HandleResponse(c)
        PROVE  ProtectInv'
    <2>1. UNCHANGED <<up, address, m_clients, shared, server, m_requests, work,
                      fault, reused>>
      BY <1>6 DEF HandleResponse, brokerVars, serverVars
    <2> QED  BY <2>1, StreamStays, BrokerStays, WorkStays DEF BrokerProtectsRDM
  <1>7. ASSUME NEW c \in Connections, NEW a \in Addresses,
               InternalNewConnection(c, a), fault = "none"
        PROVE  ProtectInv'
    <2>1. UNCHANGED <<up, m_requests, work, fault, reused>>
      BY <1>7 DEF InternalNewConnection, historyVars
    <2>2. BrokerInv'
      BY <1>7, InternalNewConnectionBroker
    <2> QED  BY <1>7, <2>1, <2>2, StreamStays, WorkStays DEF BrokerProtectsRDM
  <1>8. ASSUME NEW c \in Connections, ChannelClosed(c)
        PROVE  ProtectInv'
    <2>1. UNCHANGED <<up, address, m_clients, shared, m_requests, work, fault,
                      reused>>
      BY <1>8 DEF ChannelClosed, brokerVars, historyVars
    <2>2. \A d \in Connections : server'[d] = "deleted" => server[d] = "deleted"
      BY <1>8 DEF ChannelClosed, Types
    <2> QED
      BY <2>1, <2>2, StreamStays, BrokerStays, WorkStays DEF BrokerProtectsRDM
  <1>9. ASSUME NEW c \in Connections, CleanupConnection(c)
        PROVE  ProtectInv'
    <2>1. UNCHANGED <<up, shared, m_requests, work, fault, reused>>
      BY <1>9 DEF CleanupConnection, historyVars
    <2>2. BrokerInv'
      BY <1>9, CleanupConnectionBroker
    <2> QED  BY <2>1, <2>2, StreamStays, WorkStays DEF BrokerProtectsRDM
  <1>10. ASSUME NEW c \in Connections, HandleRequest(c)
         PROVE  ProtectInv'
    <2>1. /\ up' = [up EXCEPT ![c] = Tail(@)] /\ up[c] # <<>>
          /\ UNCHANGED <<address, m_clients, shared, fault, reused>>
      BY <1>10 DEF HandleRequest, brokerVars, historyVars
    <2>2. StreamInv'
      <3>1. up[c] \in Seq(Message)
        BY DEF Types
      <3>2. \A i \in 1 .. Len(Tail(up[c])) :
               i + 1 \in 1 .. Len(up[c]) /\ Tail(up[c])[i] = up[c][i + 1]
        BY <2>1, <3>1, TailFacts
      <3>3. /\ up'[c] = Tail(up[c])
            /\ \A d \in Connections : d # c => up'[d] = up[d]
        BY <2>1 DEF Types
      <3> DEFINE u == Tail(up[c])
      <3> HIDE DEF u
      <3>4. \A i \in 1 .. Len(u) : u[i].call.on = c
        <4>1. \A i \in 1 .. Len(u) :
                 i + 1 \in 1 .. Len(up[c]) /\ u[i] = up[c][i + 1]
          BY <3>2 DEF u
        <4>2. \A j \in 1 .. Len(up[c]) : up[c][j].call.on = c
          BY DEF StreamInv
        <4> QED  BY <4>1, <4>2
      <3>5. ASSUME NEW d \in Connections, NEW i \in 1 .. Len(up'[d])
            PROVE  up'[d][i].call.on = d
        <4>1. CASE d = c
          BY <3>3, <3>4, <3>5, <4>1 DEF u
        <4>2. CASE d # c
          BY <3>3, <3>5, <4>2 DEF StreamInv
        <4> QED  BY <4>1, <4>2
      <3> QED  BY <3>5 DEF StreamInv
    <2>3. \A d \in Connections : server'[d] = "deleted" => server[d] = "deleted"
      <3>1. (\E messages : SendMsg(c, messages)) \/ UNCHANGED server
        BY <1>10 DEF HandleRequest
      <3> QED  BY <3>1, SendMsgServer
    <2>4. BrokerInv'
      BY <2>1, <2>3, BrokerStays
    <2>5. WorkInv'
      BY <1>10, HandleRequestWork
    <2> QED  BY <2>1, <2>2, <2>4, <2>5 DEF BrokerProtectsRDM
  <1>11. ASSUME NEW c \in Connections, ReadAfterClose(c)
         PROVE  ProtectInv'
    <2>1. /\ UNCHANGED <<up, address, m_clients, shared, server, m_requests, work,
                         reused>>
          /\ fault' = "null"
      BY <1>11 DEF ReadAfterClose, brokerVars, historyVars
    <2> QED  BY <2>1, StreamStays, BrokerStays, WorkStays DEF BrokerProtectsRDM
  <1>12. CASE UNCHANGED vars
    <2>1. UNCHANGED <<up, address, m_clients, shared, server, m_requests, work,
                      fault, reused>>
      BY <1>12 DEF vars, brokerVars, serverVars, historyVars
    <2> QED  BY <2>1, StreamStays, BrokerStays, WorkStays DEF BrokerProtectsRDM
  <1> QED
    BY <1>1, <1>2, <1>3, <1>4, <1>5, <1>6, <1>7, <1>8, <1>9, <1>10, <1>11, <1>12
    DEF Next

\* What ClientBroker.h promises, as far as it holds: the completion of an RDM
\* call never runs into a deleted channel or request, in whatever order clients
\* leave, connections are cleaned up and requests complete, unless a Client got
\* the address of a deleted one or a sequence number came round.
THEOREM BrokerProtects == Spec => []BrokerProtectsRDM
  <1>1. Spec => []Types
    BY TypesInit, TypesNext, PTL DEF Spec
  <1>2. Spec => []AnswersInv
    BY <1>1, AnswersInit, AnswersNext, PTL DEF Spec
  <1>3. Spec => []ProtectInv
    BY <1>1, <1>2, ProtectInit, ProtectNext, PTL DEF Spec
  <1>4. ProtectInv => BrokerProtectsRDM
    BY DEF ProtectInv
  <1> QED  BY <1>3, <1>4, PTL

=============================================================================
