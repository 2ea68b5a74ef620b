------------------------------ MODULE RpcChannel ------------------------------
(***************************************************************************)
(* Calls of clients to olad, end to end: RpcChannel on both sides          *)
(* (common/rpc/RpcChannel.cpp), the connections of OlaServer               *)
(* (olad/OlaServer.cpp), the ClientBroker between them and the RDM code    *)
(* (olad/ClientBroker.cpp), and the two calls of OlaServerServiceImpl that *)
(* take time, an RDM request and a discovery.                              *)
(*                                                                         *)
(* Clients come and go while their calls are in progress.  A connection is *)
(* a pair of reliable streams; each end may close it, and olad cleans up   *)
(* in two steps, ChannelClosed and, later in the event loop,               *)
(* CleanupConnection.  A call into a deleted object stops olad.            *)
(***************************************************************************)
EXTENDS Naturals, Sequences, FiniteSets, Functions

CONSTANTS
    Connections,   \* connections of clients, each used once
    Calls,         \* records [name, on, kind]: a call, its connection and what
                   \* the server makes of it
    Addresses,     \* addresses of Client objects in olad
    SequenceSize,  \* number of sequence numbers, 2^32 in the code
    None           \* no address

\* A call is served by the RDM code, or fails at once, or its method is not
\* known, or it is one HandleRequest cannot read, or it wants no answer.
Kinds == {"rdm", "discovery", "failing", "unknown", "malformed", "stream"}
Unanswered == {"malformed", "stream"}

ASSUME ConstantsAssumption ==
    /\ \A call \in Calls : call.on \in Connections /\ call.kind \in Kinds
    /\ SequenceSize \in Nat \ {0}
    /\ None \notin Addresses

VARIABLES
    \* A client's end of each connection.
    connected,     \* its descriptor can be used
    m_sequence,    \* next sequence number
    m_responses,   \* m_responses[c]: id -> the call waiting for the response
    \* The streams.
    up,            \* messages to olad
    down,          \* messages to the client
    \* olad.
    server,        \* "none", "open", "closed" (ChannelClosed has run) or
                   \* "deleted" (CleanupConnection has)
    m_descriptor,  \* FALSE: set to NULL by a failed SendMsg
    m_requests,    \* m_requests[c]: id -> the call being served
    address,       \* address[c]: the Client object of the connection
    m_clients,     \* ClientBroker: addresses of the clients that exist
    work,          \* calls the RDM code will complete
    fault,         \* what olad has stopped at
    \* History, read by the properties only.
    made,          \* calls made
    runs,          \* runs[call]: what its callback was run with
    reused,        \* connections on which an id was reused too early
    shared         \* addresses that more than one Client has had

clientVars == <<connected, m_sequence, m_responses>>
brokerVars == <<address, m_clients, shared>>
serverVars == <<server, m_descriptor, m_requests, work, fault>>
historyVars == <<made, runs, reused>>
vars == <<clientVars, brokerVars, serverVars, historyVars, up, down>>

-----------------------------------------------------------------------------
(* Types *)

Ids == 0 .. SequenceSize - 1
Message == [type: {"REQUEST", "STREAM_REQUEST", "RESPONSE", "RESPONSE_FAILED",
                   "RESPONSE_NOT_IMPLEMENTED"},
            id: Ids, call: Calls]
Outcome == [ok: BOOLEAN, reply: Calls]
Pending(m) == DOMAIN m \subseteq Ids /\ m \in [DOMAIN m -> Calls]

\* Type invariant: messages and tables only hold sequence numbers and calls.
TypeOK ==
    /\ connected \in [Connections -> BOOLEAN]
    /\ m_sequence \in [Connections -> Ids]
    /\ \A c \in Connections : Pending(m_responses[c]) /\ Pending(m_requests[c])
    /\ up \in [Connections -> Seq(Message)]
    /\ down \in [Connections -> Seq(Message)]
    /\ server \in [Connections -> {"none", "open", "closed", "deleted"}]
    /\ m_descriptor \in [Connections -> BOOLEAN]
    /\ address \in [Connections -> Addresses \cup {None}]
    /\ m_clients \subseteq Addresses
    /\ work \subseteq Calls
    /\ fault \in {"none", "null", "rdm", "discovery"}
    /\ made \subseteq Calls
    /\ runs \in [Calls -> Seq(Outcome)]
    /\ reused \subseteq Connections
    /\ shared \subseteq Addresses

Init ==
    /\ connected = [c \in Connections |-> FALSE]
    /\ m_sequence = [c \in Connections |-> 0]
    /\ m_responses = [c \in Connections |-> <<>>]
    /\ up = [c \in Connections |-> <<>>]
    /\ down = [c \in Connections |-> <<>>]
    /\ server = [c \in Connections |-> "none"]
    /\ m_descriptor = [c \in Connections |-> TRUE]
    /\ m_requests = [c \in Connections |-> <<>>]
    /\ address = [c \in Connections |-> None]
    /\ m_clients = {}
    /\ work = {}
    /\ fault = "none"
    /\ made = {}
    /\ runs = [call \in Calls |-> <<>>]
    /\ reused = {}
    /\ shared = {}

-----------------------------------------------------------------------------
(* Tables *)

Set(m, id, call) == [i \in DOMAIN m \cup {id} |-> IF i = id THEN call ELSE m[i]]
Erase(m, id) == Restrict(m, DOMAIN m \ {id})

-----------------------------------------------------------------------------
(* The client's end *)

\* done->Run(), with the controller failed or the reply filled in.
RunDone(call, ok, reply) ==
    runs' = [runs EXCEPT ![call] = Append(@, [ok |-> ok, reply |-> reply])]

\* CallMethod after the message was sent.  If the id is taken the old response
\* is dropped, and it is the new call that is failed, and stays.
Register(call, id) ==
    LET taken == id \in DOMAIN m_responses[call.on]
    IN
    /\ m_responses' = [m_responses EXCEPT ![call.on] = Set(@, id, call)]
    /\ IF taken THEN RunDone(call, FALSE, call) ELSE UNCHANGED runs
    /\ reused' = IF taken THEN reused \cup {call.on} ELSE reused

\* CallMethod, sent.
CallMethod(call) ==
    LET c == call.on
        id == m_sequence[c]
        stream == call.kind = "stream"
    IN
    /\ call \notin made
    /\ connected[c]
    /\ made' = made \cup {call}
    /\ m_sequence' = [m_sequence EXCEPT ![c] = (@ + 1) % SequenceSize]
    /\ up' = [up EXCEPT ![c] = Append(@,
         [type |-> IF stream THEN "STREAM_REQUEST" ELSE "REQUEST", id |-> id,
          call |-> call])]
    /\ IF stream THEN UNCHANGED <<m_responses, runs, reused>>
       ELSE Register(call, id)
    /\ UNCHANGED <<connected, down, brokerVars, serverVars>>

\* CallMethod, not sent: the descriptor is given up, or was before.
CallFails(call) ==
    /\ call \notin made
    /\ server[call.on] # "none"
    /\ made' = made \cup {call}
    /\ m_sequence' = [m_sequence EXCEPT ![call.on] = (@ + 1) % SequenceSize]
    /\ connected' = [connected EXCEPT ![call.on] = FALSE]
    /\ IF call.kind = "stream" THEN UNCHANGED runs
       ELSE RunDone(call, FALSE, call)
    /\ UNCHANGED <<m_responses, reused, up, down, brokerVars, serverVars>>

\* The client goes away, or finds the end of the stream (HandleChannelClose).
\* Calls that are outstanding are not failed.
Disconnect(c) ==
    /\ connected[c]
    /\ connected' = [connected EXCEPT ![c] = FALSE]
    /\ UNCHANGED <<m_sequence, m_responses, up, down, brokerVars, serverVars,
                   historyVars>>

\* Mutant: only a RESPONSE runs the callback.
HandleSuccessOnly(c) ==
    LET msg == Head(down[c])
        found == msg.id \in DOMAIN m_responses[c]
    IN
    /\ connected[c]
    /\ down[c] # <<>>
    /\ down' = [down EXCEPT ![c] = Tail(@)]
    /\ m_responses' = [m_responses EXCEPT ![c] = Erase(@, msg.id)]
    /\ IF found /\ msg.type = "RESPONSE"
       THEN RunDone(m_responses[c][msg.id], TRUE, msg.call)
       ELSE UNCHANGED runs
    /\ UNCHANGED <<connected, m_sequence, up, brokerVars, serverVars, made,
                   reused>>

\* HandleResponse, HandleFailedResponse, HandleNotImplemented: the call that
\* waits for the id is over.
HandleResponse(c) ==
    LET msg == Head(down[c])
        found == msg.id \in DOMAIN m_responses[c]
    IN
    /\ connected[c]
    /\ down[c] # <<>>
    /\ down' = [down EXCEPT ![c] = Tail(@)]
    /\ m_responses' = [m_responses EXCEPT ![c] = Erase(@, msg.id)]
    /\ IF found
       THEN RunDone(m_responses[c][msg.id], msg.type = "RESPONSE", msg.call)
       ELSE UNCHANGED runs
    /\ UNCHANGED <<connected, m_sequence, up, brokerVars, serverVars, made,
                   reused>>

-----------------------------------------------------------------------------
(* olad: connections *)

\* InternalNewConnection.  The new Client may get the address of a deleted one.
InternalNewConnection(c, a) ==
    /\ server[c] = "none"
    /\ \A other \in Connections : server[other] \in {"open", "closed"} =>
          address[other] # a
    /\ server' = [server EXCEPT ![c] = "open"]
    /\ connected' = [connected EXCEPT ![c] = TRUE]
    /\ address' = [address EXCEPT ![c] = a]
    /\ m_clients' = m_clients \cup {a}
    /\ shared' = IF \E other \in Connections : address[other] = a
                 THEN shared \cup {a} ELSE shared
    /\ UNCHANGED <<m_sequence, m_responses, up, down, m_descriptor,
                   m_requests, work, fault, historyVars>>

\* The select server finds the end of the stream once everything is read;
\* HandleChannelClose, ChannelClosed.
ChannelClosed(c) ==
    /\ server[c] = "open"
    /\ ~connected[c]
    /\ up[c] = <<>>
    /\ server' = [server EXCEPT ![c] = "closed"]
    /\ UNCHANGED <<clientVars, up, down, brokerVars, m_descriptor, m_requests,
                   work, fault, historyVars>>

\* Mutant: the client stays in the broker.
ForgetBroker(c) ==
    /\ server[c] = "closed"
    /\ server' = [server EXCEPT ![c] = "deleted"]
    /\ UNCHANGED <<clientVars, up, down, brokerVars, m_descriptor, m_requests,
                   work, fault, historyVars>>

\* CleanupConnection, run from the event loop: the channel, the client and the
\* descriptor are deleted, the requests in progress are not.
CleanupConnection(c) ==
    /\ server[c] = "closed"
    /\ server' = [server EXCEPT ![c] = "deleted"]
    /\ m_clients' = m_clients \ {address[c]}
    /\ UNCHANGED <<clientVars, up, down, address, shared, m_descriptor,
                   m_requests, work, fault, historyVars>>

-----------------------------------------------------------------------------
(* olad: SendMsg *)

\* Some messages are sent, or the first of them fails and closes the channel;
\* the ones after it are not sent either.
SendMsg(c, messages) ==
    \/ /\ messages = <<>>
       /\ UNCHANGED <<down, server, m_descriptor>>
    \/ /\ messages # <<>>
       /\ m_descriptor[c]
       /\ down' = [down EXCEPT ![c] = @ \o messages]
       /\ UNCHANGED <<server, m_descriptor>>
    \/ /\ messages # <<>>
       /\ m_descriptor' = [m_descriptor EXCEPT ![c] = FALSE]
       /\ server' = [server EXCEPT ![c] = "closed"]
       /\ UNCHANGED down

Failed(id, call) == [type |-> "RESPONSE_FAILED", id |-> id, call |-> call]

-----------------------------------------------------------------------------
(* olad: requests *)

\* DescriptorReady, HandleNewMsg, HandleRequest and HandleStreamRequest.  An
\* id that is in use fails the request that has it.  A request that does not
\* parse, or for which there is no service or prototype, is dropped without
\* an answer.  (The methods clients stream to all exist.)
HandleRequest(c) ==
    LET msg == Head(up[c])
        taken == msg.id \in DOMAIN m_requests[c]
        old == IF taken THEN <<Failed(msg.id, m_requests[c][msg.id])>>
               ELSE <<>>
    IN
    /\ up[c] # <<>>
    /\ server[c] \in {"open", "closed"}
    /\ m_descriptor[c]
    /\ up' = [up EXCEPT ![c] = Tail(@)]
    /\ \/ /\ msg.call.kind \in Unanswered
          /\ UNCHANGED <<m_requests, work, down, server, m_descriptor>>
       \/ /\ msg.call.kind = "unknown"
          /\ SendMsg(c, <<[type |-> "RESPONSE_NOT_IMPLEMENTED",
                           id |-> msg.id, call |-> msg.call]>>)
          /\ UNCHANGED <<m_requests, work>>
       \/ /\ msg.call.kind = "failing"
          /\ SendMsg(c, Append(old, Failed(msg.id, msg.call)))
          /\ m_requests' = [m_requests EXCEPT ![c] = Erase(@, msg.id)]
          /\ UNCHANGED work
       \/ /\ msg.call.kind \in {"rdm", "discovery"}
          /\ SendMsg(c, old)
          /\ m_requests' = [m_requests EXCEPT ![c] = Set(@, msg.id, msg.call)]
          /\ work' = work \cup {msg.call}
    /\ UNCHANGED <<clientVars, brokerVars, fault, historyVars>>

\* DescriptorReady finds a new message after a failed SendMsg: ReadHeader uses
\* m_descriptor, which is NULL.
ReadAfterClose(c) ==
    /\ up[c] # <<>>
    /\ server[c] = "closed"
    /\ ~m_descriptor[c]
    /\ fault' = "null"
    /\ UNCHANGED <<clientVars, up, down, brokerVars, server, m_descriptor,
                   m_requests, work, historyVars>>

\* Mutant: the response goes out under the id of any request in progress.
ServedAsAny(call) == DOMAIN m_requests[call.on]

\* The id under which a call is being served.
ServedAs(call) ==
    {id \in DOMAIN m_requests[call.on] : m_requests[call.on][id] = call}

\* RequestComplete.  The channel may have been deleted, or the request, by the
\* next one with its id.
RequestComplete(call) ==
    \/ /\ server[call.on] # "deleted"
       /\ \E id \in ServedAs(call) :
             /\ SendMsg(call.on, IF m_descriptor[call.on]
                                 THEN <<[type |-> "RESPONSE", id |-> id,
                                         call |-> call]>>
                                 ELSE <<>>)
             /\ m_requests' = [m_requests EXCEPT ![call.on] = Erase(@, id)]
       /\ UNCHANGED fault
    \/ /\ server[call.on] = "deleted" \/ ServedAs(call) = {}
       /\ fault' = call.kind
       /\ UNCHANGED <<down, server, m_descriptor, m_requests>>

\* ClientBroker::RequestComplete, then HandleRDMResponse.
RDMComplete(call) ==
    /\ call \in work
    /\ call.kind = "rdm"
    /\ work' = work \ {call}
    /\ IF address[call.on] \in m_clients THEN RequestComplete(call)
       ELSE UNCHANGED <<down, server, m_descriptor, m_requests, fault>>
    /\ UNCHANGED <<clientVars, up, brokerVars, historyVars>>

\* RDMDiscoveryComplete, which the broker does not see.
RDMDiscoveryComplete(call) ==
    /\ call \in work
    /\ call.kind = "discovery"
    /\ work' = work \ {call}
    /\ RequestComplete(call)
    /\ UNCHANGED <<clientVars, up, brokerVars, historyVars>>

-----------------------------------------------------------------------------
\* Nothing is of interest once olad has stopped.
Next ==
    /\ fault = "none"
    /\ \/ \E call \in Calls :
             \/ CallMethod(call)
             \/ CallFails(call)
             \/ RDMComplete(call)
             \/ RDMDiscoveryComplete(call)
       \/ \E c \in Connections :
             \/ Disconnect(c)
             \/ HandleResponse(c)
             \/ \E a \in Addresses : InternalNewConnection(c, a)
             \/ ChannelClosed(c)
             \/ CleanupConnection(c)
             \/ HandleRequest(c)
             \/ ReadAfterClose(c)

\* Both event loops run, and the RDM code completes what it is given
\* (RDMControllerContract); clients call and disconnect as they like.
Fairness ==
    /\ WF_vars(\E call \in Calls :
                  RDMComplete(call) \/ RDMDiscoveryComplete(call))
    /\ WF_vars(\E c \in Connections : HandleResponse(c))
    /\ WF_vars(\E c \in Connections :
                  HandleRequest(c) \/ ChannelClosed(c) \/ CleanupConnection(c))

Spec == Init /\ [][Next]_vars
FairSpec == Spec /\ Fairness

-----------------------------------------------------------------------------
(* Properties *)

\* A client gets its own answers: a call's callback is run at most once, and a
\* reply is the reply to this call, although calls complete in any order and
\* connections share a server.  (On a connection whose sequence numbers have
\* come round to one that is outstanding, calls get each other's answers.)
OwnAnswers ==
    \A call \in Calls : call.on \notin reused =>
        /\ Len(runs[call]) <= 1
        /\ \A i \in 1 .. Len(runs[call]) : runs[call][i].reply = call

\* "When the call completes, the client broker will detect that the client has
\* disconnected and not run the callback" (ClientBroker.h:18): the completion
\* of an RDM call never runs into a deleted channel, unless a new client has
\* the address of the deleted one, which the broker takes for it, or the
\* request was deleted because its id was reused.
BrokerProtectsRDM ==
    fault = "rdm" => shared # {} \/ reused # {}

\* The same promise for every call that takes time.
NoCallbackAfterDisconnect == fault \notin {"rdm", "discovery"}

\* A call is over: its callback was run, or its connection is lost.
Over(call) ==
    \/ runs[call] # <<>>
    \/ ~connected[call.on]
    \/ server[call.on] # "open"
    \/ call.on \in reused
    \/ fault # "none"

\* Every call that olad can read and its client waits for ends, whether it is
\* served, refused or not known: time and again, all such calls made so far
\* are over.  (For a request it drops, olad leaves the client waiting.)
CallsEnd ==
    []<>(\A call \in made : call.kind \notin Unanswered => Over(call))

=============================================================================
