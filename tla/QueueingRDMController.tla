------------------------ MODULE QueueingRDMController ------------------------
(***************************************************************************)
(* The request queue every RDM capable output of olad is wrapped in:       *)
(* QueueingRDMController and DiscoverableQueueingRDMController             *)
(* (common/rdm/QueueingRDMController.cpp).                                 *)
(*                                                                         *)
(* Clients hand over RDM requests and discovery requests; the queue is     *)
(* meant to hand one of them at a time to the underlying controller (a     *)
(* widget or an Art-Net port) and to run each callback once.  All code     *)
(* runs on one SelectServer thread, so an action is one call into the      *)
(* queue.  The hand-over to the underlying controller is the last thing    *)
(* each of these calls does, and it may call back before it returns: while *)
(* `call' holds a request, that hand-over is in progress and only the      *)
(* underlying controller may step.                                         *)
(***************************************************************************)
EXTENDS Naturals, Sequences

CONSTANTS
    Requests,         \* RDM requests clients may send, each with its callback
    Origins,          \* source UID and command class of a response
    Origin,           \* Origin[r]: those of the responses to r
    Discoveries,      \* discovery requests, each with its callback
    FullDiscoveries,  \* those made with RunFullDiscovery
    MaxQueueSize,     \* m_max_queue_size
    Sizes,            \* sizes the parameter data of a response may have
    MaxOverflow,      \* MAX_OVERFLOW_SIZE, of a combined response
    NoRequest         \* absence of a request

ASSUME ConstantsAssumption ==
    /\ NoRequest \notin Requests
    /\ Origin \in [Requests -> Origins]
    /\ FullDiscoveries \subseteq Discoveries
    /\ MaxQueueSize \in Nat
    /\ Sizes \subseteq Nat
    /\ MaxOverflow \in Nat

VARIABLES
    m_pending_requests,   \* queue of requests; the head may be in progress
    m_rdm_request_pending,
    m_active,
    m_response,           \* requests whose parts it combines, {} for NULL
    m_response_size,      \* its ParamDataSize()
    m_packets,            \* requests whose raw packets it holds
    m_pending_discovery_callbacks,
    m_discovery_callbacks,
    alive,                \* FALSE once the destructor has run
    call,                 \* request being handed to the underlying controller
    wire,                 \* request the underlying controller has outstanding
    discovery,            \* discovery the underlying controller is running
    \* History, read by the properties only.
    submitted,            \* requests clients have sent
    completions,          \* completions[r]: what r's callback was run with
    discoveryRuns,        \* number of discoveries started
    asked,                \* asked[d]: discoveryRuns when d was requested
    requested,            \* discovery requests clients have made
    served,               \* served[d]: what d's callback was run with
    interrupted           \* a call came in at one of the unguarded points:
                          \* see Exposed

requestVars == <<m_pending_requests, m_rdm_request_pending, m_response,
                 m_response_size, m_packets, call, completions>>
discoveryVars == <<m_pending_discovery_callbacks, m_discovery_callbacks,
                   discovery, discoveryRuns, served>>
clientVars == <<submitted, asked, requested, interrupted>>
vars == <<requestVars, discoveryVars, clientVars, m_active, alive, wire>>

-----------------------------------------------------------------------------
(* Types *)

ResponseCodes == {"RDM_COMPLETED_OK", "RDM_INVALID_RESPONSE", "RDM_TIMEOUT",
                  "RDM_FAILED_TO_SEND"}
ResponseTypes == {"NULL", "RDM_ACK", "ACK_OVERFLOW"}
DiscoveryKinds == {"full", "incremental"}

\* Arguments of an RDMCallback: the requests that the parts of the response
\* and the packets answer.
Completion == [code: ResponseCodes, response: SUBSET Requests,
               packets: SUBSET Requests]
Service == [run: Nat, kind: DiscoveryKinds]
PendingDiscovery == [full: BOOLEAN, callback: Discoveries]

\* Type invariant: the queue's members, the underlying controller's slots and
\* the history variables hold values of their types, and the queue never
\* grows past m_max_queue_size (SendRDMRequest's first test).
TypeOK ==
    /\ m_pending_requests \in Seq(Requests)
    /\ Len(m_pending_requests) <= MaxQueueSize
    /\ m_rdm_request_pending \in BOOLEAN
    /\ m_active \in BOOLEAN
    /\ m_response \subseteq Requests
    /\ m_response_size \in Nat
    /\ m_packets \subseteq Requests
    /\ m_pending_discovery_callbacks \in Seq(PendingDiscovery)
    /\ m_discovery_callbacks \in Seq(Discoveries)
    /\ alive \in BOOLEAN
    /\ call \in Requests \cup {NoRequest}
    /\ wire \in Requests \cup {NoRequest}
    /\ discovery \in DiscoveryKinds \cup {"none"}
    /\ submitted \subseteq Requests
    /\ completions \in [Requests -> Seq(Completion)]
    /\ discoveryRuns \in Nat
    /\ asked \in [Discoveries -> Nat]
    /\ requested \subseteq Discoveries
    /\ served \in [Discoveries -> Seq(Service)]
    /\ interrupted \in BOOLEAN

Init ==
    /\ m_pending_requests = <<>>
    /\ m_rdm_request_pending = FALSE
    /\ m_active = TRUE
    /\ m_response = {}
    /\ m_response_size = 0
    /\ m_packets = {}
    /\ m_pending_discovery_callbacks = <<>>
    /\ m_discovery_callbacks = <<>>
    /\ alive = TRUE
    /\ call = NoRequest
    /\ wire = NoRequest
    /\ discovery = "none"
    /\ submitted = {}
    /\ completions = [r \in Requests |-> <<>>]
    /\ discoveryRuns = 0
    /\ asked = [d \in Discoveries |-> 0]
    /\ requested = {}
    /\ served = [d \in Discoveries |-> <<>>]
    /\ interrupted = FALSE

-----------------------------------------------------------------------------
(* The private methods.  Their parameters are the members' values after    *)
(* what the caller has already assigned.                                   *)

\* on_complete->Run(code, response, packets)
RunCallback(r, code, response, packets) ==
    completions' = [completions EXCEPT ![r] =
        Append(@, [code |-> code, response |-> response,
                   packets |-> packets])]

\* DispatchNextRequest: hand a copy of the head to the underlying controller.
DispatchNextRequest(queue) == call' = Head(queue)

MaybeSendRDMRequest(pending, queue) ==
    /\ m_rdm_request_pending' = (pending \/ queue # <<>>)
    /\ IF queue = <<>> THEN call' = NoRequest ELSE DispatchNextRequest(queue)

\* Mutant: the override forgets the discovery that is running.
BlocksOnRequestsOnly(pending, running) == ~m_active \/ pending

CheckForBlockingCondition(pending, running) ==
    ~m_active \/ pending \/ running # <<>>

\* Mutant: the flag of the last callback decides, instead of any of them.
StartDiscoveryOfLast(waiting) ==
    /\ m_discovery_callbacks' =
         [i \in 1 .. Len(waiting) |-> waiting[i].callback]
    /\ m_pending_discovery_callbacks' = <<>>
    /\ discovery' = IF waiting[Len(waiting)].full THEN "full"
                    ELSE "incremental"
    /\ discoveryRuns' = discoveryRuns + 1

\* Move every waiting discovery callback to the running list and start one
\* discovery for all of them, a full one when any of them asked for it.
StartRDMDiscovery(waiting) ==
    /\ m_discovery_callbacks' =
         [i \in 1 .. Len(waiting) |-> waiting[i].callback]
    /\ m_pending_discovery_callbacks' = <<>>
    /\ discovery' = IF \E i \in 1 .. Len(waiting) : waiting[i].full
                    THEN "full" ELSE "incremental"
    /\ discoveryRuns' = discoveryRuns + 1

\* Mutant: TakeNextAction is the one of QueueingRDMController.
RequestsFirst(pending, queue, waiting, running) ==
    /\ m_pending_requests' = queue
    /\ m_pending_discovery_callbacks' = waiting
    /\ m_discovery_callbacks' = running
    /\ IF CheckForBlockingCondition(pending, running)
       THEN m_rdm_request_pending' = pending /\ call' = NoRequest
       ELSE MaybeSendRDMRequest(pending, queue)
    /\ discovery' = IF running = <<>> THEN "none" ELSE discovery
    /\ UNCHANGED discoveryRuns

\* DiscoverableQueueingRDMController::TakeNextAction
TakeNextAction(pending, queue, waiting, running) ==
    /\ m_pending_requests' = queue
    /\ \/ /\ CheckForBlockingCondition(pending, running)
          /\ m_rdm_request_pending' = pending
          /\ call' = NoRequest
          /\ m_pending_discovery_callbacks' = waiting
          /\ m_discovery_callbacks' = running
          /\ UNCHANGED discoveryRuns
          /\ discovery' = IF running = <<>> THEN "none" ELSE discovery
       \/ /\ ~CheckForBlockingCondition(pending, running)
          /\ waiting # <<>>
          /\ StartRDMDiscovery(waiting)
          /\ m_rdm_request_pending' = pending
          /\ call' = NoRequest
       \/ /\ ~CheckForBlockingCondition(pending, running)
          /\ waiting = <<>>
          /\ MaybeSendRDMRequest(pending, queue)
          /\ m_pending_discovery_callbacks' = waiting
          /\ m_discovery_callbacks' = running
          /\ discovery' = IF running = <<>> THEN "none" ELSE discovery
          /\ UNCHANGED discoveryRuns

\* RDMResponse::CombineResponses, {} for NULL: the limit is one of bytes, so
\* parts without data may go on for ever.
CombineResponses(parts, size, r, more) ==
    IF size + more > MaxOverflow \/ \E p \in parts : Origin[p] # Origin[r]
    THEN {}
    ELSE parts \cup {r}

\* Mutant: the packets of the finished request are kept.
CompleteKeepingPackets(code, response, packets) ==
    /\ RunCallback(Head(m_pending_requests), code, response, packets)
    /\ m_packets' = packets
    /\ m_response' = {}
    /\ m_response_size' = 0
    /\ TakeNextAction(FALSE, Tail(m_pending_requests),
                      m_pending_discovery_callbacks, m_discovery_callbacks)

\* Mutant: m_rdm_request_pending is not reset.
CompleteStillPending(code, response, packets) ==
    /\ RunCallback(Head(m_pending_requests), code, response, packets)
    /\ m_packets' = {}
    /\ m_response' = {}
    /\ m_response_size' = 0
    /\ TakeNextAction(m_rdm_request_pending, Tail(m_pending_requests),
                      m_pending_discovery_callbacks, m_discovery_callbacks)

\* The part of HandleRDMResponse that every finished request runs through.
\* The callback runs before the queue is popped, with the flag cleared: a
\* client that called in from it would have the head sent again.  None of
\* olad's does, see `What clients do'.
CompleteRequest(code, response, packets) ==
    /\ RunCallback(Head(m_pending_requests), code, response, packets)
    /\ m_packets' = {}
    /\ m_response' = {}
    /\ m_response_size' = 0
    /\ TakeNextAction(FALSE, Tail(m_pending_requests),
                      m_pending_discovery_callbacks, m_discovery_callbacks)

\* HandleRDMResponse(status, response, packets): `type' is the ResponseType of
\* the response, r the request it answers and `more' the size of its data;
\* "NULL" is the null response.
HandleRDMResponse(status, type, r, more, packets) ==
    LET response == IF m_response = {} THEN {r}
                    ELSE CombineResponses(m_response, m_response_size, r, more)
        collected == m_packets \cup packets
    IN
    \/ /\ m_pending_requests = <<>>
       /\ m_rdm_request_pending' = FALSE
       /\ call' = NoRequest
       /\ UNCHANGED <<m_pending_requests, m_response, m_response_size,
                      m_packets, completions, m_pending_discovery_callbacks,
                      m_discovery_callbacks, discovery, discoveryRuns>>
    \/ /\ m_pending_requests # <<>>
       /\ status = "RDM_COMPLETED_OK" /\ type = "NULL"
       /\ CompleteRequest("RDM_INVALID_RESPONSE", m_response, collected)
    \/ /\ m_pending_requests # <<>>
       /\ status = "RDM_COMPLETED_OK" /\ type = "ACK_OVERFLOW"
       /\ response # {}
       /\ m_rdm_request_pending' = FALSE
       /\ m_response' = response
       /\ m_response_size' = m_response_size + more
       /\ m_packets' = collected
       /\ DispatchNextRequest(m_pending_requests)
       /\ UNCHANGED <<m_pending_requests, completions,
                      m_pending_discovery_callbacks, m_discovery_callbacks,
                      discovery, discoveryRuns>>
    \/ /\ m_pending_requests # <<>>
       /\ status = "RDM_COMPLETED_OK" /\ type = "RDM_ACK"
       /\ response # {}
       /\ CompleteRequest(status, response, collected)
    \/ /\ m_pending_requests # <<>>
       /\ status = "RDM_COMPLETED_OK" /\ type # "NULL"
       /\ response = {}
       /\ CompleteRequest("RDM_INVALID_RESPONSE", {}, collected)
    \/ /\ m_pending_requests # <<>>
       /\ status # "RDM_COMPLETED_OK"
       /\ CompleteRequest(status, {}, collected)

\* The underlying controller has a request outstanding that the queue's flag
\* does not show: the continuation of an ACK_OVERFLOW response.
Exposed == wire # NoRequest /\ ~m_rdm_request_pending

-----------------------------------------------------------------------------
(* What clients do.  A client never calls in while another call runs, nor  *)
(* from inside its own callback: in olad a callback answers the RPC of the *)
(* client or updates the port's UIDs, and asks for nothing.                *)

Callable == alive /\ call = NoRequest

QueueFull == Len(m_pending_requests) >= MaxQueueSize

SendRDMRequest(r) ==
    /\ Callable
    /\ r \notin submitted
    /\ submitted' = submitted \cup {r}
    /\ \/ /\ QueueFull
          /\ RunCallback(r, "RDM_FAILED_TO_SEND", {}, {})
          /\ UNCHANGED <<m_pending_requests, m_rdm_request_pending, call,
                         m_pending_discovery_callbacks, m_discovery_callbacks,
                         discovery, discoveryRuns, interrupted>>
       \/ /\ ~QueueFull
          /\ TakeNextAction(m_rdm_request_pending,
                            Append(m_pending_requests, r),
                            m_pending_discovery_callbacks,
                            m_discovery_callbacks)
          /\ interrupted' = (interrupted \/ (m_active /\ Exposed))
          /\ UNCHANGED completions
    /\ UNCHANGED <<m_response, m_response_size, m_packets, served, asked,
                   requested, m_active, alive, wire>>

GenericDiscovery(d, full) ==
    /\ Callable
    /\ d \notin requested
    /\ requested' = requested \cup {d}
    /\ asked' = [asked EXCEPT ![d] = discoveryRuns]
    /\ TakeNextAction(m_rdm_request_pending, m_pending_requests,
                      Append(m_pending_discovery_callbacks,
                             [full |-> full, callback |-> d]),
                      m_discovery_callbacks)
    /\ interrupted' = (interrupted \/ (m_active /\ Exposed))
    /\ UNCHANGED <<m_response, m_response_size, m_packets, completions, served,
                   submitted, m_active, alive, wire>>

RunFullDiscovery(d) == d \in FullDiscoveries /\ GenericDiscovery(d, TRUE)
RunIncrementalDiscovery(d) ==
    d \notin FullDiscoveries /\ GenericDiscovery(d, FALSE)

Pause ==
    /\ Callable
    /\ m_active
    /\ m_active' = FALSE
    /\ UNCHANGED <<requestVars, discoveryVars, clientVars, alive, wire>>

Resume ==
    /\ Callable
    /\ m_active' = TRUE
    /\ MaybeSendRDMRequest(m_rdm_request_pending, m_pending_requests)
    /\ interrupted' = (interrupted \/ wire # NoRequest \/ discovery # "none")
    /\ UNCHANGED <<m_pending_requests, m_response, m_response_size, m_packets,
                   completions, discoveryVars, submitted, asked, requested,
                   alive, wire>>

\* Mutant: the destructor leaves the request in progress to the controller.
DestroyForgetsHead ==
    /\ Callable
    /\ alive' = FALSE
    /\ m_pending_requests' = <<>>
    /\ completions' = [r \in Requests |->
         IF \E i \in 2 .. Len(m_pending_requests) : m_pending_requests[i] = r
         THEN Append(completions[r], [code |-> "RDM_FAILED_TO_SEND",
                                      response |-> {}, packets |-> {}])
         ELSE completions[r]]
    /\ m_response' = {}
    /\ m_response_size' = 0
    /\ m_rdm_request_pending' = FALSE
    /\ m_pending_discovery_callbacks' = <<>>
    /\ m_discovery_callbacks' = <<>>
    /\ discovery' = "none"
    /\ wire' = NoRequest
    /\ UNCHANGED <<m_packets, call, discoveryRuns, served, clientVars,
                   m_active>>

\* The destructor fails what is queued.  Discovery callbacks are dropped, and
\* the underlying controller is gone before the queue is.
Destroy ==
    /\ Callable
    /\ alive' = FALSE
    /\ m_pending_requests' = <<>>
    /\ completions' = [r \in Requests |->
         IF \E i \in 1 .. Len(m_pending_requests) : m_pending_requests[i] = r
         THEN Append(completions[r], [code |-> "RDM_FAILED_TO_SEND",
                                      response |-> {}, packets |-> {}])
         ELSE completions[r]]
    /\ m_response' = {}
    /\ m_response_size' = 0
    /\ m_rdm_request_pending' = FALSE
    /\ m_pending_discovery_callbacks' = <<>>
    /\ m_discovery_callbacks' = <<>>
    /\ discovery' = "none"
    /\ wire' = NoRequest
    /\ UNCHANGED <<m_packets, call, discoveryRuns, served, clientVars,
                   m_active>>

-----------------------------------------------------------------------------
(* What the underlying controller does, as the controllers of the usbpro   *)
(* and Art-Net plugins do it.                                              *)

\* It takes the request if none is outstanding: DmxTriWidget.cpp:147.
ControllerAccept ==
    /\ call # NoRequest
    /\ wire = NoRequest
    /\ wire' = call
    /\ call' = NoRequest
    /\ UNCHANGED <<m_pending_requests, m_rdm_request_pending, m_response,
                   m_response_size, m_packets, completions, discoveryVars,
                   clientVars, m_active, alive>>

\* It refuses it before SendRDMRequest returns, because one is outstanding or
\* the write failed: DmxTriWidget.cpp:140.
ControllerRefuse ==
    /\ call # NoRequest
    /\ HandleRDMResponse("RDM_FAILED_TO_SEND", "NULL", call, 0, {})
    /\ UNCHANGED <<served, clientVars, m_active, alive, wire>>

\* The outstanding request is answered, or times out; what was received is
\* passed on either way: DmxTriWidget.cpp:687.  An RDM_TIMEOUT stands for all
\* errors, an RDM_ACK for all responses but ACK_OVERFLOW.
ControllerReply(status, type, size) ==
    /\ Callable
    /\ wire # NoRequest
    /\ wire' = NoRequest
    /\ HandleRDMResponse(status, type, wire, size, {wire})
    /\ UNCHANGED <<served, clientVars, m_active, alive>>

ControllerAnswers ==
    \/ \E type \in ResponseTypes, size \in Sizes :
          ControllerReply("RDM_COMPLETED_OK", type, size)
    \/ ControllerReply("RDM_TIMEOUT", "NULL", 0)

\* Mutant: the requests queued behind a discovery are not sent after it.
DiscoveryCompleteStops ==
    /\ Callable
    /\ discovery # "none"
    /\ served' = [d \in Discoveries |->
         IF \E i \in 1 .. Len(m_discovery_callbacks) :
               m_discovery_callbacks[i] = d
         THEN Append(served[d], [run |-> discoveryRuns, kind |-> discovery])
         ELSE served[d]]
    /\ m_discovery_callbacks' = <<>>
    /\ discovery' = "none"
    /\ UNCHANGED <<requestVars, m_pending_discovery_callbacks, discoveryRuns,
                   clientVars, m_active, alive, wire>>

\* DiscoveryComplete: every callback this run was started for is run.
DiscoveryComplete ==
    /\ Callable
    /\ discovery # "none"
    /\ served' = [d \in Discoveries |->
         IF \E i \in 1 .. Len(m_discovery_callbacks) :
               m_discovery_callbacks[i] = d
         THEN Append(served[d], [run |-> discoveryRuns, kind |-> discovery])
         ELSE served[d]]
    /\ TakeNextAction(m_rdm_request_pending, m_pending_requests,
                      m_pending_discovery_callbacks, <<>>)
    /\ UNCHANGED <<m_response, m_response_size, m_packets, completions,
                   clientVars, m_active, alive, wire>>

Next ==
    \/ \E r \in Requests : SendRDMRequest(r)
    \/ \E d \in Discoveries : RunFullDiscovery(d) \/ RunIncrementalDiscovery(d)
    \/ Pause
    \/ Resume
    \/ Destroy
    \/ ControllerAccept
    \/ ControllerRefuse
    \/ ControllerAnswers
    \/ DiscoveryComplete

\* A request is answered or times out, a discovery ends, and whoever paused
\* the queue resumes it: RDMControllerInterface.h requires the first two of
\* every controller.
Fairness ==
    /\ WF_vars(ControllerAccept \/ ControllerRefuse)
    /\ WF_vars(ControllerAnswers)
    /\ WF_vars(DiscoveryComplete)
    /\ WF_vars(~m_active /\ Resume)

Spec == Init /\ [][Next]_vars
FairSpec == Spec /\ Fairness

-----------------------------------------------------------------------------
(* Properties *)

AllFrom(parts, r) == parts \subseteq {r}
Queued(r) == \E i \in 1 .. Len(m_pending_requests) : m_pending_requests[i] = r

\* The queue promises the underlying controller one request or discovery at a
\* time: the class comment of DiscoverableQueueingRDMController.  The code
\* keeps the promise as long as no call arrives while the continuation of an
\* ACK_OVERFLOW is outstanding, and Resume finds the controller idle.
OneAtATime ==
    ~interrupted =>
        /\ call # NoRequest => wire = NoRequest
        /\ discovery # "none" => call = NoRequest /\ wire = NoRequest

\* "Only a single discovery or RDM request sequence occurs at once": while the
\* parts of an overflowed response are collected, no discovery runs.  This is
\* what the class comment says and not what the code does: the continuation
\* is sent with m_rdm_request_pending cleared, hence `interrupted' above.
SequenceExcludesDiscovery == m_response # {} => discovery = "none"

\* Everything a callback is given, the parts of the response and the raw
\* packets alike, came from its own request: HandleRDMResponse clears
\* m_response and m_packets between two requests on every path.
ResponseBelongs ==
    ~interrupted =>
        \A r \in Requests : \A i \in 1 .. Len(completions[r]) :
            /\ AllFrom(completions[r][i].response, r)
            /\ AllFrom(completions[r][i].packets, r)

\* A callback is run once, when its request leaves the queue and not before,
\* whatever is refused, paused, overflowed or destroyed on the way.
CallbackOnce ==
    \A r \in Requests :
        Len(completions[r]) = IF r \in submitted /\ ~Queued(r) THEN 1 ELSE 0

Waiting == {r \in Requests : Queued(r)}

Contract == INSTANCE RDMControllerContract WITH
    outstanding <- Waiting,
    answers <- [r \in Requests |-> Len(completions[r])]

\* The queue keeps the promise of RDMControllerInterface.h, "there must be no
\* way that a request can be dropped": every request is outstanding until its
\* callback is run, once, whatever is refused, paused, combined or destroyed.
ImplementsContract == Contract!Spec

\* The queue never waits for an answer nobody will give: m_rdm_request_pending
\* is only set while the controller has a request, and a request in a running
\* queue has something to wait for.
NeverStalls ==
    /\ m_rdm_request_pending => call # NoRequest \/ wire # NoRequest
    /\ m_pending_requests # <<>> /\ m_active =>
          call # NoRequest \/ wire # NoRequest \/ discovery # "none"

\* A discovery callback is run at most once, with the result of a discovery
\* that started after it was asked for, and of a full one if that is what was
\* asked for, although StartRDMDiscovery serves all waiting callbacks at once.
DiscoverySatisfied ==
    \A d \in Discoveries :
        /\ Len(served[d]) <= 1
        /\ \A i \in 1 .. Len(served[d]) :
              /\ served[d][i].run > asked[d]
              /\ d \in FullDiscoveries => served[d][i].kind = "full"

\* A part of an overflowed response that brings no data.  MAX_OVERFLOW_SIZE
\* counts bytes, so nothing in the queue ends a sequence of such parts.
EmptyPart == ControllerReply("RDM_COMPLETED_OK", "ACK_OVERFLOW", 0)
PartsEnd == ~[]<><<EmptyPart>>_vars

\* Every request a client sends is answered: the callback of a request that
\* was queued is eventually run, unless a responder answers ACK_OVERFLOW
\* without data for ever.
RequestCompletes ==
    PartsEnd =>
        \A r \in Requests : r \in submitted ~> Len(completions[r]) = 1

\* Every discovery a client asks for is run, "either immediately or after the
\* current request completes", under the same condition on the responders and
\* as long as the queue exists and is not paused.  (Resume does not start one
\* that was asked for during a pause.)
DiscoveryEventuallyRuns ==
    PartsEnd /\ []m_active =>
        \A d \in Discoveries :
            d \in requested ~> (Len(served[d]) = 1 \/ ~alive)

=============================================================================
