--------------------- MODULE QueueingRDMControllerProofs ---------------------
(***************************************************************************)
(* Proofs about QueueingRDMController, for any number of requests and      *)
(* discoveries, any queue size and any limit on overflowed responses.      *)
(***************************************************************************)
EXTENDS QueueingRDMController, SequenceTheorems, TLAPS

-----------------------------------------------------------------------------
(* The steps every action is made of *)

\* The list of running callbacks StartRDMDiscovery builds from the waiting
\* ones is a sequence of callbacks of the same length.
LEMMA MovedCallbacks ==
    ASSUME NEW waiting \in Seq(PendingDiscovery)
    PROVE  /\ [i \in 1 .. Len(waiting) |-> waiting[i].callback]
                \in Seq(Discoveries)
           /\ Len([i \in 1 .. Len(waiting) |-> waiting[i].callback])
                = Len(waiting)
  <1>1. Len(waiting) \in Nat
    BY LenProperties
  <1>2. \A i \in 1 .. Len(waiting) : waiting[i].callback \in Discoveries
    <2> TAKE i \in 1 .. Len(waiting)
    <2>1. waiting[i] \in PendingDiscovery
      BY ElementOfSeq
    <2> QED  BY <2>1 DEF PendingDiscovery
  <1>3. [i \in 1 .. Len(waiting) |-> waiting[i].callback]
            \in [1 .. Len(waiting) -> Discoveries]
    BY <1>2
  <1>4. [i \in 1 .. Len(waiting) |-> waiting[i].callback] \in Seq(Discoveries)
    BY <1>1, <1>3, SeqDef
  <1> QED  BY <1>1, <1>3, <1>4, LenProperties

\* The members TakeNextAction may change have their types.
ActionTypes ==
    /\ m_pending_requests \in Seq(Requests)
    /\ Len(m_pending_requests) <= MaxQueueSize
    /\ m_rdm_request_pending \in BOOLEAN
    /\ m_pending_discovery_callbacks \in Seq(PendingDiscovery)
    /\ m_discovery_callbacks \in Seq(Discoveries)
    /\ call \in Requests \cup {NoRequest}
    /\ discovery \in DiscoveryKinds \cup {"none"}
    /\ discoveryRuns \in Nat

\* The members HandleRDMResponse may change besides them have theirs.
ResponseTypesOK ==
    /\ m_response \subseteq Requests
    /\ m_response_size \in Nat
    /\ m_packets \subseteq Requests
    /\ completions \in [Requests -> Seq(Completion)]

\* Whatever TakeNextAction decides, it leaves values of the right types.
LEMMA TakeNextActionType ==
    ASSUME TypeOK,
           NEW pending \in BOOLEAN,
           NEW queue \in Seq(Requests), Len(queue) <= MaxQueueSize,
           NEW waiting \in Seq(PendingDiscovery),
           NEW running \in Seq(Discoveries),
           TakeNextAction(pending, queue, waiting, running)
    PROVE  ActionTypes'
  <1>1. CASE CheckForBlockingCondition(pending, running)
    BY <1>1 DEF TakeNextAction, TypeOK, ActionTypes
  <1>2. CASE ~CheckForBlockingCondition(pending, running) /\ waiting # <<>>
    <2>1. StartRDMDiscovery(waiting) /\ m_pending_requests' = queue
            /\ m_rdm_request_pending' = pending /\ call' = NoRequest
      BY <1>2 DEF TakeNextAction
    <2>2. m_discovery_callbacks' \in Seq(Discoveries)
      BY <2>1, MovedCallbacks DEF StartRDMDiscovery
    <2>3. m_pending_discovery_callbacks' \in Seq(PendingDiscovery)
      BY <2>1, EmptySeq DEF StartRDMDiscovery
    <2>4. /\ discovery' \in DiscoveryKinds \cup {"none"}
          /\ discoveryRuns' \in Nat
      BY <2>1 DEF StartRDMDiscovery, TypeOK, DiscoveryKinds
    <2> QED  BY <2>1, <2>2, <2>3, <2>4 DEF ActionTypes
  <1>3. CASE ~CheckForBlockingCondition(pending, running) /\ waiting = <<>>
    <2>1. queue # <<>> => Head(queue) \in Requests
      BY HeadTailProperties
    <2> QED
      BY <1>3, <2>1
      DEF TakeNextAction, MaybeSendRDMRequest, DispatchNextRequest, TypeOK,
          ActionTypes
  <1> QED  BY <1>1, <1>2, <1>3

\* Running a callback records one more completion of the right type.
LEMMA RunCallbackType ==
    ASSUME TypeOK,
           NEW r \in Requests, NEW code \in ResponseCodes,
           NEW response \in SUBSET Requests, NEW packets \in SUBSET Requests,
           RunCallback(r, code, response, packets)
    PROVE  completions' \in [Requests -> Seq(Completion)]
  <1> DEFINE c == [code |-> code, response |-> response, packets |-> packets]
  <1>1. c \in Completion
    BY DEF Completion
  <1>2. completions[r] \in Seq(Completion)
    BY DEF TypeOK
  <1> HIDE DEF c
  <1>3. Append(completions[r], c) \in Seq(Completion)
    BY <1>1, <1>2, AppendProperties
  <1>4. completions' = [completions EXCEPT ![r] = Append(@, c)]
    BY DEF RunCallback, c
  <1> QED  BY <1>3, <1>4 DEF TypeOK

\* A finished request leaves values of the right types.
LEMMA CompleteRequestType ==
    ASSUME TypeOK, m_pending_requests # <<>>,
           NEW code \in ResponseCodes,
           NEW response \in SUBSET Requests, NEW packets \in SUBSET Requests,
           CompleteRequest(code, response, packets)
    PROVE  ActionTypes' /\ ResponseTypesOK'
  <1>1. /\ Head(m_pending_requests) \in Requests
        /\ Tail(m_pending_requests) \in Seq(Requests)
        /\ Len(Tail(m_pending_requests)) = Len(m_pending_requests) - 1
        /\ Len(m_pending_requests) \in Nat
    BY HeadTailProperties, LenProperties DEF TypeOK
  <1>2. Len(Tail(m_pending_requests)) <= MaxQueueSize
    BY <1>1, ConstantsAssumption DEF TypeOK
  <1>3. ActionTypes'
    BY <1>1, <1>2, TakeNextActionType DEF CompleteRequest, TypeOK
  <1>4. completions' \in [Requests -> Seq(Completion)]
    BY <1>1, RunCallbackType DEF CompleteRequest
  <1> QED  BY <1>3, <1>4 DEF CompleteRequest, ResponseTypesOK

\* So does HandleRDMResponse, on each of its paths.
LEMMA HandleRDMResponseType ==
    ASSUME TypeOK,
           NEW status \in ResponseCodes, NEW type, NEW r \in Requests,
           NEW more \in Nat,
           NEW packets \in SUBSET Requests,
           HandleRDMResponse(status, type, r, more, packets)
    PROVE  ActionTypes' /\ ResponseTypesOK'
  <1> DEFINE response == IF m_response = {} THEN {r}
                         ELSE CombineResponses(m_response, m_response_size,
                                               r, more)
             collected == m_packets \cup packets
  <1>1. response \in SUBSET Requests
    BY DEF CombineResponses, TypeOK
  <1>2. collected \in SUBSET Requests
    BY DEF TypeOK
  <1>3. /\ {} \in SUBSET Requests
        /\ "RDM_INVALID_RESPONSE" \in ResponseCodes
        /\ m_response \in SUBSET Requests
    BY DEF TypeOK, ResponseCodes
  <1>4. CASE /\ m_pending_requests = <<>>
             /\ m_rdm_request_pending' = FALSE
             /\ call' = NoRequest
             /\ UNCHANGED <<m_pending_requests, m_response,
                            m_response_size, m_packets, completions,
                            m_pending_discovery_callbacks,
                            m_discovery_callbacks, discovery, discoveryRuns>>
    BY <1>4 DEF TypeOK, ActionTypes, ResponseTypesOK
  <1>5. CASE /\ m_pending_requests # <<>>
             /\ \/ CompleteRequest("RDM_INVALID_RESPONSE", m_response,
                                   collected)
                \/ CompleteRequest(status, response, collected)
                \/ CompleteRequest("RDM_INVALID_RESPONSE", {}, collected)
                \/ CompleteRequest(status, {}, collected)
    <2> HIDE DEF response, collected
    <2> QED  BY <1>1, <1>2, <1>3, <1>5, CompleteRequestType
  <1>6. CASE /\ m_pending_requests # <<>>
             /\ m_rdm_request_pending' = FALSE
             /\ m_response' = response
             /\ m_response_size' = m_response_size + more
             /\ m_packets' = collected
             /\ DispatchNextRequest(m_pending_requests)
             /\ UNCHANGED <<m_pending_requests, completions,
                            m_pending_discovery_callbacks,
                            m_discovery_callbacks, discovery, discoveryRuns>>
    <2>1. Head(m_pending_requests) \in Requests
      BY <1>6, HeadTailProperties DEF TypeOK
    <2> HIDE DEF response, collected
    <2>2. ActionTypes'
      BY <1>6, <2>1 DEF TypeOK, ActionTypes, DispatchNextRequest
    <2>3. /\ m_response_size' \in Nat
          /\ completions' \in [Requests -> Seq(Completion)]
      BY <1>6 DEF TypeOK
    <2> QED
      BY <1>1, <1>2, <1>6, <2>1, <2>2, <2>3
      DEF ResponseTypesOK
  <1> QED  BY <1>4, <1>5, <1>6 DEF HandleRDMResponse

-----------------------------------------------------------------------------
(* Type correctness *)

\* The initial state has the types of TypeOK.
LEMMA TypeInit == Init => TypeOK
  <1> SUFFICES ASSUME Init PROVE TypeOK
    OBVIOUS
  <1>1. /\ Len(m_pending_requests) <= MaxQueueSize
        /\ m_pending_requests \in Seq(Requests)
    BY EmptySeq, ConstantsAssumption DEF Init
  <1> QED
    BY <1>1, EmptySeq DEF Init, TypeOK, DiscoveryKinds

\* Every step preserves the types.
LEMMA TypeNext == TypeOK /\ [Next]_vars => TypeOK'
  <1> SUFFICES ASSUME TypeOK, [Next]_vars PROVE TypeOK'
    OBVIOUS
  <1>1. ASSUME NEW r \in Requests, SendRDMRequest(r) PROVE TypeOK'
    <2>1. CASE QueueFull
      <3>1. RunCallback(r, "RDM_FAILED_TO_SEND", {}, {})
        BY <1>1, <2>1 DEF SendRDMRequest
      <3>2. completions' \in [Requests -> Seq(Completion)]
        BY <3>1, RunCallbackType DEF ResponseCodes
      <3> QED  BY <1>1, <2>1, <3>2 DEF SendRDMRequest, TypeOK
    <2>2. CASE ~QueueFull
      <3>1. /\ Append(m_pending_requests, r) \in Seq(Requests)
            /\ Len(Append(m_pending_requests, r)) <= MaxQueueSize
        BY <2>2, AppendProperties, LenProperties, ConstantsAssumption
        DEF QueueFull, TypeOK
      <3>2. TakeNextAction(m_rdm_request_pending,
                           Append(m_pending_requests, r),
                           m_pending_discovery_callbacks,
                           m_discovery_callbacks)
        BY <1>1, <2>2 DEF SendRDMRequest
      <3>3. ActionTypes'
        BY <3>1, <3>2, TakeNextActionType DEF TypeOK
      <3> QED  BY <1>1, <2>2, <3>3 DEF SendRDMRequest, TypeOK, ActionTypes
    <2> QED  BY <2>1, <2>2
  <1>2. ASSUME NEW d \in Discoveries, NEW full \in BOOLEAN,
               GenericDiscovery(d, full)
        PROVE  TypeOK'
    <2>1. [full |-> full, callback |-> d] \in PendingDiscovery
      BY DEF PendingDiscovery
    <2>2. Append(m_pending_discovery_callbacks,
                 [full |-> full, callback |-> d]) \in Seq(PendingDiscovery)
      BY <2>1, AppendProperties DEF TypeOK
    <2>3. ActionTypes'
      BY <1>2, <2>2, TakeNextActionType DEF GenericDiscovery, TypeOK
    <2> QED  BY <1>2, <2>3 DEF GenericDiscovery, TypeOK, ActionTypes
  <1>3. ASSUME Pause PROVE TypeOK'
    BY <1>3
    DEF Pause, TypeOK, requestVars, discoveryVars, clientVars
  <1>4. ASSUME Resume PROVE TypeOK'
    <2>1. m_pending_requests # <<>> => Head(m_pending_requests) \in Requests
      BY HeadTailProperties DEF TypeOK
    <2> QED
      BY <1>4, <2>1
      DEF Resume, MaybeSendRDMRequest, DispatchNextRequest, TypeOK,
          discoveryVars
  <1>5. ASSUME Destroy PROVE TypeOK'
    <2> DEFINE failed == [code |-> "RDM_FAILED_TO_SEND", response |-> {},
                          packets |-> {}]
    <2>1. failed \in Completion
      BY EmptySeq DEF Completion, ResponseCodes
    <2> HIDE DEF failed
    <2>2. \A r \in Requests : Append(completions[r], failed)
                                \in Seq(Completion)
      BY <2>1, AppendProperties DEF TypeOK
    <2>3. completions' \in [Requests -> Seq(Completion)]
      BY <1>5, <2>2 DEF Destroy, TypeOK, failed
    <2>4. /\ m_pending_requests' \in Seq(Requests)
          /\ Len(m_pending_requests') <= MaxQueueSize
          /\ m_response' \subseteq Requests /\ m_response_size' \in Nat
          /\ m_pending_discovery_callbacks' \in Seq(PendingDiscovery)
          /\ m_discovery_callbacks' \in Seq(Discoveries)
      BY <1>5, EmptySeq, ConstantsAssumption DEF Destroy
    <2> QED  BY <1>5, <2>3, <2>4 DEF Destroy, TypeOK, clientVars
  <1>6. ASSUME ControllerAccept PROVE TypeOK'
    BY <1>6 DEF ControllerAccept, TypeOK, discoveryVars, clientVars
  <1>7. ASSUME ControllerRefuse PROVE TypeOK'
    <2>1. ActionTypes' /\ ResponseTypesOK'
      BY <1>7, HandleRDMResponseType
      DEF ControllerRefuse, TypeOK, ResponseCodes
    <2> QED
      BY <1>7, <2>1
      DEF ControllerRefuse, TypeOK, ActionTypes, ResponseTypesOK, clientVars
  <1>8. ASSUME NEW status \in ResponseCodes, NEW type, NEW size \in Nat,
               ControllerReply(status, type, size)
        PROVE  TypeOK'
    <2>1. wire \in Requests
      BY <1>8 DEF ControllerReply, TypeOK
    <2> DEFINE packets == {wire}
    <2>2. packets \in SUBSET Requests
      BY <2>1
    <2>3. HandleRDMResponse(status, type, wire, size, packets)
      BY <1>8 DEF ControllerReply
    <2> HIDE DEF packets
    <2>4. ActionTypes' /\ ResponseTypesOK'
      BY <2>1, <2>2, <2>3, HandleRDMResponseType
    <2> QED
      BY <1>8, <2>4
      DEF ControllerReply, TypeOK, ActionTypes, ResponseTypesOK, clientVars
  <1>9. ASSUME DiscoveryComplete PROVE TypeOK'
    <2> DEFINE result == [run |-> discoveryRuns, kind |-> discovery]
    <2>1. result \in Service
      BY <1>9 DEF DiscoveryComplete, TypeOK, Service
    <2> HIDE DEF result
    <2>2. \A d \in Discoveries : Append(served[d], result) \in Seq(Service)
      BY <2>1, AppendProperties DEF TypeOK
    <2>3. served' \in [Discoveries -> Seq(Service)]
      BY <1>9, <2>2 DEF DiscoveryComplete, TypeOK, result
    <2>4. ActionTypes'
      BY <1>9, TakeNextActionType, EmptySeq DEF DiscoveryComplete, TypeOK
    <2> QED
      BY <1>9, <2>3, <2>4 DEF DiscoveryComplete, TypeOK, ActionTypes, clientVars
  <1>10. CASE UNCHANGED vars
    BY <1>10 DEF TypeOK, vars, requestVars, discoveryVars, clientVars
  <1> QED
    BY <1>1, <1>2, <1>3, <1>4, <1>5, <1>6, <1>7, <1>8, <1>9, <1>10,
       ConstantsAssumption
    DEF Next, RunFullDiscovery, RunIncrementalDiscovery, ControllerAnswers,
        ResponseCodes

\* Type correctness: whatever clients and the underlying controller do, the
\* members keep their types and the queue its bound.
THEOREM TypeCorrect == Spec => []TypeOK
  BY TypeInit, TypeNext, PTL DEF Spec

-----------------------------------------------------------------------------
(* One at a time, and every response to its own request *)

\* A hand-over is that of the head of the queue.
CallIsHead ==
    call # NoRequest =>
        /\ alive
        /\ m_pending_requests # <<>>
        /\ call = Head(m_pending_requests)

\* The running list is not empty exactly while a discovery runs.
DiscoveryHasCallbacks == discovery = "none" <=> m_discovery_callbacks = <<>>

\* Up to an interruption, what is outstanding and what has been collected is
\* the head's.
HeadOwnsAll ==
    ~interrupted =>
        /\ wire # NoRequest => /\ m_pending_requests # <<>>
                               /\ wire = Head(m_pending_requests)
        /\ m_response # {} => /\ m_pending_requests # <<>>
                                /\ AllFrom(m_response,
                                           Head(m_pending_requests))
        /\ alive /\ m_packets # {} =>
              /\ m_pending_requests # <<>>
              /\ AllFrom(m_packets, Head(m_pending_requests))

\* The inductive invariant behind OneAtATime and ResponseBelongs.
ExclusiveInv ==
    /\ CallIsHead
    /\ DiscoveryHasCallbacks
    /\ OneAtATime
    /\ HeadOwnsAll
    /\ ResponseBelongs

\* What TakeNextAction decides: it hands over the head or starts a discovery,
\* never both, and neither unless the queue is active and nothing blocks it.
LEMMA TakeNextActionExclusive ==
    ASSUME NEW pending, NEW queue \in Seq(Requests),
           NEW waiting \in Seq(PendingDiscovery),
           NEW running, running # <<>> => discovery # "none",
           TakeNextAction(pending, queue, waiting, running)
    PROVE  /\ m_pending_requests' = queue
           /\ DiscoveryHasCallbacks'
           /\ call' # NoRequest => /\ queue # <<>>
                                   /\ call' = Head(queue)
                                   /\ m_active /\ ~pending
                                   /\ discovery' = "none"
           /\ discovery' # "none" =>
                 \/ running # <<>>
                 \/ m_active /\ ~pending
  <1>1. CASE CheckForBlockingCondition(pending, running)
    BY <1>1 DEF TakeNextAction, DiscoveryHasCallbacks
  <1>2. CASE ~CheckForBlockingCondition(pending, running) /\ waiting # <<>>
    <2>1. /\ StartRDMDiscovery(waiting)
          /\ m_pending_requests' = queue
          /\ call' = NoRequest
      BY <1>2 DEF TakeNextAction
    <2>2. Len(waiting) # 0
      BY <1>2, EmptySeq
    <2>3. m_discovery_callbacks' # <<>>
      BY <2>1, <2>2, MovedCallbacks, EmptySeq DEF StartRDMDiscovery
    <2> QED
      BY <1>2, <2>1, <2>3
      DEF StartRDMDiscovery, DiscoveryHasCallbacks, CheckForBlockingCondition
  <1>3. CASE ~CheckForBlockingCondition(pending, running) /\ waiting = <<>>
    BY <1>3
    DEF TakeNextAction, MaybeSendRDMRequest, DispatchNextRequest,
        CheckForBlockingCondition, DiscoveryHasCallbacks
  <1> QED  BY <1>1, <1>2, <1>3

\* A callback given only parts and packets of its request keeps
\* ResponseBelongs.
LEMMA RunCallbackBelongs ==
    ASSUME TypeOK, ResponseBelongs, interrupted' = interrupted,
           NEW r \in Requests, NEW code, NEW response, NEW packets,
           ~interrupted => AllFrom(response, r) /\ AllFrom(packets, r),
           RunCallback(r, code, response, packets)
    PROVE  ResponseBelongs'
  <1> SUFFICES ASSUME ~interrupted, NEW q \in Requests,
                      NEW i \in 1 .. Len(completions'[q])
               PROVE  /\ AllFrom(completions'[q][i].response, q)
                      /\ AllFrom(completions'[q][i].packets, q)
    BY DEF ResponseBelongs, AllFrom
  <1> DEFINE c == [code |-> code, response |-> response, packets |-> packets]
  <1>1. completions[q] \in Seq(Completion) /\ Len(completions[q]) \in Nat
    BY LenProperties DEF TypeOK
  <1>2. CASE q # r
    <2>1. completions'[q] = completions[q]
      BY <1>2 DEF RunCallback, TypeOK
    <2> QED  BY <2>1 DEF ResponseBelongs
  <1>3. CASE q = r
    <2>1. completions'[q] = Append(completions[q], c)
      BY <1>3 DEF RunCallback, TypeOK
    <2>2. \/ i \in 1 .. Len(completions[q]) /\ completions'[q][i]
                                                 = completions[q][i]
          \/ completions'[q][i] = c
      BY <1>1, <2>1
    <2>3. CASE completions'[q][i] = c
      BY <1>3, <2>3
    <2> QED  BY <2>2, <2>3 DEF ResponseBelongs
  <1> QED  BY <1>2, <1>3

\* A finished request, whose answer frees the underlying controller, keeps
\* the invariant.
LEMMA CompleteRequestExclusive ==
    ASSUME TypeOK, ExclusiveInv, m_pending_requests # <<>>, alive,
           UNCHANGED <<alive, interrupted>>,
           ~interrupted => wire' = NoRequest,
           NEW code, NEW response, NEW packets,
           ~interrupted => /\ AllFrom(response, Head(m_pending_requests))
                           /\ AllFrom(packets, Head(m_pending_requests)),
           CompleteRequest(code, response, packets)
    PROVE  ExclusiveInv'
  <1> DEFINE rest == Tail(m_pending_requests)
  <1>1. Head(m_pending_requests) \in Requests /\ rest \in Seq(Requests)
    BY HeadTailProperties DEF TypeOK
  <1>2. ResponseBelongs'
    BY <1>1, RunCallbackBelongs DEF CompleteRequest, ExclusiveInv
  <1>3. TakeNextAction(FALSE, rest, m_pending_discovery_callbacks,
                       m_discovery_callbacks)
    BY DEF CompleteRequest
  <1> HIDE DEF rest
  <1>4. m_discovery_callbacks # <<>> => discovery # "none"
    BY DEF ExclusiveInv, DiscoveryHasCallbacks
  <1>5. /\ m_pending_requests' = rest
        /\ DiscoveryHasCallbacks'
        /\ call' # NoRequest => /\ rest # <<>> /\ call' = Head(rest)
                                /\ discovery' = "none"
    BY <1>1, <1>3, <1>4, TakeNextActionExclusive DEF TypeOK
  <1>6. CallIsHead'
    BY <1>5 DEF CallIsHead
  <1>7. OneAtATime'
    BY <1>5 DEF OneAtATime
  <1>8. HeadOwnsAll'
    BY DEF HeadOwnsAll, CompleteRequest
  <1> QED  BY <1>2, <1>5, <1>6, <1>7, <1>8 DEF ExclusiveInv

\* Whatever the answer, HandleRDMResponse keeps the invariant.
LEMMA HandleRDMResponseExclusive ==
    ASSUME TypeOK, ExclusiveInv, alive,
           UNCHANGED <<alive, interrupted>>,
           ~interrupted => wire' = NoRequest,
           ~interrupted => discovery = "none",
           NEW status, NEW type, NEW r \in Requests, NEW more,
           NEW packets \in SUBSET Requests,
           ~interrupted => /\ m_pending_requests # <<>>
                           /\ r = Head(m_pending_requests)
                           /\ AllFrom(packets, r),
           HandleRDMResponse(status, type, r, more, packets)
    PROVE  ExclusiveInv'
  <1> DEFINE response == IF m_response = {} THEN {r}
                         ELSE CombineResponses(m_response, m_response_size,
                                               r, more)
             collected == m_packets \cup packets
             head == Head(m_pending_requests)
  <1>1. ~interrupted => /\ AllFrom(m_response, head)
                        /\ AllFrom(m_packets, head)
    BY DEF ExclusiveInv, HeadOwnsAll, AllFrom
  <1>2. ~interrupted => /\ AllFrom(response, head)
                        /\ AllFrom({}, head)
    BY <1>1 DEF AllFrom, CombineResponses
  <1>3. ~interrupted => AllFrom(collected, head)
    BY <1>1 DEF AllFrom
  <1>4. CASE /\ m_pending_requests = <<>>
             /\ m_rdm_request_pending' = FALSE
             /\ call' = NoRequest
             /\ UNCHANGED <<m_pending_requests, m_response,
                            m_response_size, m_packets, completions,
                            m_pending_discovery_callbacks,
                            m_discovery_callbacks, discovery, discoveryRuns>>
    BY <1>4
    DEF ExclusiveInv, CallIsHead, DiscoveryHasCallbacks, OneAtATime,
        HeadOwnsAll, ResponseBelongs
  <1>5. CASE /\ m_pending_requests # <<>>
             /\ \/ CompleteRequest("RDM_INVALID_RESPONSE", m_response,
                                   collected)
                \/ CompleteRequest(status, response, collected)
                \/ CompleteRequest("RDM_INVALID_RESPONSE", {}, collected)
                \/ CompleteRequest(status, {}, collected)
    <2> HIDE DEF response, collected, head
    <2>1. ASSUME NEW code, NEW parts, ~interrupted => AllFrom(parts, head),
                 CompleteRequest(code, parts, collected)
          PROVE  ExclusiveInv'
      BY <1>3, <1>5, <2>1, CompleteRequestExclusive DEF head
    <2> QED  BY <1>1, <1>2, <1>5, <2>1
  <1>6. CASE /\ m_pending_requests # <<>>
             /\ m_rdm_request_pending' = FALSE
             /\ m_response' = response
             /\ m_response_size' = m_response_size + more
             /\ m_packets' = collected
             /\ DispatchNextRequest(m_pending_requests)
             /\ UNCHANGED <<m_pending_requests, completions,
                            m_pending_discovery_callbacks,
                            m_discovery_callbacks, discovery, discoveryRuns>>
    <2> HIDE DEF response, collected
    <2>1. CallIsHead' /\ DiscoveryHasCallbacks' /\ OneAtATime'
      BY <1>6
      DEF ExclusiveInv, CallIsHead, DiscoveryHasCallbacks, OneAtATime,
          DispatchNextRequest
    <2>2. HeadOwnsAll'
      BY <1>2, <1>3, <1>6 DEF HeadOwnsAll, AllFrom
    <2>3. ResponseBelongs'
      BY <1>6 DEF ExclusiveInv, ResponseBelongs
    <2> QED  BY <2>1, <2>2, <2>3 DEF ExclusiveInv
  <1> QED  BY <1>4, <1>5, <1>6 DEF HandleRDMResponse

\* Nothing is outstanding or collected at first.
LEMMA ExclusiveInit == Init => ExclusiveInv
  <1> SUFFICES ASSUME Init PROVE ExclusiveInv
    OBVIOUS
  <1>1. \A r \in Requests : Len(completions[r]) = 0
    BY EmptySeq DEF Init
  <1> QED
    BY <1>1
    DEF Init, ExclusiveInv, CallIsHead, DiscoveryHasCallbacks, OneAtATime,
        HeadOwnsAll, ResponseBelongs

\* Every step preserves the invariant.
LEMMA ExclusiveNext == TypeOK /\ ExclusiveInv /\ [Next]_vars => ExclusiveInv'
  <1> SUFFICES ASSUME TypeOK, ExclusiveInv, [Next]_vars PROVE ExclusiveInv'
    OBVIOUS
  <1> USE DEF ExclusiveInv
  <1>r. m_discovery_callbacks # <<>> => discovery # "none"
    BY DEF DiscoveryHasCallbacks
  <1>1. ASSUME NEW r \in Requests, SendRDMRequest(r) PROVE ExclusiveInv'
    <2>1. CASE QueueFull
      <3>1. RunCallback(r, "RDM_FAILED_TO_SEND", {}, {})
        BY <1>1, <2>1 DEF SendRDMRequest
      <3>2. ResponseBelongs'
        BY <1>1, <2>1, <3>1, RunCallbackBelongs DEF SendRDMRequest, AllFrom
      <3> QED
        BY <1>1, <2>1, <3>2
        DEF SendRDMRequest, CallIsHead, DiscoveryHasCallbacks, OneAtATime,
            HeadOwnsAll
    <2>2. CASE ~QueueFull
      <3> DEFINE queue == Append(m_pending_requests, r)
      <3>1. /\ queue \in Seq(Requests)
            /\ queue # <<>>
            /\ m_pending_requests # <<>> =>
                  Head(queue) = Head(m_pending_requests)
        BY AppendProperties, HeadTailAppend DEF TypeOK
      <3>2. TakeNextAction(m_rdm_request_pending, queue,
                           m_pending_discovery_callbacks,
                           m_discovery_callbacks)
        BY <1>1, <2>2 DEF SendRDMRequest
      <3> HIDE DEF queue
      <3>3. /\ m_pending_requests' = queue
            /\ DiscoveryHasCallbacks'
            /\ call' # NoRequest => /\ queue # <<>> /\ call' = Head(queue)
                                    /\ m_active /\ ~m_rdm_request_pending
                                    /\ discovery' = "none"
            /\ discovery' # "none" =>
                  \/ m_discovery_callbacks # <<>>
                  \/ m_active /\ ~m_rdm_request_pending
        BY <1>r, <3>1, <3>2, TakeNextActionExclusive DEF TypeOK
      <3>4. /\ alive /\ UNCHANGED <<alive, wire, m_response, m_packets,
                                    completions>>
            /\ ~interrupted' =>
                  /\ ~interrupted
                  /\ m_active /\ ~m_rdm_request_pending => wire = NoRequest
        BY <1>1, <2>2 DEF SendRDMRequest, Exposed, Callable
      <3>5. CallIsHead'
        BY <3>3, <3>4 DEF CallIsHead
      <3>6. OneAtATime'
        BY <1>r, <3>3, <3>4 DEF OneAtATime
      <3>7. HeadOwnsAll'
        BY <3>1, <3>3, <3>4 DEF HeadOwnsAll
      <3>8. ResponseBelongs'
        BY <3>4 DEF ResponseBelongs
      <3> QED  BY <3>3, <3>5, <3>6, <3>7, <3>8
    <2> QED  BY <2>1, <2>2
  <1>2. ASSUME NEW d \in Discoveries, NEW full \in BOOLEAN,
               GenericDiscovery(d, full)
        PROVE  ExclusiveInv'
    <2> DEFINE waiting == Append(m_pending_discovery_callbacks,
                                 [full |-> full, callback |-> d])
    <2>1. [full |-> full, callback |-> d] \in PendingDiscovery
      BY DEF PendingDiscovery
    <2>2. waiting \in Seq(PendingDiscovery)
      BY <2>1, AppendProperties DEF TypeOK
    <2>3. TakeNextAction(m_rdm_request_pending, m_pending_requests, waiting,
                         m_discovery_callbacks)
      BY <1>2 DEF GenericDiscovery
    <2> HIDE DEF waiting
    <2>4. /\ m_pending_requests' = m_pending_requests
          /\ DiscoveryHasCallbacks'
          /\ call' # NoRequest =>
                /\ m_pending_requests # <<>>
                /\ call' = Head(m_pending_requests)
                /\ m_active /\ ~m_rdm_request_pending
                /\ discovery' = "none"
          /\ discovery' # "none" =>
                \/ m_discovery_callbacks # <<>>
                \/ m_active /\ ~m_rdm_request_pending
      BY <1>r, <2>2, <2>3, TakeNextActionExclusive DEF TypeOK
    <2>5. /\ alive /\ UNCHANGED <<alive, wire, m_response, m_packets,
                                  completions>>
          /\ ~interrupted' =>
                /\ ~interrupted
                /\ m_active /\ ~m_rdm_request_pending => wire = NoRequest
      BY <1>2 DEF GenericDiscovery, Exposed, Callable
    <2>6. CallIsHead'
      BY <2>4, <2>5 DEF CallIsHead
    <2>7. OneAtATime'
      BY <1>r, <2>4, <2>5 DEF OneAtATime
    <2>8. HeadOwnsAll' /\ ResponseBelongs'
      BY <2>4, <2>5 DEF HeadOwnsAll, ResponseBelongs
    <2> QED  BY <2>4, <2>6, <2>7, <2>8
  <1>3. ASSUME Pause PROVE ExclusiveInv'
    BY <1>3
    DEF Pause, requestVars, discoveryVars, clientVars, CallIsHead,
        DiscoveryHasCallbacks, OneAtATime, HeadOwnsAll, ResponseBelongs
  <1>4. ASSUME Resume PROVE ExclusiveInv'
    <2>1. CallIsHead' /\ DiscoveryHasCallbacks' /\ OneAtATime'
      BY <1>4
      DEF Resume, MaybeSendRDMRequest, DispatchNextRequest, Callable,
          discoveryVars, CallIsHead, DiscoveryHasCallbacks, OneAtATime
    <2>2. HeadOwnsAll' /\ ResponseBelongs'
      BY <1>4 DEF Resume, HeadOwnsAll, ResponseBelongs
    <2> QED  BY <2>1, <2>2
  <1>5. ASSUME Destroy PROVE ExclusiveInv'
    <2>1. CallIsHead' /\ DiscoveryHasCallbacks' /\ OneAtATime' /\ HeadOwnsAll'
      BY <1>5
      DEF Destroy, Callable, CallIsHead, DiscoveryHasCallbacks, OneAtATime,
          HeadOwnsAll
    <2> DEFINE failed == [code |-> "RDM_FAILED_TO_SEND", response |-> {},
                          packets |-> {}]
    <2>2. ASSUME ~interrupted, NEW r \in Requests,
                 NEW i \in 1 .. Len(completions'[r])
          PROVE  /\ AllFrom(completions'[r][i].response, r)
                 /\ AllFrom(completions'[r][i].packets, r)
      <3>1. completions[r] \in Seq(Completion) /\ Len(completions[r]) \in Nat
        BY LenProperties DEF TypeOK
      <3>2. \/ completions'[r] = completions[r]
            \/ completions'[r] = Append(completions[r], failed)
        BY <1>5 DEF Destroy
      <3>3. \/ i \in 1 .. Len(completions[r]) /\ completions'[r][i]
                                                   = completions[r][i]
            \/ completions'[r][i] = failed
        BY <2>2, <3>1, <3>2
      <3>4. CASE completions'[r][i] = failed
        BY <3>4 DEF AllFrom
      <3> QED  BY <2>2, <3>3, <3>4 DEF ResponseBelongs
    <2>3. ResponseBelongs'
      BY <1>5, <2>2 DEF ResponseBelongs, AllFrom, Destroy, clientVars
    <2> QED  BY <2>1, <2>3
  <1>6. ASSUME ControllerAccept PROVE ExclusiveInv'
    BY <1>6
    DEF ControllerAccept, discoveryVars, clientVars, CallIsHead,
        DiscoveryHasCallbacks, OneAtATime, HeadOwnsAll, ResponseBelongs
  <1>7. ASSUME ControllerRefuse PROVE ExclusiveInv'
    <2>1. /\ alive /\ call \in Requests
          /\ call = Head(m_pending_requests) /\ m_pending_requests # <<>>
          /\ UNCHANGED <<alive, interrupted>>
          /\ ~interrupted => wire' = NoRequest /\ discovery = "none"
      BY <1>7
      DEF ControllerRefuse, clientVars, CallIsHead, OneAtATime, TypeOK
    <2>2. {} \in SUBSET Requests /\ AllFrom({}, call)
      BY DEF AllFrom
    <2> QED
      BY <1>7, <2>1, <2>2, HandleRDMResponseExclusive DEF ControllerRefuse
  <1>8. ASSUME NEW status, NEW type, NEW size,
               ControllerReply(status, type, size)
        PROVE  ExclusiveInv'
    <2> DEFINE packets == {wire}
    <2>1. /\ alive /\ wire \in Requests
          /\ wire' = NoRequest
          /\ UNCHANGED <<alive, interrupted>>
          /\ ~interrupted => /\ discovery = "none"
                             /\ m_pending_requests # <<>>
                             /\ wire = Head(m_pending_requests)
          /\ HandleRDMResponse(status, type, wire, size, packets)
      BY <1>8
      DEF ControllerReply, Callable, clientVars, OneAtATime, HeadOwnsAll,
          TypeOK
    <2>2. packets \in SUBSET Requests /\ AllFrom(packets, wire)
      BY <2>1 DEF AllFrom
    <2> HIDE DEF packets
    <2> QED  BY <2>1, <2>2, HandleRDMResponseExclusive
  <1>9. ASSUME DiscoveryComplete PROVE ExclusiveInv'
    <2>1. /\ TakeNextAction(m_rdm_request_pending, m_pending_requests,
                            m_pending_discovery_callbacks, <<>>)
          /\ alive
          /\ UNCHANGED <<alive, interrupted, wire, m_response, m_packets,
                         completions>>
          /\ ~interrupted => wire = NoRequest
      BY <1>9 DEF DiscoveryComplete, Callable, clientVars, OneAtATime
    <2>2. /\ m_pending_requests' = m_pending_requests
          /\ DiscoveryHasCallbacks'
          /\ call' # NoRequest =>
                /\ m_pending_requests # <<>>
                /\ call' = Head(m_pending_requests)
                /\ discovery' = "none"
      BY <2>1, TakeNextActionExclusive DEF TypeOK
    <2>3. CallIsHead' /\ OneAtATime'
      BY <2>1, <2>2 DEF CallIsHead, OneAtATime
    <2>4. HeadOwnsAll' /\ ResponseBelongs'
      BY <2>1, <2>2 DEF HeadOwnsAll, ResponseBelongs
    <2> QED  BY <2>2, <2>3, <2>4
  <1>10. CASE UNCHANGED vars
    BY <1>10
    DEF vars, requestVars, discoveryVars, clientVars, CallIsHead,
        DiscoveryHasCallbacks, OneAtATime, HeadOwnsAll, ResponseBelongs
  <1> HIDE DEF ExclusiveInv
  <1> QED
    BY <1>1, <1>2, <1>3, <1>4, <1>5, <1>6, <1>7, <1>8, <1>9, <1>10
    DEF Next, RunFullDiscovery, RunIncrementalDiscovery, ControllerAnswers

\* The inductive invariant holds in every reachable state.
LEMMA ExclusiveInvariant == Spec => []ExclusiveInv
  BY TypeCorrect, ExclusiveInit, ExclusiveNext, PTL DEF Spec

\* The queue gives the underlying controller one request or one discovery at
\* a time, as long as no call arrives at one of the unguarded points.
THEOREM Exclusive == Spec => []OneAtATime
  <1>1. ExclusiveInv => OneAtATime
    BY DEF ExclusiveInv
  <1> QED  BY <1>1, ExclusiveInvariant, PTL

\* Under the same condition a callback only ever gets what answered its own
\* request.
THEOREM Belongs == Spec => []ResponseBelongs
  <1>1. ExclusiveInv => ResponseBelongs
    BY DEF ExclusiveInv
  <1> QED  BY <1>1, ExclusiveInvariant, PTL

-----------------------------------------------------------------------------
(* Every callback once *)

\* The inductive invariant behind CallbackOnce: a request is in the queue at
\* most once, and only after a client sent it.
OnceInv ==
    /\ \A i, j \in 1 .. Len(m_pending_requests) :
          m_pending_requests[i] = m_pending_requests[j] => i = j
    /\ \A i \in 1 .. Len(m_pending_requests) :
          m_pending_requests[i] \in submitted
    /\ CallbackOnce

\* Completing the head takes it, and it alone, out of the queue.
LEMMA CompleteRequestOnce ==
    ASSUME TypeOK, OnceInv, m_pending_requests # <<>>,
           NEW code, NEW response, NEW packets, UNCHANGED submitted,
           CompleteRequest(code, response, packets)
    PROVE  OnceInv'
  <1> DEFINE queue == m_pending_requests
             c == [code |-> code, response |-> response, packets |-> packets]
  <1>1. /\ Len(queue) \in Nat \ {0}
        /\ Head(queue) = queue[1]
        /\ Head(queue) \in Requests
        /\ Len(Tail(queue)) = Len(queue) - 1
        /\ \A i \in 1 .. Len(Tail(queue)) : Tail(queue)[i] = queue[i + 1]
    BY HeadTailProperties, LenProperties, EmptySeq DEF TypeOK
  <1>2. m_pending_requests' = Tail(queue)
    BY DEF CompleteRequest, TakeNextAction
  <1>3. /\ \A i, j \in 1 .. Len(m_pending_requests') :
              m_pending_requests'[i] = m_pending_requests'[j] => i = j
        /\ \A i \in 1 .. Len(m_pending_requests') :
              m_pending_requests'[i] \in submitted
    BY <1>1, <1>2 DEF OnceInv
  <1>4. ASSUME NEW r \in Requests
        PROVE  Queued(r)' <=> Queued(r) /\ r # Head(queue)
    <2>1. ASSUME NEW i \in 1 .. Len(Tail(queue)), Tail(queue)[i] = r
          PROVE  Queued(r) /\ r # Head(queue)
      BY <1>1, <2>1 DEF Queued, OnceInv
    <2>2. ASSUME NEW i \in 1 .. Len(queue), queue[i] = r, r # Head(queue)
          PROVE  \E j \in 1 .. Len(Tail(queue)) : Tail(queue)[j] = r
      <3>1. i # 1 /\ i - 1 \in 1 .. Len(Tail(queue))
              /\ Tail(queue)[i - 1] = r
        BY <1>1, <2>2
      <3> QED  BY <3>1
    <2> QED  BY <1>2, <2>1, <2>2 DEF Queued
  <1>5. Queued(Head(queue)) /\ Head(queue) \in submitted
    BY <1>1 DEF Queued, OnceInv
  <1>6. ASSUME NEW r \in Requests
        PROVE  Len(completions'[r]) = IF r \in submitted /\ ~Queued(r)'
                                      THEN 1 ELSE 0
    <2>1. completions[r] \in Seq(Completion) /\ Len(completions[r]) \in Nat
      BY LenProperties DEF TypeOK
    <2>2. CASE r = Head(queue)
      <3>1. completions'[r] = Append(completions[r], c)
        BY <1>1, <2>2 DEF CompleteRequest, RunCallback, TypeOK
      <3>2. Len(completions'[r]) = Len(completions[r]) + 1
        BY <2>1, <3>1
      <3>3. Len(completions[r]) = 0
        BY <1>5, <2>2 DEF OnceInv, CallbackOnce
      <3> QED  BY <1>4, <1>5, <2>2, <3>2, <3>3
    <2>3. CASE r # Head(queue)
      <3>1. completions'[r] = completions[r]
        BY <1>1, <2>3 DEF CompleteRequest, RunCallback, TypeOK
      <3> QED  BY <1>4, <2>3, <3>1 DEF OnceInv, CallbackOnce
    <2> QED  BY <2>2, <2>3
  <1>7. CallbackOnce'
    BY <1>6 DEF CallbackOnce
  <1> QED  BY <1>3, <1>7 DEF OnceInv

\* HandleRDMResponse either completes the head or leaves the queue alone.
LEMMA HandleRDMResponseOnce ==
    ASSUME TypeOK, OnceInv, UNCHANGED submitted,
           NEW status, NEW type, NEW r, NEW more, NEW packets,
           HandleRDMResponse(status, type, r, more, packets)
    PROVE  OnceInv'
  <1>1. CASE UNCHANGED <<m_pending_requests, completions>>
    BY <1>1 DEF OnceInv, CallbackOnce, Queued
  <1>2. CASE /\ m_pending_requests # <<>>
             /\ \E code, response, collected :
                   CompleteRequest(code, response, collected)
    BY <1>2, CompleteRequestOnce
  <1> QED  BY <1>1, <1>2 DEF HandleRDMResponse

\* It holds before any request is sent.
LEMMA OnceInit == Init => OnceInv
  BY EmptySeq DEF Init, OnceInv, CallbackOnce

\* Every step preserves it.
LEMMA OnceNext == TypeOK /\ OnceInv /\ [Next]_vars => OnceInv'
  <1> SUFFICES ASSUME TypeOK, OnceInv, [Next]_vars PROVE OnceInv'
    OBVIOUS
  <1> DEFINE queue == m_pending_requests
  <1>1. ASSUME NEW r \in Requests, SendRDMRequest(r) PROVE OnceInv'
    <2>1. /\ r \notin submitted
          /\ submitted' = submitted \cup {r}
          /\ ~Queued(r)
          /\ Len(completions[r]) = 0
      BY <1>1 DEF SendRDMRequest, OnceInv, CallbackOnce, Queued
    <2>2. CASE QueueFull
      <3> DEFINE c == [code |-> "RDM_FAILED_TO_SEND", response |-> {},
                       packets |-> {}]
      <3>1. UNCHANGED m_pending_requests
        BY <1>1, <2>2 DEF SendRDMRequest
      <3>2. \A q \in Requests : completions'[q] =
              IF q = r THEN Append(completions[q], c) ELSE completions[q]
        BY <1>1, <2>2 DEF SendRDMRequest, RunCallback, TypeOK
      <3>3. completions[r] \in Seq(Completion) /\ c \in Completion
        BY EmptySeq DEF TypeOK, Completion, ResponseCodes
      <3> HIDE DEF c
      <3>5. completions'[r] = Append(completions[r], c)
        BY <3>2
      <3>4. Len(completions'[r]) = 1
        BY <2>1, <3>3, <3>5, AppendProperties
      <3>6. CallbackOnce'
        BY <2>1, <3>1, <3>2, <3>4 DEF OnceInv, CallbackOnce, Queued
      <3> QED  BY <2>1, <3>1, <3>6 DEF OnceInv
    <2>3. CASE ~QueueFull
      <3>1. /\ m_pending_requests' = Append(queue, r)
            /\ UNCHANGED completions
        BY <1>1, <2>3 DEF SendRDMRequest, TakeNextAction
      <3>2. /\ Len(queue) \in Nat
            /\ Len(Append(queue, r)) = Len(queue) + 1
            /\ \A i \in 1 .. Len(queue) : Append(queue, r)[i] = queue[i]
            /\ Append(queue, r)[Len(queue) + 1] = r
        BY AppendProperties, LenProperties DEF TypeOK
      <3>3. \A q \in Requests : Queued(q)' <=> Queued(q) \/ q = r
        BY <3>1, <3>2 DEF Queued
      <3>4. CallbackOnce'
        BY <2>1, <3>1, <3>3 DEF OnceInv, CallbackOnce
      <3>5. \A i, j \in 1 .. Len(queue) + 1 :
              m_pending_requests'[i] = m_pending_requests'[j] => i = j
        <4> SUFFICES ASSUME NEW i \in 1 .. Len(queue) + 1,
                            NEW j \in 1 .. Len(queue) + 1,
                            m_pending_requests'[i] = m_pending_requests'[j],
                            i # j
                     PROVE  FALSE
          OBVIOUS
        <4>1. CASE i \in 1 .. Len(queue) /\ j \in 1 .. Len(queue)
          BY <3>1, <3>2, <4>1 DEF OnceInv
        <4>2. CASE i = Len(queue) + 1 /\ j \in 1 .. Len(queue)
          BY <2>1, <3>1, <3>2, <4>2 DEF Queued
        <4>3. CASE j = Len(queue) + 1 /\ i \in 1 .. Len(queue)
          BY <2>1, <3>1, <3>2, <4>3 DEF Queued
        <4> QED  BY <3>2, <4>1, <4>2, <4>3
      <3>6. \A i \in 1 .. Len(queue) + 1 :
              m_pending_requests'[i] \in submitted'
        BY <2>1, <3>1, <3>2 DEF OnceInv
      <3> QED  BY <3>1, <3>2, <3>4, <3>5, <3>6 DEF OnceInv
    <2> QED  BY <2>2, <2>3
  <1>2. CASE UNCHANGED <<m_pending_requests, completions, submitted>>
    BY <1>2 DEF OnceInv, CallbackOnce, Queued
  <1>3. ASSUME Destroy PROVE OnceInv'
    <2> DEFINE failed == [code |-> "RDM_FAILED_TO_SEND", response |-> {},
                          packets |-> {}]
    <2>0. failed \in Completion
      BY EmptySeq DEF Completion, ResponseCodes
    <2>1. m_pending_requests' = <<>> /\ UNCHANGED submitted
      BY <1>3 DEF Destroy, clientVars
    <2>2. \A r \in Requests : completions'[r] =
            IF Queued(r) THEN Append(completions[r], failed)
            ELSE completions[r]
      BY <1>3 DEF Destroy, Queued
    <2>3. ASSUME NEW r \in Requests
          PROVE  Len(completions'[r]) = IF r \in submitted THEN 1 ELSE 0
      <3>1. completions[r] \in Seq(Completion) /\ Len(completions[r]) \in Nat
        BY LenProperties DEF TypeOK
      <3>2. Queued(r) => r \in submitted /\ Len(completions[r]) = 0
        BY DEF OnceInv, CallbackOnce, Queued
      <3> HIDE DEF failed
      <3>3. Queued(r) => Len(completions'[r]) = Len(completions[r]) + 1
        <4>1. Queued(r) => completions'[r] = Append(completions[r], failed)
          BY <2>2
        <4>2. Len(Append(completions[r], failed)) = Len(completions[r]) + 1
          BY <2>0, <3>1, AppendProperties
        <4> QED  BY <4>1, <4>2
      <3> QED  BY <2>2, <3>1, <3>2, <3>3 DEF OnceInv, CallbackOnce
    <2>4. \A r \in Requests : ~Queued(r)'
      BY <2>1, EmptySeq DEF Queued
    <2> QED  BY <2>1, <2>3, <2>4, EmptySeq DEF OnceInv, CallbackOnce
  <1>4. ASSUME ControllerRefuse PROVE OnceInv'
    BY <1>4, HandleRDMResponseOnce DEF ControllerRefuse, clientVars
  <1>5. ASSUME NEW status, NEW type, NEW size,
               ControllerReply(status, type, size)
        PROVE  OnceInv'
    BY <1>5, HandleRDMResponseOnce DEF ControllerReply, clientVars
  <1>6. ASSUME \/ \E d \in Discoveries : RunFullDiscovery(d)
                                         \/ RunIncrementalDiscovery(d)
               \/ Pause \/ Resume \/ ControllerAccept \/ DiscoveryComplete
        PROVE  UNCHANGED <<m_pending_requests, completions, submitted>>
    BY <1>6
    DEF RunFullDiscovery, RunIncrementalDiscovery, GenericDiscovery, Pause,
        Resume, ControllerAccept, DiscoveryComplete, TakeNextAction,
        requestVars, clientVars
  <1>7. CASE UNCHANGED vars
    BY <1>2, <1>7 DEF vars, requestVars, clientVars
  <1> QED
    BY <1>1, <1>2, <1>3, <1>4, <1>5, <1>6, <1>7 DEF Next, ControllerAnswers

\* The callback of every request is run exactly once, when the request leaves
\* the queue: none is lost and none is run twice.
THEOREM Once == Spec => []CallbackOnce
  <1>1. OnceInv => CallbackOnce
    BY DEF OnceInv
  <1> QED  BY <1>1, TypeCorrect, OnceInit, OnceNext, PTL DEF Spec

-----------------------------------------------------------------------------
(* The queue implements the contract of RDMControllerInterface.            *)

\* What a step does to the requests that wait: a client adds one, or has one
\* refused, or some leave.
Arrives == \E r \in Requests : /\ r \notin submitted
                               /\ submitted' = submitted \cup {r}
                               /\ Waiting' \in {Waiting, Waiting \cup {r}}
Leave == UNCHANGED submitted /\ Waiting' \subseteq Waiting

\* HandleRDMResponse pops the head, or leaves the queue alone.
LEMMA HandleRDMResponseLeaves ==
    ASSUME TypeOK, NEW status, NEW type, NEW r, NEW more, NEW packets,
           HandleRDMResponse(status, type, r, more, packets)
    PROVE  Waiting' \subseteq Waiting
  <1> DEFINE queue == m_pending_requests
  <1>1. CASE UNCHANGED m_pending_requests
    BY <1>1 DEF Waiting, Queued
  <1>2. CASE queue # <<>> /\ m_pending_requests' = Tail(queue)
    <2>1. /\ Len(queue) \in Nat \ {0}
          /\ Len(Tail(queue)) = Len(queue) - 1
          /\ \A i \in 1 .. Len(queue) - 1 : Tail(queue)[i] = queue[i + 1]
      BY <1>2, HeadTailProperties, EmptySeq, LenProperties DEF TypeOK
    <2>2. ASSUME NEW q \in Requests, NEW i \in 1 .. Len(Tail(queue)),
                 Tail(queue)[i] = q
          PROVE  \E j \in 1 .. Len(queue) : queue[j] = q
      BY <2>1, <2>2
    <2> QED  BY <1>2, <2>2 DEF Waiting, Queued
  <1> QED
    BY <1>1, <1>2 DEF HandleRDMResponse, CompleteRequest, TakeNextAction

\* Every step is of one of the two kinds.
LEMMA ArriveOrLeave ==
    ASSUME TypeOK, [Next]_vars
    PROVE  Arrives \/ Leave
  <1>1. ASSUME NEW r \in Requests, SendRDMRequest(r) PROVE Arrives
    <2>1. r \notin submitted /\ submitted' = submitted \cup {r}
      BY <1>1 DEF SendRDMRequest
    <2>2. CASE QueueFull
      <3>1. UNCHANGED m_pending_requests
        BY <1>1, <2>2 DEF SendRDMRequest
      <3> QED  BY <2>1, <3>1 DEF Arrives, Waiting, Queued
    <2>3. CASE ~QueueFull
      <3> DEFINE queue == m_pending_requests
      <3>1. m_pending_requests' = Append(queue, r)
        BY <1>1, <2>3 DEF SendRDMRequest, TakeNextAction
      <3>2. /\ Len(queue) \in Nat
            /\ Len(Append(queue, r)) = Len(queue) + 1
            /\ \A i \in 1 .. Len(queue) : Append(queue, r)[i] = queue[i]
            /\ Append(queue, r)[Len(queue) + 1] = r
        BY AppendProperties, LenProperties DEF TypeOK
      <3>3. ASSUME NEW q \in Requests
            PROVE  Queued(q)' <=> Queued(q) \/ q = r
        BY <3>1, <3>2 DEF Queued
      <3>4. Waiting' = Waiting \cup {r}
        BY <3>3 DEF Waiting
      <3> QED  BY <2>1, <3>4 DEF Arrives
    <2> QED  BY <2>2, <2>3
  <1>2. ASSUME Destroy PROVE Leave
    BY <1>2, EmptySeq DEF Destroy, clientVars, Leave, Waiting, Queued
  <1>3. ASSUME ControllerRefuse PROVE Leave
    BY <1>3, HandleRDMResponseLeaves DEF ControllerRefuse, clientVars, Leave
  <1>4. ASSUME NEW status, NEW type, NEW size,
               ControllerReply(status, type, size)
        PROVE Leave
    BY <1>4, HandleRDMResponseLeaves DEF ControllerReply, clientVars, Leave
  <1>5. ASSUME \/ \E d \in Discoveries : RunFullDiscovery(d)
                                         \/ RunIncrementalDiscovery(d)
               \/ Pause \/ Resume \/ ControllerAccept \/ DiscoveryComplete
               \/ UNCHANGED vars
        PROVE  UNCHANGED <<m_pending_requests, submitted>>
    BY <1>5 DEF RunFullDiscovery, RunIncrementalDiscovery, GenericDiscovery,
                TakeNextAction, Pause, Resume, ControllerAccept,
                DiscoveryComplete, requestVars, clientVars, vars
  <1>6. CASE UNCHANGED <<m_pending_requests, submitted>>
    BY <1>6 DEF Leave, Waiting, Queued
  <1> QED
    BY <1>1, <1>2, <1>3, <1>4, <1>5, <1>6 DEF Next, ControllerAnswers

\* With CallbackOnce before and after it, such a step is one of the contract.
LEMMA ContractStep ==
    ASSUME CallbackOnce, CallbackOnce', Waiting \subseteq submitted,
           Arrives \/ Leave
    PROVE  [Contract!Next]_(Contract!vars)
  <1> DEFINE answers == [r \in Requests |-> Len(completions[r])]
  <1>1. ASSUME NEW r \in Requests
        PROVE  /\ r \in Waiting <=> Queued(r)
               /\ r \in Waiting' <=> Queued(r)'
               /\ answers[r] = IF r \in submitted /\ r \notin Waiting
                               THEN 1 ELSE 0
               /\ answers'[r] = IF r \in submitted' /\ r \notin Waiting'
                                THEN 1 ELSE 0
    BY DEF Waiting, CallbackOnce
  <1>2. answers = [r \in Requests |-> answers[r]]
        /\ answers' = [r \in Requests |-> answers'[r]]
    OBVIOUS
  <1>3. Waiting \subseteq Requests /\ Waiting' \subseteq Requests
    BY DEF Waiting
  <1> HIDE DEF answers
  <1>4. CASE Arrives
    <2>1. PICK r \in Requests : /\ r \notin submitted
                                /\ submitted' = submitted \cup {r}
                                /\ Waiting' \in {Waiting, Waiting \cup {r}}
      BY <1>4 DEF Arrives
    <2>2. r \notin Waiting
      BY <2>1
    <2>3. CASE Waiting' = Waiting
      <3>1. answers' = [answers EXCEPT ![r] = 1]
        BY <1>1, <1>2, <2>1, <2>2, <2>3
      <3>2. Contract!AnswerAtOnce(r)
        BY <1>1, <2>1, <2>2, <2>3, <3>1
           DEF Contract!AnswerAtOnce, Contract!Fresh, answers
      <3> QED  BY <3>2 DEF Contract!Next
    <2>4. CASE Waiting' = Waiting \cup {r}
      <3>1. answers' = answers
        BY <1>1, <1>2, <2>1, <2>2, <2>4
      <3>2. Contract!Send(r)
        BY <1>1, <2>1, <2>2, <2>4, <3>1
           DEF Contract!Send, Contract!Fresh, answers
      <3> QED  BY <3>2 DEF Contract!Next
    <2> QED  BY <2>1, <2>2, <2>3, <2>4
  <1>5. CASE Leave
    <2>0. PICK done \in SUBSET Waiting : done = Waiting \ Waiting'
      OBVIOUS
    <2>1. submitted' = submitted /\ Waiting' = Waiting \ done
      BY <1>5, <2>0 DEF Leave
    <2>2. CASE done = {}
      <3>1. Waiting' = Waiting /\ answers' = answers
        BY <1>1, <1>2, <2>1, <2>2
      <3> QED  BY <3>1 DEF Contract!vars, answers
    <2>3. CASE done # {}
      <3>0. \A r \in Requests : answers'[r] = IF r \in done THEN 1
                                              ELSE answers[r]
        BY <1>1, <2>1
      <3>1. answers' = [r \in Requests |-> IF r \in done THEN 1
                                           ELSE answers[r]]
        BY <1>2, <3>0
      <3>2. Contract!Answer(done)
        BY <2>1, <2>3, <3>1 DEF Contract!Answer, answers
      <3> QED  BY <3>2 DEF Contract!Next
    <2> QED  BY <2>2, <2>3
  <1> QED  BY <1>4, <1>5

\* For any requests, queue limit and order of events the queue implements the
\* contract of RDMControllerInterface.h: a request waits until its callback is
\* run, once, and no request is dropped on the way.
THEOREM Implements == Spec => ImplementsContract
  <1>1. Init => Contract!Init
    BY EmptySeq DEF Init, Contract!Init, Waiting, Queued
  <1>2. OnceInv /\ OnceInv' /\ TypeOK /\ [Next]_vars
          => [Contract!Next]_(Contract!vars)
    <2> SUFFICES ASSUME OnceInv, OnceInv', TypeOK, [Next]_vars
                 PROVE  [Contract!Next]_(Contract!vars)
      OBVIOUS
    <2>1. Waiting \subseteq submitted
      BY DEF OnceInv, Waiting, Queued
    <2> QED  BY <2>1, ArriveOrLeave, ContractStep DEF OnceInv
  <1> QED
    BY <1>1, <1>2, TypeCorrect, OnceInit, OnceNext, PTL
       DEF Spec, ImplementsContract, Contract!Spec
-----------------------------------------------------------------------------
(* The queue does not stall *)

\* TakeNextAction leaves nothing waiting for nobody: what it does not hand
\* over waits for the request outstanding, the discovery that runs, or Resume.
LEMMA TakeNextActionMovesOn ==
    ASSUME NEW pending \in BOOLEAN, NEW queue \in Seq(Requests),
           NEW waiting, NEW running,
           running # <<>> => discovery # "none",
           pending => wire' # NoRequest,
           m_active' = m_active,
           TakeNextAction(pending, queue, waiting, running)
    PROVE  NeverStalls'
  <1>1. CASE CheckForBlockingCondition(pending, running)
    BY <1>1 DEF TakeNextAction, NeverStalls, CheckForBlockingCondition
  <1>2. CASE ~CheckForBlockingCondition(pending, running) /\ waiting # <<>>
    BY <1>2
    DEF TakeNextAction, StartRDMDiscovery, NeverStalls,
        CheckForBlockingCondition
  <1>3. CASE ~CheckForBlockingCondition(pending, running) /\ waiting = <<>>
    <2>1. queue # <<>> => Head(queue) # NoRequest
      BY HeadTailProperties, ConstantsAssumption
    <2> QED
      BY <1>3, <2>1
      DEF TakeNextAction, MaybeSendRDMRequest, DispatchNextRequest, NeverStalls
  <1> QED  BY <1>1, <1>2, <1>3

\* On every path HandleRDMResponse clears the flag, and goes on with the head
\* or with what TakeNextAction chooses.
LEMMA HandleRDMResponseMovesOn ==
    ASSUME TypeOK, ExclusiveInv, UNCHANGED m_active,
           NEW status, NEW type, NEW r, NEW more, NEW packets,
           HandleRDMResponse(status, type, r, more, packets)
    PROVE  NeverStalls'
  <1>1. CASE m_pending_requests = <<>>
    BY <1>1 DEF HandleRDMResponse, NeverStalls
  <1>2. CASE /\ m_pending_requests # <<>>
             /\ \E code, parts, collected :
                   CompleteRequest(code, parts, collected)
    <2>1. Tail(m_pending_requests) \in Seq(Requests)
      BY <1>2, HeadTailProperties DEF TypeOK
    <2>2. m_discovery_callbacks # <<>> => discovery # "none"
      BY DEF ExclusiveInv, DiscoveryHasCallbacks
    <2>3. TakeNextAction(FALSE, Tail(m_pending_requests),
                         m_pending_discovery_callbacks, m_discovery_callbacks)
      BY <1>2 DEF CompleteRequest
    <2> QED  BY <2>1, <2>2, <2>3, TakeNextActionMovesOn
  <1>3. CASE /\ m_pending_requests # <<>>
             /\ m_rdm_request_pending' = FALSE
             /\ DispatchNextRequest(m_pending_requests)
    <2>1. Head(m_pending_requests) # NoRequest
      BY <1>3, HeadTailProperties, ConstantsAssumption DEF TypeOK
    <2> QED  BY <1>3, <2>1 DEF DispatchNextRequest, NeverStalls
  <1> QED
    BY <1>1, <1>2, <1>3 DEF HandleRDMResponse

\* Every step leaves the queue with something to wait for.
LEMMA NeverStallsNext ==
    TypeOK /\ ExclusiveInv /\ NeverStalls /\ [Next]_vars => NeverStalls'
  <1> SUFFICES ASSUME TypeOK, ExclusiveInv, NeverStalls, [Next]_vars
               PROVE  NeverStalls'
    OBVIOUS
  <1>r. m_discovery_callbacks # <<>> => discovery # "none"
    BY DEF ExclusiveInv, DiscoveryHasCallbacks
  <1>p. Callable /\ m_rdm_request_pending => wire # NoRequest
    BY DEF Callable, NeverStalls
  <1>b. m_rdm_request_pending \in BOOLEAN
    BY DEF TypeOK
  <1>1. ASSUME NEW r \in Requests, SendRDMRequest(r) PROVE NeverStalls'
    <2>1. CASE QueueFull
      BY <1>1, <2>1 DEF SendRDMRequest, NeverStalls
    <2>2. CASE ~QueueFull
      <3>1. Append(m_pending_requests, r) \in Seq(Requests)
        BY AppendProperties DEF TypeOK
      <3>2. /\ TakeNextAction(m_rdm_request_pending,
                              Append(m_pending_requests, r),
                              m_pending_discovery_callbacks,
                              m_discovery_callbacks)
            /\ Callable /\ UNCHANGED <<wire, m_active>>
        BY <1>1, <2>2 DEF SendRDMRequest
      <3> QED
        BY <1>r, <1>p, <1>b, <3>1, <3>2, TakeNextActionMovesOn
    <2> QED  BY <2>1, <2>2
  <1>2. ASSUME NEW d \in Discoveries, NEW full, GenericDiscovery(d, full)
        PROVE  NeverStalls'
    <2>1. /\ TakeNextAction(m_rdm_request_pending, m_pending_requests,
                            Append(m_pending_discovery_callbacks,
                                   [full |-> full, callback |-> d]),
                            m_discovery_callbacks)
          /\ Callable /\ UNCHANGED <<wire, m_active>>
          /\ m_pending_requests \in Seq(Requests)
      BY <1>2 DEF GenericDiscovery, TypeOK
    <2> QED
      BY <1>r, <1>p, <1>b, <2>1, TakeNextActionMovesOn
  <1>3. CASE Pause
    BY <1>3 DEF Pause, requestVars, discoveryVars, NeverStalls
  <1>4. CASE Resume
    <2>1. m_pending_requests # <<>> => Head(m_pending_requests) # NoRequest
      BY HeadTailProperties, ConstantsAssumption DEF TypeOK
    <2> QED
      BY <1>4, <1>p, <1>b, <2>1
      DEF Resume, MaybeSendRDMRequest, DispatchNextRequest, NeverStalls
  <1>5. CASE Destroy
    BY <1>5 DEF Destroy, NeverStalls
  <1>6. CASE ControllerAccept
    BY <1>6 DEF ControllerAccept, NeverStalls
  <1>7. CASE ControllerRefuse
    BY <1>7, HandleRDMResponseMovesOn DEF ControllerRefuse
  <1>8. ASSUME NEW status, NEW type, NEW size,
               ControllerReply(status, type, size)
        PROVE  NeverStalls'
    BY <1>8, HandleRDMResponseMovesOn DEF ControllerReply
  <1>9. CASE DiscoveryComplete
    <2>1. /\ TakeNextAction(m_rdm_request_pending, m_pending_requests,
                            m_pending_discovery_callbacks, <<>>)
          /\ Callable /\ UNCHANGED <<wire, m_active>>
          /\ m_pending_requests \in Seq(Requests)
      BY <1>9 DEF DiscoveryComplete, TypeOK
    <2> QED  BY <1>p, <1>b, <2>1, TakeNextActionMovesOn
  <1>10. CASE UNCHANGED vars
    BY <1>10 DEF vars, requestVars, discoveryVars, NeverStalls
  <1> QED
    BY <1>1, <1>2, <1>3, <1>4, <1>5, <1>6, <1>7, <1>8, <1>9, <1>10
    DEF Next, RunFullDiscovery, RunIncrementalDiscovery, ControllerAnswers

\* The flag is never left set with nothing outstanding, and an active queue
\* with requests has something that will move it on, interrupted or not.
THEOREM MovesOn == Spec => []NeverStalls
  <1>1. Init => NeverStalls
    BY DEF Init, NeverStalls
  <1> QED
    BY <1>1, NeverStallsNext, TypeCorrect, ExclusiveInvariant, PTL DEF Spec

-----------------------------------------------------------------------------
(* Discoveries serve those who asked for them *)

\* A callback that was handed over and has not been run.
Unserved(d, asking, results) == d \in asking /\ results[d] = <<>>

\* The waiting list holds callbacks with the kind they asked for; those of the
\* running list asked before the discovery began, and it is full if one of
\* them asked for that; nobody is on both lists, and nobody asked in the
\* future.
ListsOK(waiting, running, kind, runs, asking, results, times) ==
    /\ \A i \in 1 .. Len(waiting) :
          /\ Unserved(waiting[i].callback, asking, results)
          /\ waiting[i].callback \in FullDiscoveries => waiting[i].full
    /\ \A j \in 1 .. Len(running) :
          /\ Unserved(running[j], asking, results)
          /\ times[running[j]] < runs
          /\ running[j] \in FullDiscoveries => kind = "full"
    /\ \A i \in 1 .. Len(waiting), j \in 1 .. Len(running) :
          waiting[i].callback # running[j]
    /\ \A d \in Discoveries : times[d] <= runs

\* The inductive invariant behind DiscoverySatisfied.
ServiceInv ==
    /\ ListsOK(m_pending_discovery_callbacks, m_discovery_callbacks,
               discovery, discoveryRuns, requested, served, asked)
    /\ \A d \in Discoveries : d \notin requested => served[d] = <<>>
    /\ DiscoverySatisfied

\* TakeNextAction keeps the lists so: StartRDMDiscovery moves the whole
\* waiting list, and only to an empty running list.
LEMMA TakeNextActionLists ==
    ASSUME TypeOK, asked' \in [Discoveries -> Nat],
           NEW pending \in BOOLEAN, NEW queue,
           NEW waiting \in Seq(PendingDiscovery),
           NEW running \in Seq(Discoveries),
           ListsOK(waiting, running, discovery, discoveryRuns, requested',
                   served', asked'),
           TakeNextAction(pending, queue, waiting, running)
    PROVE  ListsOK(m_pending_discovery_callbacks, m_discovery_callbacks,
                   discovery, discoveryRuns, requested, served, asked)'
  <1> DEFINE moved == [i \in 1 .. Len(waiting) |-> waiting[i].callback]
  <1>0. discoveryRuns \in Nat /\ Len(<<>>) = 0
    BY DEF TypeOK
  <1>1. CASE /\ m_pending_discovery_callbacks' = waiting
             /\ m_discovery_callbacks' = running
             /\ UNCHANGED discoveryRuns
             /\ running # <<>> => UNCHANGED discovery
    BY <1>0, <1>1 DEF ListsOK
  <1>2. CASE waiting # <<>> /\ running = <<>> /\ StartRDMDiscovery(waiting)
    <2>1. /\ m_pending_discovery_callbacks' = <<>>
          /\ m_discovery_callbacks' = moved
          /\ discoveryRuns' = discoveryRuns + 1
          /\ (\E i \in 1 .. Len(waiting) : waiting[i].full)
                => discovery' = "full"
      BY <1>2 DEF StartRDMDiscovery
    <2>2. Len(moved) = Len(waiting) /\ Len(m_pending_discovery_callbacks') = 0
      BY <1>0, <2>1, MovedCallbacks
    <2>3. \A i \in 1 .. Len(waiting) : waiting[i].callback \in Discoveries
      <3> TAKE i \in 1 .. Len(waiting)
      <3>1. waiting[i] \in PendingDiscovery
        BY ElementOfSeq
      <3> QED  BY <3>1 DEF PendingDiscovery
    <2>4. \A d \in Discoveries : /\ asked'[d] <= discoveryRuns'
                                 /\ asked'[d] < discoveryRuns'
      BY <1>0, <2>1 DEF ListsOK
    <2>5. \A j \in 1 .. Len(moved) :
             /\ Unserved(moved[j], requested', served')
             /\ asked'[moved[j]] < discoveryRuns'
             /\ moved[j] \in FullDiscoveries => discovery' = "full"
      BY <2>1, <2>2, <2>3, <2>4 DEF ListsOK
    <2> HIDE DEF moved
    <2> QED  BY <2>1, <2>2, <2>4, <2>5 DEF ListsOK
  <1> QED
    BY <1>1, <1>2 DEF TakeNextAction, CheckForBlockingCondition

\* Every step serves only who asked before, with what was asked for.
LEMMA ServiceNext ==
    TypeOK /\ TypeOK' /\ ServiceInv /\ [Next]_vars => ServiceInv'
  <1> SUFFICES ASSUME TypeOK, TypeOK', ServiceInv, [Next]_vars
               PROVE  ServiceInv'
    OBVIOUS
  <1> DEFINE waiting == m_pending_discovery_callbacks
             running == m_discovery_callbacks
             Lists == ListsOK(waiting, running, discovery, discoveryRuns,
                              requested, served, asked)
  <1>t. /\ waiting \in Seq(PendingDiscovery) /\ running \in Seq(Discoveries)
        /\ asked' \in [Discoveries -> Nat] /\ Len(waiting) \in Nat
        /\ discoveryRuns \in Nat /\ m_rdm_request_pending \in BOOLEAN
    BY LenProperties DEF TypeOK
  <1>l. Lists
    BY DEF ServiceInv
  <1>u. ASSUME UNCHANGED <<requested, served, asked>>, Lists'
        PROVE  ServiceInv'
    BY <1>u DEF ServiceInv, DiscoverySatisfied
  <1>c. ASSUME UNCHANGED <<requested, served, asked>>,
               NEW pending \in BOOLEAN, NEW queue,
               TakeNextAction(pending, queue, waiting, running)
        PROVE  ServiceInv'
    <2>1. ListsOK(waiting, running, discovery, discoveryRuns, requested',
                  served', asked')
      BY <1>l, <1>c
    <2>2. Lists'
      BY <1>t, <1>c, <2>1, TakeNextActionLists
    <2> QED  BY <1>c, <1>u, <2>2
  <1>k. ASSUME UNCHANGED <<requested, served, asked, waiting, running,
                           discovery, discoveryRuns>>
        PROVE  ServiceInv'
    BY <1>k, <1>l, <1>u
  <1> HIDE DEF Lists
  <1>h. ASSUME UNCHANGED <<requested, served, asked>>,
               NEW status, NEW type, NEW r, NEW more, NEW packets,
               HandleRDMResponse(status, type, r, more, packets)
        PROVE  ServiceInv'
    <2> DEFINE Kept == UNCHANGED <<waiting, running, discovery, discoveryRuns>>
               Taken == TakeNextAction(FALSE, Tail(m_pending_requests),
                                       waiting, running)
    <2>1. Kept \/ Taken
      BY <1>h DEF HandleRDMResponse, CompleteRequest
    <2>2. CASE Kept
      BY <1>h, <1>k, <2>2
    <2>3. CASE Taken
      BY <1>c, <1>h, <2>3
    <2> HIDE DEF Kept, Taken
    <2> QED  BY <2>1, <2>2, <2>3
  <1>1. ASSUME NEW r \in Requests, SendRDMRequest(r) PROVE ServiceInv'
    <2>1. CASE QueueFull
      BY <1>1, <1>k, <2>1 DEF SendRDMRequest
    <2>2. CASE ~QueueFull
      BY <1>1, <1>c, <1>t, <2>2 DEF SendRDMRequest
    <2> QED  BY <2>1, <2>2
  <1>2. ASSUME NEW d \in Discoveries, NEW full \in BOOLEAN,
               d \in FullDiscoveries => full, GenericDiscovery(d, full)
        PROVE  ServiceInv'
    <2> DEFINE item == [full |-> full, callback |-> d]
               longer == Append(waiting, item)
    <2>1. /\ d \notin requested /\ requested' = requested \cup {d}
          /\ asked' = [asked EXCEPT ![d] = discoveryRuns]
          /\ UNCHANGED served
          /\ TakeNextAction(m_rdm_request_pending, m_pending_requests, longer,
                            running)
      BY <1>2 DEF GenericDiscovery
    <2>2. item \in PendingDiscovery /\ item.callback = d /\ item.full = full
      BY DEF PendingDiscovery
    <2> HIDE DEF item
    <2>3. /\ longer \in Seq(PendingDiscovery)
          /\ Len(longer) = Len(waiting) + 1
          /\ \A i \in 1 .. Len(waiting) : longer[i] = waiting[i]
          /\ longer[Len(waiting) + 1] = item
      BY <1>t, <2>2, AppendProperties
    <2> HIDE DEF longer
    <2>4. served[d] = <<>> /\ Unserved(d, requested', served')
      BY <2>1 DEF ServiceInv, Unserved
    <2>5. \A i \in 1 .. Len(longer) :
             \/ i \in 1 .. Len(waiting) /\ longer[i] = waiting[i]
             \/ longer[i] = item
      BY <1>t, <2>3
    <2>6. \A e \in requested : e # d
      BY <2>1
    <2>7. \A e \in Discoveries : /\ asked'[e] <= discoveryRuns
                                 /\ e # d => asked'[e] = asked[e]
      BY <1>l, <1>t, <2>1 DEF ListsOK, Lists, TypeOK
    <2>8. \A i \in 1 .. Len(longer) :
             /\ Unserved(longer[i].callback, requested', served')
             /\ longer[i].callback \in FullDiscoveries => longer[i].full
      BY <1>l, <1>2, <2>1, <2>2, <2>4, <2>5 DEF ListsOK, Lists, Unserved
    <2>9. \A j \in 1 .. Len(running) :
             /\ running[j] \in Discoveries
             /\ running[j] # d
             /\ Unserved(running[j], requested', served')
             /\ asked'[running[j]] < discoveryRuns
             /\ running[j] \in FullDiscoveries => discovery = "full"
      <3> TAKE j \in 1 .. Len(running)
      <3>1. running[j] \in Discoveries
        BY <1>t, ElementOfSeq
      <3>2. /\ Unserved(running[j], requested, served)
            /\ asked[running[j]] < discoveryRuns
            /\ running[j] \in FullDiscoveries => discovery = "full"
        BY <1>l DEF ListsOK, Lists
      <3> QED  BY <2>1, <2>7, <3>1, <3>2 DEF Unserved
    <2>10. \A i \in 1 .. Len(longer), j \in 1 .. Len(running) :
              longer[i].callback # running[j]
      BY <1>l, <2>2, <2>5, <2>9 DEF ListsOK, Lists
    <2>11. ListsOK(longer, running, discovery, discoveryRuns, requested',
                   served', asked')
      BY <2>7, <2>8, <2>9, <2>10 DEF ListsOK
    <2>12. Lists'
      BY <1>t, <2>1, <2>3, <2>11, TakeNextActionLists DEF Lists
    <2>13. DiscoverySatisfied'
      <3> SUFFICES ASSUME NEW e \in Discoveries
                   PROVE  /\ Len(served[e]) <= 1
                          /\ \A i \in 1 .. Len(served[e]) :
                                /\ served[e][i].run > asked'[e]
                                /\ e \in FullDiscoveries =>
                                      served[e][i].kind = "full"
        BY <2>1 DEF DiscoverySatisfied
      <3>1. CASE e = d
        BY <2>4, <3>1
      <3>2. CASE e # d
        BY <2>7, <3>2 DEF ServiceInv, DiscoverySatisfied
      <3> QED  BY <3>1, <3>2
    <2>14. \A e \in Discoveries : e \notin requested' => served'[e] = <<>>
      BY <2>1 DEF ServiceInv
    <2> QED  BY <2>12, <2>13, <2>14 DEF ServiceInv, Lists
  <1>3. CASE Pause
    BY <1>3, <1>k DEF Pause, discoveryVars, clientVars
  <1>4. CASE Resume
    BY <1>4, <1>k DEF Resume, discoveryVars
  <1>5. CASE Destroy
    <2>1. /\ waiting' = <<>> /\ running' = <<>>
          /\ UNCHANGED <<requested, served, asked, discoveryRuns>>
      BY <1>5 DEF Destroy, clientVars
    <2>2. Len(waiting') = 0 /\ Len(running') = 0
      BY <2>1
    <2>3. Lists'
      BY <1>l, <2>1, <2>2 DEF ListsOK, Lists
    <2> QED  BY <1>u, <2>1, <2>3
  <1>6. CASE ControllerAccept
    BY <1>6, <1>k DEF ControllerAccept, discoveryVars, clientVars
  <1>7. CASE ControllerRefuse
    BY <1>7, <1>h DEF ControllerRefuse, clientVars
  <1>8. ASSUME NEW status, NEW type, NEW size,
               ControllerReply(status, type, size)
        PROVE  ServiceInv'
    BY <1>8, <1>h DEF ControllerReply, clientVars
  <1>9. CASE DiscoveryComplete
    <2> DEFINE result == [run |-> discoveryRuns, kind |-> discovery]
               Ran(d) == \E i \in 1 .. Len(running) : running[i] = d
    <2>1. /\ UNCHANGED <<requested, asked>>
          /\ TakeNextAction(m_rdm_request_pending, m_pending_requests,
                            waiting, <<>>)
          /\ served' = [d \in Discoveries |->
                           IF Ran(d) THEN Append(served[d], result)
                           ELSE served[d]]
      BY <1>9 DEF DiscoveryComplete, clientVars
    <2>2. ASSUME NEW d \in Discoveries, Ran(d)
          PROVE  /\ d \in requested
                 /\ served[d] = <<>> /\ served'[d] = <<result>>
                 /\ asked[d] < discoveryRuns
                 /\ d \in FullDiscoveries => discovery = "full"
      <3>1. PICK i \in 1 .. Len(running) : running[i] = d
        BY <2>2
      <3>2. /\ Unserved(d, requested, served)
            /\ asked[d] < discoveryRuns
            /\ d \in FullDiscoveries => discovery = "full"
        BY <1>l, <3>1 DEF ListsOK, Lists
      <3>3. served'[d] = Append(<<>>, result)
        BY <2>1, <2>2, <3>2 DEF Unserved
      <3> QED  BY <3>2, <3>3 DEF Unserved
    <2>3. ASSUME NEW d \in Discoveries, ~Ran(d) PROVE served'[d] = served[d]
      BY <2>1, <2>3
    <2>4. \A i \in 1 .. Len(waiting) :
             /\ Unserved(waiting[i].callback, requested', served')
             /\ waiting[i].callback \in FullDiscoveries => waiting[i].full
      <3> TAKE i \in 1 .. Len(waiting)
      <3>1. waiting[i].callback \in Discoveries
        <4>1. waiting[i] \in PendingDiscovery
          BY <1>t, ElementOfSeq
        <4> QED  BY <4>1 DEF PendingDiscovery
      <3>2. ~Ran(waiting[i].callback)
        BY <1>l DEF ListsOK, Lists
      <3> QED
        BY <1>l, <2>1, <2>3, <3>1, <3>2 DEF ListsOK, Lists, Unserved
    <2>5. ListsOK(waiting, <<>>, discovery, discoveryRuns, requested',
                  served', asked')
      <3>1. Len(<<>>) = 0
        OBVIOUS
      <3>2. \A d \in Discoveries : asked'[d] <= discoveryRuns
        BY <1>l, <2>1 DEF ListsOK, Lists
      <3> QED  BY <2>4, <3>1, <3>2 DEF ListsOK
    <2>6. Lists'
      BY <1>t, <2>1, <2>5, TakeNextActionLists, EmptySeq DEF Lists
    <2>7. DiscoverySatisfied'
      <3> SUFFICES ASSUME NEW d \in Discoveries
                   PROVE  /\ Len(served'[d]) <= 1
                          /\ \A i \in 1 .. Len(served'[d]) :
                                /\ served'[d][i].run > asked[d]
                                /\ d \in FullDiscoveries =>
                                      served'[d][i].kind = "full"
        BY <2>1 DEF DiscoverySatisfied
      <3>1. CASE Ran(d)
        <4>1. /\ served'[d] = <<result>> /\ asked[d] < discoveryRuns
              /\ d \in FullDiscoveries => discovery = "full"
          BY <2>2, <3>1
        <4>2. Len(<<result>>) = 1 /\ <<result>>[1] = result
          OBVIOUS
        <4>3. asked[d] \in Nat /\ result.run > asked[d]
          BY <1>t, <4>1 DEF TypeOK
        <4> QED  BY <4>1, <4>2, <4>3
      <3>2. CASE ~Ran(d)
        BY <2>3, <3>2 DEF ServiceInv, DiscoverySatisfied
      <3> QED  BY <3>1, <3>2
    <2>8. \A d \in Discoveries : d \notin requested' => served'[d] = <<>>
      BY <2>1, <2>2, <2>3 DEF ServiceInv
    <2> QED  BY <2>6, <2>7, <2>8 DEF ServiceInv, Lists
  <1>10. CASE UNCHANGED vars
    BY <1>10, <1>k DEF vars, discoveryVars, clientVars
  <1> QED
    BY <1>1, <1>2, <1>3, <1>4, <1>5, <1>6, <1>7, <1>8, <1>9, <1>10
    DEF Next, RunFullDiscovery, RunIncrementalDiscovery, ControllerAnswers

\* Nobody has asked at first.
LEMMA ServiceInit == Init => ServiceInv
  <1> SUFFICES ASSUME Init PROVE ServiceInv
    OBVIOUS
  <1>1. /\ Len(m_pending_discovery_callbacks) = 0
        /\ Len(m_discovery_callbacks) = 0
        /\ \A d \in Discoveries : served[d] = <<>> /\ Len(served[d]) = 0
                                  /\ asked[d] = 0
        /\ discoveryRuns = 0
    BY DEF Init
  <1> QED
    BY <1>1 DEF ServiceInv, ListsOK, DiscoverySatisfied

\* A discovery callback is run at most once, with a discovery that started
\* after it was asked for and is of the kind it asked for.
THEOREM Satisfied == Spec => []DiscoverySatisfied
  <1>1. ServiceInv => DiscoverySatisfied
    BY DEF ServiceInv
  <1> QED
    BY <1>1, ServiceInit, ServiceNext, TypeCorrect, PTL DEF Spec
=============================================================================
