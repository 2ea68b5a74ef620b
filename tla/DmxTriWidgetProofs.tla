------------------------- MODULE DmxTriWidgetProofs -------------------------
(***************************************************************************)
(* Proofs about DmxTriWidget, for any responders and requests and any      *)
(* number of failed writes.                                                *)
(***************************************************************************)
EXTENDS DmxTriWidget, TLAPS

-----------------------------------------------------------------------------
(* One transaction *)

\* m_expected_command is the command on the wire, RESERVED if there is none.
LineInv ==
    \/ wire = <<>> /\ m_expected_command = "RESERVED"
    \/ \E c : /\ wire = <<c>>
              /\ m_expected_command = c.id
              /\ c.id # "RESERVED"

\* What is put on an idle line, by SendCommandToTRI or not at all.
LEMMA IdleLine ==
    \/ NotSent(<<>>)
    \/ NothingSent(<<>>)
    \/ \E id, index, request :
          id \in CommandIds /\ Sent(<<>>, id, index, request)
    => LineInv'
  <1>1. NotSent(<<>>) \/ NothingSent(<<>>) => LineInv'
    BY DEF NotSent, NothingSent, LineInv
  <1>2. ASSUME NEW id \in CommandIds, NEW index, NEW request,
               Sent(<<>>, id, index, request)
        PROVE  LineInv'
    <2> DEFINE c == [id |-> id, index |-> index, request |-> request]
    <2>1. wire' = <<c>> /\ m_expected_command' = c.id
      BY <1>2 DEF Sent
    <2>2. c.id # "RESERVED"
      BY DEF CommandIds
    <2> QED  BY <2>1, <2>2 DEF LineInv
  <1> QED  BY <1>1, <1>2

\* What DispatchRequest puts on an idle line.
LEMMA DispatchLine == DispatchRequest(<<>>) => LineInv'
  BY IdleLine DEF DispatchRequest, SendOrFail, CommandIds

\* The loop only sends when no transaction is pending.
LEMMA SendingLine == LineInv /\ MaybeSendNextRequest => LineInv'
  <1> SUFFICES ASSUME LineInv, MaybeSendNextRequest PROVE LineInv'
    OBVIOUS
  <1>1. CASE NextToSend = "nothing" /\ UNCHANGED lineVars
    BY <1>1 DEF lineVars, LineInv
  <1>2. CASE NextToSend # "nothing"
    <2>1. wire = <<>>
      BY <1>2 DEF NextToSend, PendingTransaction, LineInv
    <2>2. SendDMXBuffer => LineInv'
      BY <2>1, IdleLine DEF SendDMXBuffer, CommandIds
    <2>3. SendQueuedRDMCommand => LineInv'
      BY <2>1, IdleLine, DispatchLine
      DEF SendQueuedRDMCommand, SendOrFail, CommandIds
    <2>4. SendDiscoveryStart \/ SendDiscoveryStat \/ FetchNextUID => LineInv'
      BY <2>1, IdleLine
      DEF SendDiscoveryStart, SendDiscoveryStat, FetchNextUID, CommandIds
    <2> QED  BY <1>2, <2>2, <2>3, <2>4 DEF MaybeSendNextRequest
  <1> QED  BY <1>1, <1>2 DEF MaybeSendNextRequest

\* HandleMessage leaves the line idle before it comes to the handler.
LEMMA AnswerLine ==
    ASSUME LineInv, NEW id, HandleMessage(id)
    PROVE  Rest = <<>> /\ m_expected_command = id
  <1>1. wire # <<>> /\ Head(wire).id = id
    BY DEF HandleMessage
  <1>2. PICK c : wire = <<c>> /\ m_expected_command = c.id
    BY <1>1 DEF LineInv
  <1>3. Head(<<c>>) = c /\ Tail(<<c>>) = <<>>
    OBVIOUS
  <1> QED  BY <1>1, <1>2, <1>3 DEF Rest

\* A response frees the line, and its handler sends one command at most.
LEMMA AnsweredLine == LineInv /\ WidgetAnswers => LineInv'
  <1> SUFFICES ASSUME LineInv, WidgetAnswers PROVE LineInv'
    OBVIOUS
  <1>1. CASE \E id : HandleMessage(id) /\ NothingSent(Rest)
    BY <1>1, AnswerLine, IdleLine
  <1>2. CASE HandleSetFilterResponse
    BY <1>2, AnswerLine, IdleLine, DispatchLine DEF HandleSetFilterResponse
  <1> QED
    BY <1>1, <1>2
    DEF WidgetAnswers, HandleSingleTXResponse, HandleDiscoveryAutoResponse,
        DiscoverStatUnfinished, DiscoverStatEnds, DiscoverStatFinished,
        DiscoverStatFailed, HandleRemoteUIDResponse, RawRDMUnsupported,
        HandleRawRDMResponse, HandleGenericRDMResponse

\* The widget starts with nothing sent.
LEMMA LineInit == Init => LineInv
  BY DEF Init, LineInv

\* Only MaybeSendNextRequest and the handlers of responses touch the line.
LEMMA LineNext == LineInv /\ [Next]_vars => LineInv'
  <1> SUFFICES ASSUME LineInv, [Next]_vars PROVE LineInv'
    OBVIOUS
  <1>1. CASE MaybeSendNextRequest
    BY <1>1, SendingLine
  <1>2. CASE WidgetAnswers
    BY <1>2, AnsweredLine
  <1>3. CASE UNCHANGED lineVars
    BY <1>3 DEF lineVars, LineInv
  <1> QED
    BY <1>1, <1>2, <1>3
    DEF Next, vars, SendDMX, SendRDMRequest, RunIncrementalDiscovery,
        CheckDiscoveryStatus, Stop

\* The line is in order in every reachable state.
LEMMA LineInvariant == Spec => []LineInv
  BY LineInit, LineNext, PTL DEF Spec

\* Frames, requests and discovery steps share one transaction:
\* MaybeSendNextRequest sends nothing before the last command is answered, and
\* HandleMessage gets no response it calls unexpected.
THEOREM Transaction == Spec => []OneTransaction
  <1>1. ASSUME LineInv PROVE OneTransaction
    <2>1. CASE wire = <<>>
      BY <2>1 DEF OneTransaction
    <2>2. CASE wire # <<>>
      <3>1. PICK c : wire = <<c>> /\ m_expected_command = c.id
        BY <1>1, <2>2 DEF LineInv
      <3>2. Head(<<c>>) = c /\ Len(<<c>>) = 1
        OBVIOUS
      <3> QED  BY <3>1, <3>2 DEF OneTransaction
    <2> QED  BY <2>1, <2>2
  <1> QED  BY <1>1, LineInvariant, PTL

-----------------------------------------------------------------------------
(* The status timeout *)

\* The types of what a discovery keeps.
FlagTypes ==
    /\ m_discovery_callback \in BOOLEAN
    /\ m_disc_stat_timeout_id \in BOOLEAN
    /\ failures \in Nat
    /\ late \in BOOLEAN

\* Where a discovery is between two of its steps.  The timeout is registered
\* from the first command to the answer that ends the search, and no step is
\* waiting while the answer to one is outstanding.
DiscoverySteps ==
    /\ m_expected_command \in {"DISCOVER_AUTO", "DISCOVER_STATUS"} =>
          m_disc_stat_timeout_id /\ m_discovery_state = "NO_DISCOVERY_ACTION"
    /\ m_expected_command = "REMOTE_UID" =>
          /\ m_discovery_callback /\ ~ m_disc_stat_timeout_id
          /\ m_discovery_state = "NO_DISCOVERY_ACTION"
    /\ m_discovery_state \in {"DISCOVER_AUTO_REQUIRED", "FETCH_UID_REQUIRED"} =>
          m_discovery_callback /\ ~ m_disc_stat_timeout_id
    /\ m_discovery_state = "DISCOVER_STATUS_REQUIRED" => m_disc_stat_timeout_id

\* While no write failed and no answer came late, the timeout is registered
\* exactly when its id is held, for a discovery whose callback is still there.
TimeoutInv ==
    /\ FlagTypes
    /\ stopped => ~ sending
    /\ failures = 0 /\ ~ late =>
          /\ timers = IF m_disc_stat_timeout_id THEN 1 ELSE 0
          /\ m_disc_stat_timeout_id => m_discovery_callback
          /\ ~ stopped => DiscoverySteps

\* No discovery runs when the widget starts.
LEMMA TimeoutInit == Init => TimeoutInv
  <1> SUFFICES ASSUME Init PROVE TimeoutInv
    OBVIOUS
  <1>1. /\ ~ m_discovery_callback /\ m_discovery_callback \in BOOLEAN
        /\ ~ m_disc_stat_timeout_id /\ m_disc_stat_timeout_id \in BOOLEAN
        /\ ~ sending /\ late \in BOOLEAN
    BY Zenon DEF Init
  <1>2. /\ timers = 0 /\ failures = 0 /\ m_expected_command = "RESERVED"
        /\ m_discovery_state = "NO_DISCOVERY_ACTION"
    BY DEF Init
  <1> QED  BY <1>1, <1>2 DEF TimeoutInv, FlagTypes, DiscoverySteps

\* The callback is gone once it was run, and so is the timeout once it is
\* removed.
LEMMA CallbackRun ==
    RunDiscoveryCallback =>
        ~ m_discovery_callback' /\ m_discovery_callback' \in BOOLEAN
  BY Zenon DEF RunDiscoveryCallback

\* StopDiscovery removes the one timeout that is registered.
LEMMA TimeoutRemoved ==
    StopDiscovery =>
        /\ ~ m_disc_stat_timeout_id' /\ m_disc_stat_timeout_id' \in BOOLEAN
        /\ timers = (IF m_disc_stat_timeout_id THEN 1 ELSE 0) => timers' = 0
  <1> SUFFICES ASSUME StopDiscovery
      PROVE  /\ ~ m_disc_stat_timeout_id' /\ m_disc_stat_timeout_id' \in BOOLEAN
             /\ timers = (IF m_disc_stat_timeout_id THEN 1 ELSE 0) => timers' = 0
    OBVIOUS
  <1>1. ~ m_disc_stat_timeout_id' /\ m_disc_stat_timeout_id' \in BOOLEAN
    BY Zenon DEF StopDiscovery
  <1>2. timers' = IF m_disc_stat_timeout_id THEN timers - 1 ELSE timers
    BY DEF StopDiscovery
  <1> QED  BY <1>1, <1>2

\* A step that leaves discovery alone and sends no command of it.
LEMMA OtherSteps ==
    ASSUME TimeoutInv,
           UNCHANGED <<m_discovery_callback, m_discovery_state,
                       m_disc_stat_timeout_id, timers, late, stopped>>,
           stopped => ~ sending',
           \/ UNCHANGED failures
           \/ failures' = failures + 1,
           m_expected_command' = m_expected_command
             \/ m_expected_command' \notin
                    {"DISCOVER_AUTO", "DISCOVER_STATUS", "REMOTE_UID"}
    PROVE  TimeoutInv'
  BY DEF TimeoutInv, FlagTypes, DiscoverySteps

\* What a request sends.
LEMMA RequestSends ==
    ASSUME NEW line,
           \/ SendQueuedRDMCommand
           \/ DispatchRequest(line)
           \/ NothingSent(line)
           \/ SendDMXBuffer
    PROVE  /\ UNCHANGED failures \/ failures' = failures + 1
           /\ m_expected_command' \notin
                  {"DISCOVER_AUTO", "DISCOVER_STATUS", "REMOTE_UID"}
  BY DEF SendQueuedRDMCommand, DispatchRequest, SendDMXBuffer, SendOrFail,
         Sent, NotSent, NothingSent

\* The send loop: the first discovery command registers the timeout.
LEMMA SendingTimeout ==
    ASSUME TimeoutInv, MaybeSendNextRequest
    PROVE  TimeoutInv'
  <1>0. sending /\ ~stopped /\ UNCHANGED <<stopped, late>>
    BY DEF TimeoutInv, MaybeSendNextRequest
  <1>1. CASE UNCHANGED lineVars /\ UNCHANGED discoveryVars
    BY <1>0, <1>1, OtherSteps DEF lineVars, discoveryVars
  <1>2. CASE (SendDMXBuffer \/ SendQueuedRDMCommand) /\ UNCHANGED discoveryVars
    BY <1>0, <1>2, RequestSends, OtherSteps DEF discoveryVars
  <1>3. CASE /\ NextToSend = "DISCOVER_AUTO_REQUIRED"
             /\ SendDiscoveryStart
    <2>1. m_discovery_state = "DISCOVER_AUTO_REQUIRED"
      BY <1>3 DEF NextToSend
    <2>2. CASE Sent(wire, "DISCOVER_AUTO", 0, None)
               /\ m_disc_stat_timeout_id' = TRUE /\ timers' = timers + 1
               /\ UNCHANGED m_discovery_callback
      <3>1. m_disc_stat_timeout_id' /\ m_disc_stat_timeout_id' \in BOOLEAN
        BY <2>2, Zenon
      <3>2. m_discovery_state' = "NO_DISCOVERY_ACTION"
        BY <1>3 DEF SendDiscoveryStart
      <3> QED
        BY <1>0, <2>1, <2>2, <3>1, <3>2
        DEF Sent, TimeoutInv, FlagTypes, DiscoverySteps
    <2>3. CASE NotSent(wire) /\ RunDiscoveryCallback
               /\ UNCHANGED m_disc_stat_timeout_id
      BY <1>0, <2>3, CallbackRun DEF NotSent, TimeoutInv, FlagTypes
    <2> QED  BY <1>3, <2>2, <2>3 DEF SendDiscoveryStart
  <1>4. CASE /\ NextToSend = "DISCOVER_STATUS_REQUIRED"
             /\ SendDiscoveryStat
    <2>1. m_discovery_state = "DISCOVER_STATUS_REQUIRED"
      BY <1>4 DEF NextToSend
    <2> QED
      BY <1>0, <1>4, <2>1, CallbackRun
      DEF SendDiscoveryStat, Sent, NotSent, TimeoutInv, FlagTypes,
          DiscoverySteps
  <1>5. CASE /\ NextToSend = "FETCH_UID_REQUIRED"
             /\ FetchNextUID
    <2>1. m_discovery_state = "FETCH_UID_REQUIRED"
      BY <1>5 DEF NextToSend
    <2> QED
      BY <1>0, <1>5, <2>1
      DEF FetchNextUID, Sent, NotSent, TimeoutInv, FlagTypes, DiscoverySteps
  <1> QED
    BY <1>1, <1>2, <1>3, <1>4, <1>5 DEF MaybeSendNextRequest

\* The calls of the client and the timer.
LEMMA CallTimeout ==
    ASSUME TimeoutInv,
           \/ SendDMX
           \/ \E r \in Requests : SendRDMRequest(r)
           \/ RunIncrementalDiscovery
           \/ CheckDiscoveryStatus
           \/ Stop
    PROVE  TimeoutInv'
  <1>1. CASE SendDMX
    BY <1>1, OtherSteps DEF SendDMX, Callable, discoveryVars, lineVars
  <1>2. CASE \E r \in Requests : SendRDMRequest(r)
    BY <1>2, OtherSteps DEF SendRDMRequest, QueueMayCall, discoveryVars, lineVars
  <1>3. CASE RunIncrementalDiscovery
    BY <1>3
    DEF RunIncrementalDiscovery, QueueMayCall, lineVars, TimeoutInv, FlagTypes,
        DiscoverySteps
  <1>4. CASE CheckDiscoveryStatus
    BY <1>4
    DEF CheckDiscoveryStatus, Callable, lineVars, TimeoutInv, FlagTypes,
        DiscoverySteps
  <1>5. CASE Stop
    <2>1. stopped' /\ ~ sending'
      BY <1>5, Zenon DEF Stop, Callable
    <2> QED
      BY <1>5, <2>1, CallbackRun, TimeoutRemoved
      DEF Stop, lineVars, TimeoutInv, FlagTypes
  <1> QED  BY <1>1, <1>2, <1>3, <1>4, <1>5

\* The responses: the one that ends the search removes the timeout.
LEMMA AnswerTimeout ==
    ASSUME LineInv, TimeoutInv, WidgetAnswers
    PROVE  TimeoutInv'
  <1>0. ASSUME NEW id, HandleMessage(id)
        PROVE  /\ ~stopped /\ m_expected_command = id
               /\ UNCHANGED <<stopped, late>>
    BY <1>0, AnswerLine DEF HandleMessage, Callable
  <1>1. CASE HandleSingleTXResponse
    BY <1>1, <1>0, RequestSends, OtherSteps
    DEF HandleSingleTXResponse, discoveryVars
  <1>2. CASE HandleDiscoveryAutoResponse
    BY <1>2, <1>0, CallbackRun, TimeoutRemoved
    DEF HandleDiscoveryAutoResponse, NothingSent, TimeoutInv, FlagTypes,
        DiscoverySteps
  <1>3. CASE DiscoverStatUnfinished
    BY <1>3, <1>0, RequestSends, OtherSteps
    DEF DiscoverStatUnfinished, discoveryVars
  <1>4. CASE DiscoverStatFinished
    BY <1>4, <1>0, CallbackRun, TimeoutRemoved
    DEF DiscoverStatFinished, NothingSent, TimeoutInv, FlagTypes, DiscoverySteps
  <1>5. CASE DiscoverStatFailed
    BY <1>5, <1>0, CallbackRun, TimeoutRemoved
    DEF DiscoverStatFailed, NothingSent, TimeoutInv, FlagTypes, DiscoverySteps
  <1>6. CASE HandleRemoteUIDResponse
    BY <1>6, <1>0, CallbackRun, TimeoutRemoved
    DEF HandleRemoteUIDResponse, NothingSent, TimeoutInv, FlagTypes, DiscoverySteps
  <1>7. CASE RawRDMUnsupported
    BY <1>7, <1>0, RequestSends, OtherSteps DEF RawRDMUnsupported, discoveryVars
  <1>8. CASE HandleRawRDMResponse
    BY <1>8, <1>0, RequestSends, OtherSteps
    DEF HandleRawRDMResponse, discoveryVars
  <1>9. CASE HandleGenericRDMResponse
    BY <1>9, <1>0, RequestSends, OtherSteps
    DEF HandleGenericRDMResponse, discoveryVars
  <1>10. CASE HandleSetFilterResponse
    BY <1>10, <1>0, RequestSends, OtherSteps
    DEF HandleSetFilterResponse, discoveryVars
  <1> QED
    BY <1>1, <1>2, <1>3, <1>4, <1>5, <1>6, <1>7, <1>8, <1>9, <1>10
    DEF WidgetAnswers, DiscoverStatEnds

\* Every step keeps the timeout and the callback together.
LEMMA TimeoutNext == LineInv /\ TimeoutInv /\ [Next]_vars => TimeoutInv'
  <1> SUFFICES ASSUME LineInv, TimeoutInv, [Next]_vars PROVE TimeoutInv'
    OBVIOUS
  <1>1. CASE UNCHANGED vars
    BY <1>1, OtherSteps DEF vars, discoveryVars, lineVars, TimeoutInv
  <1> QED
    BY <1>1, SendingTimeout, CallTimeout, AnswerTimeout DEF Next

\* As long as no write fails and no discovery command is answered late,
\* StopDiscovery removes the timeout of every discovery before its callback
\* runs: CheckDiscoveryStatus is never called without one.
THEOREM Tracked == Spec => []TimeoutTracked
  <1>1. TimeoutInv => TimeoutTracked
    BY DEF TimeoutInv, FlagTypes, TimeoutTracked
  <1> QED  BY <1>1, TimeoutInit, TimeoutNext, LineInvariant, PTL DEF Spec
-----------------------------------------------------------------------------
(* The index map *)

\* An index the map has is the place of its UID in the widget's list.
IndexOK ==
    \A u \in DOMAIN m_uid_index_map :
        /\ m_uid_index_map[u] \in 1 .. Len(list)
        /\ list[m_uid_index_map[u]] = u

\* There is an index to fetch, and it is fetched before anything can change it.
FetchOK ==
    m_discovery_state = "FETCH_UID_REQUIRED" =>
        /\ m_uid_count \in 1 .. Len(list)
        /\ m_expected_command \notin {"DISCOVER_STATUS", "REMOTE_UID"}

\* A command on the wire: the index fetched is the one HandleRemoteUIDResponse
\* takes it for, and a request goes to the responder it is for.
CommandOK(c) ==
    /\ c.id = "REMOTE_UID" =>
          c.index = m_uid_count /\ m_uid_count \in 1 .. Len(list)
    /\ c.index # 0 /\ c.request # None => list[c.index] = c.request.dest

\* The filter is set for a broadcast, whose request stays until the answer.
FilterOK ==
    m_expected_command = "SET_FILTER" /\ ~ stopped =>
        m_pending_rdm_request # None /\ IsBroadcast(m_pending_rdm_request)

\* Steps of a discovery that wait for their turn.
Steps == {"NO_DISCOVERY_ACTION", "DISCOVER_AUTO_REQUIRED",
          "DISCOVER_STATUS_REQUIRED", "FETCH_UID_REQUIRED"}

\* The inductive invariant behind MapMatchesWidget.  It asks for more than the
\* property does: the map is right during a discovery as well.
MapInv ==
    /\ list \in Seq(UIDs)
    /\ m_discovery_state \in Steps
    /\ m_pending_rdm_request # None => owed
    /\ FilterOK
    /\ failures = 0 =>
          /\ IndexOK
          /\ FetchOK
          /\ wire # <<>> => CommandOK(Head(wire))

\* No request, no index, nothing on the wire.
LEMMA MapInit == Init => MapInv
  <1> SUFFICES ASSUME Init PROVE MapInv
    OBVIOUS
  <1>1. /\ list = <<>> /\ m_pending_rdm_request = None /\ wire = <<>>
        /\ m_expected_command = "RESERVED" /\ m_uid_index_map = <<>>
        /\ m_discovery_state = "NO_DISCOVERY_ACTION"
    BY DEF Init
  <1>2. <<>> \in Seq(UIDs)
    OBVIOUS
  <1>3. IndexOK
    BY <1>1 DEF IndexOK
  <1> QED  BY <1>1, <1>2, <1>3 DEF MapInv, FilterOK, FetchOK, Steps

\* What is sent on an idle line.
LEMMA SentLine ==
    ASSUME NEW id, NEW index, NEW request, Sent(<<>>, id, index, request)
    PROVE  /\ wire' # <<>>
           /\ Head(wire') = [id |-> id, index |-> index, request |-> request]
           /\ m_expected_command' = id /\ failures' = failures
  <1> DEFINE c == [id |-> id, index |-> index, request |-> request]
  <1>1. wire' = <<c>>
    BY DEF Sent
  <1>2. <<c>> # <<>> /\ Head(<<c>>) = c
    OBVIOUS
  <1>3. wire' # <<>> /\ Head(wire') = c
    BY <1>1, <1>2
  <1> QED  BY <1>3 DEF Sent

\* A step that sends nothing of a discovery and leaves the map, the list and
\* the count alone, up to what it puts on the wire.
LEMMA MapStays ==
    ASSUME MapInv, failures \in Nat,
           UNCHANGED <<list, m_uid_index_map, m_uid_count>>,
           failures' = failures \/ failures' = failures + 1,
           \/ m_discovery_state' = m_discovery_state
           \/ m_discovery_state' \in Steps \ {"FETCH_UID_REQUIRED"},
           \/ UNCHANGED <<wire, m_expected_command>>
           \/ wire' = <<>> /\ m_expected_command' = "RESERVED"
           \/ /\ m_expected_command' \notin {"DISCOVER_STATUS", "REMOTE_UID"}
              /\ failures' = 0 => CommandOK(Head(wire))',
           m_pending_rdm_request' # None => owed',
           FilterOK'
    PROVE  MapInv'
  <1>1. list' \in Seq(UIDs) /\ m_discovery_state' \in Steps
    BY DEF MapInv
  <1>2. ASSUME failures' = 0
        PROVE  IndexOK' /\ FetchOK' /\ (wire' # <<>> => CommandOK(Head(wire))')
    <2>1. failures = 0 /\ IndexOK /\ FetchOK
          /\ (wire # <<>> => CommandOK(Head(wire)))
      BY <1>2 DEF MapInv
    <2>2. IndexOK'
      BY <2>1 DEF IndexOK
    <2>3. FetchOK'
      BY <2>1 DEF FetchOK
    <2>4. wire' # <<>> => CommandOK(Head(wire))'
      BY <1>2, <2>1 DEF CommandOK
    <2> QED  BY <2>2, <2>3, <2>4
  <1> QED  BY <1>1, <1>2 DEF MapInv

\* What requests, frames and answers to them leave alone.
DiscoveryKept ==
    UNCHANGED <<list, m_uid_index_map, m_uid_count, m_discovery_state, stopped>>

\* Nothing is sent, and the request is answered.
LEMMA NothingMap ==
    ASSUME MapInv, failures \in Nat, DiscoveryKept, NothingSent(<<>>),
           m_pending_rdm_request' # None => owed'
    PROVE  MapInv'
  <1>1. FilterOK'
    BY DEF NothingSent, FilterOK
  <1> QED  BY <1>1, MapStays DEF NothingSent, DiscoveryKept

\* A request is sent, under an index that is the place of its responder.
LEMMA SendOrFailMap ==
    ASSUME MapInv, failures \in Nat, DiscoveryKept, m_pending_rdm_request # None,
           NEW id \in {"RAW_RDM", "REMOTE", "QUEUED_GET", "SET_FILTER"}, NEW index,
           failures = 0 /\ index # 0 => list[index] = m_pending_rdm_request.dest,
           id = "SET_FILTER" => IsBroadcast(m_pending_rdm_request),
           SendOrFail(<<>>, id, index)
    PROVE  MapInv'
  <1> DEFINE c == [id |-> id, index |-> index, request |-> m_pending_rdm_request]
  <1>1. CASE Sent(<<>>, id, index, m_pending_rdm_request)
             /\ UNCHANGED <<m_pending_rdm_request, owed>>
    <2>1. /\ Head(wire') = c /\ m_expected_command' = id /\ failures' = failures
      BY <1>1, SentLine
    <2>2. c.id = id /\ c.index = index /\ c.request = m_pending_rdm_request
      OBVIOUS
    <2> HIDE DEF c
    <2>3. failures' = 0 => CommandOK(Head(wire))'
      BY <2>1, <2>2 DEF CommandOK, DiscoveryKept
    <2>4. FilterOK'
      BY <1>1, <2>1 DEF FilterOK, IsBroadcast
    <2>5. m_pending_rdm_request' # None => owed'
      BY <1>1 DEF MapInv
    <2>6. m_expected_command' \notin {"DISCOVER_STATUS", "REMOTE_UID"}
      BY <2>1
    <2> QED  BY <2>1, <2>3, <2>4, <2>5, <2>6, MapStays DEF DiscoveryKept
  <1>2. CASE NotSent(<<>>) /\ RunRDMCallback
    <2>1. FilterOK'
      BY <1>2 DEF NotSent, FilterOK
    <2> QED
      BY <1>2, <2>1, MapStays DEF NotSent, RunRDMCallback, DiscoveryKept
  <1> QED  BY <1>1, <1>2 DEF SendOrFail

\* DispatchRequest sends a request for all, or for a responder in the map.
LEMMA DispatchMap ==
    ASSUME MapInv, failures \in Nat, DiscoveryKept, m_pending_rdm_request # None,
           IsBroadcast(m_pending_rdm_request) \/ Known(m_pending_rdm_request),
           DispatchRequest(<<>>)
    PROVE  MapInv'
  <1> DEFINE request == m_pending_rdm_request
             index == m_uid_index_map[request.dest]
  <1>1. failures = 0 /\ Known(request) => list[index] = request.dest
    BY DEF MapInv, IndexOK, Known
  <1>2. CASE NothingSent(<<>>) /\ RunRDMCallback
    BY <1>2, NothingMap DEF RunRDMCallback
  <1>3. CASE Known(request) /\ SendOrFail(<<>>, "QUEUED_GET", index)
    BY <1>1, <1>3, SendOrFailMap
  <1>4. CASE IsBroadcast(request) /\ SendOrFail(<<>>, "REMOTE", 0)
    BY <1>4, SendOrFailMap
  <1>5. CASE ~ IsBroadcast(request) /\ SendOrFail(<<>>, "REMOTE", index)
    BY <1>1, <1>5, SendOrFailMap
  <1> QED  BY <1>2, <1>3, <1>4, <1>5 DEF DispatchRequest

\* An iteration of the loop.
LEMMA SendingMap ==
    ASSUME LineInv, TimeoutInv, MapInv, MaybeSendNextRequest
    PROVE  MapInv'
  <1>0. failures \in Nat /\ UNCHANGED <<list, stopped>>
    BY DEF TimeoutInv, FlagTypes, MaybeSendNextRequest
  <1>1. CASE UNCHANGED <<requestVars, discoveryVars, lineVars>>
    <2>1. FilterOK'
      BY <1>0, <1>1 DEF requestVars, lineVars, MapInv, FilterOK, IsBroadcast
    <2> QED
      BY <1>0, <1>1, <2>1, MapStays
      DEF requestVars, discoveryVars, lineVars, MapInv
  <1>2. ASSUME NextToSend # "nothing"
        PROVE  wire = <<>> /\ m_expected_command = "RESERVED"
    BY <1>2 DEF NextToSend, PendingTransaction, LineInv
  <1>3. CASE NextToSend = "dmx" /\ SendDMXBuffer
             /\ UNCHANGED <<requestVars, discoveryVars>>
    <2> DEFINE c == [id |-> "SINGLE_TX", index |-> 0, request |-> None]
    <2>1. wire = <<>>
      BY <1>2, <1>3
    <2>2. m_pending_rdm_request' # None => owed'
      BY <1>3 DEF requestVars, MapInv
    <2>3. CASE Sent(wire, "SINGLE_TX", 0, None)
      <3>1. /\ Head(wire') = c /\ m_expected_command' = "SINGLE_TX"
            /\ failures' = failures
        BY <2>1, <2>3, SentLine
      <3>2. c.id = "SINGLE_TX" /\ c.index = 0
        OBVIOUS
      <3> HIDE DEF c
      <3>3. CommandOK(Head(wire))' /\ FilterOK'
        BY <3>1, <3>2 DEF CommandOK, FilterOK
      <3> QED  BY <1>0, <1>3, <2>2, <3>1, <3>3, MapStays DEF discoveryVars
    <2>4. CASE NotSent(wire)
      <3>1. FilterOK' /\ wire' = <<>> /\ m_expected_command' = "RESERVED"
            /\ failures' = failures + 1
        BY <2>1, <2>4 DEF NotSent, FilterOK
      <3> QED  BY <1>0, <1>3, <2>2, <3>1, MapStays DEF discoveryVars
    <2> QED  BY <1>3, <2>3, <2>4 DEF SendDMXBuffer
  <1>4. CASE NextToSend = "rdm" /\ SendQueuedRDMCommand /\ UNCHANGED discoveryVars
    <2>1. wire = <<>> /\ m_pending_rdm_request # None
      BY <1>2, <1>4 DEF NextToSend, MapInv, Steps
    <2>2. DiscoveryKept
      BY <1>0, <1>4 DEF discoveryVars, DiscoveryKept
    <2>3. CASE NothingSent(wire) /\ RunRDMCallback
      BY <1>0, <2>1, <2>2, <2>3, NothingMap DEF RunRDMCallback
    <2>4. CASE SendOrFail(wire, "RAW_RDM", 0)
      BY <1>0, <2>1, <2>2, <2>4, SendOrFailMap
    <2>5. CASE IsBroadcast(m_pending_rdm_request)
               /\ SendOrFail(wire, "SET_FILTER", 0)
      BY <1>0, <2>1, <2>2, <2>5, SendOrFailMap
    <2>6. CASE (IsBroadcast(m_pending_rdm_request) \/ Known(m_pending_rdm_request))
               /\ DispatchRequest(wire)
      BY <1>0, <2>1, <2>2, <2>6, DispatchMap
    <2> QED  BY <1>4, <2>3, <2>4, <2>5, <2>6 DEF SendQueuedRDMCommand
  <1>5. ASSUME NextToSend # "nothing",
               SendDiscoveryStart \/ SendDiscoveryStat,
               UNCHANGED <<requestVars, m_uid_count, m_uid_index_map>>
        PROVE  MapInv'
    <2>1. /\ wire = <<>>
          /\ m_discovery_state' = "NO_DISCOVERY_ACTION"
          /\ m_discovery_state' \in Steps \ {"FETCH_UID_REQUIRED"}
          /\ m_pending_rdm_request' # None => owed'
      BY <1>2, <1>5
      DEF Steps, SendDiscoveryStart, SendDiscoveryStat, requestVars, MapInv
    <2>2. ASSUME NEW id \in {"DISCOVER_AUTO", "DISCOVER_STATUS"},
                 Sent(wire, id, 0, None)
          PROVE  MapInv'
      <3> DEFINE c == [id |-> id, index |-> 0, request |-> None]
      <3>1. /\ Head(wire') = c /\ m_expected_command' = id
            /\ failures' = failures
        BY <2>1, <2>2, SentLine
      <3>2. c.id = id /\ c.index = 0
        OBVIOUS
      <3> HIDE DEF c
      <3>3. CommandOK(Head(wire))' /\ FilterOK' /\ FetchOK'
        BY <2>1, <3>1, <3>2 DEF CommandOK, FilterOK, FetchOK
      <3>4. failures' = 0 => IndexOK'
        BY <1>0, <1>5, <3>1 DEF MapInv, IndexOK
      <3> QED  BY <1>0, <2>1, <3>3, <3>4 DEF MapInv
    <2>3. CASE NotSent(wire)
      <3>1. FilterOK' /\ wire' = <<>> /\ m_expected_command' = "RESERVED"
            /\ failures' = failures + 1
        BY <2>1, <2>3 DEF NotSent, FilterOK
      <3> QED  BY <1>0, <1>5, <2>1, <3>1, MapStays
    <2> QED  BY <1>5, <2>2, <2>3 DEF SendDiscoveryStart, SendDiscoveryStat
  <1>6. CASE NextToSend = "FETCH_UID_REQUIRED" /\ FetchNextUID
             /\ UNCHANGED <<requestVars, m_uid_count, m_uid_index_map>>
    <2>1. /\ wire = <<>> /\ m_discovery_state = "FETCH_UID_REQUIRED"
          /\ m_discovery_state' = "NO_DISCOVERY_ACTION"
          /\ m_discovery_state' \in Steps \ {"FETCH_UID_REQUIRED"}
          /\ m_pending_rdm_request' # None => owed'
      BY <1>2, <1>6 DEF Steps, NextToSend, FetchNextUID, requestVars, MapInv
    <2>2. CASE Sent(wire, "REMOTE_UID", m_uid_count, None)
      <3> DEFINE c == [id |-> "REMOTE_UID", index |-> m_uid_count, request |-> None]
      <3>1. /\ Head(wire') = c /\ m_expected_command' = "REMOTE_UID"
            /\ failures' = failures
        BY <2>1, <2>2, SentLine
      <3>2. c.index = m_uid_count /\ c.request = None
        OBVIOUS
      <3> HIDE DEF c
      <3>3. FilterOK' /\ FetchOK'
        BY <2>1, <3>1 DEF FilterOK, FetchOK
      <3>4. failures' = 0 => IndexOK' /\ CommandOK(Head(wire))'
        BY <1>0, <1>6, <2>1, <3>1, <3>2 DEF MapInv, IndexOK, FetchOK, CommandOK
      <3> QED  BY <1>0, <2>1, <3>3, <3>4 DEF MapInv
    <2>3. CASE NotSent(wire)
      <3>1. FilterOK' /\ wire' = <<>> /\ m_expected_command' = "RESERVED"
            /\ failures' = failures + 1
        BY <2>1, <2>3 DEF NotSent, FilterOK
      <3> QED  BY <1>0, <1>6, <2>1, <3>1, MapStays
    <2> QED  BY <1>6, <2>2, <2>3 DEF FetchNextUID
  <1> QED  BY <1>1, <1>3, <1>4, <1>5, <1>6 DEF MaybeSendNextRequest

\* Calls: the queue, DMX and the status timeout send nothing themselves.
LEMMA CallMap ==
    ASSUME TimeoutInv, MapInv,
           \/ SendDMX
           \/ \E r \in Requests : SendRDMRequest(r)
           \/ RunIncrementalDiscovery
           \/ CheckDiscoveryStatus
           \/ Stop
           \/ UNCHANGED vars
    PROVE  MapInv'
  <1>0. failures \in Nat
    BY DEF TimeoutInv, FlagTypes
  <1>1. CASE SendDMX \/ RunIncrementalDiscovery \/ CheckDiscoveryStatus
             \/ UNCHANGED vars
    <2>1. /\ UNCHANGED <<list, m_uid_index_map, m_uid_count, wire,
                         m_expected_command, failures, m_pending_rdm_request,
                         owed, stopped>>
          /\ \/ m_discovery_state' = m_discovery_state
             \/ m_discovery_state' \in Steps \ {"FETCH_UID_REQUIRED"}
      BY <1>1 DEF Steps, SendDMX, RunIncrementalDiscovery, CheckDiscoveryStatus, vars,
                  requestVars, discoveryVars, lineVars
    <2>2. FilterOK' /\ (m_pending_rdm_request' # None => owed')
      BY <2>1 DEF MapInv, FilterOK, IsBroadcast
    <2> QED  BY <1>0, <2>1, <2>2, MapStays
  <1>2. ASSUME NEW r \in Requests, SendRDMRequest(r) PROVE MapInv'
    <2>1. m_pending_rdm_request = None /\ ~ stopped
      BY <1>2 DEF SendRDMRequest, QueueMayCall, MapInv
    <2>2. owed'
      BY <1>2, Zenon DEF SendRDMRequest
    <2>3. UNCHANGED <<list, m_uid_index_map, m_uid_count, wire, m_discovery_state,
                      m_expected_command, failures, stopped>>
      BY <1>2 DEF SendRDMRequest, discoveryVars, lineVars
    <2>4. FilterOK'
      BY <2>1, <2>3 DEF MapInv, FilterOK
    <2> QED  BY <1>0, <2>2, <2>3, <2>4, MapStays
  <1>3. CASE Stop
    <2>1. stopped'
      BY <1>3, Zenon DEF Stop
    <2>2. /\ m_pending_rdm_request' = None
          /\ UNCHANGED <<list, m_uid_index_map, m_uid_count, wire,
                         m_discovery_state, m_expected_command, failures>>
      BY <1>3 DEF Stop, RunRDMCallback, lineVars
    <2>3. FilterOK'
      BY <2>1 DEF FilterOK
    <2> QED  BY <1>0, <2>2, <2>3, MapStays
  <1> QED  BY <1>1, <1>2, <1>3

\* The search of the widget ends: the map is cleared with the list.
LEMMA SearchEndsMap ==
    ASSUME MapInv, NothingSent(<<>>), ClearIndexMap,
           UNCHANGED <<m_pending_rdm_request, owed>>,
           list' \in Seq(UIDs), m_discovery_state' \in Steps,
           failures = 0 /\ m_discovery_state' = "FETCH_UID_REQUIRED" =>
               m_uid_count' \in 1 .. Len(list')
    PROVE  MapInv'
  <1>1. m_uid_index_map' = <<>>
    BY DEF ClearIndexMap
  <1>2. IndexOK'
    BY <1>1 DEF IndexOK
  <1> QED  BY <1>2 DEF MapInv, NothingSent, FilterOK, FetchOK

\* An answer of the widget.
LEMMA AnswerMap ==
    ASSUME LineInv, TimeoutInv, MapInv, WidgetAnswers
    PROVE  MapInv'
  <1>0. failures \in Nat
    BY DEF TimeoutInv, FlagTypes
  <1>1. ASSUME NEW id, HandleMessage(id)
        PROVE  /\ ~stopped /\ UNCHANGED stopped
               /\ m_expected_command = id /\ Rest = <<>>
               /\ wire # <<>> /\ Head(wire).id = id
    BY <1>1, AnswerLine DEF HandleMessage, Callable
  <1>2. CASE HandleSingleTXResponse \/ DiscoverStatUnfinished
    <2>1. /\ NothingSent(<<>>) /\ UNCHANGED <<m_pending_rdm_request, owed>>
          /\ DiscoveryKept
      BY <1>1, <1>2 DEF HandleSingleTXResponse, DiscoverStatUnfinished,
                        requestVars, discoveryVars, DiscoveryKept
    <2>2. m_pending_rdm_request' # None => owed'
      BY <2>1 DEF MapInv
    <2> QED  BY <1>0, <2>1, <2>2, NothingMap
  <1>3. CASE HandleDiscoveryAutoResponse
    <2>1. /\ NothingSent(<<>>) /\ UNCHANGED <<m_pending_rdm_request, owed>>
          /\ DiscoveryKept
      BY <1>1, <1>3 DEF HandleDiscoveryAutoResponse, requestVars, DiscoveryKept
    <2>2. m_pending_rdm_request' # None => owed'
      BY <2>1 DEF MapInv
    <2> QED  BY <1>0, <2>1, <2>2, NothingMap
  <1>4. CASE DiscoverStatFinished
    <2>1. /\ NothingSent(<<>>) /\ UNCHANGED <<m_pending_rdm_request, owed>>
          /\ ClearIndexMap /\ m_uid_count' = Len(list')
          /\ m_expected_command = "DISCOVER_STATUS"
      BY <1>1, <1>4 DEF DiscoverStatFinished, DevicesFound, requestVars
    <2>2. list' \in Seq(UIDs)
      BY <1>4, ConstantsAssumption DEF DiscoverStatFinished, MapInv
    <2>3. CASE list' # <<>> /\ m_discovery_state' = "FETCH_UID_REQUIRED"
      <3>1. Len(list') \in 1 .. Len(list')
        BY <2>2, <2>3
      <3> QED  BY <2>1, <2>2, <2>3, <3>1, SearchEndsMap DEF Steps
    <2>4. CASE UNCHANGED m_discovery_state
      <3>1. failures = 0 => m_discovery_state # "FETCH_UID_REQUIRED"
        BY <2>1 DEF MapInv, FetchOK
      <3>2. m_discovery_state' \in Steps
        BY <2>4 DEF MapInv
      <3> QED  BY <2>1, <2>2, <2>4, <3>1, <3>2, SearchEndsMap
    <2> QED  BY <1>4, <2>3, <2>4 DEF DiscoverStatFinished
  <1>5. CASE DiscoverStatFailed
    <2>1. /\ NothingSent(<<>>) /\ UNCHANGED <<m_pending_rdm_request, owed>>
          /\ ClearIndexMap /\ UNCHANGED m_discovery_state /\ list' = <<>>
          /\ m_expected_command = "DISCOVER_STATUS"
      BY <1>1, <1>5 DEF DiscoverStatFailed, requestVars
    <2>2. list' \in Seq(UIDs)
      BY <2>1
    <2>3. failures = 0 => m_discovery_state # "FETCH_UID_REQUIRED"
      BY <2>1 DEF MapInv, FetchOK
    <2>4. m_discovery_state' \in Steps
      BY <2>1 DEF MapInv
    <2> QED  BY <2>1, <2>2, <2>3, <2>4, SearchEndsMap
  <1>6. CASE HandleRemoteUIDResponse
    <2> DEFINE index == Head(wire).index
               uid == list[index]
    <2>1. /\ NothingSent(<<>>) /\ UNCHANGED <<m_pending_rdm_request, owed, list>>
          /\ wire # <<>> /\ Head(wire).id = "REMOTE_UID"
          /\ m_expected_command = "REMOTE_UID"
          /\ m_uid_count' = m_uid_count - 1
      BY <1>1, <1>6 DEF HandleRemoteUIDResponse, requestVars
    <2>2. /\ wire' = <<>> /\ m_expected_command' = "RESERVED"
          /\ failures' = failures
      BY <2>1 DEF NothingSent
    <2>3. \/ m_uid_index_map' =
                [u \in DOMAIN m_uid_index_map \cup {uid} |->
                    IF u = uid THEN m_uid_count ELSE m_uid_index_map[u]]
          \/ m_uid_index_map' = m_uid_index_map
      BY <1>6 DEF HandleRemoteUIDResponse
    <2>4. failures = 0 => index = m_uid_count /\ m_uid_count \in 1 .. Len(list)
      BY <2>1 DEF MapInv, CommandOK
    <2>5. failures = 0 => IndexOK'
      <3> HIDE DEF index
      <3> SUFFICES ASSUME failures = 0, NEW u \in DOMAIN m_uid_index_map'
                   PROVE  /\ m_uid_index_map'[u] \in 1 .. Len(list)
                          /\ list[m_uid_index_map'[u]] = u
        BY <2>1 DEF IndexOK
      <3>1. CASE u = uid /\ m_uid_index_map'[u] = m_uid_count
        BY <2>4, <3>1
      <3>2. CASE u \in DOMAIN m_uid_index_map
                 /\ m_uid_index_map'[u] = m_uid_index_map[u]
        BY <3>2 DEF MapInv, IndexOK
      <3> QED  BY <2>3, <3>1, <3>2
    <2>6. /\ m_discovery_state' \in Steps
          /\ failures = 0 /\ m_discovery_state' = "FETCH_UID_REQUIRED" =>
                m_uid_count' \in 1 .. Len(list)
      <3>1. CASE m_uid_count' > 0 /\ m_discovery_state' = "FETCH_UID_REQUIRED"
        <4>1. Len(list) \in Nat
          BY DEF MapInv
        <4>2. failures = 0 => m_uid_count' \in 1 .. Len(list)
          BY <2>1, <2>4, <3>1, <4>1
        <4> QED  BY <3>1, <4>2 DEF Steps
      <3>2. CASE UNCHANGED m_discovery_state
        BY <2>1, <3>2 DEF MapInv, FetchOK
      <3> QED  BY <1>6, <3>1, <3>2 DEF HandleRemoteUIDResponse
    <2> QED  BY <2>1, <2>2, <2>5, <2>6 DEF MapInv, FilterOK, FetchOK
  <1>7. CASE RawRDMUnsupported \/ HandleRawRDMResponse
    <2>1. NothingSent(<<>>) /\ DiscoveryKept
      BY <1>1, <1>7 DEF RawRDMUnsupported, HandleRawRDMResponse, discoveryVars,
                        DiscoveryKept
    <2>2. m_pending_rdm_request' # None => owed'
      BY <1>7 DEF RawRDMUnsupported, HandleRawRDMResponse, RunRDMCallback, MapInv
    <2> QED  BY <1>0, <2>1, <2>2, NothingMap
  <1>8. CASE HandleGenericRDMResponse
    <2>1. NothingSent(<<>>) /\ DiscoveryKept /\ RunRDMCallback
      BY <1>1, <1>8 DEF HandleGenericRDMResponse, discoveryVars, DiscoveryKept
    <2> QED  BY <1>0, <2>1, NothingMap DEF RunRDMCallback
  <1>9. CASE HandleSetFilterResponse
    <2>1. /\ DiscoveryKept
          /\ m_expected_command = "SET_FILTER" /\ Rest = <<>> /\ ~ stopped
      BY <1>1, <1>9 DEF HandleSetFilterResponse, discoveryVars, DiscoveryKept
    <2>2. m_pending_rdm_request # None /\ IsBroadcast(m_pending_rdm_request)
      BY <2>1 DEF MapInv, FilterOK
    <2>3. CASE DispatchRequest(<<>>)
      BY <1>0, <2>1, <2>2, <2>3, DispatchMap
    <2>4. CASE NothingSent(<<>>) /\ RunRDMCallback
      BY <1>0, <2>1, <2>4, NothingMap DEF RunRDMCallback
    <2> QED  BY <1>9, <2>1, <2>3, <2>4 DEF HandleSetFilterResponse
  <1> QED
    BY <1>2, <1>3, <1>4, <1>5, <1>6, <1>7, <1>8, <1>9
    DEF WidgetAnswers, DiscoverStatEnds

\* Every step keeps the map right.
LEMMA MapNext == LineInv /\ TimeoutInv /\ MapInv /\ [Next]_vars => MapInv'
  BY SendingMap, CallMap, AnswerMap DEF Next

\* As long as no write fails, the index a UID is mapped to is its place in the
\* widget's list, so a request never reaches another responder than the one it
\* is for: although timeouts may be late, searches may find what they like,
\* and frames and requests go between the steps of a discovery.
THEOREM MapMatches == Spec => []MapMatchesWidget
  <1>1. ASSUME LineInv, MapInv PROVE MapMatchesWidget
    <2> SUFFICES ASSUME failures = 0
                 PROVE  /\ \A u \in DOMAIN m_uid_index_map :
                              /\ m_uid_index_map[u] \in 1 .. Len(list)
                              /\ list[m_uid_index_map[u]] = u
                        /\ \A i \in 1 .. Len(wire) :
                              /\ wire[i].index # 0 /\ wire[i].request # None =>
                                    list[wire[i].index] = wire[i].request.dest
                              /\ wire[i].id = "REMOTE_UID" =>
                                    wire[i].index \in 1 .. Len(list)
      BY DEF MapMatchesWidget
    <2>1. \A u \in DOMAIN m_uid_index_map :
             /\ m_uid_index_map[u] \in 1 .. Len(list)
             /\ list[m_uid_index_map[u]] = u
      BY <1>1 DEF MapInv, IndexOK
    <2>2. ASSUME NEW i \in 1 .. Len(wire)
          PROVE  CommandOK(wire[i])
      <3>1. CASE wire = <<>>
        <4>1. Len(<<>>) = 0
          OBVIOUS
        <4> QED  BY <2>2, <3>1, <4>1
      <3>2. CASE \E c : wire = <<c>>
        <4>1. PICK c : wire = <<c>>
          BY <3>2
        <4>2. Len(<<c>>) = 1 /\ <<c>>[1] = c /\ Head(<<c>>) = c /\ <<c>> # <<>>
          OBVIOUS
        <4>3. CommandOK(Head(wire))
          BY <1>1, <4>1, <4>2 DEF MapInv
        <4>4. i = 1
          BY <2>2, <4>1, <4>2
        <4> QED  BY <4>1, <4>2, <4>3, <4>4
      <3> QED  BY <1>1, <3>1, <3>2 DEF LineInv
    <2> QED  BY <2>1, <2>2 DEF CommandOK
  <1> QED
    BY <1>1, LineInvariant, TimeoutInit, TimeoutNext, MapInit, MapNext, PTL
    DEF Spec
=============================================================================
