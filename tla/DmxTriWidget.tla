---------------------------- MODULE DmxTriWidget ----------------------------
(***************************************************************************)
(* The DMX-TRI USB widget (plugins/usbpro/DmxTriWidget.cpp), one of the    *)
(* controllers behind a DiscoverableQueueingRDMController.  DMX frames,    *)
(* RDM requests and the steps of a discovery, which the widget runs by     *)
(* itself, share one transaction: a command is sent when the response to   *)
(* the one before has come in.                                             *)
(*                                                                         *)
(* All code runs on one thread.  The loop of MaybeSendNextRequest takes    *)
(* one step per iteration (`sending'), and no other action comes in        *)
(* between, except what the queue calls from a callback the iteration ran  *)
(* (`returned').                                                           *)
(***************************************************************************)
EXTENDS Naturals, Sequences

CONSTANTS
    UIDs,              \* the responders there may be
    Manufacturers,     \* the manufacturers a broadcast may be for
    ALL_MANUFACTURERS,
    Requests,          \* the RDM requests the queue may send
    Lists,             \* what a discovery of the widget may find, in order
    MaxFailures,       \* bound on writes to the widget that fail
    MaxTimers,         \* bound on registered timeouts
    None

ASSUME ConstantsAssumption ==
    /\ ALL_MANUFACTURERS \in Manufacturers
    /\ UIDs \cap Manufacturers = {}
    /\ \A r \in Requests :
          /\ r.command \in {"REMOTE", "QUEUED_GET", "DUB", "OTHER"}
          /\ r.dest \in UIDs \cup Manufacturers
    /\ None \notin Requests
    /\ \A l \in Lists : l \in Seq(UIDs)
    /\ MaxFailures \in Nat
    /\ MaxTimers \in Nat \ {0}

VARIABLES
    m_outgoing_dmx,          \* a frame is waiting to be sent
    m_pending_rdm_request,   \* with m_rdm_request_callback, set alike
    m_use_raw_rdm,
    m_last_esta_id,          \* the manufacturer the widget's filter is set to
    m_discovery_callback,    \* a discovery was asked for and not answered
    m_discovery_state,
    m_uid_count,
    m_uid_index_map,
    m_disc_stat_timeout_id,  \* is it valid?
    m_last_command,          \* only whether it was SINGLE_TX
    m_expected_command,
    sending,                 \* MaybeSendNextRequest is running
    returned,                \* ... and its last iteration ran a callback
    stopped,
    \* The scheduler, the line and the widget.
    timers,                  \* registered timeouts of CheckDiscoveryStatus
    wire,                    \* commands sent and not answered
    failures,                \* writes that failed
    scanning,                \* the widget is looking for responders
    list,                    \* the responders it found last
    owed,                    \* the queue waits for its request's callback
    late                     \* the status timeout has expired before the
                             \* discovery command sent last was answered

requestVars == <<m_pending_rdm_request, m_use_raw_rdm, m_last_esta_id, owed>>
discoveryVars == <<m_discovery_callback, m_discovery_state, m_uid_count,
                   m_uid_index_map, m_disc_stat_timeout_id, timers>>
lineVars == <<m_expected_command, wire, failures>>
vars == <<requestVars, discoveryVars, lineVars, m_outgoing_dmx,
          m_last_command, sending, returned, stopped, scanning, list, late>>

-----------------------------------------------------------------------------
(* Types *)

CommandIds == {"SINGLE_TX", "DISCOVER_AUTO", "DISCOVER_STATUS", "REMOTE_UID",
               "RAW_RDM", "REMOTE", "QUEUED_GET", "SET_FILTER"}
Indices == UNION {0 .. Len(l) : l \in Lists}
Command == [id: CommandIds, index: Indices, request: Requests \cup {None}]

\* Type invariant.
TypeOK ==
    /\ m_outgoing_dmx \in BOOLEAN
    /\ m_pending_rdm_request \in Requests \cup {None}
    /\ m_use_raw_rdm \in BOOLEAN
    /\ m_last_esta_id \in Manufacturers
    /\ m_discovery_callback \in BOOLEAN
    /\ m_discovery_state \in {"NO_DISCOVERY_ACTION", "DISCOVER_AUTO_REQUIRED",
                              "DISCOVER_STATUS_REQUIRED", "FETCH_UID_REQUIRED"}
    /\ m_uid_count \in Indices
    /\ DOMAIN m_uid_index_map \subseteq UIDs
    /\ \A u \in DOMAIN m_uid_index_map : m_uid_index_map[u] \in Indices \ {0}
    /\ m_disc_stat_timeout_id \in BOOLEAN
    /\ m_last_command \in {"SINGLE_TX", "OTHER"}
    /\ m_expected_command \in CommandIds \cup {"RESERVED"}
    /\ sending \in BOOLEAN /\ returned \in BOOLEAN /\ stopped \in BOOLEAN
    /\ timers \in 0 .. MaxTimers
    /\ wire \in Seq(Command)
    /\ failures \in 0 .. MaxFailures
    /\ scanning \in BOOLEAN
    /\ list \in Lists
    /\ owed \in BOOLEAN /\ late \in BOOLEAN

Init ==
    /\ m_outgoing_dmx = FALSE
    /\ m_pending_rdm_request = None
    /\ m_use_raw_rdm \in BOOLEAN
    /\ m_last_esta_id = ALL_MANUFACTURERS
    /\ m_discovery_callback = FALSE
    /\ m_discovery_state = "NO_DISCOVERY_ACTION"
    /\ m_uid_count = 0
    /\ m_uid_index_map = <<>>
    /\ m_disc_stat_timeout_id = FALSE
    /\ m_last_command = "OTHER"
    /\ m_expected_command = "RESERVED"
    /\ sending = FALSE /\ returned = FALSE /\ stopped = FALSE
    /\ timers = 0
    /\ wire = <<>>
    /\ failures = 0
    /\ scanning = FALSE
    /\ list = <<>>
    /\ owed = FALSE /\ late = FALSE

IsBroadcast(r) == r.dest \in Manufacturers
Known(r) == r.dest \in DOMAIN m_uid_index_map

-----------------------------------------------------------------------------
(* Sending.  `line' are the commands already on the wire. *)

\* SendCommandToTRI
Sent(line, id, index, request) ==
    /\ wire' = Append(line, [id |-> id, index |-> index, request |-> request])
    /\ m_expected_command' = id
    /\ UNCHANGED failures

NotSent(line) ==
    /\ failures < MaxFailures
    /\ failures' = failures + 1
    /\ wire' = line
    /\ m_expected_command' = "RESERVED"

NothingSent(line) ==
    /\ wire' = line
    /\ m_expected_command' = "RESERVED"
    /\ UNCHANGED failures

\* HandleRDMError, and every other way the request's callback is run.
RunRDMCallback ==
    /\ m_pending_rdm_request' = None
    /\ owed' = FALSE

\* Mutant: the callback is run and not forgotten.
RunDiscoveryCallbackOnly == UNCHANGED m_discovery_callback

RunDiscoveryCallback == m_discovery_callback' = FALSE

\* Send the command for the request, or fail the request.
SendOrFail(line, id, index) ==
    \/ /\ Sent(line, id, index, m_pending_rdm_request)
       /\ UNCHANGED <<m_pending_rdm_request, owed>>
    \/ NotSent(line) /\ RunRDMCallback

\* DispatchRequest and DispatchQueuedGet.  "OTHER" are the requests that only
\* raw mode can send: neither a get nor a set, a queued get without data.
DispatchRequest(line) ==
    LET request == m_pending_rdm_request
    IN  \/ /\ \/ request.command = "OTHER"
              \/ request.command = "QUEUED_GET" /\ ~ Known(request)
           /\ NothingSent(line)
           /\ RunRDMCallback
        \/ /\ request.command = "QUEUED_GET" /\ Known(request)
           /\ SendOrFail(line, "QUEUED_GET", m_uid_index_map[request.dest])
        \/ /\ request.command = "REMOTE"
           /\ SendOrFail(line, "REMOTE",
                         IF IsBroadcast(request) THEN 0
                         ELSE m_uid_index_map[request.dest])

SendQueuedRDMCommand ==
    LET request == m_pending_rdm_request
        filter == IsBroadcast(request) /\ request.dest # m_last_esta_id
    IN  \/ /\ ~ IsBroadcast(request) /\ ~ Known(request)
           /\ NothingSent(wire)
           /\ RunRDMCallback
        \/ /\ IsBroadcast(request) \/ Known(request)
           /\ m_use_raw_rdm
           /\ SendOrFail(wire, "RAW_RDM", 0)
        \/ /\ IsBroadcast(request) \/ Known(request)
           /\ ~ m_use_raw_rdm
           /\ IF filter THEN SendOrFail(wire, "SET_FILTER", 0)
                        ELSE DispatchRequest(wire)

SendDMXBuffer ==
    /\ m_outgoing_dmx' = FALSE
    /\ Sent(wire, "SINGLE_TX", 0, None) \/ NotSent(wire)

\* A timeout is registered; an id that is still valid is forgotten.
SendDiscoveryStart ==
    /\ m_discovery_state' = "NO_DISCOVERY_ACTION"
    /\ \/ /\ Sent(wire, "DISCOVER_AUTO", 0, None)
          /\ m_disc_stat_timeout_id' = TRUE
          /\ timers' = timers + 1
          /\ UNCHANGED m_discovery_callback
       \/ /\ NotSent(wire)
          /\ RunDiscoveryCallback
          /\ UNCHANGED <<m_disc_stat_timeout_id, timers>>

\* When this cannot be sent the timeout stays registered.
SendDiscoveryStat ==
    /\ m_discovery_state' = "NO_DISCOVERY_ACTION"
    /\ \/ /\ Sent(wire, "DISCOVER_STATUS", 0, None)
          /\ UNCHANGED m_discovery_callback
       \/ NotSent(wire) /\ RunDiscoveryCallback
    /\ UNCHANGED <<m_disc_stat_timeout_id, timers>>

\* A failure is not noticed.  There is an index to fetch (MapMatchesWidget),
\* so the early return is not taken.
FetchNextUID ==
    /\ m_discovery_state' = "NO_DISCOVERY_ACTION"
    /\ Sent(wire, "REMOTE_UID", m_uid_count, None) \/ NotSent(wire)
    /\ UNCHANGED <<m_discovery_callback, m_disc_stat_timeout_id, timers>>

\* Mutant: only a DMX frame counts as a transaction.
PendingDMXTransaction == m_expected_command = "SINGLE_TX"

PendingTransaction == m_expected_command # "RESERVED"

\* Mutant: frames always go first.
DMXAlwaysFirst ==
    IF PendingTransaction THEN "nothing"
    ELSE IF m_outgoing_dmx THEN "dmx"
    ELSE IF m_pending_rdm_request # None THEN "rdm"
    ELSE IF m_discovery_state # "NO_DISCOVERY_ACTION" THEN m_discovery_state
    ELSE "nothing"

\* Mutant: frames always go last.
DMXAlwaysLast ==
    IF PendingTransaction THEN "nothing"
    ELSE IF m_pending_rdm_request # None THEN "rdm"
    ELSE IF m_discovery_state # "NO_DISCOVERY_ACTION" THEN m_discovery_state
    ELSE IF m_outgoing_dmx THEN "dmx"
    ELSE "nothing"

\* What the next iteration of MaybeSendNextRequest sends: a frame goes first
\* unless the last command was one.
NextToSend ==
    IF PendingTransaction THEN "nothing"
    ELSE IF m_outgoing_dmx /\ m_last_command # "SINGLE_TX" THEN "dmx"
    ELSE IF m_pending_rdm_request # None THEN "rdm"
    ELSE IF m_discovery_state # "NO_DISCOVERY_ACTION" THEN m_discovery_state
    ELSE IF m_outgoing_dmx THEN "dmx"
    ELSE "nothing"

\* One iteration.
MaybeSendNextRequest ==
    /\ sending
    /\ \/ /\ NextToSend = "nothing"
          /\ sending' = FALSE
          /\ UNCHANGED <<requestVars, discoveryVars, lineVars, m_outgoing_dmx>>
       \/ /\ NextToSend = "dmx"
          /\ SendDMXBuffer
          /\ UNCHANGED <<requestVars, discoveryVars, sending>>
       \/ /\ NextToSend = "rdm"
          /\ SendQueuedRDMCommand
          /\ UNCHANGED <<m_use_raw_rdm, m_last_esta_id, discoveryVars,
                         m_outgoing_dmx, sending>>
       \/ /\ \/ /\ NextToSend = "DISCOVER_AUTO_REQUIRED"
                /\ SendDiscoveryStart
             \/ /\ NextToSend = "DISCOVER_STATUS_REQUIRED"
                /\ SendDiscoveryStat
             \/ /\ NextToSend = "FETCH_UID_REQUIRED"
                /\ FetchNextUID
          /\ UNCHANGED <<requestVars, m_uid_count, m_uid_index_map,
                         m_outgoing_dmx, sending>>
    /\ returned' = \/ owed /\ ~owed'
                   \/ m_discovery_callback /\ ~m_discovery_callback'
    /\ UNCHANGED <<m_last_command, stopped, scanning, list, late>>

-----------------------------------------------------------------------------
(* Calls.  The queue does not ask for a discovery while it waits for the   *)
(* answer to a request, nor the other way round.                           *)

Callable == ~stopped /\ ~sending
QueueMayCall == ~stopped /\ (sending => returned)

SendDMX ==
    /\ Callable
    /\ m_outgoing_dmx' = TRUE
    /\ sending' = TRUE
    /\ UNCHANGED <<requestVars, discoveryVars, lineVars, m_last_command,
                   returned, stopped, scanning, list, late>>

\* A DUB needs raw mode; it and a second request are answered at once.
SendRDMRequest(r) ==
    /\ QueueMayCall /\ ~ m_discovery_callback /\ ~ owed
    /\ r.command = "DUB" => m_use_raw_rdm
    /\ m_pending_rdm_request' = r
    /\ owed' = TRUE
    /\ sending' = TRUE
    /\ returned' = FALSE
    /\ UNCHANGED <<m_use_raw_rdm, m_last_esta_id, discoveryVars, lineVars,
                   m_outgoing_dmx, m_last_command, stopped, scanning, list, late>>

\* RunIncrementalDiscovery; RunFullDiscovery is the same.
RunIncrementalDiscovery ==
    /\ QueueMayCall /\ ~ m_discovery_callback /\ ~ owed
    /\ timers < MaxTimers
    /\ m_discovery_callback' = TRUE
    /\ m_discovery_state' = "DISCOVER_AUTO_REQUIRED"
    /\ sending' = TRUE
    /\ returned' = FALSE
    /\ UNCHANGED <<requestVars, m_uid_count, m_uid_index_map,
                   m_disc_stat_timeout_id, timers, lineVars, m_outgoing_dmx,
                   m_last_command, stopped, scanning, list, late>>

\* Called every RDM_STATUS_INTERVAL_MS as long as a timeout is registered.
CheckDiscoveryStatus ==
    /\ Callable
    /\ timers > 0
    /\ m_discovery_state' = "DISCOVER_STATUS_REQUIRED"
    /\ late' = (late \/ m_expected_command \in {"DISCOVER_AUTO", "DISCOVER_STATUS"})
    /\ sending' = TRUE
    /\ UNCHANGED <<requestVars, m_discovery_callback, m_uid_count,
                   m_uid_index_map, m_disc_stat_timeout_id, timers, lineVars,
                   m_outgoing_dmx, m_last_command, returned, stopped,
                   scanning, list>>

\* Mutant: the timeout stays registered.
StopDiscoveryLater == UNCHANGED <<m_disc_stat_timeout_id, timers>>

StopDiscovery ==
    /\ timers' = IF m_disc_stat_timeout_id THEN timers - 1 ELSE timers
    /\ m_disc_stat_timeout_id' = FALSE

\* Stop is what the destructor does; nothing of the widget is modelled after
\* it.  What the queue hands over from the two callbacks run here, the next
\* request or a discovery, is left out: the widget is deleted next, and the
\* queue's own destructor, which follows, fails the request.
Stop ==
    /\ Callable
    /\ stopped' = TRUE
    /\ StopDiscovery
    /\ RunRDMCallback
    /\ RunDiscoveryCallback
    /\ UNCHANGED <<m_use_raw_rdm, m_last_esta_id, m_discovery_state,
                   m_uid_count, m_uid_index_map, lineVars, m_outgoing_dmx,
                   m_last_command, sending, returned, scanning, list, late>>

-----------------------------------------------------------------------------
(* Responses of the widget: it answers every command, in order. *)

Rest == Tail(wire)

\* HandleMessage, up to the switch.
HandleMessage(id) ==
    /\ Callable
    /\ wire # <<>> /\ Head(wire).id = id
    /\ m_last_command' = IF m_expected_command = "SINGLE_TX"
                         THEN "SINGLE_TX" ELSE "OTHER"
    /\ UNCHANGED <<m_outgoing_dmx, returned, stopped, late>>

HandleSingleTXResponse ==
    /\ HandleMessage("SINGLE_TX")
    /\ NothingSent(Rest)
    /\ sending' = TRUE
    /\ UNCHANGED <<requestVars, discoveryVars, scanning, list>>

\* The widget starts to look for responders, or cannot.
HandleDiscoveryAutoResponse ==
    /\ HandleMessage("DISCOVER_AUTO")
    /\ NothingSent(Rest)
    /\ \/ /\ scanning' = TRUE
          /\ UNCHANGED <<m_discovery_callback, m_disc_stat_timeout_id, timers>>
       \/ /\ StopDiscovery
          /\ RunDiscoveryCallback
          /\ UNCHANGED scanning
    /\ UNCHANGED <<requestVars, m_discovery_state, m_uid_count,
                   m_uid_index_map, sending, list>>

\* Still scanning, or a response that is too short: try again later.
DiscoverStatUnfinished ==
    /\ HandleMessage("DISCOVER_STATUS")
    /\ NothingSent(Rest)
    /\ UNCHANGED <<requestVars, discoveryVars, sending, scanning, list>>

\* Mutant: the indices of the last discovery stay.
KeepIndexMap == UNCHANGED m_uid_index_map

ClearIndexMap == m_uid_index_map' = <<>>

DevicesFound(found) == Len(found)

DiscoverStatFinished ==
    /\ HandleMessage("DISCOVER_STATUS")
    /\ NothingSent(Rest)
    /\ scanning' = FALSE
    /\ list' \in IF scanning THEN Lists ELSE {list}
    /\ StopDiscovery
    /\ m_uid_count' = DevicesFound(list')
    /\ ClearIndexMap
    /\ \/ /\ list' # <<>>
          /\ m_discovery_state' = "FETCH_UID_REQUIRED"
          /\ sending' = TRUE
          /\ UNCHANGED m_discovery_callback
       \/ /\ list' = <<>>
          /\ RunDiscoveryCallback
          /\ UNCHANGED <<m_discovery_state, sending>>
    /\ UNCHANGED requestVars

DiscoverStatFailed ==
    /\ HandleMessage("DISCOVER_STATUS")
    /\ NothingSent(Rest)
    /\ scanning' = FALSE
    /\ list' = <<>>
    /\ StopDiscovery
    /\ ClearIndexMap
    /\ RunDiscoveryCallback
    /\ UNCHANGED <<requestVars, m_discovery_state, m_uid_count, sending>>

\* The UID at the index asked for, or an error, upon which it is left out.
\* m_uid_count is not 0: no response comes that was not asked for.
HandleRemoteUIDResponse ==
    /\ HandleMessage("REMOTE_UID")
    /\ NothingSent(Rest)
    /\ \/ m_uid_index_map' =
             [u \in DOMAIN m_uid_index_map \cup {list[Head(wire).index]} |->
                 IF u = list[Head(wire).index] THEN m_uid_count
                 ELSE m_uid_index_map[u]]
       \/ UNCHANGED m_uid_index_map
    /\ m_uid_count' = m_uid_count - 1
    /\ \/ /\ m_uid_count' > 0
          /\ m_discovery_state' = "FETCH_UID_REQUIRED"
          /\ sending' = TRUE
          /\ UNCHANGED m_discovery_callback
       \/ /\ m_uid_count' = 0
          /\ RunDiscoveryCallback
          /\ UNCHANGED <<m_discovery_state, sending>>
    /\ UNCHANGED <<requestVars, m_disc_stat_timeout_id, timers, scanning, list>>

\* EC_UNKNOWN_COMMAND: the widget has no raw mode, so the request is sent
\* again without; a DUB cannot be.
RawRDMUnsupported ==
    /\ HandleMessage("RAW_RDM")
    /\ NothingSent(Rest)
    /\ m_use_raw_rdm' = FALSE
    /\ \/ /\ m_pending_rdm_request.command = "DUB"
          /\ RunRDMCallback
          /\ UNCHANGED sending
       \/ /\ m_pending_rdm_request.command # "DUB"
          /\ sending' = TRUE
          /\ UNCHANGED <<m_pending_rdm_request, owed>>
    /\ UNCHANGED <<m_last_esta_id, discoveryVars, scanning, list>>

\* Any other return code; one that is not expected for a DUB is only logged
\* and the callback, already forgotten, is not run.
HandleRawRDMResponse ==
    /\ HandleMessage("RAW_RDM")
    /\ NothingSent(Rest)
    /\ \/ RunRDMCallback
       \/ /\ m_pending_rdm_request.command = "DUB"
          /\ m_pending_rdm_request' = None
          /\ UNCHANGED owed
    /\ UNCHANGED <<m_use_raw_rdm, m_last_esta_id, discoveryVars, sending,
                   scanning, list>>

\* HandleRemoteRDMResponse, HandleQueuedGetResponse: every return code runs
\* the callback.
HandleGenericRDMResponse ==
    /\ HandleMessage("REMOTE") \/ HandleMessage("QUEUED_GET")
    /\ NothingSent(Rest)
    /\ RunRDMCallback
    /\ UNCHANGED <<m_use_raw_rdm, m_last_esta_id, discoveryVars, sending,
                   scanning, list>>

HandleSetFilterResponse ==
    /\ HandleMessage("SET_FILTER")
    /\ \/ /\ m_last_esta_id' = m_pending_rdm_request.dest
          /\ DispatchRequest(Rest)
       \/ /\ NothingSent(Rest)
          /\ RunRDMCallback
          /\ UNCHANGED m_last_esta_id
    /\ UNCHANGED <<m_use_raw_rdm, discoveryVars, sending, scanning, list>>

-----------------------------------------------------------------------------

DiscoverStatEnds == DiscoverStatFinished \/ DiscoverStatFailed

WidgetAnswers ==
    \/ HandleSingleTXResponse
    \/ HandleDiscoveryAutoResponse
    \/ DiscoverStatUnfinished
    \/ DiscoverStatEnds
    \/ HandleRemoteUIDResponse
    \/ RawRDMUnsupported
    \/ HandleRawRDMResponse
    \/ HandleGenericRDMResponse
    \/ HandleSetFilterResponse

Next ==
    \/ MaybeSendNextRequest
    \/ SendDMX
    \/ \E r \in Requests : SendRDMRequest(r)
    \/ RunIncrementalDiscovery
    \/ CheckDiscoveryStatus
    \/ Stop
    \/ WidgetAnswers

Spec == Init /\ [][Next]_vars

\* The loop runs on, the widget answers every command and ends its search
\* some time, and the timeout is called as long as it is registered.  Strong
\* fairness where the running loop of some other call disables the action for
\* a moment: the select server gets to every ready descriptor and timeout.
FairSpec ==
    /\ Spec
    /\ WF_vars(MaybeSendNextRequest)
    /\ SF_vars(WidgetAnswers)
    /\ SF_vars(DiscoverStatEnds)
    /\ SF_vars(CheckDiscoveryStatus)

-----------------------------------------------------------------------------
(* Properties *)

\* The three kinds of traffic share one transaction: a command is never sent
\* before the one before is answered, and no response is the one HandleMessage
\* calls unexpected.
OneTransaction ==
    /\ Len(wire) <= 1
    /\ wire # <<>> => m_expected_command = Head(wire).id

\* As long as no write fails, the index a UID is mapped to is its place in
\* the widget's list whenever no discovery runs, so a request never reaches
\* another responder than the one it is for.
MapMatchesWidget ==
    failures = 0 =>
        /\ ~ m_discovery_callback =>
              \A u \in DOMAIN m_uid_index_map :
                  /\ m_uid_index_map[u] \in 1 .. Len(list)
                  /\ list[m_uid_index_map[u]] = u
        /\ \A i \in 1 .. Len(wire) :
              /\ wire[i].index # 0 /\ wire[i].request # None =>
                    list[wire[i].index] = wire[i].request.dest
              /\ wire[i].id = "REMOTE_UID" => wire[i].index \in 1 .. Len(list)

\* As long as no write fails and every discovery command is answered before
\* the status timeout expires, the timeout runs only during a discovery and
\* there is one of them, so it never outlives the discovery it is for.
TimeoutTracked ==
    failures = 0 /\ ~late =>
        /\ timers = IF m_disc_stat_timeout_id THEN 1 ELSE 0
        /\ timers > 0 => m_discovery_callback

\* "This is called periodically while discovery is running" (:256): the status
\* timeout is registered only then.  The code does not provide this when the
\* timeout expires while a discovery command is outstanding, hence `late'.
StatusOnlyWhileDiscovering == timers > 0 => m_discovery_callback

\* The widget has the request whose callback the queue waits for.
Kept == owed => m_pending_rdm_request # None

\* Nothing goes wrong on the line.
Smooth == failures = 0 /\ ~late

\* Every request the widget does not drop is answered, however many frames
\* are sent meanwhile.
RequestAnswered == [](Kept /\ Smooth) => (owed ~> ~owed)

\* Every discovery ends, in whatever order its steps get their turn between
\* frames.
DiscoveryEnds ==
    []Smooth => (m_discovery_callback ~> ~m_discovery_callback)

\* As long as the widget is sent anything, a frame is not starved by requests
\* and discoveries.
FramesNotStarved ==
    []<><<Len(wire') > Len(wire)>>_vars => (m_outgoing_dmx ~> ~m_outgoing_dmx)
=============================================================================
