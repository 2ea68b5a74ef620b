------------------------------ MODULE ArtNetNode ------------------------------
(***************************************************************************)
(* RDM over Art-Net: one input port of ArtNetNodeImpl, the end that sends  *)
(* (plugins/artnet/ArtNetNode.cpp), the remote nodes its requests go to,   *)
(* and the UDP network between them.                                       *)
(*                                                                         *)
(* A discovery fetches the tables of devices (TODs) of all nodes; it ends  *)
(* when every node known to be subscribed has answered, or by a timeout.   *)
(* A request ends by an answer, a timeout, or with Stop, after which the   *)
(* node is deleted.  The port is called through a queueing controller      *)
(* (QueueingRDMController): one request or discovery at a time.            *)
(*                                                                         *)
(* The network may lose, repeat, delay and reorder packets: whatever a     *)
(* node has had reason to send may arrive at any time, any number of times *)
(* or never.  Time is left out: a timer that is registered may fire.       *)
(***************************************************************************)
EXTENDS Naturals, FiniteSets, Functions

CONSTANTS
    Nodes,             \* IP addresses of the remote nodes
    UIDs,              \* a set of numbers: UIDs are ordered
    Requests,          \* records [id, dest, pid]
    Tables,            \* tables of devices over time, functions of Nodes
    Broadcast,         \* the broadcast UID, and the broadcast IP address
    QUEUED_MESSAGE,    \* the PID any answer is accepted for
    MaxUIDCount,       \* ARTNET_MAX_UID_COUNT
    MissedLimit,       \* RDM_MISSED_TODDATA_LIMIT
    MaxDiscoveries,    \* bound: discoveries
    MaxFailures,       \* bound: packets the socket does not take
    MaxPatches,        \* bound: times the port is patched
    None               \* no request, no timeout

ASSUME ConstantsAssumption ==
    /\ UIDs \subseteq Nat
    /\ IsFiniteSet(UIDs)
    /\ Broadcast \notin Nodes \cup UIDs
    /\ None \notin Requests
    /\ None \notin [request: Requests, to: Nodes \cup {Broadcast}]
    /\ Tables \subseteq [Nodes -> SUBSET UIDs]
    /\ MaxUIDCount \in Nat \ {0}
    /\ MissedLimit \in Nat \ {0}

ASSUME BoundsAssumption ==
    MaxDiscoveries \in Nat /\ MaxFailures \in Nat /\ MaxPatches \in Nat

VARIABLES
    m_running,
    stopping,             \* how far Stop has got
    reentered,            \* a callback is running inside Stop
    stranded,             \* history: what a callback inside Stop had the port
                          \* begin after Stop had looked for it
    enabled,
    uids,                 \* uids[u]: the node u is behind, and the TODs missed
    subscribed_nodes,
    discovery_callback,   \* TRUE: not NULL
    discovery_node_set,
    discovery_timeout,
    timers,               \* discovery timers registered, by age
    pending,              \* pending_request with its callback, and
                          \* rdm_ip_destination
    rdm_timer,            \* the request's timer is registered
    owed,                 \* the discovery of a patching waits in the queueing
                          \* controller
    \* The network and the remote nodes.
    attached,             \* attached[n]: the devices of node n
    past,                 \* the tables the nodes have had
    sent,                 \* requests that went out to the nodes
    \* History, and what bounds the model.
    discoveries,          \* discoveries started so far
    failures,             \* packets the socket did not take
    patches,              \* times the port was patched
    answers,              \* answers[r]: how often r's callback was run
    behind,               \* the universe the port is patched to has not been
                          \* told of the UIDs that are known now
    truthful              \* nodes whose whole table has arrived since the last
                          \* event that can make the map wrong

stopVars == <<m_running, stopping, reentered>>
ownerVars == <<behind, owed>>
todVars == <<uids, truthful>>
discoveryVars == <<discovery_callback, discovery_node_set, discovery_timeout,
                   timers, discoveries>>
requestVars == <<pending, rdm_timer, sent, answers>>
patchVars == <<enabled, patches>>
nodeVars == <<attached, past>>
vars == <<stopVars, stranded, todVars, discoveryVars, requestVars, patchVars,
          nodeVars, ownerVars, subscribed_nodes, failures>>

-----------------------------------------------------------------------------
(* Types *)

TimerIds == 1 .. MaxDiscoveries
Pending == [request: Requests, to: Nodes \cup {Broadcast}]

\* Type invariant: the port's members hold values of their types, and nothing
\* is known of a UID but the node it is behind and a count.
TypeOK ==
    /\ m_running \in BOOLEAN
    /\ stopping \in {"no", "request", "finish", "deleted"}
    /\ reentered \in BOOLEAN
    /\ stranded \subseteq {"request", "discovery"}
    /\ enabled \in BOOLEAN
    /\ DOMAIN uids \subseteq UIDs
    /\ uids \in [DOMAIN uids -> [node: Nodes, missed: Nat]]
    /\ subscribed_nodes \subseteq Nodes
    /\ discovery_callback \in BOOLEAN
    /\ discovery_node_set \subseteq Nodes
    /\ discovery_timeout \in TimerIds \cup {None}
    /\ timers \subseteq TimerIds
    /\ pending \in Pending \cup {None}
    /\ rdm_timer \in BOOLEAN
    /\ owed \in BOOLEAN
    /\ attached \in Tables
    /\ past \subseteq Tables
    /\ sent \subseteq Requests
    /\ discoveries \in 0 .. MaxDiscoveries
    /\ failures \in 0 .. MaxFailures
    /\ patches \in 0 .. MaxPatches
    /\ answers \in [Requests -> Nat]
    /\ behind \in BOOLEAN
    /\ truthful \subseteq Nodes

\* The node runs, and the port has not been patched yet.
Init ==
    /\ m_running = TRUE
    /\ stopping = "no"
    /\ reentered = FALSE
    /\ stranded = {}
    /\ enabled = FALSE
    /\ uids = <<>>
    /\ subscribed_nodes = {}
    /\ discovery_callback = FALSE
    /\ discovery_node_set = {}
    /\ discovery_timeout = None
    /\ timers = {}
    /\ pending = None
    /\ rdm_timer = FALSE
    /\ owed = FALSE
    /\ attached \in Tables
    /\ past = {attached}
    /\ sent = {}
    /\ discoveries = 0
    /\ failures = 0
    /\ patches = 0
    /\ answers = [r \in Requests |-> 0]
    /\ behind = FALSE
    /\ truthful = {}

-----------------------------------------------------------------------------
(* Helpers *)

\* The event loop is between two callbacks, and the node is there.
Idle == stopping = "no"

\* The queueing controller may call the port: from the event loop, or from a
\* callback that Stop runs.
Callable == Idle \/ reentered

\* GetEnabledInputPort() does not return NULL.
PortEnabled == m_running /\ enabled

\* RunRDMCallbackWithUIDs passes on the UIDs of the map.
Report == behind' = FALSE

\* The map is now `map', and nobody is told.
Silent(map) == behind' = (behind \/ DOMAIN map # DOMAIN uids)

\* RunDiscoveryCallback, with the map at `map'.  A discovery that was already
\* running when the port was patched may be one that the former universe asked
\* for (Universe::RunRDMDiscovery): then that universe is told and not the new
\* one.
RunDiscoveryCallback(map) ==
    /\ discovery_callback' = FALSE
    /\ IF discovery_callback /\ ~owed THEN Report ELSE Silent(map)

\* SendPacket, which fails if the socket does not take the packet.
SendPacket(ok) ==
    /\ ok \/ failures < MaxFailures
    /\ failures' = IF ok THEN failures ELSE failures + 1

\* Mutant: the deletion comes one discovery later.
ForgetLater(map) ==
    Restrict(map, {u \in DOMAIN map : map[u].missed # MissedLimit + 1})

\* ReleaseDiscoveryLock deletes the UIDs that have reached the limit.
Forget(map) ==
    Restrict(map, {u \in DOMAIN map : map[u].missed # MissedLimit})

-----------------------------------------------------------------------------
(* Discovery: RunFullDiscovery and RunIncrementalDiscovery.  They differ in *)
(* the packet they send, ArtTodControl or ArtTodRequest.                    *)

\* The port is disabled: no UIDs.
RefuseDiscovery ==
    /\ Callable
    /\ ~PortEnabled
    /\ ~discovery_callback
    /\ owed' = FALSE
    /\ UNCHANGED <<stopVars, stranded, todVars, discoveryVars, requestVars,
                   patchVars, nodeVars, behind, subscribed_nodes, failures>>

\* StartDiscoveryProcess and SendPacket, with the map at `map' and the nodes in
\* `nodes' subscribed.  If the packet is not sent the callback is run, and the
\* timer stays.
StartDiscovery(map, nodes, ok) ==
    /\ discoveries < MaxDiscoveries
    /\ discoveries' = discoveries + 1
    /\ uids' = [u \in DOMAIN map |-> [map[u] EXCEPT !.missed = @ + 1]]
    /\ discovery_node_set' = nodes
    /\ timers' = timers \cup {discoveries'}
    /\ discovery_timeout' = discoveries'
    /\ SendPacket(ok)
    /\ discovery_callback' = ok
    /\ owed' = FALSE

\* The queueing controller starts a discovery, one at a time.
RunDiscovery(ok) ==
    /\ Callable
    /\ PortEnabled
    /\ ~discovery_callback
    /\ StartDiscovery(uids, subscribed_nodes, ok)
    /\ IF ok THEN UNCHANGED behind ELSE Report
    /\ stranded' = IF ok /\ reentered THEN stranded \cup {"discovery"}
                   ELSE stranded
    /\ UNCHANGED <<stopVars, truthful, requestVars, patchVars, nodeVars,
                   subscribed_nodes>>

\* ReleaseDiscoveryLock, when the oldest timer fires.
ReleaseDiscoveryLock ==
    /\ Idle
    /\ \E oldest \in timers :
          /\ \A t \in timers : oldest <= t
          /\ timers' = timers \ {oldest}
    /\ discovery_timeout' = None
    /\ discovery_node_set' = {}
    /\ uids' = Forget(uids)
    /\ truthful' = IF uids' = uids THEN truthful ELSE {}
    /\ RunDiscoveryCallback(uids')
    /\ UNCHANGED <<stopVars, stranded, owed, discoveries, requestVars,
                   patchVars, nodeVars, subscribed_nodes, failures>>

-----------------------------------------------------------------------------
(* The remote nodes: the output side of the same class, SendTod *)

\* The UIDs of a table in blocks of MaxUIDCount; an empty table is one block.
Rank(table, u) == Cardinality({v \in table : v < u})
Blocks(table) ==
    IF table = {} THEN {{}}
    ELSE {{u \in table : Rank(table, u) \div MaxUIDCount = b} :
             b \in {Rank(table, u) \div MaxUIDCount : u \in table}}

\* A node sends its table when it is asked and when it changes: any table it
\* has had may be on its way.
TodPackets(n) ==
    UNION {{[tod |-> block, total |-> Cardinality(table[n])] :
              block \in Blocks(table[n])} : table \in past}

\* Devices are plugged in or out of the nodes (a node that has stopped does
\* not notice).
DevicesChange(table) ==
    /\ m_running
    /\ table # attached
    /\ attached' = table
    /\ past' = past \cup {table}
    /\ truthful' = {}
    /\ UNCHANGED <<stopVars, stranded, uids, discoveryVars, requestVars,
                   patchVars, ownerVars, subscribed_nodes, failures>>

\* HandleReplyPacket: an ArtPollReply of a node that listens to the port.
HandleReplyPacket(n) ==
    /\ Idle
    /\ PortEnabled
    /\ n \notin subscribed_nodes
    /\ subscribed_nodes' = subscribed_nodes \cup {n}
    /\ UNCHANGED <<stopVars, stranded, todVars, discoveryVars, requestVars,
                   patchVars, nodeVars, ownerVars, failures>>

\* SendDMX drops nodes not heard of for NODE_TIMEOUT.
SendDMX(silent) ==
    /\ Idle
    /\ PortEnabled
    /\ silent # {}
    /\ subscribed_nodes' = subscribed_nodes \ silent
    /\ UNCHANGED <<stopVars, stranded, todVars, discoveryVars, requestVars,
                   patchVars, nodeVars, ownerVars, failures>>

-----------------------------------------------------------------------------
(* HandleTodData, UpdatePortFromTodPacket *)

Whole(packet) == Cardinality(packet.tod) >= packet.total

\* Mutant: a whole table removes the UIDs of other nodes as well.
MapReplaced(n, packet) ==
    LET heard == [u \in packet.tod |-> [node |-> n, missed |-> 0]]
    IN  IF Whole(packet) THEN heard
        ELSE [u \in DOMAIN uids \cup packet.tod |->
                IF u \in packet.tod THEN heard[u] ELSE uids[u]]

\* The map after a packet: the UIDs in it are behind n now, and a whole table
\* removes those behind n that it does not list.
MapAfter(n, packet) ==
    LET gone == {u \in DOMAIN uids \ packet.tod :
                    Whole(packet) /\ uids[u].node = n}
    IN  [u \in (DOMAIN uids \ gone) \cup packet.tod |->
            IF u \in packet.tod THEN [node |-> n, missed |-> 0] ELSE uids[u]]

\* A packet that lists a device its node does not have makes the map wrong,
\* a node's whole table puts it right as far as that node goes.
TruthfulAfter(n, packet) ==
    IF ~(packet.tod \subseteq attached[n]) THEN {}
    ELSE IF Whole(packet) /\ packet.tod = attached[n] THEN truthful \cup {n}
    ELSE IF Whole(packet) THEN {} ELSE truthful

\* Mutant: the owner is only told at the end of a discovery.
TellNobody(map) == Silent(map)

\* if (!port->discovery_callback) port->RunTodCallback();
Unsolicited(map) == Report

\* The last node that was waited for ends the discovery.
HandleTodData(n, packet) ==
    LET map == MapAfter(n, packet)
        waiting == discovery_node_set \ {n}
        last == /\ Whole(packet)
                /\ n \in discovery_node_set
                /\ waiting = {}
                /\ discovery_callback
    IN
    /\ Idle
    /\ PortEnabled
    /\ packet \in TodPackets(n)
    /\ \/ /\ last
          /\ timers' = timers \ {discovery_timeout}
          /\ discovery_timeout' = None
          /\ discovery_node_set' = {}
          /\ uids' = Forget(map)
          /\ RunDiscoveryCallback(uids')
       \/ /\ ~last
          /\ uids' = map
          /\ discovery_node_set' = IF Whole(packet) THEN waiting
                                   ELSE discovery_node_set
          /\ IF discovery_callback THEN Silent(map) ELSE Unsolicited(map)
          /\ UNCHANGED <<timers, discovery_timeout, discovery_callback>>
    /\ truthful' = IF uids' = map THEN TruthfulAfter(n, packet) ELSE {}
    /\ UNCHANGED <<stopVars, stranded, owed, discoveries, requestVars,
                   patchVars, nodeVars, subscribed_nodes, failures>>

-----------------------------------------------------------------------------
(* Requests *)

\* on_complete->Run(): the codes and answers it is run with are left out.
RunCallback(r) == answers' = [answers EXCEPT ![r] = @ + 1]

\* The request that is outstanding.
Outstanding == IF pending = None THEN {} ELSE {pending.request}
Fresh(r) == answers[r] = 0 /\ r \notin Outstanding

\* The port is disabled, or a request is outstanding: RDM_FAILED_TO_SEND.
RefuseRequest(r) ==
    /\ Callable
    /\ Fresh(r)
    /\ ~PortEnabled \/ pending # None
    /\ RunCallback(r)
    /\ UNCHANGED <<stopVars, stranded, todVars, discoveryVars, pending,
                   rdm_timer, sent, patchVars, nodeVars, ownerVars,
                   subscribed_nodes, failures>>

\* SendRDMRequest: to the node the UID is behind, or to all of them.  A
\* broadcast, and a packet that could not be sent, are answered at once.
\* (Discovery commands do not get here: ArtNetOutputPort answers them.)
SendRDMRequest(r, ok) ==
    LET to == IF r.dest \in DOMAIN uids THEN uids[r.dest].node ELSE Broadcast
    IN
    /\ Callable
    /\ Fresh(r)
    /\ PortEnabled
    /\ pending = None
    /\ SendPacket(ok)
    /\ sent' = IF ok THEN sent \cup {r} ELSE sent
    /\ \/ /\ ok /\ r.dest # Broadcast
          /\ pending' = [request |-> r, to |-> to]
          /\ rdm_timer' = TRUE
          /\ UNCHANGED answers
       \/ /\ ~ok \/ r.dest = Broadcast
          /\ RunCallback(r)
          /\ UNCHANGED <<pending, rdm_timer>>
    /\ stranded' = IF stopping = "finish" /\ pending' # None
                   THEN stranded \cup {"request"} ELSE stranded
    /\ UNCHANGED <<stopVars, todVars, discoveryVars, patchVars, nodeVars,
                   ownerVars, subscribed_nodes>>

\* The request that is outstanding is over.
Complete ==
    /\ pending' = None
    /\ rdm_timer' = FALSE
    /\ RunCallback(pending.request)

\* TimeoutRDMRequest.
TimeoutRDMRequest ==
    /\ Idle
    /\ rdm_timer
    /\ Complete
    /\ UNCHANGED <<stopVars, stranded, todVars, discoveryVars, sent, patchVars,
                   nodeVars, ownerVars, subscribed_nodes, failures>>

\* HandleRdm and RDMRequestCompletion at a remote node: the answers that may
\* be on their way from n.
Responses(n) ==
    {[uid |-> r.dest, pid |-> r.pid] :
        r \in {r \in sent : \E table \in past : r.dest \in table[n]}}

\* HandleRDMResponse: the checks.  The sub device and the command class are
\* part of the PID here; there is no check of the transaction number.
Matches(n, response) ==
    /\ pending # None
    /\ pending.request.dest = response.uid
    /\ pending.request.pid \in {QUEUED_MESSAGE, response.pid}
    /\ pending.to \in {Broadcast, n}

\* Mutant: the callback is run, and the request stays.
CompleteKeepingRequest ==
    /\ rdm_timer' = FALSE
    /\ UNCHANGED pending
    /\ RunCallback(pending.request)

\* HandleRDMResponse, past its checks.
Answered == Complete

HandleRDMResponse(n, response) ==
    /\ Idle
    /\ PortEnabled
    /\ response \in Responses(n)
    /\ Matches(n, response)
    /\ Answered
    /\ UNCHANGED <<stopVars, stranded, todVars, discoveryVars, sent, patchVars,
                   nodeVars, ownerVars, subscribed_nodes, failures>>

-----------------------------------------------------------------------------
(* BasicOutputPort::SetUniverse: PostSetUniverse, then, whatever the new     *)
(* universe, a discovery that tells the universe the port has when it ends.  *)

\* The queueing controller does not call the port now.
QueueBusy == owed \/ discovery_callback \/ pending # None

\* Unpatched: DisableInputPort.  The discovery is refused at once, or waits.
Unpatch ==
    /\ Idle
    /\ enabled
    /\ enabled' = FALSE
    /\ owed' = QueueBusy
    /\ UNCHANGED <<stopVars, stranded, todVars, discoveryVars, requestVars,
                   patches, nodeVars, behind, subscribed_nodes, failures>>

\* Patched to a universe.  SetUniverseAddress clears what is known of the
\* nodes only if the address is another one; then packets that are on their
\* way are for another address.  The discovery starts at once, or waits; until
\* something is reported the new universe has been told of no UID.
Patch(changed, ok) ==
    LET map == IF changed THEN <<>> ELSE uids
        nodes == IF changed THEN {} ELSE subscribed_nodes
    IN
    /\ Idle
    /\ patches < MaxPatches
    /\ patches' = patches + 1
    /\ enabled' = TRUE
    /\ subscribed_nodes' = nodes
    /\ past' = IF changed THEN {attached} ELSE past
    /\ sent' = IF changed THEN {} ELSE sent
    /\ truthful' = {}
    /\ \/ /\ QueueBusy
          /\ ok
          /\ uids' = map
          /\ behind' = (DOMAIN map # {})
          /\ owed' = TRUE
          /\ UNCHANGED <<discoveryVars, failures>>
       \/ /\ ~QueueBusy
          /\ StartDiscovery(map, nodes, ok)
          /\ behind' = (ok /\ DOMAIN map # {})
    /\ UNCHANGED <<stopVars, stranded, pending, rdm_timer, answers, attached>>

-----------------------------------------------------------------------------
(* Stop, which runs two callbacks while m_running is still TRUE *)

\* Mutant: Stop removes the timer and leaves the callback to it.
StopTimerOnly ==
    /\ stopping = "no"
    /\ stopping' = "request"
    /\ timers' = timers \ {discovery_timeout}
    /\ discovery_timeout' = None
    /\ UNCHANGED <<m_running, reentered, stranded, todVars, discovery_callback,
                   discovery_node_set, discoveries, requestVars, patchVars,
                   nodeVars, ownerVars, subscribed_nodes, failures>>

\* The discovery ends as it is.
Stop ==
    /\ stopping = "no"
    /\ stopping' = "request"
    /\ timers' = timers \ {discovery_timeout}
    /\ discovery_timeout' = None
    /\ reentered' = discovery_callback
    /\ RunDiscoveryCallback(uids)
    /\ UNCHANGED <<m_running, stranded, todVars, discovery_node_set,
                   discoveries, requestVars, patchVars, nodeVars, owed,
                   subscribed_nodes, failures>>

\* The request is given up.
StopRequest ==
    /\ stopping = "request"
    /\ stopping' = "finish"
    /\ reentered' = (pending # None)
    /\ IF pending # None THEN Complete
       ELSE UNCHANGED <<pending, rdm_timer, answers>>
    /\ UNCHANGED <<m_running, stranded, todVars, discoveryVars, sent, patchVars,
                   nodeVars, ownerVars, subscribed_nodes, failures>>

\* The node is not running any more, and Device::Stop deletes it: no packet and
\* no timer finds it again.
StopFinish ==
    /\ stopping = "finish"
    /\ stopping' = "deleted"
    /\ m_running' = FALSE
    /\ reentered' = FALSE
    /\ UNCHANGED <<stranded, todVars, discoveryVars, requestVars, patchVars,
                   nodeVars, ownerVars, subscribed_nodes, failures>>

-----------------------------------------------------------------------------
Next ==
    \/ RefuseDiscovery
    \/ \E ok \in BOOLEAN : RunDiscovery(ok)
    \/ ReleaseDiscoveryLock
    \/ \E table \in Tables : DevicesChange(table)
    \/ \E n \in Nodes : HandleReplyPacket(n)
    \/ \E silent \in SUBSET subscribed_nodes : SendDMX(silent)
    \/ \E n \in Nodes : \E packet \in TodPackets(n) : HandleTodData(n, packet)
    \/ \E r \in Requests : RefuseRequest(r)
    \/ \E r \in Requests, ok \in BOOLEAN : SendRDMRequest(r, ok)
    \/ TimeoutRDMRequest
    \/ \E n \in Nodes : \E response \in Responses(n) :
          HandleRDMResponse(n, response)
    \/ Unpatch
    \/ \E changed, ok \in BOOLEAN : Patch(changed, ok)
    \/ Stop
    \/ StopRequest
    \/ StopFinish

\* Timers fire and Stop returns; nothing is assumed of the network.
Fairness ==
    /\ WF_vars(ReleaseDiscoveryLock)
    /\ WF_vars(TimeoutRDMRequest)
    /\ WF_vars(StopRequest)
    /\ WF_vars(StopFinish)

Spec == Init /\ [][Next]_vars
FairSpec == Spec /\ Fairness

-----------------------------------------------------------------------------
(* Properties *)

\* The port as an RDM controller: the request it holds is outstanding.
Contract == INSTANCE RDMControllerContract WITH
    outstanding <- Outstanding

\* The port keeps the contract of RDMControllerInterface.h: whatever is lost,
\* repeated or late, a request is answered once, and answered before the next
\* one is taken.
ImplementsContract == Contract!Spec

\* No request and no discovery depends on the network: each ends although all
\* packets may be lost, and Stop leaves none behind, except what a callback
\* that it runs has the port begin after Stop has looked for it.
EverythingEnds ==
    /\ \A r \in Requests :
          r \in Outstanding ~> r \notin Outstanding \/ "request" \in stranded
    /\ discovery_callback ~> ~discovery_callback \/ "discovery" \in stranded

\* The map converges: once the whole table of every node has arrived, and no
\* packet since was untrue, the map shows every device behind its node and no
\* other, whatever outdated and partial tables came before.
MapConverges ==
    truthful = Nodes =>
        /\ DOMAIN uids = UNION {attached[n] : n \in Nodes}
        /\ \A u \in DOMAIN uids : u \in attached[uids[u].node]

\* A UID that RDM_MISSED_TODDATA_LIMIT discoveries did not find is forgotten
\* at the end of the last of them.  The count is compared with ==, so this
\* rests on every discovery that counts ending in ReleaseDiscoveryLock, which
\* one whose packet could not be sent does not.
MissedUIDsForgotten ==
    failures = 0 /\ stopping = "no" =>
        \A u \in DOMAIN uids :
            uids[u].missed < MissedLimit + (IF discovery_callback THEN 1 ELSE 0)

\* The universe the port is patched to has been told of the UIDs the port
\* knows, or will be: every change of the map is reported by the callback of
\* the discovery or unsolicited, and what the map already held when the port was
\* patched by the discovery of the patching, which is running or waits.  (But
\* for a timer that outlived its discovery: it changes the map silently.)
OwnerUpToDate ==
    behind => discovery_callback \/ owed \/ ~PortEnabled \/ failures > 0

\* What the comment in Stop promises ("clean up any in-flight rdm requests"):
\* no timer finds the node after it was deleted.
StopCleansUp == stopping = "deleted" => timers = {} /\ ~rdm_timer

=============================================================================
