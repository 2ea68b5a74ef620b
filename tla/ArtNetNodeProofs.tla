---------------------------- MODULE ArtNetNodeProofs ----------------------------
(***************************************************************************)
(* Proofs about ArtNetNode, for any nodes, devices, tables over time and   *)
(* requests, any block size and limit, and any bounds of the model.        *)
(***************************************************************************)
EXTENDS ArtNetNode, TLAPS

-----------------------------------------------------------------------------
(* The inductive invariants *)

\* The timer of a request runs as long as the request is outstanding, and its
\* callback has not been run.
RequestInv ==
    /\ rdm_timer <=> pending # None
    /\ \A r \in Outstanding : answers[r] = 0

\* As long as every packet is sent, a discovery has one timer, its own, and a
\* timer has a discovery.
TimersInv ==
    failures = 0 /\ stopping = "no" =>
        timers = IF discovery_callback THEN {discovery_timeout} ELSE {}

\* What is known of the truthful nodes is right, although nothing may be known
\* of the others: their devices are in the map, behind nodes that have them,
\* and nothing else is behind these nodes.
TruthInv ==
    \A n \in truthful :
        /\ \A u \in attached[n] :
              u \in DOMAIN uids /\ u \in attached[uids[u].node]
        /\ \A u \in DOMAIN uids : uids[u].node = n => u \in attached[n]

-----------------------------------------------------------------------------
(* Maps *)

\* What uids may be.
IsMap(m) ==
    /\ DOMAIN m \subseteq UIDs
    /\ m \in [DOMAIN m -> [node: Nodes, missed: Nat]]

\* Whatever table a node sends a block of, the block lists UIDs.
LEMMA PacketUIDs ==
    ASSUME past \subseteq Tables, NEW n \in Nodes, NEW packet \in TodPackets(n)
    PROVE  packet.tod \in SUBSET UIDs
  <1>1. PICK table \in past : \E block \in Blocks(table[n]) :
           packet = [tod |-> block, total |-> Cardinality(table[n])]
    BY DEF TodPackets
  <1>2. PICK block \in Blocks(table[n]) :
           packet = [tod |-> block, total |-> Cardinality(table[n])]
    BY <1>1
  <1>3. table[n] \in SUBSET UIDs
    BY ConstantsAssumption
  <1>4. block \subseteq table[n]
    BY DEF Blocks
  <1> QED  BY <1>2, <1>3, <1>4

\* What Forget keeps.
LEMMA ForgetFacts ==
    ASSUME NEW m
    PROVE  /\ DOMAIN Forget(m) = {u \in DOMAIN m : m[u].missed # MissedLimit}
           /\ \A u \in DOMAIN Forget(m) : Forget(m)[u] = m[u]
           /\ IsMap(m) => IsMap(Forget(m))
  <1>1. /\ DOMAIN Forget(m) = {u \in DOMAIN m : m[u].missed # MissedLimit}
        /\ \A u \in DOMAIN Forget(m) : Forget(m)[u] = m[u]
    BY DEF Forget, Restrict
  <1>2. Forget(m) = [u \in DOMAIN Forget(m) |-> Forget(m)[u]]
    BY DEF Forget, Restrict
  <1>3. ASSUME IsMap(m) PROVE IsMap(Forget(m))
    <2>1. \A u \in DOMAIN Forget(m) : Forget(m)[u] \in [node: Nodes, missed: Nat]
      BY <1>1, <1>3 DEF IsMap
    <2> QED  BY <1>1, <1>2, <1>3, <2>1 DEF IsMap
  <1> QED  BY <1>1, <1>3

\* What a packet makes of the map.
LEMMA MapAfterFacts ==
    ASSUME NEW n \in Nodes, NEW packet, packet.tod \in SUBSET UIDs, IsMap(uids)
    PROVE  /\ IsMap(MapAfter(n, packet))
           /\ \A u \in DOMAIN MapAfter(n, packet) :
                 \/ /\ u \in packet.tod
                    /\ MapAfter(n, packet)[u] = [node |-> n, missed |-> 0]
                 \/ /\ u \in DOMAIN uids \ packet.tod
                    /\ MapAfter(n, packet)[u] = uids[u]
                    /\ Whole(packet) => uids[u].node # n
           /\ packet.tod \subseteq DOMAIN MapAfter(n, packet)
           /\ \A u \in DOMAIN uids : ~Whole(packet) \/ uids[u].node # n =>
                 u \in DOMAIN MapAfter(n, packet)
  <1> DEFINE m == MapAfter(n, packet)
             gone == {u \in DOMAIN uids \ packet.tod :
                        Whole(packet) /\ uids[u].node = n}
             D == (DOMAIN uids \ gone) \cup packet.tod
  <1>1. m = [u \in D |-> IF u \in packet.tod THEN [node |-> n, missed |-> 0]
                         ELSE uids[u]]
    BY DEF MapAfter
  <1>2. DOMAIN m = D
    BY <1>1
  <1>3. \A u \in D : m[u] = IF u \in packet.tod THEN [node |-> n, missed |-> 0]
                            ELSE uids[u]
    BY <1>1
  <1>4. IsMap(m)
    <2>1. D \subseteq UIDs
      BY DEF IsMap
    <2>2. \A u \in D : (IF u \in packet.tod THEN [node |-> n, missed |-> 0]
                        ELSE uids[u]) \in [node: Nodes, missed: Nat]
      BY DEF IsMap
    <2>3. m \in [D -> [node: Nodes, missed: Nat]]
      BY <1>1, <2>2
    <2> QED  BY <1>2, <2>1, <2>3 DEF IsMap
  <1> HIDE DEF m
  <1>5. /\ \A u \in DOMAIN m :
             \/ u \in packet.tod /\ m[u] = [node |-> n, missed |-> 0]
             \/ /\ u \in DOMAIN uids \ packet.tod /\ m[u] = uids[u]
                /\ Whole(packet) => uids[u].node # n
        /\ packet.tod \subseteq DOMAIN m
        /\ \A u \in DOMAIN uids : ~Whole(packet) \/ uids[u].node # n =>
              u \in DOMAIN m
    BY <1>2, <1>3
  <1> QED  BY <1>4, <1>5 DEF m

-----------------------------------------------------------------------------
(* Types *)

\* The initial state has the types.
LEMMA TypeInit == Init => TypeOK
  <1> SUFFICES ASSUME Init PROVE TypeOK
    OBVIOUS
  <1>1. DOMAIN uids \subseteq UIDs
        /\ uids \in [DOMAIN uids -> [node: Nodes, missed: Nat]]
    BY DEF Init
  <1>2. /\ discoveries \in 0 .. MaxDiscoveries /\ failures \in 0 .. MaxFailures
        /\ patches \in 0 .. MaxPatches
    BY BoundsAssumption DEF Init
  <1>3. answers \in [Requests -> Nat] /\ past \subseteq Tables
    BY DEF Init
  <1> QED  BY <1>1, <1>2, <1>3 DEF Init, TypeOK

\* A UID that was missed once more.
LEMMA MissedMap ==
    ASSUME NEW map, IsMap(map)
    PROVE  IsMap([u \in DOMAIN map |-> [map[u] EXCEPT !.missed = @ + 1]])
  <1>1. ASSUME NEW u \in DOMAIN map
        PROVE  [map[u] EXCEPT !.missed = @ + 1] \in [node: Nodes, missed: Nat]
    BY DEF IsMap
  <1> QED  BY <1>1 DEF IsMap

\* A socket that does not take a packet is counted, up to the bound.
LEMMA SendPacketType ==
    ASSUME TypeOK, NEW ok \in BOOLEAN, SendPacket(ok)
    PROVE  /\ failures' \in 0 .. MaxFailures
           /\ ok => failures' = failures
           /\ failures' = 0 => ok /\ failures = 0
  BY BoundsAssumption DEF TypeOK, SendPacket

\* Steps that count an answer.
LEMMA RunCallbackType ==
    ASSUME TypeOK, NEW r \in Requests, RunCallback(r)
    PROVE  answers' \in [Requests -> Nat]
  BY DEF TypeOK, RunCallback

\* Telling the owner of the port, or not.
LEMMA BehindType ==
    ASSUME TypeOK, NEW map
    PROVE  /\ Report => behind' \in BOOLEAN
           /\ Silent(map) => behind' \in BOOLEAN
           /\ RunDiscoveryCallback(map) => /\ behind' \in BOOLEAN
                                           /\ discovery_callback' = FALSE
  BY DEF TypeOK, Report, Silent, RunDiscoveryCallback

\* The types of what a discovery that starts assigns to.
DiscoveryTypes ==
    /\ IsMap(uids)
    /\ discoveries \in 0 .. MaxDiscoveries
    /\ timers \subseteq TimerIds
    /\ discovery_timeout \in TimerIds \cup {None}
    /\ discovery_node_set \subseteq Nodes
    /\ discovery_callback \in BOOLEAN
    /\ failures \in 0 .. MaxFailures
    /\ owed \in BOOLEAN

\* A discovery that starts keeps the types.
LEMMA StartDiscoveryType ==
    ASSUME TypeOK, NEW map, IsMap(map), NEW nodes \in SUBSET Nodes,
           NEW ok \in BOOLEAN, StartDiscovery(map, nodes, ok)
    PROVE  DiscoveryTypes'
  <1>1. IsMap(uids')
    BY MissedMap DEF StartDiscovery
  <1>2. discoveries' \in 0 .. MaxDiscoveries /\ discoveries' \in TimerIds
    BY BoundsAssumption DEF StartDiscovery, TypeOK, TimerIds
  <1>3. failures' \in 0 .. MaxFailures
    BY SendPacketType DEF StartDiscovery
  <1>4. /\ timers' = timers \cup {discoveries'}
        /\ discovery_timeout' = discoveries' /\ discovery_node_set' = nodes
        /\ discovery_callback' = ok /\ owed' = FALSE
    BY DEF StartDiscovery
  <1>5. timers \subseteq TimerIds
    BY DEF TypeOK
  <1> QED  BY <1>1, <1>2, <1>3, <1>4, <1>5 DEF DiscoveryTypes

\* A discovery keeps the types.
LEMMA RunDiscoveryType ==
    ASSUME TypeOK, NEW ok \in BOOLEAN, RunDiscovery(ok)
    PROVE  TypeOK'
  <1>1. IsMap(uids) /\ subscribed_nodes \in SUBSET Nodes
    BY DEF TypeOK, IsMap
  <1>2. StartDiscovery(uids, subscribed_nodes, ok)
    BY DEF RunDiscovery
  <1>3. behind' \in BOOLEAN /\ stranded' \subseteq {"request", "discovery"}
    BY DEF RunDiscovery, Report, TypeOK
  <1>4. UNCHANGED <<m_running, stopping, reentered, truthful, pending, rdm_timer,
                    sent, answers, enabled, patches, attached, past,
                    subscribed_nodes>>
    BY DEF RunDiscovery, stopVars, requestVars, patchVars, nodeVars
  <1>5. DiscoveryTypes'
    BY <1>1, <1>2, StartDiscoveryType
  <1> QED  BY <1>3, <1>4, <1>5 DEF TypeOK, DiscoveryTypes, IsMap

\* Patching keeps the types, whether the discovery starts or waits.
LEMMA PatchType ==
    ASSUME TypeOK, NEW changed \in BOOLEAN, NEW ok \in BOOLEAN,
           Patch(changed, ok)
    PROVE  TypeOK'
  <1> DEFINE map == IF changed THEN <<>> ELSE uids
             nodes == IF changed THEN {} ELSE subscribed_nodes
  <1>1. IsMap(map) /\ nodes \in SUBSET Nodes
    <2>1. IsMap(<<>>) /\ IsMap(uids)
      BY DEF IsMap, TypeOK
    <2> QED  BY <2>1 DEF TypeOK
  <1>2. /\ patches' \in 0 .. MaxPatches /\ enabled' = TRUE
        /\ subscribed_nodes' = nodes /\ truthful' = {}
        /\ UNCHANGED <<m_running, stopping, reentered, stranded, pending,
                       rdm_timer, answers, attached>>
    BY BoundsAssumption DEF Patch, TypeOK, stopVars
  <1>3. past' \subseteq Tables /\ sent' \subseteq Requests
    BY DEF Patch, TypeOK
  <1>4. \/ /\ uids' = map /\ behind' \in BOOLEAN /\ owed' = TRUE
           /\ UNCHANGED <<discovery_callback, discovery_node_set, timers,
                          discovery_timeout, discoveries, failures>>
        \/ StartDiscovery(map, nodes, ok) /\ behind' \in BOOLEAN
    BY DEF Patch, discoveryVars
  <1> HIDE DEF map, nodes
  <1>5. DiscoveryTypes'
    <2>1. CASE StartDiscovery(map, nodes, ok)
      BY <1>1, <2>1, StartDiscoveryType
    <2>2. CASE /\ uids' = map /\ owed' = TRUE
               /\ UNCHANGED <<discovery_callback, discovery_node_set, timers,
                              discovery_timeout, discoveries, failures>>
      BY <1>1, <2>2 DEF TypeOK, DiscoveryTypes, IsMap
    <2> QED  BY <1>4, <2>1, <2>2
  <1>6. behind' \in BOOLEAN
    BY <1>4
  <1> QED  BY <1>1, <1>2, <1>3, <1>5, <1>6 DEF TypeOK, DiscoveryTypes, IsMap

\* A packet with a table keeps the types.
LEMMA HandleTodDataType ==
    ASSUME TypeOK, NEW n \in Nodes, NEW packet, HandleTodData(n, packet)
    PROVE  TypeOK'
  <1> DEFINE map == MapAfter(n, packet)
  <1>1. packet.tod \in SUBSET UIDs
    BY PacketUIDs DEF HandleTodData, TypeOK
  <1>2. IsMap(map)
    BY <1>1, MapAfterFacts DEF TypeOK, IsMap
  <1>3. uids' = map \/ uids' = Forget(map)
    BY DEF HandleTodData
  <1>4. IsMap(uids')
    BY <1>2, <1>3, ForgetFacts
  <1>5. /\ timers' \subseteq TimerIds
        /\ discovery_timeout' \in TimerIds \cup {None}
        /\ discovery_node_set' \subseteq Nodes
    BY DEF HandleTodData, TypeOK
  <1>6. discovery_callback' \in BOOLEAN /\ behind' \in BOOLEAN
    BY BehindType DEF HandleTodData, TypeOK, Unsolicited
  <1>7. truthful' \subseteq Nodes
    BY DEF HandleTodData, TypeOK, TruthfulAfter
  <1>8. UNCHANGED <<m_running, stopping, reentered, stranded, owed, discoveries,
                    pending, rdm_timer, sent, answers, enabled, patches,
                    attached, past, subscribed_nodes, failures>>
    BY DEF HandleTodData, stopVars, requestVars, patchVars, nodeVars
  <1> QED  BY <1>4, <1>5, <1>6, <1>7, <1>8 DEF TypeOK, IsMap

\* A request keeps the types.
LEMMA SendRDMRequestType ==
    ASSUME TypeOK, NEW r \in Requests, NEW ok \in BOOLEAN, SendRDMRequest(r, ok)
    PROVE  TypeOK'
  <1> DEFINE to == IF r.dest \in DOMAIN uids THEN uids[r.dest].node ELSE Broadcast
  <1>1. to \in Nodes \cup {Broadcast}
    BY DEF TypeOK
  <1>2. pending' \in Pending \cup {None}
    <2>1. [request |-> r, to |-> to] \in Pending
      BY <1>1 DEF Pending
    <2>2. pending' = [request |-> r, to |-> to] \/ pending' = pending
      BY DEF SendRDMRequest
    <2> QED  BY <2>1, <2>2 DEF TypeOK
  <1>3. answers' \in [Requests -> Nat] /\ rdm_timer' \in BOOLEAN
    BY RunCallbackType DEF SendRDMRequest, TypeOK
  <1>4. /\ failures' \in 0 .. MaxFailures /\ sent' \subseteq Requests
        /\ stranded' \subseteq {"request", "discovery"}
    BY SendPacketType DEF SendRDMRequest, TypeOK
  <1>5. UNCHANGED <<m_running, stopping, reentered, uids, truthful,
                    discovery_callback, discovery_node_set, discovery_timeout,
                    timers, discoveries, enabled, patches, attached, past, behind,
                    owed, subscribed_nodes>>
    BY DEF SendRDMRequest, stopVars, todVars, discoveryVars, patchVars, nodeVars,
           ownerVars
  <1> QED  BY <1>2, <1>3, <1>4, <1>5 DEF TypeOK

\* The end of the request that is outstanding.
LEMMA CompleteType ==
    ASSUME TypeOK, pending # None, Complete
    PROVE  /\ pending' = None /\ rdm_timer' = FALSE
           /\ answers' \in [Requests -> Nat]
           /\ pending.request \in Requests
           /\ answers' = [answers EXCEPT ![pending.request] = @ + 1]
  <1>1. pending.request \in Requests
    BY DEF TypeOK, Pending
  <1> QED  BY <1>1 DEF Complete, RunCallback, TypeOK

\* Every step keeps the types.
LEMMA TypeNext == TypeOK /\ RequestInv /\ [Next]_vars => TypeOK'
  <1> SUFFICES ASSUME TypeOK, RequestInv, [Next]_vars PROVE TypeOK'
    OBVIOUS
  <1> USE DEF stopVars, todVars, discoveryVars, requestVars, patchVars, nodeVars,
              ownerVars
  <1>1. ASSUME RefuseDiscovery PROVE TypeOK'
    BY <1>1 DEF RefuseDiscovery, TypeOK
  <1>2. ASSUME NEW ok \in BOOLEAN, RunDiscovery(ok) PROVE TypeOK'
    BY <1>2, RunDiscoveryType
  <1>3. ASSUME ReleaseDiscoveryLock PROVE TypeOK'
    <2>1. IsMap(uids')
      BY <1>3, ForgetFacts DEF ReleaseDiscoveryLock, TypeOK, IsMap
    <2>2. discovery_callback' \in BOOLEAN /\ behind' \in BOOLEAN
      BY <1>3, BehindType DEF ReleaseDiscoveryLock
    <2>3. /\ timers' \subseteq TimerIds
          /\ discovery_timeout' \in TimerIds \cup {None}
          /\ discovery_node_set' \subseteq Nodes
          /\ truthful' \subseteq Nodes
      BY <1>3 DEF ReleaseDiscoveryLock, TypeOK
    <2> QED  BY <1>3, <2>1, <2>2, <2>3 DEF ReleaseDiscoveryLock, TypeOK, IsMap
  <1>4. ASSUME NEW table \in Tables, DevicesChange(table) PROVE TypeOK'
    BY <1>4 DEF DevicesChange, TypeOK
  <1>5. ASSUME NEW n \in Nodes, HandleReplyPacket(n) PROVE TypeOK'
    BY <1>5 DEF HandleReplyPacket, TypeOK
  <1>6. ASSUME NEW silent, SendDMX(silent) PROVE TypeOK'
    BY <1>6 DEF SendDMX, TypeOK
  <1>7. ASSUME NEW n \in Nodes, NEW packet, HandleTodData(n, packet) PROVE TypeOK'
    BY <1>7, HandleTodDataType
  <1>8. ASSUME NEW r \in Requests, RefuseRequest(r) PROVE TypeOK'
    BY <1>8, RunCallbackType DEF RefuseRequest, TypeOK
  <1>9. ASSUME NEW r \in Requests, NEW ok \in BOOLEAN, SendRDMRequest(r, ok)
        PROVE  TypeOK'
    BY <1>9, SendRDMRequestType
  <1>10. ASSUME TimeoutRDMRequest PROVE TypeOK'
    BY <1>10, CompleteType DEF TimeoutRDMRequest, RequestInv, TypeOK
  <1>11. ASSUME NEW n, NEW response, HandleRDMResponse(n, response) PROVE TypeOK'
    BY <1>11, CompleteType DEF HandleRDMResponse, Answered, Matches, TypeOK
  <1>12. ASSUME Unpatch PROVE TypeOK'
    <2>1. owed' \in BOOLEAN
      BY <1>12 DEF Unpatch, QueueBusy
    <2> QED  BY <1>12, <2>1 DEF Unpatch, TypeOK
  <1>13. ASSUME NEW changed \in BOOLEAN, NEW ok \in BOOLEAN, Patch(changed, ok)
         PROVE  TypeOK'
    BY <1>13, PatchType
  <1>14. ASSUME Stop PROVE TypeOK'
    <2>1. discovery_callback' \in BOOLEAN /\ behind' \in BOOLEAN
      BY <1>14, BehindType DEF Stop
    <2> QED  BY <1>14, <2>1 DEF Stop, TypeOK
  <1>15. ASSUME StopRequest PROVE TypeOK'
    <2>1. /\ pending' \in Pending \cup {None} /\ rdm_timer' \in BOOLEAN
          /\ answers' \in [Requests -> Nat]
      BY <1>15, CompleteType DEF StopRequest, TypeOK
    <2> QED  BY <1>15, <2>1 DEF StopRequest, TypeOK
  <1>16. ASSUME StopFinish PROVE TypeOK'
    BY <1>16 DEF StopFinish, TypeOK
  <1>17. CASE UNCHANGED vars
    BY <1>17 DEF vars, TypeOK
  <1> QED
    BY <1>1, <1>2, <1>3, <1>4, <1>5, <1>6, <1>7, <1>8, <1>9, <1>10, <1>11, <1>12,
       <1>13, <1>14, <1>15, <1>16, <1>17
    DEF Next

-----------------------------------------------------------------------------
(* Requests: the contract of RDMControllerInterface *)

\* The request that is outstanding has a timer and is not answered.
LEMMA RequestInit == Init => RequestInv
  BY DEF Init, RequestInv, Outstanding

\* What a step may do to the requests: nothing; take one that was never sent;
\* answer one without taking it; or end the one that is outstanding.
Takes(r) ==
    /\ Fresh(r) /\ pending = None
    /\ pending' # None /\ pending'.request = r /\ rdm_timer'
    /\ UNCHANGED answers
AnswersOnly(r) ==
    /\ Fresh(r)
    /\ answers' = [answers EXCEPT ![r] = @ + 1]
    /\ UNCHANGED <<pending, rdm_timer>>
Ends ==
    /\ pending # None /\ pending' = None /\ ~rdm_timer'
    /\ answers' = [answers EXCEPT ![pending.request] = @ + 1]

\* Every step of the port is one of them.
LEMMA RequestSteps ==
    ASSUME TypeOK, RequestInv, [Next]_vars
    PROVE  \/ UNCHANGED <<pending, rdm_timer, answers>>
           \/ \E r \in Requests : Takes(r) \/ AnswersOnly(r)
           \/ Ends
  <1> DEFINE Goal == \/ UNCHANGED <<pending, rdm_timer, answers>>
                     \/ \E r \in Requests : Takes(r) \/ AnswersOnly(r)
                     \/ Ends
  <1>1. ASSUME \/ RefuseDiscovery \/ ReleaseDiscoveryLock \/ Unpatch \/ Stop
               \/ StopFinish \/ UNCHANGED vars
               \/ \E ok \in BOOLEAN : RunDiscovery(ok)
               \/ \E table \in Tables : DevicesChange(table)
               \/ \E n \in Nodes : HandleReplyPacket(n)
               \/ \E silent \in SUBSET subscribed_nodes : SendDMX(silent)
               \/ \E n \in Nodes : \E packet \in TodPackets(n) :
                     HandleTodData(n, packet)
               \/ \E changed, ok \in BOOLEAN : Patch(changed, ok)
        PROVE  Goal
    BY <1>1 DEF RefuseDiscovery, ReleaseDiscoveryLock, Unpatch, Stop, StopFinish,
                RunDiscovery, DevicesChange, HandleReplyPacket, SendDMX,
                HandleTodData, Patch, vars, requestVars
  <1>2. ASSUME NEW r \in Requests, RefuseRequest(r) PROVE Goal
    <2>1. AnswersOnly(r)
      BY <1>2 DEF RefuseRequest, RunCallback, AnswersOnly
    <2> QED  BY <2>1
  <1>3. ASSUME NEW r \in Requests, NEW ok \in BOOLEAN, SendRDMRequest(r, ok)
        PROVE  Goal
    <2> DEFINE to == IF r.dest \in DOMAIN uids THEN uids[r.dest].node
                     ELSE Broadcast
    <2>1. to \in Nodes \cup {Broadcast}
      BY DEF TypeOK
    <2>2. CASE ok /\ r.dest # Broadcast
      <3>1. /\ pending' = [request |-> r, to |-> to] /\ rdm_timer'
            /\ UNCHANGED answers /\ Fresh(r) /\ pending = None
        BY <1>3, <2>2 DEF SendRDMRequest
      <3>2. pending' \in [request: Requests, to: Nodes \cup {Broadcast}]
        BY <2>1, <3>1
      <3>3. Takes(r)
        BY <3>1, <3>2, ConstantsAssumption DEF Takes
      <3> QED  BY <3>3
    <2>3. CASE ~ok \/ r.dest = Broadcast
      <3>1. AnswersOnly(r)
        BY <1>3, <2>3 DEF SendRDMRequest, RunCallback, AnswersOnly
      <3> QED  BY <3>1
    <2> QED  BY <2>2, <2>3
  <1>4. ASSUME TimeoutRDMRequest PROVE Goal
    BY <1>4, CompleteType DEF TimeoutRDMRequest, RequestInv, Ends
  <1>5. ASSUME NEW n, NEW response, HandleRDMResponse(n, response) PROVE Goal
    BY <1>5, CompleteType DEF HandleRDMResponse, Answered, Matches, Ends
  <1>6. ASSUME StopRequest PROVE Goal
    BY <1>6, CompleteType DEF StopRequest, Ends
  <1> QED  BY <1>1, <1>2, <1>3, <1>4, <1>5, <1>6 DEF Next

\* Such a step keeps the invariant.
LEMMA RequestNext == TypeOK /\ RequestInv /\ [Next]_vars => RequestInv'
  <1> SUFFICES ASSUME TypeOK, RequestInv, [Next]_vars PROVE RequestInv'
    OBVIOUS
  <1>1. CASE UNCHANGED <<pending, rdm_timer, answers>>
    BY <1>1 DEF RequestInv, Outstanding
  <1>2. ASSUME NEW r \in Requests, Takes(r) PROVE RequestInv'
    BY <1>2 DEF Takes, Fresh, RequestInv, Outstanding
  <1>3. ASSUME NEW r \in Requests, AnswersOnly(r) PROVE RequestInv'
    BY <1>3 DEF AnswersOnly, Fresh, RequestInv, Outstanding, TypeOK
  <1>4. ASSUME Ends PROVE RequestInv'
    BY <1>4 DEF Ends, RequestInv, Outstanding
  <1> QED  BY <1>1, <1>2, <1>3, <1>4, RequestSteps

\* Messages, tables and timers hold values of their types, and no count passes
\* its bound.
THEOREM TypeCorrect == Spec => []TypeOK
  BY TypeInit, RequestInit, TypeNext, RequestNext, PTL DEF Spec

\* The types and the requests together.
LEMMA RequestInvariant == Spec => [](TypeOK /\ RequestInv)
  BY TypeInit, RequestInit, TypeNext, RequestNext, PTL DEF Spec

\* And such a step is one of the contract.
LEMMA ContractStep ==
    ASSUME TypeOK, RequestInv, [Next]_vars
    PROVE  [Contract!Next]_(Contract!vars)
  <1>1. CASE UNCHANGED <<pending, rdm_timer, answers>>
    BY <1>1 DEF Contract!vars, Outstanding
  <1>2. ASSUME NEW r \in Requests, Takes(r) PROVE Contract!Next
    <2>1. Contract!Send(r)
      BY <1>2 DEF Takes, Fresh, Outstanding, Contract!Send, Contract!Fresh
    <2> QED  BY <2>1 DEF Contract!Next
  <1>3. ASSUME NEW r \in Requests, AnswersOnly(r) PROVE Contract!Next
    <2>1. answers' = [answers EXCEPT ![r] = 1]
      BY <1>3 DEF AnswersOnly, Fresh
    <2>2. Contract!AnswerAtOnce(r)
      BY <1>3, <2>1
      DEF AnswersOnly, Fresh, Outstanding, Contract!AnswerAtOnce, Contract!Fresh
    <2> QED  BY <2>2 DEF Contract!Next
  <1>4. ASSUME Ends PROVE Contract!Next
    <2> DEFINE r == pending.request
    <2>1. r \in Requests /\ Outstanding = {r} /\ Outstanding' = {}
      BY <1>4 DEF Ends, Outstanding, TypeOK, Pending
    <2>2. answers[r] = 0
      BY <2>1 DEF RequestInv
    <2>3. answers' = [q \in Requests |-> IF q \in {r} THEN 1 ELSE answers[q]]
      <3>1. answers' = [answers EXCEPT ![r] = @ + 1]
            /\ answers \in [Requests -> Nat]
        BY <1>4 DEF Ends, TypeOK
      <3> HIDE DEF r
      <3>2. answers' = [answers EXCEPT ![r] = 1]
        BY <2>1, <2>2, <3>1
      <3> QED  BY <2>1, <3>1, <3>2
    <2> HIDE DEF r
    <2>4. Contract!Answer({r})
      BY <2>1, <2>3 DEF Contract!Answer
    <2> QED  BY <2>1, <2>4 DEF Contract!Next
  <1> QED  BY <1>1, <1>2, <1>3, <1>4, RequestSteps

\* The port implements the contract of RDMControllerInterface.h, for any nodes
\* and requests: whatever packets are lost, repeated or late, and although
\* patching and Stop intervene, a request is answered once, and no answer is
\* given to one that was not sent.
THEOREM Implements == Spec => ImplementsContract
  <1>1. Init => Contract!Init
    BY DEF Init, Contract!Init, Outstanding
  <1>2. TypeOK /\ RequestInv /\ [Next]_vars => [Contract!Next]_(Contract!vars)
    BY ContractStep
  <1> QED
    BY <1>1, <1>2, RequestInvariant, PTL
    DEF Spec, ImplementsContract, Contract!Spec

-----------------------------------------------------------------------------
(* Discoveries: OwnerUpToDate and MissedUIDsForgotten *)

\* The steps that have no part in a discovery.
Elsewhere ==
    UNCHANGED <<m_running, stopping, enabled, uids, discovery_callback,
                discovery_timeout, timers, ownerVars>>

\* As long as every packet is sent, a discovery has one timer and its own.
DiscoveryInv == TimersInv /\ OwnerUpToDate /\ MissedUIDsForgotten

\* No discovery, no timer, nothing to tell.
LEMMA DiscoveryInit == Init => DiscoveryInv
  BY DEF Init, DiscoveryInv, TimersInv, OwnerUpToDate, MissedUIDsForgotten

\* Counts only grow: no failure after a step, none before.
LEMMA NoFailureBefore ==
    ASSUME TypeOK, NEW ok \in BOOLEAN, SendPacket(ok), failures' = 0
    PROVE  ok /\ failures = 0
  BY SendPacketType

\* A discovery that starts, from a map with no UID past the limit.
LEMMA StartDiscoveryInv ==
    ASSUME TypeOK, TimersInv, UNCHANGED stopping, ~discovery_callback,
           NEW map, IsMap(map), NEW nodes, NEW ok \in BOOLEAN,
           StartDiscovery(map, nodes, ok),
           failures = 0 /\ stopping = "no" =>
               \A u \in DOMAIN map : map[u].missed < MissedLimit
    PROVE  DiscoveryInv'
  <1>1. /\ discovery_callback' = ok
        /\ timers' = timers \cup {discovery_timeout'}
        /\ uids' = [u \in DOMAIN map |-> [map[u] EXCEPT !.missed = @ + 1]]
    BY DEF StartDiscovery
  <1>2. failures' = 0 => ok /\ failures = 0
    BY NoFailureBefore DEF StartDiscovery
  <1>3. failures' \in Nat
    BY SendPacketType DEF StartDiscovery
  <1>4. TimersInv'
    BY <1>1, <1>2 DEF TimersInv
  <1>5. OwnerUpToDate'
    BY <1>1, <1>2, <1>3 DEF OwnerUpToDate
  <1>6. MissedUIDsForgotten'
    <2> SUFFICES ASSUME failures' = 0, stopping' = "no", NEW u \in DOMAIN uids'
                 PROVE  /\ discovery_callback'
                        /\ uids'[u].missed < MissedLimit + 1
      BY DEF MissedUIDsForgotten
    <2>1. u \in DOMAIN map /\ uids'[u] = [map[u] EXCEPT !.missed = @ + 1]
      BY <1>1
    <2>2. map[u] \in [node: Nodes, missed: Nat]
      BY <2>1 DEF IsMap
    <2>3. uids'[u].missed = map[u].missed + 1 /\ map[u].missed \in Nat
      BY <2>1, <2>2
    <2>4. map[u].missed < MissedLimit
      BY <1>2, <2>1
    <2> QED  BY <1>1, <1>2, <2>3, <2>4, ConstantsAssumption
  <1> QED  BY <1>4, <1>5, <1>6 DEF DiscoveryInv

\* Between discoveries no UID has reached the limit.
LEMMA BelowLimit ==
    ASSUME TypeOK, MissedUIDsForgotten, ~discovery_callback,
           failures = 0, stopping = "no", NEW u \in DOMAIN uids
    PROVE  uids[u].missed < MissedLimit
  BY ConstantsAssumption DEF MissedUIDsForgotten, TypeOK

\* The queueing controller starts a discovery.
LEMMA RunDiscoveryInv ==
    ASSUME TypeOK, DiscoveryInv, NEW ok \in BOOLEAN, RunDiscovery(ok)
    PROVE  DiscoveryInv'
  <1>1. /\ UNCHANGED stopping /\ ~discovery_callback
        /\ StartDiscovery(uids, subscribed_nodes, ok)
    BY DEF RunDiscovery, stopVars
  <1>2. IsMap(uids)
    BY DEF TypeOK, IsMap
  <1>3. failures = 0 /\ stopping = "no" =>
           \A u \in DOMAIN uids : uids[u].missed < MissedLimit
    BY <1>1, BelowLimit DEF DiscoveryInv
  <1> QED  BY <1>1, <1>2, <1>3, StartDiscoveryInv DEF DiscoveryInv

\* The port is patched: the new universe is told by the discovery, which starts
\* or waits for the one that is running.
LEMMA PatchInv ==
    ASSUME TypeOK, DiscoveryInv, NEW changed \in BOOLEAN, NEW ok \in BOOLEAN,
           Patch(changed, ok)
    PROVE  DiscoveryInv'
  <1> DEFINE map == IF changed THEN <<>> ELSE uids
             nodes == IF changed THEN {} ELSE subscribed_nodes
  <1>1. IsMap(map)
    <2>1. IsMap(<<>>) /\ IsMap(uids)
      BY DEF IsMap, TypeOK
    <2> QED  BY <2>1
  <1>2. UNCHANGED stopping
    BY DEF Patch, stopVars
  <1>3. \A u \in DOMAIN map : u \in DOMAIN uids /\ map[u] = uids[u]
    OBVIOUS
  <1>4. \/ /\ uids' = map /\ owed'
           /\ UNCHANGED <<discovery_callback, discovery_timeout, timers,
                          failures>>
        \/ StartDiscovery(map, nodes, ok) /\ ~discovery_callback
    BY DEF Patch, QueueBusy, discoveryVars
  <1> HIDE DEF map, nodes
  <1>5. CASE /\ uids' = map /\ owed'
             /\ UNCHANGED <<discovery_callback, discovery_timeout, timers,
                            failures>>
    <2>1. TimersInv' /\ OwnerUpToDate'
      BY <1>2, <1>5 DEF DiscoveryInv, TimersInv, OwnerUpToDate
    <2>2. MissedUIDsForgotten'
      BY <1>2, <1>3, <1>5 DEF DiscoveryInv, MissedUIDsForgotten
    <2> QED  BY <2>1, <2>2 DEF DiscoveryInv
  <1>6. CASE StartDiscovery(map, nodes, ok) /\ ~discovery_callback
    <2>1. failures = 0 /\ stopping = "no" =>
             \A u \in DOMAIN map : map[u].missed < MissedLimit
      BY <1>3, <1>6, BelowLimit DEF DiscoveryInv
    <2> QED  BY <1>1, <1>2, <1>6, <2>1, StartDiscoveryInv DEF DiscoveryInv
  <1> QED  BY <1>4, <1>5, <1>6

\* What is left after Forget has not reached the limit, if nothing was past it.
LEMMA ForgetBelow ==
    ASSUME NEW m, IsMap(m), \A u \in DOMAIN m : m[u].missed < MissedLimit + 1
    PROVE  \A u \in DOMAIN Forget(m) : Forget(m)[u].missed < MissedLimit
  <1> SUFFICES ASSUME NEW u \in DOMAIN Forget(m)
               PROVE  Forget(m)[u].missed < MissedLimit
    OBVIOUS
  <1>1. /\ u \in DOMAIN m /\ m[u].missed # MissedLimit
        /\ Forget(m)[u] = m[u]
    BY ForgetFacts
  <1>2. m[u].missed \in Nat
    BY <1>1 DEF IsMap
  <1> QED  BY <1>1, <1>2, ConstantsAssumption

\* A timer fires: it ends a discovery, or a packet was not sent.
LEMMA ReleaseDiscoveryLockInv ==
    ASSUME TypeOK, DiscoveryInv, ReleaseDiscoveryLock
    PROVE  DiscoveryInv'
  <1>1. /\ UNCHANGED <<m_running, stopping, enabled, failures>>
        /\ ~discovery_callback'
        /\ uids' = Forget(uids)
        /\ discovery_callback => ~behind' \/ owed'
        /\ timers # {} /\ stopping = "no"
    BY DEF ReleaseDiscoveryLock, Idle, RunDiscoveryCallback, Report, stopVars,
           patchVars
  <1>2. ASSUME failures = 0
        PROVE  discovery_callback /\ timers' = {}
    BY <1>1, <1>2 DEF DiscoveryInv, TimersInv, ReleaseDiscoveryLock
  <1>3. TimersInv'
    BY <1>1, <1>2 DEF DiscoveryInv, TimersInv
  <1>4. OwnerUpToDate'
    <2>1. failures \in Nat
      BY DEF TypeOK
    <2> QED  BY <1>1, <1>2, <2>1 DEF OwnerUpToDate, PortEnabled
  <1>5. MissedUIDsForgotten'
    <2> SUFFICES ASSUME failures = 0
                 PROVE  \A u \in DOMAIN uids' : uids'[u].missed < MissedLimit
      BY <1>1, ConstantsAssumption DEF MissedUIDsForgotten
    <2>1. \A u \in DOMAIN uids : uids[u].missed < MissedLimit + 1
      BY <1>1, <1>2 DEF DiscoveryInv, MissedUIDsForgotten
    <2>2. IsMap(uids)
      BY DEF TypeOK, IsMap
    <2> QED  BY <1>1, <2>1, <2>2, ForgetBelow
  <1> QED  BY <1>3, <1>4, <1>5 DEF DiscoveryInv

\* A packet arrives: it may end the discovery, and is reported otherwise.
LEMMA HandleTodDataInv ==
    ASSUME TypeOK, DiscoveryInv, NEW n \in Nodes, NEW packet,
           HandleTodData(n, packet)
    PROVE  DiscoveryInv'
  <1> DEFINE map == MapAfter(n, packet)
             Ended == /\ discovery_callback /\ ~discovery_callback'
                      /\ ~behind' \/ owed'
                      /\ timers' = timers \ {discovery_timeout}
                      /\ uids' = Forget(map)
             Noted == /\ UNCHANGED <<timers, discovery_timeout,
                                     discovery_callback>>
                      /\ uids' = map
                      /\ discovery_callback \/ ~behind'
  <1>1. /\ UNCHANGED <<m_running, stopping, enabled, failures>>
        /\ stopping = "no"
    BY DEF HandleTodData, Idle, stopVars, patchVars
  <1>2. Ended \/ Noted
    BY DEF HandleTodData, RunDiscoveryCallback, Report, Unsolicited
  <1>3. packet.tod \in SUBSET UIDs
    BY PacketUIDs DEF HandleTodData, TypeOK
  <1>4. IsMap(uids)
    BY DEF TypeOK, IsMap
  <1>5. IsMap(map)
    BY <1>3, <1>4, MapAfterFacts
  <1>6. ASSUME NEW limit \in Nat \ {0},
               \A u \in DOMAIN uids : uids[u].missed < limit
        PROVE  \A u \in DOMAIN map : map[u].missed < limit
    <2> TAKE u \in DOMAIN map
    <2>1. \/ map[u] = [node |-> n, missed |-> 0]
          \/ u \in DOMAIN uids /\ map[u] = uids[u]
      BY <1>3, <1>4, MapAfterFacts
    <2> QED  BY <1>6, <2>1
  <1> HIDE DEF map
  <1>7. TimersInv'
    BY <1>1, <1>2 DEF DiscoveryInv, TimersInv
  <1>8. OwnerUpToDate'
    BY <1>1, <1>2 DEF DiscoveryInv, OwnerUpToDate, PortEnabled
  <1>9. MissedUIDsForgotten'
    <2> SUFFICES ASSUME failures = 0
                 PROVE  \A u \in DOMAIN uids' : uids'[u].missed <
                           MissedLimit + (IF discovery_callback' THEN 1 ELSE 0)
      BY <1>1 DEF MissedUIDsForgotten
    <2>1. CASE Ended
      <3>1. \A u \in DOMAIN uids : uids[u].missed < MissedLimit + 1
        BY <1>1, <2>1 DEF DiscoveryInv, MissedUIDsForgotten
      <3>2. \A u \in DOMAIN map : map[u].missed < MissedLimit + 1
        BY <1>6, <3>1, ConstantsAssumption
      <3>3. \A u \in DOMAIN uids' : uids'[u].missed < MissedLimit
        BY <1>5, <2>1, <3>2, ForgetBelow
      <3> QED  BY <2>1, <3>3, ConstantsAssumption
    <2>2. CASE Noted
      <3> DEFINE limit == MissedLimit + (IF discovery_callback THEN 1 ELSE 0)
      <3>1. limit \in Nat \ {0}
        BY ConstantsAssumption
      <3>2. \A u \in DOMAIN uids : uids[u].missed < limit
        BY <1>1 DEF DiscoveryInv, MissedUIDsForgotten
      <3> HIDE DEF limit
      <3>3. \A u \in DOMAIN map : map[u].missed < limit
        BY <1>6, <3>1, <3>2
      <3> QED  BY <2>2, <3>3 DEF limit
    <2> QED  BY <1>2, <2>1, <2>2
  <1> QED  BY <1>7, <1>8, <1>9 DEF DiscoveryInv

\* Steps that have no part in a discovery.
LEMMA ElsewhereInv ==
    ASSUME TypeOK, DiscoveryInv, Elsewhere, failures' \in Nat,
           failures' = 0 => failures = 0
    PROVE  DiscoveryInv'
  <1>1. failures \in Nat
    BY DEF TypeOK
  <1> QED
    BY <1>1 DEF DiscoveryInv, Elsewhere, ownerVars, TimersInv, OwnerUpToDate,
                MissedUIDsForgotten, PortEnabled

\* Every step keeps timers and discoveries together.
LEMMA DiscoveryNext ==
    TypeOK /\ RequestInv /\ DiscoveryInv /\ [Next]_vars => DiscoveryInv'
  <1> SUFFICES ASSUME TypeOK, RequestInv, DiscoveryInv, [Next]_vars
               PROVE  DiscoveryInv'
    OBVIOUS
  <1>1. ASSUME NEW ok \in BOOLEAN, RunDiscovery(ok) PROVE DiscoveryInv'
    BY <1>1, RunDiscoveryInv
  <1>2. ASSUME ReleaseDiscoveryLock PROVE DiscoveryInv'
    BY <1>2, ReleaseDiscoveryLockInv
  <1>3. ASSUME NEW n \in Nodes, NEW packet, HandleTodData(n, packet)
        PROVE  DiscoveryInv'
    BY <1>3, HandleTodDataInv
  <1>4. ASSUME NEW r \in Requests, NEW ok \in BOOLEAN, SendRDMRequest(r, ok)
        PROVE  DiscoveryInv'
    <2>1. failures' \in Nat /\ (failures' = 0 => failures = 0)
      BY <1>4, SendPacketType DEF SendRDMRequest
    <2>2. Elsewhere
      BY <1>4 DEF SendRDMRequest, Elsewhere, stopVars, todVars, discoveryVars,
                  patchVars
    <2> QED  BY <2>1, <2>2, ElsewhereInv
  <1>5. ASSUME \/ TimeoutRDMRequest \/ UNCHANGED vars
               \/ \E table \in Tables : DevicesChange(table)
               \/ \E n \in Nodes : HandleReplyPacket(n)
               \/ \E silent \in SUBSET subscribed_nodes : SendDMX(silent)
               \/ \E r \in Requests : RefuseRequest(r)
               \/ \E n \in Nodes : \E response \in Responses(n) :
                     HandleRDMResponse(n, response)
        PROVE  DiscoveryInv'
    <2>1. Elsewhere /\ UNCHANGED failures
      BY <1>5 DEF TimeoutRDMRequest, DevicesChange,
                  HandleReplyPacket, SendDMX, RefuseRequest, HandleRDMResponse,
                  Elsewhere, vars, stopVars, todVars, discoveryVars, patchVars
    <2> QED  BY <2>1, ElsewhereInv DEF TypeOK
  <1>6. ASSUME Unpatch \/ RefuseDiscovery PROVE DiscoveryInv'
    <2>1. /\ UNCHANGED <<m_running, stopping, uids, discovery_callback,
                         discovery_timeout, timers, failures, behind>>
          /\ ~enabled' \/ ~m_running'
      BY <1>6 DEF Unpatch, RefuseDiscovery, PortEnabled, stopVars, todVars,
                  discoveryVars, patchVars
    <2> QED  BY <2>1 DEF DiscoveryInv, TimersInv, OwnerUpToDate,
                         MissedUIDsForgotten, PortEnabled
  <1>7. ASSUME NEW changed \in BOOLEAN, NEW ok \in BOOLEAN, Patch(changed, ok)
        PROVE  DiscoveryInv'
    BY <1>7, PatchInv
  <1>8. ASSUME Stop PROVE DiscoveryInv'
    <2>1. /\ stopping' = "request"
          /\ UNCHANGED <<m_running, enabled, uids, failures, owed>>
          /\ discovery_callback => ~behind' \/ owed'
          /\ ~discovery_callback => behind' = behind
      BY <1>8 DEF Stop, RunDiscoveryCallback, Report, Silent, todVars, patchVars,
                  TypeOK
    <2> QED  BY <2>1 DEF DiscoveryInv, TimersInv, OwnerUpToDate,
                         MissedUIDsForgotten, PortEnabled
  <1>9. ASSUME StopRequest \/ StopFinish PROVE DiscoveryInv'
    <2>1. /\ stopping' \in {"finish", "deleted"}
          /\ m_running' => m_running
          /\ UNCHANGED <<enabled, discovery_callback, failures, behind, owed>>
      BY <1>9 DEF StopRequest, StopFinish, discoveryVars, patchVars, ownerVars
    <2> QED  BY <2>1 DEF DiscoveryInv, TimersInv, OwnerUpToDate,
                         MissedUIDsForgotten, PortEnabled
  <1> QED
    BY <1>1, <1>2, <1>3, <1>4, <1>5, <1>6, <1>7, <1>8, <1>9 DEF Next

\* Whatever order tables, timers, patching and Stop come in.
LEMMA DiscoveryInvariant == Spec => []DiscoveryInv
  BY RequestInvariant, DiscoveryInit, DiscoveryNext, PTL DEF Spec

\* The universe a port is patched to has been told of the UIDs the port knows,
\* or a discovery that will tell it is running or waits: no table that arrives,
\* no timer and no patching leaves it uninformed, unless a packet of a discovery
\* could not be sent.
THEOREM OwnerKnows == Spec => []OwnerUpToDate
  <1>1. DiscoveryInv => OwnerUpToDate
    BY DEF DiscoveryInv
  <1> QED  BY <1>1, DiscoveryInvariant, PTL

\* A UID that the limit of discoveries did not find is gone at the end of the
\* last of them, for any limit: the count never passes it, although the code
\* compares with ==, unless a packet of a discovery could not be sent.
THEOREM Forgotten == Spec => []MissedUIDsForgotten
  <1>1. DiscoveryInv => MissedUIDsForgotten
    BY DEF DiscoveryInv
  <1> QED  BY <1>1, DiscoveryInvariant, PTL

-----------------------------------------------------------------------------
(* The map: MapConverges *)

\* Nothing is known to be right.
LEMMA TruthInit == Init => TruthInv
  BY DEF Init, TruthInv

\* Steps that do not touch the map, or after which nothing is taken as right.
LEMMA TruthStays ==
    ASSUME TruthInv,
           truthful' = {} \/ UNCHANGED <<uids, attached, truthful>>
    PROVE  TruthInv'
  BY DEF TruthInv

\* A packet arrives.  One that lists a device the node does not have is taken
\* as the end of everything known; any other leaves the devices of truthful
\* nodes in the map, and a whole one removes nothing that is there.
LEMMA HandleTodDataTruth ==
    ASSUME TypeOK, TruthInv, NEW n \in Nodes, NEW packet,
           HandleTodData(n, packet)
    PROVE  TruthInv'
  <1> DEFINE map == MapAfter(n, packet)
  <1>1. /\ UNCHANGED attached
        /\ truthful' = IF uids' = map THEN TruthfulAfter(n, packet) ELSE {}
    BY DEF HandleTodData, nodeVars
  <1>2. packet.tod \in SUBSET UIDs
    BY PacketUIDs DEF HandleTodData, TypeOK
  <1>3. IsMap(uids)
    BY DEF TypeOK, IsMap
  <1>4. /\ \A u \in DOMAIN map :
             \/ u \in packet.tod /\ map[u] = [node |-> n, missed |-> 0]
             \/ /\ u \in DOMAIN uids \ packet.tod /\ map[u] = uids[u]
                /\ Whole(packet) => uids[u].node # n
        /\ packet.tod \subseteq DOMAIN map
        /\ \A u \in DOMAIN uids : ~Whole(packet) \/ uids[u].node # n =>
              u \in DOMAIN map
    BY <1>2, <1>3, MapAfterFacts
  <1> HIDE DEF map
  <1>5. CASE truthful' = {}
    BY <1>5, TruthStays
  <1>6. ASSUME truthful' # {}
        PROVE  /\ uids' = map
               /\ packet.tod \subseteq attached[n]
               /\ Whole(packet) => packet.tod = attached[n]
               /\ \A m \in truthful' : m \in truthful \/ (m = n /\ Whole(packet))
    <2>1. uids' = map /\ truthful' = TruthfulAfter(n, packet)
      BY <1>1, <1>6
    <2>2. packet.tod \subseteq attached[n]
      BY <1>6, <2>1 DEF TruthfulAfter
    <2>3. Whole(packet) => packet.tod = attached[n]
      BY <1>6, <2>1 DEF TruthfulAfter
    <2>4. ASSUME NEW m \in truthful'
          PROVE  m \in truthful \/ (m = n /\ Whole(packet))
      <3>1. CASE Whole(packet) /\ packet.tod = attached[n]
        BY <2>1, <2>2, <2>4, <3>1 DEF TruthfulAfter
      <3>2. CASE ~Whole(packet)
        BY <2>1, <2>2, <2>4, <3>2 DEF TruthfulAfter
      <3> QED  BY <2>3, <3>1, <3>2
    <2> QED  BY <2>1, <2>2, <2>3, <2>4
  <1>7. ASSUME truthful' # {}, NEW m \in truthful', NEW u \in attached[m]
        PROVE  u \in DOMAIN map /\ u \in attached[map[u].node]
    <2>1. CASE u \in packet.tod
      <3>1. u \in DOMAIN map /\ map[u].node = n
        BY <1>4, <2>1
      <3> QED  BY <1>6, <1>7, <2>1, <3>1
    <2>2. CASE u \notin packet.tod
      <3>1. m \in truthful
        BY <1>6, <1>7, <2>2
      <3>2. u \in DOMAIN uids /\ u \in attached[uids[u].node]
        BY <1>7, <3>1 DEF TruthInv
      <3>3. Whole(packet) => uids[u].node # n
        BY <1>6, <1>7, <2>2, <3>2
      <3>4. u \in DOMAIN map /\ map[u] = uids[u]
        BY <1>4, <2>2, <3>2, <3>3
      <3> QED  BY <3>2, <3>4
    <2> QED  BY <2>1, <2>2
  <1>8. ASSUME truthful' # {}, NEW m \in truthful', NEW u \in DOMAIN map,
               map[u].node = m
        PROVE  u \in attached[m]
    <2>1. CASE u \in packet.tod /\ map[u] = [node |-> n, missed |-> 0]
      BY <1>6, <1>8, <2>1
    <2>2. CASE /\ u \in DOMAIN uids \ packet.tod /\ map[u] = uids[u]
               /\ Whole(packet) => uids[u].node # n
      <3>1. m \in truthful
        BY <1>6, <1>8, <2>2
      <3> QED  BY <1>8, <2>2, <3>1 DEF TruthInv
    <2> QED  BY <1>4, <2>1, <2>2
  <1>9. CASE truthful' # {}
    BY <1>1, <1>6, <1>7, <1>8, <1>9 DEF TruthInv
  <1> QED  BY <1>5, <1>9

\* Every step keeps the map right as far as it is taken to be right.
LEMMA TruthNext == TypeOK /\ TruthInv /\ [Next]_vars => TruthInv'
  <1> SUFFICES ASSUME TypeOK, TruthInv, [Next]_vars PROVE TruthInv'
    OBVIOUS
  <1>1. ASSUME NEW n \in Nodes, NEW packet, HandleTodData(n, packet)
        PROVE  TruthInv'
    BY <1>1, HandleTodDataTruth
  <1>2. ASSUME NEW ok \in BOOLEAN, RunDiscovery(ok) PROVE TruthInv'
    <2>1. /\ UNCHANGED <<truthful, attached>>
          /\ uids' = [u \in DOMAIN uids |-> [uids[u] EXCEPT !.missed = @ + 1]]
      BY <1>2 DEF RunDiscovery, StartDiscovery, nodeVars
    <2>2. \A u \in DOMAIN uids : uids'[u].node = uids[u].node
      <3> TAKE u \in DOMAIN uids
      <3>1. uids[u] \in [node: Nodes, missed: Nat]
        BY DEF TypeOK
      <3> QED  BY <2>1, <3>1
    <2>3. DOMAIN uids' = DOMAIN uids
      BY <2>1
    <2> QED  BY <2>1, <2>2, <2>3 DEF TruthInv
  <1>3. ASSUME ReleaseDiscoveryLock \/ (\E table \in Tables : DevicesChange(table))
               \/ (\E changed, ok \in BOOLEAN : Patch(changed, ok))
        PROVE  TruthInv'
    <2>1. truthful' = {} \/ UNCHANGED <<uids, attached, truthful>>
      BY <1>3 DEF ReleaseDiscoveryLock, DevicesChange, Patch, nodeVars
    <2> QED  BY <2>1, TruthStays
  <1>4. ASSUME \/ RefuseDiscovery \/ TimeoutRDMRequest \/ UNCHANGED vars
               \/ Unpatch \/ Stop \/ StopRequest \/ StopFinish
               \/ \E n \in Nodes : HandleReplyPacket(n)
               \/ \E silent \in SUBSET subscribed_nodes : SendDMX(silent)
               \/ \E r \in Requests : RefuseRequest(r)
               \/ \E r \in Requests, ok \in BOOLEAN : SendRDMRequest(r, ok)
               \/ \E n \in Nodes : \E response \in Responses(n) :
                     HandleRDMResponse(n, response)
        PROVE  TruthInv'
    <2>1. UNCHANGED <<uids, attached, truthful>>
      BY <1>4 DEF RefuseDiscovery, TimeoutRDMRequest, Unpatch, Stop, StopRequest,
                  StopFinish, HandleReplyPacket, SendDMX, RefuseRequest,
                  SendRDMRequest, HandleRDMResponse, vars, todVars, nodeVars
    <2> QED  BY <2>1, TruthStays
  <1> QED  BY <1>1, <1>2, <1>3, <1>4 DEF Next

\* The map converges, for any nodes, devices and block size: once the whole
\* table of every node has arrived and no packet since was untrue, the map
\* shows every device behind a node that has it, and no other, whatever
\* outdated and partial tables came before and in whatever order.
THEOREM Converges == Spec => []MapConverges
  <1>1. TypeOK /\ TruthInv => MapConverges
    <2> SUFFICES ASSUME TypeOK, TruthInv, truthful = Nodes
                 PROVE  /\ DOMAIN uids = UNION {attached[n] : n \in Nodes}
                        /\ \A u \in DOMAIN uids : u \in attached[uids[u].node]
      BY DEF MapConverges
    <2>1. \A u \in DOMAIN uids : uids[u].node \in Nodes
      BY DEF TypeOK
    <2>2. \A u \in DOMAIN uids : u \in attached[uids[u].node]
      BY <2>1 DEF TruthInv
    <2>3. \A n \in Nodes : \A u \in attached[n] : u \in DOMAIN uids
      BY DEF TruthInv
    <2> QED  BY <2>1, <2>2, <2>3
  <1> QED  BY <1>1, TypeCorrect, TruthInit, TruthNext, PTL DEF Spec

=============================================================================
