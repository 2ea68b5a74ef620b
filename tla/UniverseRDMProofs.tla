-------------------------- MODULE UniverseRDMProofs --------------------------
(***************************************************************************)
(* Proofs about UniverseRDM, for any UIDs and any finite set of ports, any *)
(* number of discoveries and requests.                                     *)
(***************************************************************************)
EXTENDS UniverseRDM, FiniteSetTheorems, TLAPS

-----------------------------------------------------------------------------
(* The UID map *)

MapTypes ==
    /\ m_output_ports \subseteq Ports
    /\ DOMAIN m_output_uids \subseteq UIDs
    /\ \A u \in DOMAIN m_output_uids : m_output_uids[u] \in Ports
    /\ reported \in [Ports -> SUBSET UIDs]
    /\ contested \subseteq UIDs
    /\ late \subseteq Ports

\* What a port reported last, in the universe or not, is mapped to it unless
\* it was seen on another port: what makes OnlyContestedLost inductive.
MappedOrContested ==
    \A p \in Ports : \A u \in reported[p] :
        \/ u \in contested
        \/ u \in DOMAIN m_output_uids /\ m_output_uids[u] = p

UIDInv ==
    /\ MapTypes
    /\ RoutesToReporter
    /\ OnlyLatePortsLinger
    /\ MappedOrContested

LEMMA UIDInit == Init => UIDInv
  BY DEF Init, UIDInv, MapTypes, RoutesToReporter, OnlyLatePortsLinger,
         MappedOrContested

\* A port's list of UIDs is entered in the map.
LEMMA NewUIDListKeeps ==
    ASSUME UIDInv, UNCHANGED m_output_ports,
           NEW p \in Ports, NEW uids \in SUBSET UIDs, NewUIDList(p, uids)
    PROVE  UIDInv'
  <1> DEFINE kept == DOMAIN m_output_uids \ GoneFrom(p, uids)
  <1>1. /\ m_output_uids' = [u \in kept \cup uids |->
                                IF u \in kept THEN m_output_uids[u] ELSE p]
        /\ reported' = [reported EXCEPT ![p] = uids]
        /\ contested' = contested \cup {u \in kept \cap uids :
                                           m_output_uids[u] # p}
        /\ late' = late \cup ({p} \ m_output_ports)
    BY DEF NewUIDList
  <1>2. /\ kept \subseteq DOMAIN m_output_uids
        /\ \A u \in kept : m_output_uids[u] = p => u \in uids
        /\ \A u \in DOMAIN m_output_uids : m_output_uids[u] # p => u \in kept
    BY DEF GoneFrom
  <1> HIDE DEF kept
  <1>3. MapTypes'
    BY <1>1, <1>2 DEF UIDInv, MapTypes
  <1>4. RoutesToReporter'
    BY <1>1, <1>2 DEF UIDInv, MapTypes, RoutesToReporter
  <1>5. OnlyLatePortsLinger'
    BY <1>1, <1>2 DEF UIDInv, MapTypes, OnlyLatePortsLinger
  <1>6. MappedOrContested'
    BY <1>1, <1>2 DEF UIDInv, MapTypes, MappedOrContested
  <1> QED  BY <1>3, <1>4, <1>5, <1>6 DEF UIDInv

\* A removed port takes with it the UIDs mapped to it.
LEMMA RemovePortKeeps ==
    ASSUME UIDInv, NEW p \in Ports, RemovePort(p)
    PROVE  UIDInv'
  <1> DEFINE kept == DOMAIN m_output_uids \ GoneFrom(p, {})
  <1>1. /\ m_output_ports' = m_output_ports \ {p}
        /\ m_output_uids' = [u \in kept |-> m_output_uids[u]]
        /\ reported' = [reported EXCEPT ![p] = {}]
        /\ UNCHANGED <<contested, late>>
    BY DEF RemovePort
  <1>2. kept = {u \in DOMAIN m_output_uids : m_output_uids[u] # p}
    BY DEF GoneFrom
  <1> HIDE DEF kept
  <1>3. MapTypes'
    BY <1>1, <1>2 DEF UIDInv, MapTypes
  <1>4. RoutesToReporter'
    BY <1>1, <1>2 DEF UIDInv, MapTypes, RoutesToReporter
  <1>5. OnlyLatePortsLinger'
    BY <1>1, <1>2 DEF UIDInv, MapTypes, OnlyLatePortsLinger
  <1>6. MappedOrContested'
    BY <1>1, <1>2 DEF UIDInv, MapTypes, MappedOrContested
  <1> QED  BY <1>3, <1>4, <1>5, <1>6 DEF UIDInv

\* Steps that only add to the ports of the universe.
LEMMA PortsGrowKeeps ==
    ASSUME UIDInv, UNCHANGED uidVars,
           m_output_ports \subseteq m_output_ports',
           m_output_ports' \subseteq Ports
    PROVE  UIDInv'
  BY DEF UIDInv, uidVars, MapTypes, RoutesToReporter, OnlyLatePortsLinger,
         MappedOrContested

LEMMA UIDNext == UIDInv /\ [Next]_vars => UIDInv'
  <1> SUFFICES ASSUME UIDInv, [Next]_vars PROVE UIDInv'
    OBVIOUS
  <1>0. m_output_ports \subseteq Ports
    BY DEF UIDInv, MapTypes
  <1>1. ASSUME NEW p \in Ports, AddPort(p) PROVE UIDInv'
    BY <1>0, <1>1, PortsGrowKeeps DEF AddPort
  <1>2. ASSUME NEW p \in Ports, UpdateUIDs(p) PROVE UIDInv'
    <2>1. CASE p \in m_output_ports
      <3>1. PICK uids \in SUBSET UIDs : NewUIDList(p, uids)
        BY <1>2, <2>1 DEF UpdateUIDs
      <3> QED  BY <1>2, <3>1, NewUIDListKeeps DEF UpdateUIDs
    <2>2. CASE p \notin m_output_ports
      BY <1>0, <1>2, <2>2, PortsGrowKeeps DEF UpdateUIDs
    <2> QED  BY <2>1, <2>2
  <1>3. ASSUME NEW p \in Ports, RemovePort(p) PROVE UIDInv'
    BY <1>3, RemovePortKeeps
  <1>4. ASSUME NEW d \in Discoveries, RunRDMDiscovery(d) PROVE UIDInv'
    BY <1>0, <1>4, PortsGrowKeeps DEF RunRDMDiscovery
  <1>5. ASSUME NEW d \in Discoveries, NEW p \in Ports,
               PortDiscoveryComplete(d, p)
        PROVE  UIDInv'
    <2>1. PICK uids \in SUBSET UIDs : NewUIDList(p, uids)
      BY <1>5 DEF PortDiscoveryComplete
    <2> QED  BY <1>5, <2>1, NewUIDListKeeps DEF PortDiscoveryComplete
  <1>6. ASSUME NEW r \in Requests, SendRDMRequest(r) PROVE UIDInv'
    BY <1>0, <1>6, PortsGrowKeeps DEF SendRDMRequest
  <1>7. ASSUME NEW r \in Requests, NEW p \in Ports, PortAnswers(r, p)
        PROVE  UIDInv'
    BY <1>0, <1>7, PortsGrowKeeps DEF PortAnswers
  <1>8. CASE UNCHANGED vars
    BY <1>0, <1>8, PortsGrowKeeps DEF vars, uidVars
  <1> QED
    BY <1>1, <1>2, <1>3, <1>4, <1>5, <1>6, <1>7, <1>8 DEF Next

LEMMA UIDInvariant == Spec => []UIDInv
  BY UIDInit, UIDNext, PTL DEF Spec

\* The port a request is routed to (SendRDMRequest looks it up in
\* m_output_uids) reported the UID in its last discovery.
THEOREM Routes == Spec => []RoutesToReporter
  <1>1. UIDInv => RoutesToReporter
    BY DEF UIDInv
  <1> QED  BY <1>1, UIDInvariant, PTL

\* Only an answer that comes after RemovePort leaves a removed port in the
\* map: RemovePort itself erases all of the port's UIDs.
THEOREM Lingers == Spec => []OnlyLatePortsLinger
  <1>1. UIDInv => OnlyLatePortsLinger
    BY DEF UIDInv
  <1> QED  BY <1>1, UIDInvariant, PTL

\* NewUIDList loses no UID that only one port has ever reported.
THEOREM Lost == Spec => []OnlyContestedLost
  <1>1. UIDInv => OnlyContestedLost
    BY DEF UIDInv, MapTypes, MappedOrContested, OnlyContestedLost
  <1> QED  BY <1>1, UIDInvariant, PTL

\* The three together: what m_output_uids holds, for any number of ports, UIDs
\* and discoveries, in whichever order the ports answer and are patched.
THEOREM TableExact == Spec => []UIDTableExact
  <1>1. RoutesToReporter /\ OnlyLatePortsLinger /\ OnlyContestedLost
          => UIDTableExact
    BY DEF UIDTableExact
  <1> QED  BY <1>1, Routes, Lingers, Lost, PTL

-----------------------------------------------------------------------------
(* Discoveries and requests on several ports *)

\* The ports still owed are the answers missing to the limit, so the count
\* reaches it exactly when the last of them answers.
SessionOK(s) ==
    /\ s \in Session
    /\ s.count + Cardinality(s.owed) = s.limit
    /\ s.runs = IF s.started /\ s.owed = {} THEN 1 ELSE 0
    /\ ~ s.started => s.owed = {}

\* The same for the tracker of a request.
TrackerOK(t) ==
    /\ t \in Tracker
    /\ t.count + Cardinality(t.owed) = t.expected
    /\ t.runs \in {0, 1}
    /\ t.owed # {} => t.runs = 0 /\ t.kind # "none"
    /\ t.answers # {} /\ t.owed = {} => t.runs = 1
    /\ t.kind = "none" => t.count = 0 /\ t.runs = 0 /\ t.answers = {}

\* The inductive invariant behind RunsAfterAll.
CountInv ==
    /\ session \in [Discoveries -> Session]
    /\ tracker \in [Requests -> Tracker]
    /\ \A d \in Discoveries : SessionOK(session[d])
    /\ \A r \in Requests : TrackerOK(tracker[r])

\* A set of ports is finite, and one port less is one port less.
LEMMA Owed ==
    ASSUME NEW owed \in SUBSET Ports
    PROVE  /\ IsFiniteSet(owed)
           /\ Cardinality(owed) \in Nat
           /\ Cardinality(owed) = 0 <=> owed = {}
           /\ \A p \in owed :
                 /\ Cardinality(owed \ {p}) = Cardinality(owed) - 1
                 /\ owed \ {p} = {} <=> Cardinality(owed) = 1
  <1>1. IsFiniteSet(owed)
    BY ConstantsAssumption, FS_Subset
  <1>2. Cardinality(owed) \in Nat
    BY <1>1, FS_CardinalityType
  <1>3. Cardinality(owed) = 0 <=> owed = {}
    BY <1>1, FS_EmptySet
  <1>4. ASSUME NEW p \in owed
        PROVE  /\ Cardinality(owed \ {p}) = Cardinality(owed) - 1
               /\ owed \ {p} = {} <=> Cardinality(owed) = 1
    <2>1. /\ IsFiniteSet(owed \ {p})
          /\ Cardinality(owed \ {p}) = Cardinality(owed) - 1
      BY <1>1, FS_RemoveElement
    <2>2. Cardinality(owed \ {p}) = 0 <=> owed \ {p} = {}
      BY <2>1, FS_EmptySet
    <2> QED  BY <1>2, <2>1, <2>2
  <1> QED  BY <1>1, <1>2, <1>3, <1>4

\* The codes are those the ports answer with and those the universe starts
\* with.
LEMMA CodesFacts ==
    /\ \A kind \in Kinds : PortCodes[kind] \subseteq Codes
    /\ {"none", "UNKNOWN_UID", "NOT_SUPPORTED", "WAS_BROADCAST"} \subseteq Codes
  <1>1. DOMAIN PortCodes = Kinds
    BY DEF PortCodes, Kinds
  <1>2. \A kind \in Kinds : PortCodes[kind] \in Range(PortCodes)
    BY <1>1 DEF Range
  <1>3. \A kind \in Kinds : PortCodes[kind] \subseteq Codes
    BY <1>2 DEF Codes
  <1>4. /\ "WAS_BROADCAST" \in PortCodes["broadcast"]
        /\ "NOT_SUPPORTED" \in PortCodes["dub"]
    BY DEF PortCodes
  <1>5. "none" \in Codes /\ "UNKNOWN_UID" \in Codes
    BY DEF Codes
  <1> QED  BY <1>3, <1>4, <1>5 DEF Kinds

\* Nobody has been asked at first.
LEMMA CountInit == Init => CountInv
  <1> SUFFICES ASSUME Init PROVE CountInv
    OBVIOUS
  <1>1. Cardinality({}) = 0
    BY FS_EmptySet
  <1>2. NewSession \in Session /\ SessionOK(NewSession)
    BY <1>1 DEF NewSession, Session, SessionOK
  <1>3. NewTracker \in Tracker /\ TrackerOK(NewTracker)
    BY <1>1, CodesFacts DEF NewTracker, Tracker, TrackerOK
  <1> QED  BY <1>2, <1>3 DEF Init, CountInv

\* A discovery is started on all ports of the universe.
LEMMA SessionStarts ==
    ASSUME NEW ports \in SUBSET Ports
    PROVE  SessionOK([started |-> TRUE, limit |-> Cardinality(ports),
                      count |-> 0, owed |-> ports,
                      runs |-> IF ports = {} THEN 1 ELSE 0])
  BY Owed DEF SessionOK, Session

\* A port's answer is counted.
LEMMA SessionCounts ==
    ASSUME NEW s, SessionOK(s), NEW p \in s.owed
    PROVE  SessionOK(MultiCallbackRun(s, p))
  <1> DEFINE new == MultiCallbackRun(s, p)
  <1>1. /\ s \in Session /\ s.started /\ s.owed \in SUBSET Ports
        /\ s.count \in Nat /\ s.runs = 0
        /\ s.count + Cardinality(s.owed) = s.limit
    BY DEF SessionOK, Session
  <1>2. /\ Cardinality(s.owed) \in Nat
        /\ Cardinality(s.owed \ {p}) = Cardinality(s.owed) - 1
        /\ s.owed \ {p} = {} <=> Cardinality(s.owed) = 1
    BY <1>1, Owed
  <1>3. /\ new \in Session
        /\ new.started /\ new.owed = s.owed \ {p} /\ new.limit = s.limit
        /\ new.count = s.count + 1
        /\ new.runs = IF s.count + 1 = s.limit THEN 1 ELSE 0
    <2>1. /\ s.owed \ {p} \in SUBSET Ports /\ s.count + 1 \in Nat
          /\ (IF s.count + 1 = s.limit THEN s.runs + 1 ELSE s.runs) \in Nat
          /\ (IF s.count + 1 = s.limit THEN s.runs + 1 ELSE s.runs)
                = IF s.count + 1 = s.limit THEN 1 ELSE 0
      BY <1>1
    <2>2. new = [s EXCEPT !.owed = s.owed \ {p},
                          !.count = s.count + 1,
                          !.runs = IF s.count + 1 = s.limit
                                   THEN s.runs + 1 ELSE s.runs]
      BY <1>1 DEF MultiCallbackRun, Session
    <2> HIDE DEF new
    <2> QED  BY <1>1, <2>1, <2>2 DEF Session
  <1> HIDE DEF new
  <1>4. new.runs = IF new.started /\ new.owed = {} THEN 1 ELSE 0
    BY <1>1, <1>2, <1>3
  <1>5. new.count + Cardinality(new.owed) = new.limit
    BY <1>1, <1>2, <1>3
  <1>6. SessionOK(new)
    BY <1>3, <1>4, <1>5 DEF SessionOK
  <1> QED  BY <1>6 DEF new

\* A request is sent, to one port, to all or to none.
LEMMA TrackerStarts ==
    ASSUME CountInv, UIDInv, NEW r \in Requests, SendRDMRequest(r)
    PROVE  /\ TrackerOK(tracker'[r])
           /\ tracker' = [tracker EXCEPT ![r] = tracker'[r]]
  <1> DEFINE t == tracker[r]
  <1>1. /\ TrackerOK(t) /\ t \in Tracker /\ t.kind = "none"
        /\ t.count = 0 /\ t.runs = 0 /\ t.answers = {}
        /\ tracker \in [Requests -> Tracker]
    BY DEF CountInv, TrackerOK, SendRDMRequest
  <1>2. CASE \E u \in UIDs : SendToUID(r, u)
    <2>1. PICK u \in UIDs : SendToUID(r, u)
      BY <1>2
    <2> DEFINE known == u \in DOMAIN m_output_uids
               owed == IF known THEN {m_output_uids[u]} ELSE {}
               new == [t EXCEPT !.kind = "unicast",
                                !.owed = owed,
                                !.expected = IF known THEN 1 ELSE 0,
                                !.code = IF known THEN "none"
                                         ELSE "UNKNOWN_UID",
                                !.runs = IF known THEN 0 ELSE 1]
    <2>2. tracker' = [tracker EXCEPT ![r] = new]
      BY <2>1 DEF SendToUID
    <2>3. owed \in SUBSET Ports
      BY DEF UIDInv, MapTypes
    <2>4. Cardinality(owed) = IF known THEN 1 ELSE 0
      BY FS_Singleton, FS_EmptySet
    <2>5. new \in Tracker
      BY <1>1, <2>3, CodesFacts DEF Tracker, Kinds
    <2>6. TrackerOK(new)
      BY <1>1, <2>4, <2>5 DEF TrackerOK, Tracker
    <2> HIDE DEF new
    <2> QED  BY <1>1, <2>2, <2>6
  <1>3. CASE \E kind \in {"broadcast", "dub"} : SendToAll(r, kind)
    <2>1. PICK kind \in {"broadcast", "dub"} : SendToAll(r, kind)
      BY <1>3
    <2> DEFINE new == [t EXCEPT !.kind = kind,
                                !.owed = m_output_ports,
                                !.expected = Cardinality(m_output_ports),
                                !.code = IF kind = "dub" THEN "NOT_SUPPORTED"
                                         ELSE "WAS_BROADCAST"]
    <2>2. tracker' = [tracker EXCEPT ![r] = new]
      BY <2>1 DEF SendToAll
    <2>3. m_output_ports \in SUBSET Ports
      BY DEF UIDInv, MapTypes
    <2>4. Cardinality(m_output_ports) \in Nat
      BY <2>3, Owed
    <2>5. new \in Tracker
      BY <1>1, <2>1, <2>3, <2>4, CodesFacts DEF Tracker, Kinds
    <2>6. TrackerOK(new)
      BY <1>1, <2>1, <2>4, <2>5 DEF TrackerOK, Tracker
    <2> HIDE DEF new
    <2> QED  BY <1>1, <2>2, <2>6
  <1> QED  BY <1>2, <1>3 DEF SendRDMRequest

\* A port's answer to a request is counted.
LEMMA TrackerCounts ==
    ASSUME NEW t, TrackerOK(t), NEW p \in t.owed, NEW code \in PortCodes[t.kind]
    PROVE  TrackerOK(Answered(t, p, code))
  <1> DEFINE new == Answered(t, p, code)
  <1>1. /\ t \in Tracker /\ t.kind \in Kinds /\ t.owed \in SUBSET Ports
        /\ t.count \in Nat /\ t.runs = 0 /\ t.expected \in Nat
        /\ t.code \in Codes /\ p \in Ports
        /\ t.count + Cardinality(t.owed) = t.expected
    BY DEF TrackerOK, Tracker
  <1>2. /\ Cardinality(t.owed) \in Nat
        /\ Cardinality(t.owed \ {p}) = Cardinality(t.owed) - 1
        /\ t.owed \ {p} = {} <=> Cardinality(t.owed) = 1
    BY <1>1, Owed
  <1>3. code \in Codes
    BY <1>1, CodesFacts
  <1> DEFINE result == CASE t.kind = "unicast" -> code
                         [] t.kind = "broadcast" -> HandleBroadcastAck(t, code)
                         [] t.kind = "dub" -> HandleBroadcastDiscovery(t, code)
  <1>4. result \in Codes
    BY <1>1, <1>3 DEF Kinds, HandleBroadcastAck, HandleBroadcastDiscovery
  <1>5. new = [t EXCEPT !.owed = t.owed \ {p},
                        !.count = t.count + 1,
                        !.code = result,
                        !.packets = IF code = "DUB_RESPONSE"
                                    THEN t.packets \cup {p} ELSE t.packets,
                        !.runs = IF t.count + 1 = t.expected
                                 THEN t.runs + 1 ELSE t.runs,
                        !.answers = t.answers \cup {<<p, code>>}]
    BY <1>1 DEF Answered, Tracker
  <1> HIDE DEF result
  <1>6. /\ new \in Tracker
        /\ new.owed = t.owed \ {p} /\ new.count = t.count + 1
        /\ new.expected = t.expected /\ new.kind = t.kind
        /\ new.runs = IF t.count + 1 = t.expected THEN 1 ELSE 0
    <2> DEFINE packets == IF code = "DUB_RESPONSE" THEN t.packets \cup {p}
                                                   ELSE t.packets
               runs == IF t.count + 1 = t.expected THEN t.runs + 1 ELSE t.runs
               answers == t.answers \cup {<<p, code>>}
    <2>1. packets \in SUBSET Ports /\ t.owed \ {p} \in SUBSET Ports
      BY <1>1 DEF Tracker
    <2>2. /\ runs \in Nat /\ t.count + 1 \in Nat
          /\ runs = IF t.count + 1 = t.expected THEN 1 ELSE 0
      BY <1>1
    <2>3. answers \in SUBSET (Ports \X Codes)
      BY <1>1, <1>3 DEF Tracker
    <2>4. new = [t EXCEPT !.owed = t.owed \ {p}, !.count = t.count + 1,
                          !.code = result, !.packets = packets,
                          !.runs = runs, !.answers = answers]
      BY <1>5
    <2> HIDE DEF new, packets, runs, answers
    <2> QED  BY <1>1, <1>4, <2>1, <2>2, <2>3, <2>4 DEF Tracker
  <1> HIDE DEF new
  <1>7. /\ new.count + Cardinality(new.owed) = new.expected
        /\ new.runs = IF new.owed = {} THEN 1 ELSE 0
    BY <1>1, <1>2, <1>6
  <1>8. new.kind # "none"
    BY <1>1, <1>6 DEF Kinds
  <1>9. TrackerOK(new)
    BY <1>6, <1>7, <1>8 DEF TrackerOK
  <1> QED  BY <1>9 DEF new

\* Every step keeps count of the answers.
LEMMA CountNext == CountInv /\ UIDInv /\ [Next]_vars => CountInv'
  <1> SUFFICES ASSUME CountInv, UIDInv, [Next]_vars PROVE CountInv'
    OBVIOUS
  <1>1. ASSUME NEW d \in Discoveries, RunRDMDiscovery(d) PROVE CountInv'
    <2>1. m_output_ports \in SUBSET Ports
      BY DEF UIDInv, MapTypes
    <2>2. PICK new : /\ session' = [session EXCEPT ![d] = new]
                     /\ SessionOK(new)
      BY <1>1, <2>1, SessionStarts DEF RunRDMDiscovery
    <2> QED
      BY <1>1, <2>2 DEF RunRDMDiscovery, CountInv, SessionOK
  <1>2. ASSUME NEW d \in Discoveries, NEW p \in Ports,
               PortDiscoveryComplete(d, p)
        PROVE  CountInv'
    <2>1. SessionOK(session[d]) /\ p \in session[d].owed
      BY <1>2 DEF CountInv, PortDiscoveryComplete
    <2>2. SessionOK(MultiCallbackRun(session[d], p))
      BY <2>1, SessionCounts
    <2>3. /\ session' = [session EXCEPT ![d] = MultiCallbackRun(session[d], p)]
          /\ UNCHANGED tracker
      BY <1>2 DEF PortDiscoveryComplete
    <2> QED
      BY <2>2, <2>3 DEF CountInv, SessionOK
  <1>3. ASSUME NEW r \in Requests, SendRDMRequest(r) PROVE CountInv'
    <2>1. UNCHANGED session
      BY <1>3 DEF SendRDMRequest
    <2> QED  BY <1>3, <2>1, TrackerStarts DEF CountInv, TrackerOK
  <1>4. ASSUME NEW r \in Requests, NEW p \in Ports, PortAnswers(r, p)
        PROVE  CountInv'
    <2>1. PICK code \in PortCodes[tracker[r].kind] :
             tracker' = [tracker EXCEPT ![r] = Answered(tracker[r], p, code)]
      BY <1>4 DEF PortAnswers
    <2>2. TrackerOK(Answered(tracker[r], p, code))
      BY <1>4, TrackerCounts DEF CountInv, PortAnswers
    <2>3. UNCHANGED session
      BY <1>4 DEF PortAnswers
    <2> QED  BY <2>1, <2>2, <2>3 DEF CountInv, TrackerOK
  <1>5. CASE UNCHANGED <<session, tracker>>
    BY <1>5 DEF CountInv
  <1> QED
    BY <1>1, <1>2, <1>3, <1>4, <1>5
    DEF Next, vars, AddPort, UpdateUIDs, RemovePort

\* So the counts are right in every reachable state.
LEMMA CountInvariant == Spec => []CountInv
  BY CountInit, CountNext, UIDInvariant, PTL DEF Spec

\* MultiCallback and the broadcast tracker run the callback once, after the
\* last of the ports that were asked has answered, though AddPort and
\* RemovePort change the ports meanwhile.
THEOREM AfterAll == Spec => []RunsAfterAll
  <1>1. CountInv => RunsAfterAll
    BY DEF CountInv, SessionOK, TrackerOK, RunsAfterAll
  <1> QED  BY <1>1, CountInvariant, PTL

-----------------------------------------------------------------------------
(* Which answer the callback gets *)

\* The code after some of the ports have answered: what a broadcast or a DUB
\* would report if no other port answered, and the code it starts with as long
\* as none has.
BestOK(t) ==
    /\ t.kind = "none" => t.answers = {} /\ t.packets = {}
    /\ t.kind = "broadcast" =>
          IF CodesOf(t) \subseteq {"WAS_BROADCAST"}
          THEN t.code = "WAS_BROADCAST"
          ELSE t.code \in CodesOf(t) \ {"WAS_BROADCAST"}
    /\ t.kind = "dub" =>
          /\ t.answers = {} => t.code = "NOT_SUPPORTED" /\ t.runs = 0
          /\ t.answers # {} => t.code \in CodesOf(t)
          /\ "DUB_RESPONSE" \in CodesOf(t) => t.code = "DUB_RESPONSE"
          /\ "TIMEOUT" \in CodesOf(t) =>
                t.code \in {"DUB_RESPONSE", "TIMEOUT"}
          /\ t.packets = {p \in Ports : <<p, "DUB_RESPONSE">> \in t.answers}

\* The inductive invariant behind BestAnswerWins.
BestInv == \A r \in Requests : BestOK(tracker[r])

\* A request starts with no answers and the code for none.
LEMMA BestStarts ==
    ASSUME CountInv, BestInv, NEW r \in Requests, SendRDMRequest(r)
    PROVE  BestOK(tracker'[r])
  <1> DEFINE t == tracker[r]
             new == tracker'[r]
  <1>1. /\ t \in Tracker /\ t.kind = "none" /\ t.runs = 0
        /\ t.answers = {} /\ t.packets = {}
        /\ tracker \in [Requests -> Tracker]
    BY DEF CountInv, TrackerOK, BestInv, BestOK, SendRDMRequest
  <1>2. CASE \E u \in UIDs : SendToUID(r, u)
    <2>1. new.kind = "unicast"
      BY <1>1, <1>2 DEF SendToUID, Tracker
    <2> QED  BY <2>1 DEF BestOK
  <1>3. CASE \E kind \in {"broadcast", "dub"} : SendToAll(r, kind)
    <2>1. PICK kind \in {"broadcast", "dub"} : SendToAll(r, kind)
      BY <1>3
    <2>2. /\ new.kind = kind /\ new.answers = {} /\ new.packets = {}
          /\ new.runs = 0
          /\ new.code = IF kind = "dub" THEN "NOT_SUPPORTED"
                        ELSE "WAS_BROADCAST"
      BY <1>1, <2>1 DEF SendToAll, Tracker
    <2>3. CodesOf(new) = {}
      BY <2>2 DEF CodesOf
    <2> QED  BY <2>1, <2>2, <2>3 DEF BestOK
  <1> QED  BY <1>2, <1>3 DEF SendRDMRequest

\* One more answer: HandleBroadcastAck and HandleBroadcastDiscovery choose
\* between it and the best so far.
LEMMA BestCounts ==
    ASSUME NEW t, TrackerOK(t), BestOK(t), NEW p \in t.owed,
           NEW code \in PortCodes[t.kind]
    PROVE  BestOK(Answered(t, p, code))
  <1> DEFINE new == Answered(t, p, code)
             result == CASE t.kind = "unicast" -> code
                         [] t.kind = "broadcast" -> HandleBroadcastAck(t, code)
                         [] t.kind = "dub" -> HandleBroadcastDiscovery(t, code)
             packets == IF code = "DUB_RESPONSE" THEN t.packets \cup {p}
                                                 ELSE t.packets
             runs == IF t.count + 1 = t.expected THEN t.runs + 1 ELSE t.runs
             answers == t.answers \cup {<<p, code>>}
  <1>1. t \in Tracker /\ t.kind \in Kinds /\ p \in Ports
    BY DEF TrackerOK, Tracker
  <1>2. /\ new.kind = t.kind /\ new.code = result
        /\ new.packets = packets /\ new.answers = answers
    <2>1. new = [t EXCEPT !.owed = t.owed \ {p}, !.count = t.count + 1,
                          !.code = result, !.packets = packets,
                          !.runs = runs, !.answers = answers]
      BY <1>1 DEF Answered, Tracker
    <2> HIDE DEF new, result, packets, runs, answers
    <2> QED  BY <1>1, <2>1 DEF Tracker
  <1> HIDE DEF new, result, packets
  <1>3. CodesOf(new) = CodesOf(t) \cup {code} /\ new.answers # {}
    <2>1. <<p, code>>[2] = code
      OBVIOUS
    <2>2. CodesOf(new) = {a[2] : a \in t.answers \cup {<<p, code>>}}
      BY <1>2 DEF CodesOf
    <2>3. \A c : c \in CodesOf(new) <=> c \in CodesOf(t) \cup {code}
      BY <2>1, <2>2 DEF CodesOf
    <2> QED  BY <1>2, <2>3
  <1> HIDE DEF answers
  <1>4. t.answers = {} => CodesOf(t) = {}
    BY DEF CodesOf
  <1>5. ASSUME t.kind = "unicast" PROVE BestOK(new)
    BY <1>2, <1>5 DEF BestOK
  <1>6. ASSUME t.kind = "broadcast" PROVE BestOK(new)
    <2>1. new.code = IF code # "WAS_BROADCAST" THEN code ELSE t.code
      BY <1>2, <1>6 DEF HandleBroadcastAck, result
    <2> QED  BY <1>2, <1>3, <1>6, <2>1 DEF BestOK
  <1>7. ASSUME t.kind = "dub" PROVE BestOK(new)
    <2>1. new.code = HandleBroadcastDiscovery(t, code)
      BY <1>2, <1>7 DEF result
    <2>2. new.packets = {q \in Ports : <<q, "DUB_RESPONSE">> \in new.answers}
      BY <1>1, <1>2, <1>7 DEF BestOK, packets, answers
    <2>3. new.code \in CodesOf(new)
      BY <1>3, <1>4, <1>7, <2>1 DEF BestOK, HandleBroadcastDiscovery
    <2>4. "DUB_RESPONSE" \in CodesOf(new) => new.code = "DUB_RESPONSE"
      BY <1>3, <1>7, <2>1 DEF BestOK, HandleBroadcastDiscovery
    <2>5. "TIMEOUT" \in CodesOf(new) => new.code \in {"DUB_RESPONSE", "TIMEOUT"}
      BY <1>3, <1>7, <2>1 DEF BestOK, HandleBroadcastDiscovery
    <2> QED  BY <1>2, <1>3, <1>7, <2>2, <2>3, <2>4, <2>5 DEF BestOK
  <1> QED  BY <1>1, <1>5, <1>6, <1>7 DEF Kinds, new

\* Every step keeps the best answer so far.
LEMMA BestNext == CountInv /\ UIDInv /\ BestInv /\ [Next]_vars => BestInv'
  <1> SUFFICES ASSUME CountInv, UIDInv, BestInv, [Next]_vars PROVE BestInv'
    OBVIOUS
  <1>1. ASSUME NEW r \in Requests, SendRDMRequest(r) PROVE BestInv'
    <2>1. BestOK(tracker'[r])
      BY <1>1, BestStarts
    <2>2. \A q \in Requests : q # r => tracker'[q] = tracker[q]
      BY <1>1, TrackerStarts DEF CountInv
    <2> QED  BY <2>1, <2>2 DEF BestInv
  <1>2. ASSUME NEW r \in Requests, NEW p \in Ports, PortAnswers(r, p)
        PROVE  BestInv'
    <2>1. PICK code \in PortCodes[tracker[r].kind] :
             tracker' = [tracker EXCEPT ![r] = Answered(tracker[r], p, code)]
      BY <1>2 DEF PortAnswers
    <2>2. BestOK(Answered(tracker[r], p, code))
      BY <1>2, BestCounts DEF CountInv, BestInv, PortAnswers
    <2> QED  BY <2>1, <2>2 DEF CountInv, BestInv
  <1>3. CASE UNCHANGED tracker
    BY <1>3 DEF BestInv
  <1> QED
    BY <1>1, <1>2, <1>3
    DEF Next, vars, AddPort, UpdateUIDs, RemovePort, RunRDMDiscovery,
        PortDiscoveryComplete

\* In whichever order the ports answer, a broadcast reports an error a port
\* answered with, or success if there was none, and a DUB the best answer with
\* all packets.
THEOREM BestWins == Spec => []BestAnswerWins
  <1>1. Init => BestInv
    BY DEF Init, BestInv, BestOK, NewTracker
  <1>2. BestInv => BestAnswerWins
    <2> SUFFICES ASSUME BestInv, NEW r \in Requests,
                        tracker[r].kind = "dub", tracker[r].runs = 1
                 PROVE  /\ tracker[r].code =
                              IF "DUB_RESPONSE" \in CodesOf(tracker[r])
                              THEN "DUB_RESPONSE"
                              ELSE IF "TIMEOUT" \in CodesOf(tracker[r])
                              THEN "TIMEOUT" ELSE tracker[r].code
                        /\ tracker[r].code \in CodesOf(tracker[r])
                        /\ tracker[r].packets =
                              {p \in Ports : <<p, "DUB_RESPONSE">>
                                                \in tracker[r].answers}
      BY DEF BestAnswerWins, BestInv, BestOK
    <2> QED  BY DEF BestInv, BestOK
  <1> QED
    BY <1>1, <1>2, BestNext, UIDInvariant, CountInvariant, PTL DEF Spec

-----------------------------------------------------------------------------
(* Types *)

\* The type of the one variable the invariants above leave out.
PatchTypes == patching \in [Ports -> 0 .. MaxPatches]

\* The bound on discoveries outstanding since a port was patched holds.
LEMMA PatchNext == PatchTypes /\ [Next]_vars => PatchTypes'
  <1> SUFFICES ASSUME PatchTypes, [Next]_vars PROVE PatchTypes'
    OBVIOUS
  <1>1. ASSUME NEW p \in Ports, AddPort(p) PROVE PatchTypes'
    BY <1>1, ConstantsAssumption DEF AddPort, PatchTypes
  <1>2. ASSUME NEW p \in Ports, UpdateUIDs(p) PROVE PatchTypes'
    BY <1>2, ConstantsAssumption DEF UpdateUIDs, PatchTypes
  <1>3. CASE UNCHANGED patching
    BY <1>3 DEF PatchTypes
  <1> QED
    BY <1>1, <1>2, <1>3
    DEF Next, vars, RemovePort, RunRDMDiscovery, PortDiscoveryComplete,
        SendRDMRequest, PortAnswers

\* Every variable keeps its type, and no count passes its limit, with which
\* MultiCallback::Run and the broadcast handlers compare it with ==.
THEOREM TypeCorrect == Spec => []TypeOK
  <1>1. Init => PatchTypes
    BY ConstantsAssumption DEF Init, PatchTypes
  <1>2. ASSUME UIDInv, CountInv, PatchTypes PROVE TypeOK
    <2>1. \A d \in Discoveries : session[d].count <= session[d].limit
      BY <1>2, Owed DEF CountInv, SessionOK, Session
    <2>2. \A r \in Requests : tracker[r].count <= tracker[r].expected
      BY <1>2, Owed DEF CountInv, TrackerOK, Tracker
    <2> QED
      BY <1>2, <2>1, <2>2 DEF UIDInv, MapTypes, CountInv, PatchTypes, TypeOK
  <1> QED
    BY <1>1, <1>2, PatchNext, UIDInvariant, CountInvariant, PTL DEF Spec
=============================================================================
