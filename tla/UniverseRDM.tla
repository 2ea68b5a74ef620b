---------------------------- MODULE UniverseRDM ----------------------------
(***************************************************************************)
(* The RDM side of a Universe (olad/Universe.cpp): which output port each  *)
(* UID is reached through, discovery on all ports at once, and requests,   *)
(* to one responder or to all ports.                                       *)
(*                                                                         *)
(* Ports answer each discovery and request once, at any later time and in  *)
(* any order, also after they were removed from the universe.  A port that *)
(* answers within the call is one whose answer is the next step.           *)
(***************************************************************************)
EXTENDS Integers, FiniteSets, Functions

CONSTANTS
    Ports,         \* the output ports that may be patched
    UIDs,          \* the responders there may be
    Discoveries,   \* the discoveries that may be run
    Requests,      \* the requests that may be sent
    MaxPatches     \* bound on the patch discoveries outstanding on a port

ASSUME ConstantsAssumption ==
    /\ IsFiniteSet(Ports)
    /\ MaxPatches \in Nat

VARIABLES
    m_output_ports,
    m_output_uids,     \* UID -> output port, for the UIDs known
    session,           \* the MultiCallback of each discovery
    tracker,           \* each request, with its broadcast_request_tracker
    patching,          \* discoveries outstanding since a port was patched
    \* History, read by the properties only.
    reported,          \* UIDs each port reported last, {} once it is removed
    contested,         \* UIDs seen on more than one port
    late               \* ports that reported UIDs while not in the universe

vars == <<m_output_ports, m_output_uids, session, tracker, patching, reported,
          contested, late>>
uidVars == <<m_output_uids, reported, contested, late>>

-----------------------------------------------------------------------------
(* Types *)

Kinds == {"unicast", "broadcast", "dub"}

\* The codes ports answer a request of each kind with; to a port without RDM
\* the discovery unique branch command is a broadcast like any other.
PortCodes ==
    [unicast   |-> {"COMPLETED_OK", "TIMEOUT"},
     broadcast |-> {"WAS_BROADCAST", "FAILED_TO_SEND", "TIMEOUT"},
     dub       |-> {"DUB_RESPONSE", "TIMEOUT", "NOT_SUPPORTED",
                    "FAILED_TO_SEND", "WAS_BROADCAST"}]
Codes == (UNION Range(PortCodes)) \cup {"UNKNOWN_UID", "none"}

\* `owed' are the ports still to answer, `runs' how often on_complete ran.
Session == [started: BOOLEAN, limit: Nat, count: Nat, owed: SUBSET Ports,
            runs: Nat]
NewSession == [started |-> FALSE, limit |-> 0, count |-> 0, owed |-> {},
               runs |-> 0]

\* `packets' are the ports whose DUB responses are gathered, `answers' what
\* the ports answered.
Tracker == [kind: Kinds \cup {"none"}, expected: Nat, count: Nat, code: Codes,
            packets: SUBSET Ports, owed: SUBSET Ports, runs: Nat,
            answers: SUBSET (Ports \X Codes)]
NewTracker == [kind |-> "none", expected |-> 0, count |-> 0, code |-> "none",
               packets |-> {}, owed |-> {}, runs |-> 0, answers |-> {}]

\* Type invariant; a count never passes the limit it is compared to with ==.
TypeOK ==
    /\ m_output_ports \subseteq Ports
    /\ DOMAIN m_output_uids \subseteq UIDs
    /\ \A u \in DOMAIN m_output_uids : m_output_uids[u] \in Ports
    /\ session \in [Discoveries -> Session]
    /\ \A d \in Discoveries : session[d].count <= session[d].limit
    /\ tracker \in [Requests -> Tracker]
    /\ \A r \in Requests : tracker[r].count <= tracker[r].expected
    /\ patching \in [Ports -> 0 .. MaxPatches]
    /\ reported \in [Ports -> SUBSET UIDs]
    /\ contested \subseteq UIDs
    /\ late \subseteq Ports

Init ==
    /\ m_output_ports = {}
    /\ m_output_uids = <<>>
    /\ session = [d \in Discoveries |-> NewSession]
    /\ tracker = [r \in Requests |-> NewTracker]
    /\ patching = [p \in Ports |-> 0]
    /\ reported = [p \in Ports |-> {}]
    /\ contested = {}
    /\ late = {}

-----------------------------------------------------------------------------
(* The UID map *)

\* The UIDs mapped to p that are not in `uids'.
GoneFrom(p, uids) ==
    {u \in DOMAIN m_output_uids : m_output_uids[u] = p /\ u \notin uids}

\* UIDs the port has lost are erased, new ones added; a UID that is mapped
\* to another port stays with that port.
NewUIDList(p, uids) ==
    LET kept == DOMAIN m_output_uids \ GoneFrom(p, uids)
    IN  /\ m_output_uids' = [u \in kept \cup uids |->
                                IF u \in kept THEN m_output_uids[u] ELSE p]
        /\ reported' = [reported EXCEPT ![p] = uids]
        /\ contested' = contested \cup {u \in kept \cap uids :
                                           m_output_uids[u] # p}
        /\ late' = late \cup ({p} \ m_output_ports)

-----------------------------------------------------------------------------
(* Patching *)

\* SetUniverse starts a discovery on ports that discover when patched.
AddPort(p) ==
    /\ p \notin m_output_ports
    /\ m_output_ports' = m_output_ports \cup {p}
    /\ \/ UNCHANGED patching
       \/ /\ patching[p] < MaxPatches
          /\ patching' = [patching EXCEPT ![p] = @ + 1]
    /\ UNCHANGED <<uidVars, session, tracker>>

\* That discovery ends: it is for the universe the port is in by then.
UpdateUIDs(p) ==
    /\ patching[p] > 0
    /\ patching' = [patching EXCEPT ![p] = @ - 1]
    /\ IF p \in m_output_ports
       THEN \E uids \in SUBSET UIDs : NewUIDList(p, uids)
       ELSE UNCHANGED uidVars
    /\ UNCHANGED <<m_output_ports, session, tracker>>

\* Mutant: the port's UIDs stay.
RemovePortOnly(p) ==
    /\ p \in m_output_ports
    /\ m_output_ports' = m_output_ports \ {p}
    /\ reported' = [reported EXCEPT ![p] = {}]
    /\ UNCHANGED <<m_output_uids, contested, late, session, tracker, patching>>

RemovePort(p) ==
    /\ p \in m_output_ports
    /\ m_output_ports' = m_output_ports \ {p}
    /\ m_output_uids' =
          [u \in DOMAIN m_output_uids \ GoneFrom(p, {}) |-> m_output_uids[u]]
    /\ reported' = [reported EXCEPT ![p] = {}]
    /\ UNCHANGED <<contested, late, session, tracker, patching>>

-----------------------------------------------------------------------------
(* Discovery *)

\* Mutant: the MultiCallback waits for ports that are not asked.
RunRDMDiscoveryAll(d) ==
    /\ ~ session[d].started
    /\ session' = [session EXCEPT ![d] =
          [started |-> TRUE, limit |-> Cardinality(Ports), count |-> 0,
           owed |-> m_output_ports,
           runs |-> IF m_output_ports = {} THEN 1 ELSE 0]]
    /\ UNCHANGED <<m_output_ports, uidVars, tracker, patching>>

\* All ports in the universe now; with none on_complete runs at once.
RunRDMDiscovery(d) ==
    /\ ~ session[d].started
    /\ session' = [session EXCEPT ![d] =
          [started |-> TRUE, limit |-> Cardinality(m_output_ports), count |-> 0,
           owed |-> m_output_ports,
           runs |-> IF m_output_ports = {} THEN 1 ELSE 0]]
    /\ UNCHANGED <<m_output_ports, uidVars, tracker, patching>>

\* MultiCallback::Run; at the limit DiscoveryComplete runs on_complete.
MultiCallbackRun(s, p) ==
    [s EXCEPT !.owed = @ \ {p},
              !.count = @ + 1,
              !.runs = IF s.count + 1 = s.limit THEN @ + 1 ELSE @]

PortDiscoveryComplete(d, p) ==
    /\ p \in session[d].owed
    /\ \E uids \in SUBSET UIDs : NewUIDList(p, uids)
    /\ session' = [session EXCEPT ![d] = MultiCallbackRun(@, p)]
    /\ UNCHANGED <<m_output_ports, tracker, patching>>

-----------------------------------------------------------------------------
(* Requests *)

\* A request to one responder goes to the port its UID is mapped to; if
\* there is none the callback runs at once with UNKNOWN_UID.
SendToUID(r, u) ==
    LET known == u \in DOMAIN m_output_uids
    IN  tracker' = [tracker EXCEPT ![r] =
            [@ EXCEPT !.kind = "unicast",
                      !.owed = IF known THEN {m_output_uids[u]} ELSE {},
                      !.expected = IF known THEN 1 ELSE 0,
                      !.code = IF known THEN "none" ELSE "UNKNOWN_UID",
                      !.runs = IF known THEN 0 ELSE 1]]

\* A broadcast goes to every port.
SendToAll(r, kind) ==
    tracker' = [tracker EXCEPT ![r] =
        [@ EXCEPT !.kind = kind,
                  !.owed = m_output_ports,
                  !.expected = Cardinality(m_output_ports),
                  !.code = IF kind = "dub" THEN "NOT_SUPPORTED"
                                           ELSE "WAS_BROADCAST"]]

SendRDMRequest(r) ==
    /\ tracker[r].kind = "none"
    /\ \/ \E u \in UIDs : SendToUID(r, u)
       \/ \E kind \in {"broadcast", "dub"} : SendToAll(r, kind)
    /\ UNCHANGED <<m_output_ports, uidVars, session, patching>>

\* Errors are passed on, WAS_BROADCAST is not.
HandleBroadcastAck(t, code) == IF code # "WAS_BROADCAST" THEN code ELSE t.code

\* Mutant: the last answer wins over an earlier TIMEOUT.
HandleBroadcastLast(t, code) ==
    IF t.code = "DUB_RESPONSE" /\ code = "TIMEOUT" THEN t.code ELSE code

\* DUB_RESPONSE goes before TIMEOUT, TIMEOUT before everything else.
HandleBroadcastDiscovery(t, code) ==
    IF \/ code = "DUB_RESPONSE"
       \/ code = "TIMEOUT" /\ t.code # "DUB_RESPONSE"
       \/ t.code \notin {"DUB_RESPONSE", "TIMEOUT"}
    THEN code ELSE t.code

Answered(t, p, code) ==
    [t EXCEPT !.owed = @ \ {p},
              !.count = @ + 1,
              !.code = CASE t.kind = "unicast" -> code
                         [] t.kind = "broadcast" -> HandleBroadcastAck(t, code)
                         [] t.kind = "dub" -> HandleBroadcastDiscovery(t, code),
              !.packets = IF code = "DUB_RESPONSE" THEN @ \cup {p} ELSE @,
              !.runs = IF t.count + 1 = t.expected THEN @ + 1 ELSE @,
              !.answers = @ \cup {<<p, code>>}]

\* A port answers a request.
PortAnswers(r, p) ==
    /\ p \in tracker[r].owed
    /\ \E code \in PortCodes[tracker[r].kind] :
          tracker' = [tracker EXCEPT ![r] = Answered(@, p, code)]
    /\ UNCHANGED <<m_output_ports, uidVars, session, patching>>

-----------------------------------------------------------------------------

Next ==
    \/ \E p \in Ports : AddPort(p) \/ UpdateUIDs(p) \/ RemovePort(p)
    \/ \E d \in Discoveries :
          \/ RunRDMDiscovery(d)
          \/ \E p \in Ports : PortDiscoveryComplete(d, p)
    \/ \E r \in Requests :
          \/ SendRDMRequest(r)
          \/ \E p \in Ports : PortAnswers(r, p)

Spec == Init /\ [][Next]_vars

\* Every port runs the callbacks it is given, as RDMControllerInterface.h and
\* DiscoverableRDMControllerInterface demand of it.
FairSpec ==
    /\ Spec
    /\ \A d \in Discoveries, p \in Ports : WF_vars(PortDiscoveryComplete(d, p))
    /\ \A r \in Requests, p \in Ports : WF_vars(PortAnswers(r, p))

-----------------------------------------------------------------------------
(* Properties *)

\* The callback of a discovery or a request runs once, and not before every
\* port it was sent to has answered, though ports come and go meanwhile.
RunsAfterAll ==
    /\ \A d \in Discoveries :
          session[d].runs = IF session[d].started /\ session[d].owed = {}
                            THEN 1 ELSE 0
    /\ \A r \in Requests :
          /\ tracker[r].runs <= 1
          /\ tracker[r].runs = 1 => tracker[r].owed = {}
          /\ tracker[r].answers # {} /\ tracker[r].owed = {}
                => tracker[r].runs = 1

CodesOf(t) == {a[2] : a \in t.answers}

\* A broadcast reports success only if no port failed, and an error only if
\* a port answered with it; a DUB reports the best of the answers and all the
\* packets, in whichever order the ports answered.
BestAnswerWins ==
    \A r \in Requests :
        LET t == tracker[r]
        IN  /\ t.kind = "broadcast" =>
                  IF CodesOf(t) \subseteq {"WAS_BROADCAST"}
                  THEN t.code = "WAS_BROADCAST"
                  ELSE t.code \in CodesOf(t) \ {"WAS_BROADCAST"}
            /\ t.kind = "dub" /\ t.runs = 1 =>
                  /\ t.code = IF "DUB_RESPONSE" \in CodesOf(t)
                              THEN "DUB_RESPONSE"
                              ELSE IF "TIMEOUT" \in CodesOf(t)
                              THEN "TIMEOUT" ELSE t.code
                  /\ t.code \in CodesOf(t)
                  /\ t.packets = {p \in Ports :
                                     <<p, "DUB_RESPONSE">> \in t.answers}

\* A request is routed to a port whose last discovery found the UID: neither
\* a UID that has gone nor a removed port's own report lingers in the map.
RoutesToReporter ==
    \A u \in DOMAIN m_output_uids : u \in reported[m_output_uids[u]]

\* The map leads to a port that is not in the universe only if that port
\* answered a discovery after it had been removed.
OnlyLatePortsLinger ==
    \A u \in DOMAIN m_output_uids : m_output_uids[u] \in m_output_ports \cup late

\* A UID that the last discovery of a port of the universe found is known,
\* unless it was seen on more than one port.
OnlyContestedLost ==
    \A p \in m_output_ports :
        reported[p] \subseteq DOMAIN m_output_uids \cup contested

\* The UID table is as exact as the ports' answers allow: the three above, for
\* any order of patching, discoveries and late answers.
UIDTableExact == RoutesToReporter /\ OnlyLatePortsLinger /\ OnlyContestedLost

-----------------------------------------------------------------------------
(* What RDMControllerInterface.h asks for and the code does not provide.   *)

\* No request is dropped: its callback eventually runs.  It does not for a
\* broadcast on a universe without ports.
NoRequestDropped ==
    \A r \in Requests : tracker[r].kind # "none" ~> tracker[r].runs = 1

\* GetUIDs returns the complete set of UIDs: when a discovery completes, the
\* set it completes with has every UID that the last discovery of each port
\* of the universe found.  It has not after a device moved from one port to
\* another: see OnlyContestedLost.
CompleteUIDSet ==
    [][ \A d \in Discoveries :
          session[d].runs = 0 /\ session'[d].runs = 1 =>
              \A p \in m_output_ports : reported'[p] \subseteq DOMAIN m_output_uids'
      ]_vars
=============================================================================
