----------------------------- MODULE E131Inflator -----------------------------
(***************************************************************************)
(* Receiving E1.31 (streaming ACN): one universe of DMPE131Inflator        *)
(* (plugins/e131/e131/DMPE131Inflator.cpp), the input port patched to it   *)
(* (plugins/e131/E131Port.cpp) and the sources that multicast to it, which *)
(* number their packets as E131Node does.                                  *)
(*                                                                         *)
(* The inflator keeps the sources at the highest priority it hears, merges *)
(* their frames into the port's buffer and tells the universe.  Nothing    *)
(* times out by itself: a source that went silent is removed when somebody *)
(* else's packet arrives.                                                  *)
(*                                                                         *)
(* A frame is identified by its source and sequence number, a merged       *)
(* buffer is the set of the frames in it.  A packet that fails one of the  *)
(* header tests of HandlePDUData (preview, priority above the maximum,     *)
(* start code, addressing) changes nothing, and is a lost packet here.     *)
(* Every source sends at most once per tick, and the tick is the unit of   *)
(* the expiry interval.                                                    *)
(***************************************************************************)
EXTENDS Integers, FiniteSets

CONSTANTS
    Sources,            \* CIDs
    Priorities,         \* priorities sources use
    Modulus,            \* of the sequence numbers: 256
    SequenceThreshold,  \* - SEQUENCE_DIFF_THRESHOLD
    MaxMergeSources,    \* MAX_MERGE_SOURCES
    ExpiryInterval,     \* EXPIRY_INTERVAL, in ticks
    MaxReorder,         \* how many packets may overtake another
    CalmRounds,         \* ticks without disturbance after which all is settled
    MaxDisturbances,    \* bound: events that are not regular packets
    None

\* A source that sends is heard again before it expires.  The calm must last
\* for the sources that have gone to expire and the others to take their
\* places, and for a source that counts from zero again to be believed.
ASSUME ConstantsAssumption ==
    /\ IsFiniteSet(Sources)
    /\ Priorities \subseteq Nat
    /\ IsFiniteSet(Priorities)
    /\ Modulus \in Nat /\ Modulus % 2 = 0
    /\ SequenceThreshold \in 1 .. Modulus \div 2
    /\ MaxMergeSources \in Nat \ {0}
    /\ ExpiryInterval \in Nat \ {0}
    /\ MaxReorder \in Nat /\ MaxReorder < SequenceThreshold
    /\ CalmRounds \in Nat
    /\ CalmRounds >= ExpiryInterval + 3
    /\ CalmRounds >= SequenceThreshold + 2
    /\ MaxDisturbances \in Nat

VARIABLES
    registered,      \* the universe has an entry in m_handlers
    sources,         \* its sources: sequence, and ticks since last_heard_from
    active_priority,
    buffer,          \* the port's m_buffer
    m_priority,      \* the port's m_priority
    told,            \* the buffer and priority the closure last ran with
    \* The sources and the network.
    up,              \* sources that are sending
    priority,        \* priority[s]
    sequence,        \* sequence[s]: the number of the next packet
    late,            \* late[s]: a packet of s that was delayed, or None
    heard,           \* sources whose packet of this tick has been sent
    \* History.
    disturbances,
    calm             \* rounds in which every source was heard, since the last
                     \* disturbance

inflatorVars == <<sources, active_priority, buffer, m_priority, told>>
senderVars == <<up, priority, sequence>>
vars == <<registered, inflatorVars, senderVars, late, heard, disturbances,
          calm>>

Numbers == 0 .. Modulus - 1
Frames == [cid: Sources, sequence: Numbers]
Packets == [cid: Sources, sequence: Numbers, priority: Priorities,
            terminated: BOOLEAN]

\* Type invariant: the handler, the port and the senders hold values of their
\* types, and no more than MAX_MERGE_SOURCES sources are tracked.
TypeOK ==
    /\ registered \in BOOLEAN
    /\ DOMAIN sources \subseteq Sources
    /\ Cardinality(DOMAIN sources) <= MaxMergeSources
    /\ \A s \in DOMAIN sources :
          sources[s] \in [sequence: Numbers, age: 0 .. ExpiryInterval + 1]
    /\ active_priority \in Priorities \cup {0}
    /\ buffer \subseteq Frames
    /\ m_priority \in Priorities \cup {0}
    /\ told \in [frames: SUBSET Frames, priority: Priorities \cup {0}]
    /\ up \subseteq Sources
    /\ priority \in [Sources -> Priorities]
    /\ sequence \in [Sources -> Numbers]
    /\ late \in [Sources -> {None} \cup
                   [packet: Packets, passed: 0 .. MaxReorder,
                    overtaken: BOOLEAN, earlierRun: BOOLEAN]]
    /\ heard \subseteq Sources
    /\ disturbances \in 0 .. MaxDisturbances
    /\ calm \in 0 .. CalmRounds

\* E131InputPort does not initialise m_priority.
Init ==
    /\ registered = TRUE
    /\ sources = <<>>
    /\ active_priority = 0
    /\ buffer = {}
    /\ m_priority \in Priorities \cup {0}
    /\ told = [frames |-> {}, priority |-> 0]
    /\ up = Sources
    /\ priority \in [Sources -> Priorities]
    /\ sequence = [s \in Sources |-> 0]
    /\ late = [s \in Sources |-> None]
    /\ heard = {}
    /\ disturbances = 0
    /\ calm = 0

-----------------------------------------------------------------------------
(* The inflator *)

\* Mutant: the difference is not cast to int8_t.
PlainDiff(new, old) == new - old

\* static_cast<int8_t>(new - old)
SeqDiff(new, old) ==
    LET d == (new - old) % Modulus
    IN IF d >= Modulus \div 2 THEN d - Modulus ELSE d

IsOld(new, old) ==
    SeqDiff(new, old) <= 0 /\ SeqDiff(new, old) > - SequenceThreshold

\* The source the packet is from does not expire.
Unexpired(cid) ==
    {s \in DOMAIN sources : s = cid \/ sources[s].age <= ExpiryInterval}

Only(kept) == [s \in kept |-> sources[s]]

With(kept, p) ==
    [s \in kept \cup {p.cid} |->
        IF s = p.cid THEN [sequence |-> p.sequence, age |-> 0]
        ELSE sources[s]]

\* Mutant: the priority stays when the last source has expired.
PriorityStays(kept) == active_priority

PriorityOf(kept) == IF kept = {} THEN 0 ELSE active_priority

\* TrackSourceIfRequired returned FALSE: the sources that expired are gone,
\* but the buffer is not merged again.
Ignore(kept) ==
    /\ sources' = Only(kept)
    /\ active_priority' = PriorityOf(kept)
    /\ UNCHANGED <<buffer, m_priority, told>>

\* TrackSourceIfRequired returned TRUE: the rest of HandlePDUData.  The
\* closure does not run when no source is left.
Merge(tracked, active) ==
    /\ sources' = tracked
    /\ active_priority' = active
    /\ m_priority' = active
    /\ buffer' = {[cid |-> s, sequence |-> tracked[s].sequence] :
                     s \in DOMAIN tracked}
    /\ told' = IF DOMAIN tracked = {} THEN told
               ELSE [frames |-> buffer', priority |-> active]

NewSource(p, kept) ==
    LET others == IF p.priority > PriorityOf(kept) THEN {} ELSE kept
    IN \/ /\ \/ p.terminated
             \/ p.priority < PriorityOf(kept)
             \/ Cardinality(others) = MaxMergeSources
          /\ Ignore(kept)
       \/ /\ ~p.terminated
          /\ p.priority >= PriorityOf(kept)
          /\ Cardinality(others) # MaxMergeSources
          /\ Merge(With(others, p), p.priority)

KnownSource(p, kept) ==
    LET others == kept \ {p.cid}
        old == IsOld(p.sequence, sources[p.cid].sequence)
    IN \/ /\ old
          /\ Ignore(kept)
       \/ /\ ~old /\ p.terminated
          /\ Merge(Only(others), PriorityOf(others))
       \/ /\ ~old /\ ~p.terminated
          /\ p.priority < active_priority /\ others # {}
          /\ Merge(Only(others), active_priority)
       \/ /\ ~old /\ ~p.terminated
          /\ p.priority < active_priority => others = {}
          /\ Merge(With(IF p.priority > active_priority THEN {} ELSE others, p),
                   p.priority)

\* HandlePDUData, for a packet that passes the tests of its headers.
HandlePDUData(p) ==
    IF ~registered THEN UNCHANGED inflatorVars
    ELSE LET kept == Unexpired(p.cid)
         IN IF p.cid \in kept THEN KnownSource(p, kept) ELSE NewSource(p, kept)

-----------------------------------------------------------------------------
(* The sources, the network and time *)

Disturb ==
    /\ disturbances < MaxDisturbances
    /\ disturbances' = disturbances + 1
    /\ calm' = 0

Packet(s, terminated) ==
    [cid |-> s, sequence |-> sequence[s], priority |-> priority[s],
     terminated |-> terminated]

\* The delayed packet falls back by one, and is lost when it is too old.
FallBack(s) ==
    IF late[s] = None \/ late[s].passed = MaxReorder THEN None
    ELSE [late[s] EXCEPT !.passed = @ + 1,
             !.overtaken = @ \/ (registered /\ s \in DOMAIN sources' /\
                                 sources'[s].sequence = sequence[s])]

\* A packet of s arrives at once.
Deliver(s, terminated) ==
    /\ sequence' = [sequence EXCEPT ![s] = (@ + 1) % Modulus]
    /\ HandlePDUData(Packet(s, terminated))
    /\ late' = [late EXCEPT ![s] = FallBack(s)]

\* A packet of s is lost, or delayed: then it takes the place of the one that
\* was delayed before.
Delay(s, terminated) ==
    /\ sequence' = [sequence EXCEPT ![s] = (@ + 1) % Modulus]
    /\ late' = [late EXCEPT ![s] =
         [packet |-> Packet(s, terminated), passed |-> 0,
          overtaken |-> FALSE, earlierRun |-> FALSE]]
    /\ UNCHANGED inflatorVars

\* E131Node::SendDMX
SendDMX(s) ==
    /\ s \in up \ heard
    /\ heard' = heard \cup {s}
    /\ \/ Deliver(s, FALSE) /\ UNCHANGED <<disturbances, calm>>
       \/ Delay(s, FALSE) /\ Disturb
    /\ UNCHANGED <<registered, up, priority>>

\* E131Node::StreamTerminated
StreamTerminated(s) ==
    /\ s \in up \ heard
    /\ Disturb
    /\ up' = up \ {s}
    /\ Deliver(s, TRUE) \/ Delay(s, TRUE)
    /\ UNCHANGED <<registered, priority, heard>>

\* The delayed packet arrives, not for the last time perhaps.
LatePacket(s) ==
    /\ late[s] # None
    /\ Disturb
    /\ HandlePDUData(late[s].packet)
    /\ UNCHANGED <<registered, senderVars, late, heard>>

\* The source changes its priority.
ChangePriority(s, p) ==
    /\ s \in up
    /\ p # priority[s]
    /\ Disturb
    /\ priority' = [priority EXCEPT ![s] = p]
    /\ UNCHANGED <<registered, inflatorVars, up, sequence, late, heard>>

\* The source vanishes without a word.
Vanish(s) ==
    /\ s \in up
    /\ Disturb
    /\ up' = up \ {s}
    /\ UNCHANGED <<registered, inflatorVars, priority, sequence, late, heard>>

\* It sends again: the same process, or a new one that counts from zero.
ComeBack(s, restarted) ==
    /\ s \notin up
    /\ Disturb
    /\ up' = up \cup {s}
    /\ sequence' = IF restarted THEN [sequence EXCEPT ![s] = 0] ELSE sequence
    /\ late' = IF restarted /\ late[s] # None
               THEN [late EXCEPT ![s].earlierRun = TRUE] ELSE late
    /\ UNCHANGED <<registered, inflatorVars, priority, heard>>

\* The port leaves the universe, and is patched to it again.  Its own members
\* keep their values.
RemoveHandler ==
    /\ registered
    /\ Disturb
    /\ registered' = FALSE
    /\ sources' = <<>>
    /\ active_priority' = 0
    /\ UNCHANGED <<buffer, m_priority, told, senderVars, late, heard>>

SetHandler ==
    /\ ~registered
    /\ registered' = TRUE
    /\ calm' = 0
    /\ UNCHANGED <<inflatorVars, senderVars, late, heard, disturbances>>

Tick ==
    /\ heard' = {}
    /\ sources' = [s \in DOMAIN sources |->
         [sources[s] EXCEPT !.age =
             IF @ > ExpiryInterval THEN @ ELSE @ + 1]]
    /\ \/ /\ up \subseteq heard
          /\ calm' = IF calm = CalmRounds THEN calm ELSE calm + 1
          /\ UNCHANGED disturbances
       \/ /\ ~(up \subseteq heard)
          /\ Disturb
    /\ UNCHANGED <<registered, active_priority, buffer, m_priority, told,
                   senderVars, late>>

Next ==
    \/ \E s \in Sources :
          \/ SendDMX(s)
          \/ StreamTerminated(s)
          \/ LatePacket(s)
          \/ \E p \in Priorities : ChangePriority(s, p)
          \/ Vanish(s)
          \/ \E restarted \in BOOLEAN : ComeBack(s, restarted)
    \/ RemoveHandler
    \/ SetHandler
    \/ Tick

Spec == Init /\ [][Next]_vars

-----------------------------------------------------------------------------
(* Properties *)

Top == {s \in up : \A t \in up : priority[t] <= priority[s]}
Newest(s) == (sequence[s] - 1) % Modulus

\* A packet that was overtaken by a later one of the same source, whose frame
\* is in use, changes nothing the universe sees: SEQUENCE_DIFF_THRESHOLD and
\* the wrapping of the sequence numbers.  (When the source was restarted in
\* between, its numbers say nothing about the order.)
OvertakenPacketsIgnored ==
    [][\A s \in Sources :
         /\ LatePacket(s)
         /\ late[s].overtaken
         /\ ~late[s].earlierRun
         /\ s \in DOMAIN sources
         => UNCHANGED <<buffer, m_priority, told>>]_vars

\* Whatever has happened (packets lost, delayed and repeated, priorities raised
\* and lowered, sources that stop with and without notice or start over), once
\* all sources are heard regularly the universe has been told the merge of the
\* newest frames of the sources with the highest priority, as many of them as
\* fit, and of nothing else.
SettlesOnTheHighest ==
    calm = CalmRounds /\ registered /\ up # {} =>
        /\ DOMAIN sources \subseteq Top
        /\ DOMAIN sources = Top \/ Cardinality(DOMAIN sources) = MaxMergeSources
        /\ told.frames = {[cid |-> s, sequence |-> Newest(s)] :
                             s \in DOMAIN sources}
        /\ \A s \in Top : told.priority = priority[s]

=============================================================================
