-------------------------- MODULE E131InflatorProofs --------------------------
(***************************************************************************)
(* Proofs about E131Inflator, for any sources, priorities, sequence        *)
(* numbers and expiry interval, and any number of packets that are lost,   *)
(* late or repeated, and of sources that come and go.                      *)
(***************************************************************************)
EXTENDS E131Inflator, FiniteSetTheorems, TLAPS

-----------------------------------------------------------------------------
(* The sources of the universe *)

\* What is known of a source.
Tracked == [sequence: Numbers, age: 0 .. ExpiryInterval + 1]

\* The types of what the inflator and the port keep.
InflatorTypes ==
    /\ DOMAIN sources \subseteq Sources
    /\ Cardinality(DOMAIN sources) <= MaxMergeSources
    /\ \A s \in DOMAIN sources : sources[s] \in Tracked
    /\ active_priority \in Priorities \cup {0}
    /\ buffer \subseteq Frames
    /\ m_priority \in Priorities \cup {0}
    /\ told \in [frames: SUBSET Frames, priority: Priorities \cup {0}]

\* A set of sources that can be tracked.
Fits(kept) == kept \subseteq Sources /\ Cardinality(kept) <= MaxMergeSources

\* Some of what fits.
LEMMA SubsetFits ==
    ASSUME NEW kept, Fits(kept), NEW S \in SUBSET kept
    PROVE  Fits(S)
  <1>1. IsFiniteSet(kept) /\ IsFiniteSet(S)
    BY ConstantsAssumption, FS_Subset DEF Fits
  <1>2. /\ Cardinality(S) <= Cardinality(kept)
        /\ Cardinality(S) \in Nat /\ Cardinality(kept) \in Nat
    BY <1>1, FS_Subset, FS_CardinalityType
  <1> QED  BY <1>2, ConstantsAssumption DEF Fits

\* A place is left.
LEMMA OneMoreFits ==
    ASSUME NEW kept, Fits(kept), NEW c \in Sources,
           Cardinality(kept) # MaxMergeSources
    PROVE  Fits(kept \cup {c})
  <1>1. IsFiniteSet(kept)
    BY ConstantsAssumption, FS_Subset DEF Fits
  <1>2. Cardinality(kept) \in Nat
    BY <1>1, FS_CardinalityType
  <1>3. \/ Cardinality(kept \cup {c}) = Cardinality(kept)
        \/ Cardinality(kept \cup {c}) = Cardinality(kept) + 1
    BY <1>1, FS_AddElement
  <1> QED  BY <1>2, <1>3, ConstantsAssumption DEF Fits

\* TrackSourceIfRequired returned FALSE.
LEMMA IgnoreTypes ==
    ASSUME InflatorTypes, NEW kept \in SUBSET DOMAIN sources, Ignore(kept)
    PROVE  InflatorTypes'
  <1>1. Fits(kept)
    BY SubsetFits DEF InflatorTypes, Fits
  <1>2. /\ DOMAIN sources' = kept
        /\ \A s \in kept : sources'[s] = sources[s]
    BY DEF Ignore, Only
  <1>3. active_priority' \in Priorities \cup {0}
    BY DEF Ignore, PriorityOf, InflatorTypes
  <1>4. UNCHANGED <<buffer, m_priority, told>>
    BY DEF Ignore
  <1> QED  BY <1>1, <1>2, <1>3, <1>4 DEF InflatorTypes, Fits

\* It returned TRUE.
LEMMA MergeTypes ==
    ASSUME InflatorTypes, NEW tracked, Fits(DOMAIN tracked),
           \A s \in DOMAIN tracked : tracked[s] \in Tracked,
           NEW active \in Priorities \cup {0}, Merge(tracked, active)
    PROVE  InflatorTypes'
  <1>1. /\ sources' = tracked /\ active_priority' = active
        /\ m_priority' = active
    BY DEF Merge
  <1>2. buffer' \subseteq Frames
    BY DEF Merge, Frames, Tracked, Fits
  <1>3. told' \in [frames: SUBSET Frames, priority: Priorities \cup {0}]
    BY <1>2 DEF Merge, InflatorTypes
  <1> QED  BY <1>1, <1>2, <1>3 DEF InflatorTypes, Fits

\* The sources tracked after a packet was accepted.
LEMMA WithFacts ==
    ASSUME InflatorTypes, NEW kept \in SUBSET DOMAIN sources,
           NEW p \in Packets, Fits(kept \cup {p.cid})
    PROVE  /\ Fits(DOMAIN With(kept, p))
           /\ \A s \in DOMAIN With(kept, p) : With(kept, p)[s] \in Tracked
  <1>1. DOMAIN With(kept, p) = kept \cup {p.cid}
    BY DEF With
  <1>2. [sequence |-> p.sequence, age |-> 0] \in Tracked
    BY ConstantsAssumption DEF Packets, Tracked
  <1>3. ASSUME NEW s \in kept \cup {p.cid}
        PROVE  With(kept, p)[s] \in Tracked
    BY <1>2 DEF With, InflatorTypes
  <1> QED  BY <1>1, <1>3

\* The sources left when one of them is dropped.
LEMMA OnlyFacts ==
    ASSUME InflatorTypes, NEW kept \in SUBSET DOMAIN sources
    PROVE  /\ Fits(DOMAIN Only(kept))
           /\ \A s \in DOMAIN Only(kept) : Only(kept)[s] \in Tracked
  <1>1. Fits(kept)
    BY SubsetFits DEF InflatorTypes, Fits
  <1> QED  BY <1>1 DEF Only, InflatorTypes

\* HandlePDUData keeps the types, and never tracks more sources than
\* MAX_MERGE_SOURCES.
LEMMA HandledTypes ==
    ASSUME InflatorTypes, NEW p \in Packets, HandlePDUData(p)
    PROVE  InflatorTypes'
  <1>0. p.cid \in Sources /\ p.priority \in Priorities
    BY DEF Packets
  <1> DEFINE kept == Unexpired(p.cid)
  <1>1. kept \in SUBSET DOMAIN sources /\ Fits(kept)
    BY SubsetFits DEF Unexpired, InflatorTypes, Fits
  <1>2. \A S \in SUBSET kept : PriorityOf(S) \in Priorities \cup {0}
    BY DEF PriorityOf, InflatorTypes
  <1>3. CASE ~ registered
    BY <1>3 DEF HandlePDUData, inflatorVars, InflatorTypes
  <1>4. CASE registered /\ p.cid \notin kept
    <2> DEFINE others == IF p.priority > PriorityOf(kept) THEN {} ELSE kept
    <2>1. NewSource(p, kept)
      BY <1>4 DEF HandlePDUData
    <2>2. others \in SUBSET DOMAIN sources /\ Fits(others)
      BY <1>1, SubsetFits
    <2>3. CASE Ignore(kept)
      BY <1>1, <2>3, IgnoreTypes
    <2>4. CASE /\ Cardinality(others) # MaxMergeSources
               /\ Merge(With(others, p), p.priority)
      <3> HIDE DEF others, kept
      <3>1. Fits(others \cup {p.cid})
        BY <1>0, <2>2, <2>4, OneMoreFits
      <3> QED  BY <1>0, <2>2, <2>4, <3>1, WithFacts, MergeTypes
    <2> QED  BY <2>1, <2>3, <2>4 DEF NewSource
  <1>5. CASE registered /\ p.cid \in kept
    <2> DEFINE others == kept \ {p.cid}
    <2>1. KnownSource(p, kept)
      BY <1>5 DEF HandlePDUData
    <2>2. others \in SUBSET DOMAIN sources
      BY <1>1
    <2>3. PriorityOf(others) \in Priorities \cup {0}
      BY <1>2
    <2>4. active_priority \in Priorities \cup {0}
      BY DEF InflatorTypes
    <2>5. CASE Ignore(kept)
      BY <1>1, <2>5, IgnoreTypes
    <2>6. CASE \E a \in Priorities \cup {0} : Merge(Only(others), a)
      BY <2>2, <2>6, OnlyFacts, MergeTypes
    <2>7. CASE \E S \in SUBSET others : Merge(With(S, p), p.priority)
      <3>1. PICK S \in SUBSET others : Merge(With(S, p), p.priority)
        BY <2>7
      <3>2. S \in SUBSET DOMAIN sources /\ S \cup {p.cid} \in SUBSET kept
        BY <1>1, <1>5
      <3>3. Fits(S \cup {p.cid})
        BY <1>1, <3>2, SubsetFits
      <3> QED  BY <1>0, <3>1, <3>2, <3>3, WithFacts, MergeTypes
    <2>8. \/ Ignore(kept)
          \/ \E a \in Priorities \cup {0} : Merge(Only(others), a)
          \/ \E S \in SUBSET others : Merge(With(S, p), p.priority)
      <3> HIDE DEF kept
      <3>1. {} \in SUBSET others /\ others \in SUBSET others
        OBVIOUS
      <3> QED  BY <2>1, <2>3, <2>4, <3>1 DEF KnownSource
    <2> QED  BY <2>5, <2>6, <2>7, <2>8
  <1> QED  BY <1>3, <1>4, <1>5

-----------------------------------------------------------------------------
(* Types *)

\* A packet that was delayed, how many have overtaken it, and whether one of
\* them is in use.
Delayed == [packet: Packets, passed: 0 .. MaxReorder,
            overtaken: BOOLEAN, earlierRun: BOOLEAN]

\* The types of what the sources and the network keep.
SenderTypes ==
    /\ up \subseteq Sources
    /\ priority \in [Sources -> Priorities]
    /\ sequence \in [Sources -> Numbers]
    /\ late \in [Sources -> {None} \cup Delayed]
    /\ heard \subseteq Sources
    /\ registered \in BOOLEAN
    /\ disturbances \in 0 .. MaxDisturbances
    /\ calm \in 0 .. CalmRounds

\* The next sequence number.
LEMMA NextNumber ==
    ASSUME NEW n \in Numbers
    PROVE  (n + 1) % Modulus \in Numbers
  BY ConstantsAssumption DEF Numbers

\* What a source sends is a packet.
LEMMA PacketType ==
    ASSUME SenderTypes, NEW s \in Sources, NEW t \in BOOLEAN
    PROVE  Packet(s, t) \in Packets
  <1>1. sequence[s] \in Numbers /\ priority[s] \in Priorities
    BY DEF SenderTypes
  <1> QED  BY <1>1 DEF Packet, Packets

\* A packet that falls back is still a delayed packet.
LEMMA FallBackType ==
    ASSUME SenderTypes, NEW s \in Sources
    PROVE  FallBack(s) \in {None} \cup Delayed
  <1>1. CASE late[s] = None \/ late[s].passed = MaxReorder
    BY <1>1 DEF FallBack
  <1>2. CASE ~ (late[s] = None \/ late[s].passed = MaxReorder)
    <2> DEFINE b == (registered /\ s \in DOMAIN sources' /\
                     sources'[s].sequence = sequence[s])
               o == late[s].overtaken \/ b
    <2>1. late[s] \in Delayed
      BY <1>2 DEF SenderTypes
    <2>2. late[s].passed + 1 \in 0 .. MaxReorder
      BY <1>2, <2>1, ConstantsAssumption DEF Delayed
    <2>3. o \in BOOLEAN
      OBVIOUS
    <2>4. FallBack(s) = [late[s] EXCEPT !.passed = @ + 1, !.overtaken = o]
      BY <1>2 DEF FallBack
    <2> HIDE DEF o
    <2> QED  BY <2>1, <2>2, <2>3, <2>4 DEF Delayed
  <1> QED  BY <1>1, <1>2

\* A packet is sent and received.
LEMMA DeliverTypes ==
    ASSUME InflatorTypes, SenderTypes, NEW s \in Sources, NEW t \in BOOLEAN,
           Deliver(s, t)
    PROVE  /\ InflatorTypes'
           /\ sequence' \in [Sources -> Numbers]
           /\ late' \in [Sources -> {None} \cup Delayed]
  <1>1. InflatorTypes'
    BY PacketType, HandledTypes DEF Deliver
  <1>2. sequence' \in [Sources -> Numbers]
    BY NextNumber DEF Deliver, SenderTypes
  <1>3. late' \in [Sources -> {None} \cup Delayed]
    BY FallBackType DEF Deliver, SenderTypes
  <1> QED  BY <1>1, <1>2, <1>3

\* A packet is sent, and lost or delayed.
LEMMA DelayTypes ==
    ASSUME InflatorTypes, SenderTypes, NEW s \in Sources, NEW t \in BOOLEAN,
           Delay(s, t)
    PROVE  /\ InflatorTypes'
           /\ sequence' \in [Sources -> Numbers]
           /\ late' \in [Sources -> {None} \cup Delayed]
  <1>1. InflatorTypes'
    BY DEF Delay, inflatorVars, InflatorTypes
  <1>2. sequence' \in [Sources -> Numbers]
    BY NextNumber DEF Delay, SenderTypes
  <1> DEFINE d == [packet |-> Packet(s, t), passed |-> 0,
                   overtaken |-> FALSE, earlierRun |-> FALSE]
  <1>3. d \in Delayed
    BY PacketType, ConstantsAssumption DEF Delayed
  <1>4. late' = [late EXCEPT ![s] = d]
    BY DEF Delay
  <1> HIDE DEF d
  <1>5. late' \in [Sources -> {None} \cup Delayed]
    BY <1>3, <1>4 DEF SenderTypes
  <1> QED  BY <1>1, <1>2, <1>5

\* Every step keeps the types.
LEMMA TypesNext ==
    InflatorTypes /\ SenderTypes /\ [Next]_vars => InflatorTypes' /\ SenderTypes'
  <1> SUFFICES ASSUME InflatorTypes, SenderTypes, [Next]_vars
               PROVE  InflatorTypes' /\ SenderTypes'
    OBVIOUS
  <1>0. ASSUME Disturb
        PROVE  disturbances' \in 0 .. MaxDisturbances /\ calm' \in 0 .. CalmRounds
    BY <1>0, ConstantsAssumption DEF Disturb, SenderTypes
  <1>1. ASSUME NEW s \in Sources, SendDMX(s)
        PROVE  InflatorTypes' /\ SenderTypes'
    <2>1. /\ heard' \subseteq Sources
          /\ UNCHANGED <<registered, up, priority>>
          /\ Deliver(s, FALSE) \/ Delay(s, FALSE)
      BY <1>1 DEF SendDMX, SenderTypes
    <2>2. disturbances' \in 0 .. MaxDisturbances /\ calm' \in 0 .. CalmRounds
      BY <1>0, <1>1 DEF SendDMX, SenderTypes
    <2>3. /\ InflatorTypes'
          /\ sequence' \in [Sources -> Numbers]
          /\ late' \in [Sources -> {None} \cup Delayed]
      BY <2>1, DeliverTypes, DelayTypes, Zenon
    <2> QED  BY <2>1, <2>2, <2>3 DEF SenderTypes
  <1>2. ASSUME NEW s \in Sources, StreamTerminated(s)
        PROVE  InflatorTypes' /\ SenderTypes'
    <2>1. /\ up' \subseteq Sources
          /\ UNCHANGED <<registered, heard, priority>>
          /\ Deliver(s, TRUE) \/ Delay(s, TRUE)
      BY <1>2 DEF StreamTerminated, SenderTypes
    <2>2. disturbances' \in 0 .. MaxDisturbances /\ calm' \in 0 .. CalmRounds
      BY <1>0, <1>2 DEF StreamTerminated
    <2>3. /\ InflatorTypes'
          /\ sequence' \in [Sources -> Numbers]
          /\ late' \in [Sources -> {None} \cup Delayed]
      BY <2>1, DeliverTypes, DelayTypes, Zenon
    <2> QED  BY <2>1, <2>2, <2>3 DEF SenderTypes
  <1>3. ASSUME NEW s \in Sources, LatePacket(s)
        PROVE  InflatorTypes' /\ SenderTypes'
    <2>1. late[s].packet \in Packets
      BY <1>3 DEF LatePacket, SenderTypes, Delayed
    <2>2. InflatorTypes'
      BY <1>3, <2>1, HandledTypes DEF LatePacket
    <2>3. SenderTypes'
      BY <1>0, <1>3 DEF LatePacket, senderVars, SenderTypes
    <2> QED  BY <2>2, <2>3
  <1>4. ASSUME NEW s \in Sources, NEW p \in Priorities, ChangePriority(s, p)
        PROVE  InflatorTypes' /\ SenderTypes'
    <2>1. InflatorTypes'
      BY <1>4 DEF ChangePriority, inflatorVars, InflatorTypes
    <2>2. SenderTypes'
      BY <1>0, <1>4 DEF ChangePriority, SenderTypes
    <2> QED  BY <2>1, <2>2
  <1>5. ASSUME NEW s \in Sources, Vanish(s)
        PROVE  InflatorTypes' /\ SenderTypes'
    <2>1. InflatorTypes'
      BY <1>5 DEF Vanish, inflatorVars, InflatorTypes
    <2>2. SenderTypes'
      BY <1>0, <1>5 DEF Vanish, SenderTypes
    <2> QED  BY <2>1, <2>2
  <1>6. ASSUME NEW s \in Sources, NEW restarted \in BOOLEAN,
               ComeBack(s, restarted)
        PROVE  InflatorTypes' /\ SenderTypes'
    <2>1. InflatorTypes'
      BY <1>6 DEF ComeBack, inflatorVars, InflatorTypes
    <2>2. sequence' \in [Sources -> Numbers]
      BY <1>6, ConstantsAssumption DEF ComeBack, SenderTypes, Numbers
    <2>3. late' \in [Sources -> {None} \cup Delayed]
      <3> DEFINE d == [late[s] EXCEPT !.earlierRun = TRUE]
      <3>1. late[s] # None => d \in Delayed
        BY DEF SenderTypes, Delayed
      <3>2. late' = late \/ (late[s] # None /\ late' = [late EXCEPT ![s] = d])
        BY <1>6 DEF ComeBack
      <3> HIDE DEF d
      <3> QED  BY <3>1, <3>2 DEF SenderTypes
    <2>4. SenderTypes'
      BY <1>0, <1>6, <2>2, <2>3 DEF ComeBack, SenderTypes
    <2> QED  BY <2>1, <2>4
  <1>7. ASSUME RemoveHandler
        PROVE  InflatorTypes' /\ SenderTypes'
    <2>1. /\ DOMAIN sources' = {} /\ active_priority' = 0
          /\ UNCHANGED <<buffer, m_priority, told>>
      BY <1>7 DEF RemoveHandler
    <2>2. Cardinality({}) <= MaxMergeSources
      BY FS_EmptySet, ConstantsAssumption
    <2>3. InflatorTypes'
      BY <2>1, <2>2 DEF InflatorTypes
    <2>4. SenderTypes'
      BY <1>0, <1>7 DEF RemoveHandler, senderVars, SenderTypes
    <2> QED  BY <2>3, <2>4
  <1>8. ASSUME SetHandler
        PROVE  InflatorTypes' /\ SenderTypes'
    <2>1. InflatorTypes'
      BY <1>8 DEF SetHandler, inflatorVars, InflatorTypes
    <2>2. SenderTypes'
      BY <1>8, ConstantsAssumption DEF SetHandler, senderVars, SenderTypes
    <2> QED  BY <2>1, <2>2
  <1>9. ASSUME Tick
        PROVE  InflatorTypes' /\ SenderTypes'
    <2>1. /\ DOMAIN sources' = DOMAIN sources
          /\ \A s \in DOMAIN sources :
                sources'[s] = [sources[s] EXCEPT !.age =
                                 IF @ > ExpiryInterval THEN @ ELSE @ + 1]
          /\ UNCHANGED <<active_priority, buffer, m_priority, told>>
      BY <1>9 DEF Tick
    <2>2. \A s \in DOMAIN sources : sources'[s] \in Tracked
      BY <2>1, ConstantsAssumption DEF InflatorTypes, Tracked
    <2>3. InflatorTypes'
      BY <2>1, <2>2 DEF InflatorTypes
    <2>4. disturbances' \in 0 .. MaxDisturbances /\ calm' \in 0 .. CalmRounds
      BY <1>0, <1>9, ConstantsAssumption DEF Tick, SenderTypes
    <2>5. SenderTypes'
      BY <1>9, <2>4 DEF Tick, senderVars, SenderTypes
    <2> QED  BY <2>3, <2>5
  <1>10. CASE UNCHANGED vars
    BY <1>10 DEF vars, inflatorVars, senderVars, InflatorTypes, SenderTypes
  <1> QED
    BY <1>1, <1>2, <1>3, <1>4, <1>5, <1>6, <1>7, <1>8, <1>9, <1>10 DEF Next

\* They hold at first.
LEMMA TypesInit == Init => InflatorTypes /\ SenderTypes
  <1> SUFFICES ASSUME Init PROVE InflatorTypes /\ SenderTypes
    OBVIOUS
  <1>1. DOMAIN sources = {} /\ Cardinality({}) <= MaxMergeSources
    BY FS_EmptySet, ConstantsAssumption DEF Init
  <1>2. InflatorTypes
    BY <1>1 DEF Init, InflatorTypes
  <1>3. SenderTypes
    BY ConstantsAssumption DEF Init, SenderTypes, Numbers
  <1> QED  BY <1>2, <1>3

\* The types are invariant.
LEMMA TypesInvariant == Spec => [](InflatorTypes /\ SenderTypes)
  BY TypesInit, TypesNext, PTL DEF Spec

\* The handler, the port and the senders keep their types, and whoever sends,
\* TrackSourceIfRequired never tracks more than MAX_MERGE_SOURCES sources.
THEOREM TypeCorrect == Spec => []TypeOK
  <1>1. InflatorTypes /\ SenderTypes => TypeOK
    BY DEF InflatorTypes, SenderTypes, Tracked, Delayed, TypeOK
  <1> QED  BY <1>1, TypesInvariant, PTL

-----------------------------------------------------------------------------
(* Packets that were overtaken *)

\* The number k packets after n.
Ahead(n, k) == (n + k) % Modulus

\* The source has counted on by as many packets as overtook the delayed one;
\* the inflator holds the number of one of them, or of the delayed packet
\* itself if that has come before.
LateOk(s) ==
    LET n == late[s].packet.sequence
        passed == late[s].passed
    IN late[s] # None =>
          /\ late[s].packet.cid = s
          /\ ~ late[s].earlierRun =>
                /\ sequence[s] = Ahead(n, passed + 1)
                /\ late[s].overtaken /\ s \in DOMAIN sources =>
                      \E k \in 0 .. passed : sources[s].sequence = Ahead(n, k)

\* For every source.
LateInv == \A s \in Sources : LateOk(s)

\* The numbers count one by one, over the wrap.
LEMMA AheadNext ==
    ASSUME NEW n \in Numbers, NEW k \in Nat, k < Modulus
    PROVE  (Ahead(n, k) + 1) % Modulus = Ahead(n, k + 1)
  <1>1. /\ Modulus \in Nat \ {0} /\ n \in Nat /\ n < Modulus
        /\ n + k \in 0 .. 2 * Modulus - 1 /\ n + k + 1 \in 0 .. 2 * Modulus - 1
    BY ConstantsAssumption DEF Numbers
  <1>2. CASE n + k + 1 < Modulus
    <2>1. (n + k) % Modulus = n + k
      BY <1>1, <1>2
    <2> QED  BY <1>1, <2>1 DEF Ahead
  <1>3. CASE n + k + 1 = Modulus
    <2>1. (n + k) % Modulus = n + k
      BY <1>1, <1>3
    <2> QED  BY <1>1, <1>3, <2>1 DEF Ahead
  <1>4. CASE n + k + 1 > Modulus
    <2>1. (n + k) % Modulus = n + k - Modulus
      BY <1>1, <1>4
    <2>2. (n + k + 1) % Modulus = n + k + 1 - Modulus
      BY <1>1, <1>4
    <2>3. (n + k - Modulus + 1) % Modulus = n + k - Modulus + 1
      BY <1>1, <1>4
    <2> QED  BY <1>1, <2>1, <2>2, <2>3 DEF Ahead
  <1> QED  BY <1>1, <1>2, <1>3, <1>4

\* A packet less than SEQUENCE_DIFF_THRESHOLD behind is recognised as old, also
\* where the numbers have wrapped in between.
LEMMA BehindIsOld ==
    ASSUME NEW n \in Numbers, NEW k \in 0 .. MaxReorder
    PROVE  IsOld(n, Ahead(n, k))
  <1>1. /\ Modulus \in Nat \ {0} /\ n \in Nat /\ n < Modulus
        /\ k \in Nat /\ k < SequenceThreshold
        /\ SequenceThreshold \in Nat /\ SequenceThreshold <= Modulus \div 2
        /\ n + k \in 0 .. 2 * Modulus - 1
    BY ConstantsAssumption DEF Numbers
  <1>2. Modulus \div 2 \in Nat /\ Modulus = 2 * (Modulus \div 2)
    BY ConstantsAssumption
  <1>3. (n - Ahead(n, k)) % Modulus = IF k = 0 THEN 0 ELSE Modulus - k
    <2>1. CASE n + k < Modulus
      <3>1. Ahead(n, k) = n + k
        BY <1>1, <2>1 DEF Ahead
      <3>2. n - Ahead(n, k) = - k
        BY <1>1, <3>1
      <3>3. (- k) % Modulus = IF k = 0 THEN 0 ELSE Modulus - k
        BY <1>1, <1>2
      <3> QED  BY <3>2, <3>3
    <2>2. CASE n + k >= Modulus
      <3>1. Ahead(n, k) = n + k - Modulus
        BY <1>1, <2>2 DEF Ahead
      <3>2. n - Ahead(n, k) = Modulus - k
        BY <1>1, <3>1
      <3>3. k # 0
        BY <1>1, <2>2
      <3>4. (Modulus - k) % Modulus = Modulus - k
        BY <1>1, <1>2, <3>3
      <3> QED  BY <3>2, <3>3, <3>4
    <2> QED  BY <1>1, <2>1, <2>2
  <1>4. SeqDiff(n, Ahead(n, k)) = - k
    BY <1>1, <1>2, <1>3 DEF SeqDiff
  <1> QED  BY <1>1, <1>4 DEF IsOld

\* The number kept for a source is the one it had or the packet's.
LEMMA HandledNumbers ==
    ASSUME NEW p \in Packets, HandlePDUData(p), NEW s \in DOMAIN sources'
    PROVE  \/ s \in DOMAIN sources /\ sources'[s].sequence = sources[s].sequence
           \/ s = p.cid /\ sources'[s].sequence = p.sequence
  <1> DEFINE kept == Unexpired(p.cid)
             Kept(t) == t \in DOMAIN sources /\
                        sources'[t].sequence = sources[t].sequence
             Taken(t) == t = p.cid /\ sources'[t].sequence = p.sequence
  <1>1. kept \subseteq DOMAIN sources
    BY DEF Unexpired
  <1>2. ASSUME NEW S \in SUBSET DOMAIN sources, sources' = Only(S)
        PROVE  Kept(s)
    BY <1>2 DEF Only
  <1>3. ASSUME NEW S \in SUBSET DOMAIN sources, sources' = With(S, p)
        PROVE  Kept(s) \/ Taken(s)
    BY <1>3 DEF With
  <1>4. CASE ~ registered
    BY <1>4 DEF HandlePDUData, inflatorVars
  <1>5. CASE registered
    <2>1. NewSource(p, kept) \/ KnownSource(p, kept)
      BY <1>5 DEF HandlePDUData
    <2> HIDE DEF kept
    <2>2. \/ \E S \in SUBSET kept : sources' = Only(S)
          \/ \E S \in SUBSET kept : sources' = With(S, p)
      <3>1. /\ {} \in SUBSET kept /\ kept \in SUBSET kept
            /\ kept \ {p.cid} \in SUBSET kept
        OBVIOUS
      <3>2. CASE NewSource(p, kept)
        BY <3>1, <3>2 DEF NewSource, Ignore, Merge
      <3>3. CASE KnownSource(p, kept)
        BY <3>1, <3>3 DEF KnownSource, Ignore, Merge
      <3> QED  BY <2>1, <3>2, <3>3
    <2>3. \A S \in SUBSET kept : S \in SUBSET DOMAIN sources
      BY <1>1
    <2> HIDE DEF Kept, Taken
    <2>4. Kept(s) \/ Taken(s)
      BY <1>2, <1>3, <2>2, <2>3
    <2> QED  BY <2>4 DEF Kept, Taken
  <1> QED  BY <1>4, <1>5

\* Steps that leave the source, and its number in the inflator, alone.
LEMMA LateSame ==
    ASSUME NEW s \in Sources, LateOk(s),
           late'[s] = late[s], sequence'[s] = sequence[s],
           s \in DOMAIN sources' =>
              s \in DOMAIN sources /\ sources'[s].sequence = sources[s].sequence
    PROVE  LateOk(s)'
  BY DEF LateOk

\* A packet arrives at once.
LEMMA DeliverLate ==
    ASSUME InflatorTypes, SenderTypes, NEW r \in Sources, NEW t \in BOOLEAN,
           Deliver(r, t), NEW s \in Sources, LateOk(s)
    PROVE  LateOk(s)'
  <1>0. /\ sequence' = [sequence EXCEPT ![r] = (@ + 1) % Modulus]
        /\ HandlePDUData(Packet(r, t)) /\ Packet(r, t) \in Packets
        /\ late' = [late EXCEPT ![r] = FallBack(r)]
    BY PacketType DEF Deliver
  <1>1. Packet(r, t).cid = r /\ Packet(r, t).sequence = sequence[r]
    BY DEF Packet
  <1>2. ASSUME NEW u \in DOMAIN sources'
        PROVE  \/ /\ u \in DOMAIN sources
                  /\ sources'[u].sequence = sources[u].sequence
               \/ u = r /\ sources'[u].sequence = sequence[r]
    BY <1>0, <1>1, HandledNumbers
  <1>3. CASE s # r
    <2>1. late'[s] = late[s] /\ sequence'[s] = sequence[s]
      BY <1>0, <1>3 DEF SenderTypes
    <2> QED  BY <1>2, <1>3, <2>1, LateSame
  <1>4. CASE s = r
    <2>1. /\ late'[s] = FallBack(s)
          /\ sequence'[s] = (sequence[s] + 1) % Modulus
      BY <1>0, <1>4 DEF SenderTypes
    <2>2. CASE late[s] = None \/ late[s].passed = MaxReorder
      BY <2>1, <2>2 DEF FallBack, LateOk
    <2>3. CASE ~ (late[s] = None \/ late[s].passed = MaxReorder)
      <3> DEFINE b == (registered /\ s \in DOMAIN sources' /\
                       sources'[s].sequence = sequence[s])
                 o == late[s].overtaken \/ b
                 n == late[s].packet.sequence
                 q == late[s].passed
      <3>1. late[s] \in Delayed /\ late[s] # None
        BY <2>3 DEF SenderTypes
      <3>2. late'[s] = [late[s] EXCEPT !.passed = @ + 1, !.overtaken = o]
        BY <2>1, <2>3 DEF FallBack
      <3>3. /\ late'[s].packet = late[s].packet
            /\ late'[s].passed = q + 1
            /\ late'[s].earlierRun = late[s].earlierRun
            /\ late'[s].overtaken = o
        <4> HIDE DEF o
        <4> QED  BY <3>1, <3>2 DEF Delayed
      <3>4. q \in Nat /\ q < MaxReorder /\ n \in Numbers
        BY <2>3, <3>1, ConstantsAssumption DEF Delayed, Packets
      <3>0. late[s].packet.cid = s
        BY <3>1 DEF LateOk
      <3> SUFFICES ASSUME ~ late'[s].earlierRun
                   PROVE  /\ sequence'[s] = Ahead(n, q + 1 + 1)
                          /\ o /\ s \in DOMAIN sources' =>
                                \E k \in 0 .. q + 1 :
                                   sources'[s].sequence = Ahead(n, k)
        <4> HIDE DEF o
        <4> QED  BY <3>0, <3>3 DEF LateOk
      <3>5. /\ sequence[s] = Ahead(n, q + 1)
            /\ late[s].overtaken /\ s \in DOMAIN sources =>
                  \E k \in 0 .. q : sources[s].sequence = Ahead(n, k)
        <4>1. ~ late[s].earlierRun
          BY <3>3
        <4> QED  BY <3>1, <4>1 DEF LateOk
      <3>6. sequence'[s] = Ahead(n, q + 1 + 1)
        <4> HIDE DEF n, q
        <4>1. q + 1 \in Nat /\ q + 1 < Modulus
          BY <3>4, ConstantsAssumption
        <4> QED  BY <2>1, <3>4, <3>5, <4>1, AheadNext
      <3>7. ASSUME o, s \in DOMAIN sources'
            PROVE  \E k \in 0 .. q + 1 : sources'[s].sequence = Ahead(n, k)
        <4>1. CASE sources'[s].sequence = sequence[s]
          <5>1. q + 1 \in 0 .. q + 1
            BY <3>4
          <5> QED  BY <3>5, <4>1, <5>1
        <4>2. CASE sources'[s].sequence # sequence[s]
          <5>1. s \in DOMAIN sources /\ sources'[s].sequence = sources[s].sequence
            BY <1>2, <1>4, <3>7, <4>2
          <5>2. late[s].overtaken
            BY <3>7, <4>2
          <5>3. PICK k \in 0 .. q : sources[s].sequence = Ahead(n, k)
            BY <3>5, <5>1, <5>2
          <5>4. k \in 0 .. q + 1
            BY <3>4
          <5> QED  BY <5>1, <5>3, <5>4
        <4> QED  BY <4>1, <4>2
      <3> QED  BY <3>6, <3>7
    <2> QED  BY <2>2, <2>3
  <1> QED  BY <1>3, <1>4

\* A packet is lost or delayed.
LEMMA DelayLate ==
    ASSUME SenderTypes, NEW r \in Sources, NEW t \in BOOLEAN,
           Delay(r, t), NEW s \in Sources, LateOk(s)
    PROVE  LateOk(s)'
  <1>1. CASE s # r
    <2>1. /\ late'[s] = late[s] /\ sequence'[s] = sequence[s]
          /\ sources' = sources
      BY <1>1 DEF Delay, SenderTypes, inflatorVars
    <2> QED  BY <2>1, LateSame
  <1>2. CASE s = r
    <2>1. sequence[s] \in Numbers
      BY DEF SenderTypes
    <2>2. /\ late'[s].packet.cid = s
          /\ late'[s].packet.sequence = sequence[s]
          /\ late'[s].passed = 0 /\ late'[s].overtaken = FALSE
      BY <1>2 DEF Delay, SenderTypes, Packet
    <2>3. sequence'[s] = Ahead(sequence[s], 0 + 1)
      BY <1>2 DEF Delay, SenderTypes, Ahead
    <2>4. ~ late'[s].overtaken
      BY <2>2
    <2> QED  BY <2>2, <2>3, <2>4 DEF LateOk
  <1> QED  BY <1>1, <1>2

\* The delayed packet itself arrives, perhaps as that of a new source.
LEMMA LateLate ==
    ASSUME SenderTypes, NEW r \in Sources, LatePacket(r), NEW s \in Sources,
           LateOk(s), LateOk(r)
    PROVE  LateOk(s)'
  <1>1. /\ HandlePDUData(late[r].packet) /\ late[r] # None
        /\ UNCHANGED <<sequence, late>>
    BY DEF LatePacket, senderVars
  <1>2. late[r] \in Delayed /\ late[r].packet \in Packets
    BY <1>1 DEF SenderTypes, Delayed
  <1>3. late[r].packet.cid = r
    BY <1>1 DEF LateOk
  <1>4. s \in DOMAIN sources' =>
           \/ s \in DOMAIN sources /\ sources'[s].sequence = sources[s].sequence
           \/ s = r /\ sources'[s].sequence = late[r].packet.sequence
    BY <1>1, <1>2, <1>3, HandledNumbers
  <1>5. CASE s \in DOMAIN sources' =>
           s \in DOMAIN sources /\ sources'[s].sequence = sources[s].sequence
    BY <1>1, <1>5, LateSame
  <1>6. CASE s = r /\ sources'[s].sequence = late[r].packet.sequence
    <2> DEFINE n == late[s].packet.sequence
               q == late[s].passed
    <2>1. n \in Numbers /\ q \in Nat
      BY <1>2, <1>6, ConstantsAssumption DEF Delayed, Packets
    <2>2. 0 \in 0 .. q /\ Ahead(n, 0) = n
      <3> HIDE DEF n, q
      <3> QED  BY <2>1, ConstantsAssumption DEF Ahead, Numbers
    <2>3. \E k \in 0 .. q : sources'[s].sequence = Ahead(n, k)
      BY <1>6, <2>2
    <2> QED  BY <1>1, <2>3 DEF LateOk
  <1> QED  BY <1>4, <1>5, <1>6

\* The source sends again.
LEMMA ComeBackLate ==
    ASSUME SenderTypes, NEW r \in Sources, NEW restarted \in BOOLEAN,
           ComeBack(r, restarted), NEW s \in Sources, LateOk(s)
    PROVE  LateOk(s)'
  <1>1. sources' = sources
    BY DEF ComeBack, inflatorVars
  <1>2. CASE late'[s] = late[s] /\ sequence'[s] = sequence[s]
    BY <1>1, <1>2, LateSame
  <1>3. CASE late[s] = None /\ late'[s] = None
    BY <1>3 DEF LateOk
  <1>4. CASE late[s] # None /\ late'[s] = [late[s] EXCEPT !.earlierRun = TRUE]
    <2>1. late[s] \in Delayed
      BY <1>4 DEF SenderTypes
    <2>2. late'[s].packet = late[s].packet /\ late'[s].earlierRun = TRUE
      BY <1>4, <2>1 DEF Delayed
    <2>3. late'[s].earlierRun
      BY <2>2
    <2> QED  BY <1>4, <2>2, <2>3 DEF LateOk
  <1>5. s # r => late'[s] = late[s] /\ sequence'[s] = sequence[s]
    BY DEF ComeBack, SenderTypes
  <1>6. CASE s = r
    <2>1. ~ restarted => late' = late /\ sequence' = sequence
      BY DEF ComeBack
    <2>2. late[s] = None => late' = late
      BY <1>6 DEF ComeBack
    <2>3. restarted /\ late[s] # None =>
             late'[s] = [late[s] EXCEPT !.earlierRun = TRUE]
      BY <1>6 DEF ComeBack, SenderTypes
    <2> QED  BY <1>2, <1>3, <1>4, <2>1, <2>2, <2>3
  <1> QED  BY <1>2, <1>5, <1>6

\* Every step keeps the numbers in order.
LEMMA LateNext ==
    InflatorTypes /\ SenderTypes /\ LateInv /\ [Next]_vars => LateInv'
  <1> SUFFICES ASSUME InflatorTypes, SenderTypes, LateInv, [Next]_vars,
                      NEW s \in Sources
               PROVE  LateOk(s)'
    BY DEF LateInv
  <1>0. \A r \in Sources : LateOk(r)
    BY DEF LateInv
  <1>1. ASSUME NEW r \in Sources, SendDMX(r) PROVE LateOk(s)'
    <2>1. Deliver(r, FALSE) \/ Delay(r, FALSE)
      BY <1>1 DEF SendDMX
    <2> QED  BY <1>0, <2>1, DeliverLate, DelayLate, Zenon
  <1>2. ASSUME NEW r \in Sources, StreamTerminated(r) PROVE LateOk(s)'
    <2>1. Deliver(r, TRUE) \/ Delay(r, TRUE)
      BY <1>2 DEF StreamTerminated
    <2> QED  BY <1>0, <2>1, DeliverLate, DelayLate, Zenon
  <1>3. ASSUME NEW r \in Sources, LatePacket(r) PROVE LateOk(s)'
    BY <1>0, <1>3, LateLate
  <1>4. ASSUME NEW r \in Sources, NEW restarted \in BOOLEAN,
               ComeBack(r, restarted)
        PROVE  LateOk(s)'
    BY <1>0, <1>4, ComeBackLate
  <1>5. CASE UNCHANGED <<sources, sequence, late>>
    BY <1>0, <1>5, LateSame
  <1>6. CASE RemoveHandler
    <2>1. UNCHANGED <<sequence, late>> /\ DOMAIN sources' = {}
      BY <1>6 DEF RemoveHandler, senderVars
    <2> QED  BY <1>0, <2>1, LateSame
  <1>7. CASE Tick
    <2>1. /\ UNCHANGED <<sequence, late>> /\ DOMAIN sources' = DOMAIN sources
          /\ \A t \in DOMAIN sources :
                sources'[t] = [sources[t] EXCEPT !.age =
                                 IF @ > ExpiryInterval THEN @ ELSE @ + 1]
      BY <1>7 DEF Tick, senderVars
    <2>2. s \in DOMAIN sources => sources[s] \in Tracked
      BY DEF InflatorTypes
    <2>3. s \in DOMAIN sources => sources'[s].sequence = sources[s].sequence
      BY <2>1, <2>2 DEF Tracked
    <2> QED  BY <1>0, <2>1, <2>3, LateSame
  <1>8. \/ \E r \in Sources : SendDMX(r) \/ StreamTerminated(r) \/ LatePacket(r)
        \/ \E r \in Sources, restarted \in BOOLEAN : ComeBack(r, restarted)
        \/ RemoveHandler \/ Tick
        \/ UNCHANGED <<sources, sequence, late>>
    BY DEF Next, vars, ChangePriority, Vanish, SetHandler, inflatorVars,
           senderVars
  <1> QED  BY <1>1, <1>2, <1>3, <1>4, <1>5, <1>6, <1>7, <1>8

\* The numbers are in order in every reachable state.
LEMMA LateInvariant == Spec => []LateInv
  <1>1. Init => LateInv
    BY DEF Init, LateInv, LateOk
  <1> QED  BY <1>1, LateNext, TypesInvariant, PTL DEF Spec

\* However many sequence numbers there are and wherever they wrap, a packet
\* that was overtaken by a later one of the same source, whose frame is in
\* use, changes nothing the universe sees: TrackSourceIfRequired takes it for
\* an old one, also when it comes twice.
THEOREM OvertakenIgnored == Spec => OvertakenPacketsIgnored
  <1>1. ASSUME SenderTypes, LateInv, NEW s \in Sources, LatePacket(s),
               late[s].overtaken, ~ late[s].earlierRun, s \in DOMAIN sources
        PROVE  UNCHANGED <<buffer, m_priority, told>>
    <2> DEFINE p == late[s].packet
    <2>1. late[s] # None /\ HandlePDUData(p)
      BY <1>1 DEF LatePacket
    <2>2. late[s] \in Delayed
      BY <2>1, <1>1 DEF SenderTypes
    <2>3. p.sequence \in Numbers
      BY <2>2 DEF Delayed, Packets
    <2>4. p.cid = s /\ \E k \in 0 .. late[s].passed :
                           sources[s].sequence = Ahead(p.sequence, k)
      BY <1>1, <2>1 DEF LateInv, LateOk
    <2>5. late[s].passed \in 0 .. MaxReorder
      BY <2>2 DEF Delayed
    <2> DEFINE q == late[s].passed
    <2>6. \A k \in 0 .. q : k \in 0 .. MaxReorder
      <3>1. q \in 0 .. MaxReorder
        BY <2>5
      <3> HIDE DEF q
      <3> QED  BY <3>1, ConstantsAssumption
    <2>7. IsOld(p.sequence, sources[s].sequence)
      BY <2>3, <2>4, <2>6, BehindIsOld
    <2>8. CASE ~ registered
      BY <2>1, <2>8 DEF HandlePDUData, inflatorVars
    <2>9. CASE registered
      <3>1. p.cid \in Unexpired(p.cid)
        BY <1>1, <2>4 DEF Unexpired
      <3>2. KnownSource(p, Unexpired(p.cid))
        BY <2>1, <2>9, <3>1 DEF HandlePDUData
      <3>3. Ignore(Unexpired(p.cid))
        BY <2>4, <2>7, <3>2 DEF KnownSource
      <3> QED  BY <3>3 DEF Ignore
    <2> QED  BY <2>8, <2>9
  <1>2. SenderTypes /\ LateInv =>
          [\A s \in Sources :
             /\ LatePacket(s)
             /\ late[s].overtaken
             /\ ~late[s].earlierRun
             /\ s \in DOMAIN sources
             => UNCHANGED <<buffer, m_priority, told>>]_vars
    BY <1>1
  <1> QED
    BY <1>2, TypesInvariant, LateInvariant, PTL DEF OvertakenPacketsIgnored

-----------------------------------------------------------------------------
(* Sequence numbers, once more *)

\* The facts about the constants that arithmetic needs.
LEMMA NumberFacts ==
    /\ Modulus \in Nat \ {0} /\ Modulus \div 2 \in Nat
    /\ Modulus = 2 * (Modulus \div 2)
    /\ SequenceThreshold \in Nat \ {0} /\ SequenceThreshold <= Modulus \div 2
    /\ SequenceThreshold < Modulus
  BY ConstantsAssumption

\* The number before the next one is the last one.
LEMMA NewestNext ==
    ASSUME NEW n \in Numbers
    PROVE  (((n + 1) % Modulus) - 1) % Modulus = n
  <1>1. n \in Nat /\ n < Modulus
    BY NumberFacts DEF Numbers
  <1>2. CASE n + 1 < Modulus
    <2>1. (n + 1) % Modulus = n + 1
      BY <1>1, <1>2, NumberFacts
    <2>2. n % Modulus = n
      BY <1>1, NumberFacts
    <2> QED  BY <1>1, <2>1, <2>2
  <1>3. CASE n + 1 = Modulus
    <2>1. (n + 1) % Modulus = 0
      BY <1>1, <1>3, NumberFacts
    <2>2. (0 - 1) % Modulus = Modulus - 1
      BY NumberFacts
    <2> QED  BY <1>1, <1>3, <2>1, <2>2, NumberFacts
  <1> QED  BY <1>1, <1>2, <1>3, NumberFacts

\* The next number is one ahead of the last one.
LEMMA NewestBefore ==
    ASSUME NEW n \in Numbers
    PROVE  /\ (n - 1) % Modulus \in Numbers
           /\ Ahead((n - 1) % Modulus, 1) = n
  <1>1. n \in Nat /\ n < Modulus
    BY NumberFacts DEF Numbers
  <1>2. CASE n = 0
    <2>1. (n - 1) % Modulus = Modulus - 1
      BY <1>2, NumberFacts
    <2>2. Modulus % Modulus = 0
      BY NumberFacts
    <2> QED  BY <1>2, <2>1, <2>2, NumberFacts DEF Ahead, Numbers
  <1>3. CASE n > 0
    <2>1. (n - 1) % Modulus = n - 1
      BY <1>1, <1>3, NumberFacts
    <2>2. n % Modulus = n
      BY <1>1, NumberFacts
    <2> QED  BY <1>1, <1>3, <2>1, <2>2, NumberFacts DEF Ahead, Numbers
  <1> QED  BY <1>1, <1>2, <1>3

\* A packet that follows the last one accepted is not old.
LEMMA NextIsNew ==
    ASSUME NEW n \in Numbers
    PROVE  ~ IsOld(n, (n - 1) % Modulus)
  <1>1. n \in Nat /\ n < Modulus
    BY NumberFacts DEF Numbers
  <1>2. (n - ((n - 1) % Modulus)) % Modulus = 1
    <2>1. CASE n = 0
      <3>1. (n - 1) % Modulus = Modulus - 1
        BY <2>1, NumberFacts
      <3>2. (1 - Modulus) % Modulus = 1
        BY NumberFacts
      <3> QED  BY <2>1, <3>1, <3>2, NumberFacts
    <2>2. CASE n > 0
      <3>1. (n - 1) % Modulus = n - 1
        BY <1>1, <2>2, NumberFacts
      <3>2. 1 % Modulus = 1
        BY NumberFacts
      <3> QED  BY <1>1, <3>1, <3>2
    <2> QED  BY <1>1, <2>1, <2>2
  <1>3. \/ SeqDiff(n, (n - 1) % Modulus) = 1
        \/ 1 >= Modulus \div 2 /\ SeqDiff(n, (n - 1) % Modulus) = 1 - Modulus
    BY <1>2 DEF SeqDiff
  <1> QED  BY <1>3, NumberFacts DEF IsOld

\* A packet is old when the number kept is less than the threshold ahead.
LEMMA OldIsBehind ==
    ASSUME NEW n \in Numbers, NEW old \in Numbers, IsOld(n, old)
    PROVE  \E j \in 0 .. SequenceThreshold - 1 : old = Ahead(n, j)
  <1>1. /\ n \in Nat /\ n < Modulus /\ old \in Nat /\ old < Modulus
    BY NumberFacts DEF Numbers
  <1> DEFINE d == (n - old) % Modulus
  <1>2. /\ n >= old => d = n - old
        /\ n < old => d = n - old + Modulus
    BY <1>1, NumberFacts
  <1> DEFINE j == IF d = 0 THEN 0 ELSE Modulus - d
  <1>0. d \in Nat /\ d < Modulus
    BY <1>1, NumberFacts
  <1>3. \/ d = 0
        \/ d >= Modulus \div 2 /\ Modulus - d < SequenceThreshold
    <2>1. SeqDiff(n, old) = IF d >= Modulus \div 2 THEN d - Modulus ELSE d
      BY DEF SeqDiff
    <2> HIDE DEF d
    <2> QED  BY <1>0, <2>1, NumberFacts DEF IsOld
  <1>4. j \in 0 .. SequenceThreshold - 1
    <2> HIDE DEF d
    <2> QED  BY <1>0, <1>3, NumberFacts
  <1>5. old = Ahead(n, j)
    <2> HIDE DEF d
    <2>1. CASE d = 0
      <3>1. old = n
        BY <1>1, <1>2, <2>1, NumberFacts
      <3>2. n % Modulus = n
        BY <1>1, NumberFacts
      <3> QED  BY <1>1, <2>1, <3>1, <3>2 DEF Ahead
    <2>2. CASE d # 0 /\ n >= old
      <3>1. n + (Modulus - d) = old + Modulus
        BY <1>1, <1>2, <2>2, NumberFacts
      <3>2. (old + Modulus) % Modulus = old
        BY <1>1, NumberFacts
      <3> QED  BY <2>2, <3>1, <3>2 DEF Ahead
    <2>3. CASE d # 0 /\ n < old
      <3>1. n + (Modulus - d) = old
        BY <1>1, <1>2, <2>3, NumberFacts
      <3>2. old % Modulus = old
        BY <1>1, NumberFacts
      <3> QED  BY <2>3, <3>1, <3>2 DEF Ahead
    <2> QED  BY <1>1, <2>1, <2>2, <2>3
  <1> HIDE DEF j
  <1> QED  BY <1>4, <1>5

\* Numbers that are not further ahead than the threshold are different.
LEMMA AheadDiffers ==
    ASSUME NEW n \in Numbers, NEW j \in 0 .. SequenceThreshold,
           NEW k \in 0 .. SequenceThreshold, Ahead(n, j) = Ahead(n, k)
    PROVE  j = k
  <1>1. /\ n \in Nat /\ n < Modulus /\ j \in Nat /\ k \in Nat
        /\ j < Modulus /\ k < Modulus
    BY NumberFacts DEF Numbers
  <1>2. ASSUME NEW i \in Nat, i < Modulus
        PROVE  Ahead(n, i) = IF n + i < Modulus THEN n + i ELSE n + i - Modulus
    BY <1>1, <1>2, NumberFacts DEF Ahead
  <1> QED  BY <1>1, <1>2, NumberFacts

\* Ahead of the next one.
LEMMA AheadAhead ==
    ASSUME NEW n \in Numbers, NEW k \in 0 .. SequenceThreshold
    PROVE  Ahead(Ahead(n, 1), k) = Ahead(n, k + 1)
  <1>1. n \in Nat /\ n < Modulus /\ k \in Nat /\ k < Modulus
    BY NumberFacts DEF Numbers
  <1>2. CASE n + 1 < Modulus
    <2>1. Ahead(n, 1) = n + 1
      BY <1>1, <1>2, NumberFacts DEF Ahead
    <2>2. (n + 1) + k = n + (k + 1)
      BY <1>1
    <2> QED  BY <2>1, <2>2 DEF Ahead
  <1>3. CASE n + 1 = Modulus
    <2>1. Ahead(n, 1) = 0
      BY <1>1, <1>3, NumberFacts DEF Ahead
    <2>2. k % Modulus = k
      BY <1>1, NumberFacts
    <2>3. (Modulus + k) % Modulus = k
      BY <1>1, NumberFacts
    <2>4. n + (k + 1) = Modulus + k
      BY <1>1, <1>3
    <2> QED  BY <1>1, <2>1, <2>2, <2>3, <2>4 DEF Ahead
  <1> QED  BY <1>1, <1>2, <1>3, NumberFacts

-----------------------------------------------------------------------------
(* The inflator settles: the invariants *)

\* The source was accepted when it last sent: its newest number and its
\* priority are in use, and it was heard in this round or the one before.
Fresh(s) ==
    /\ s \in up
    /\ sources[s].sequence = Newest(s)
    /\ priority[s] = active_priority
    /\ sources[s].age <= 1
    /\ s \in heard => sources[s].age = 0

\* That goes for all of them.
AllFresh == \A s \in DOMAIN sources : Fresh(s)

\* A source that is not fresh has been waiting since things calmed down.
WaitInv ==
    \A s \in DOMAIN sources :
       Fresh(s) \/ sources[s].age >= calm \/ sources[s].age > ExpiryInterval

\* It is the only one that sends, and its packets look old.
Alone(s) ==
    /\ up = {s} /\ DOMAIN sources = {s}
    /\ sources[s].age > ExpiryInterval

\* Once those that are not fresh have expired, one of them can be there only
\* as long as nobody else sends.
FreshInv ==
    /\ calm >= ExpiryInterval + 1 /\ heard # {} =>
          \/ AllFresh
          \/ \E b \in DOMAIN sources :
                /\ heard = {b} /\ sources[b].age > ExpiryInterval
                /\ \A s \in DOMAIN sources \ {b} : Fresh(s)
    /\ calm >= ExpiryInterval + 2 => AllFresh \/ \E b \in up : Alone(b)

\* How many packets of s have come since things calmed down.
Since(s) == IF s \in heard THEN calm ELSE calm - 1

\* The number kept for a source is not further ahead of it than the threshold,
\* every packet brings it nearer, and when it is reached the source is fresh.
LagInv ==
    /\ calm >= 1 => heard \subseteq up
    /\ \A s \in DOMAIN sources \cap up :
          /\ calm >= 1 /\ Since(s) >= 1 =>
                \E k \in 0 .. SequenceThreshold :
                   /\ k = 0 \/ k + Since(s) <= SequenceThreshold
                   /\ sources[s].sequence = Ahead(Newest(s), k)
          /\ \/ Fresh(s)
             \/ calm <= SequenceThreshold
             \/ calm = SequenceThreshold + 1 /\ s \notin heard

\* The sources tracked have the highest priority.
Lead ==
    /\ DOMAIN sources # {}
    /\ \A s \in up : priority[s] <= active_priority

\* The universe was told what the inflator holds.
UpToDate ==
    /\ told.frames = {[cid |-> s, sequence |-> sources[s].sequence] :
                         s \in DOMAIN sources}
    /\ told.priority = active_priority

\* The sources of the highest priority that have been heard are tracked, or
\* there is no place left.
LeadInv ==
    calm >= ExpiryInterval + 2 /\ AllFresh =>
       /\ \A s \in Top : s \in heard \/ calm >= ExpiryInterval + 3 =>
             /\ Lead
             /\ \/ s \in DOMAIN sources
                \/ Cardinality(DOMAIN sources) = MaxMergeSources
       /\ DOMAIN sources \cap heard # {} \/ calm >= ExpiryInterval + 3 => UpToDate

\* What holds while packets come in regularly.
SettleInv == registered /\ up # {} => WaitInv /\ FreshInv /\ LagInv /\ LeadInv

-----------------------------------------------------------------------------
(* What a packet does *)

\* The source s sends a packet, and it arrives.
RegularSend(s) ==
    /\ s \in up \ heard
    /\ heard' = heard \cup {s}
    /\ Deliver(s, FALSE)
    /\ UNCHANGED <<calm, registered, up, priority>>

\* What is known of the sources in S stays.
Kept(S) == \A t \in S : t \in DOMAIN sources /\ sources'[t] = sources[t]

\* The packet is old, its priority is low, or there is no place.
Ignored(s) ==
    /\ DOMAIN sources' = Unexpired(s) /\ Kept(Unexpired(s))
    /\ active_priority' = PriorityOf(Unexpired(s))
    /\ told' = told
    /\ s \in Unexpired(s) => IsOld(sequence[s], sources[s].sequence)
    /\ s \notin Unexpired(s) =>
          \/ priority[s] < PriorityOf(Unexpired(s))
          \/ /\ priority[s] <= PriorityOf(Unexpired(s))
             /\ Cardinality(Unexpired(s)) = MaxMergeSources

\* The source has lowered its priority, and others have not.
Dropped(s) ==
    /\ s \in Unexpired(s)
    /\ DOMAIN sources' = Unexpired(s) \ {s} /\ DOMAIN sources' # {}
    /\ Kept(Unexpired(s) \ {s})
    /\ priority[s] < active_priority
    /\ active_priority' = active_priority
    /\ UpToDate'

\* The packet is merged with those of the sources in S.
Taken(s, S) ==
    /\ S \subseteq Unexpired(s) \ {s}
    /\ DOMAIN sources' = S \cup {s} /\ Kept(S)
    /\ sources'[s] = [sequence |-> sequence[s], age |-> 0]
    /\ active_priority' = priority[s]
    /\ UpToDate'
    /\ \/ /\ S = Unexpired(s) \ {s} /\ priority[s] = active_priority
          /\ s \notin Unexpired(s) => Cardinality(S) # MaxMergeSources
       \/ S = {} /\ Unexpired(s) \ {s} = {}
       \/ S = {} /\ priority[s] > PriorityOf(Unexpired(s))

\* Merge tells the universe, if there is something to tell.
LEMMA MergeTells ==
    ASSUME NEW tracked, NEW active, Merge(tracked, active),
           DOMAIN tracked # {}
    PROVE  UpToDate'
  <1>1. told' = [frames |-> buffer', priority |-> active]
    BY DEF Merge
  <1>2. told'.frames = buffer' /\ told'.priority = active
    BY <1>1
  <1> QED  BY <1>2 DEF Merge, UpToDate

\* One of the three happens.
LEMMA SendEffect ==
    ASSUME InflatorTypes, SenderTypes, registered, NEW s \in Sources,
           RegularSend(s)
    PROVE  \/ Ignored(s) \/ Dropped(s)
           \/ \E S \in SUBSET (Unexpired(s) \ {s}) : Taken(s, S)
  <1> DEFINE p == Packet(s, FALSE)
             kept == Unexpired(s)
             others == kept \ {s}
             old == IsOld(sequence[s], sources[s].sequence)
  <1>1. HandlePDUData(p)
    BY DEF RegularSend, Deliver
  <1>2. /\ p.cid = s /\ p.sequence = sequence[s] /\ p.priority = priority[s]
        /\ p.terminated = FALSE
    BY DEF Packet
  <1>3. kept \subseteq DOMAIN sources /\ IsFiniteSet(kept)
    BY ConstantsAssumption, FS_Subset DEF Unexpired, InflatorTypes
  <1>4. /\ priority[s] \in Nat /\ active_priority \in Nat
        /\ PriorityOf(kept) \in Nat
        /\ kept # {} => PriorityOf(kept) = active_priority
        /\ MaxMergeSources \in Nat \ {0} /\ Cardinality({}) = 0
    <2>1. priority[s] \in Priorities /\ active_priority \in Priorities \cup {0}
      BY DEF SenderTypes, InflatorTypes
    <2>0. Priorities \subseteq Nat /\ 0 \in Nat
      BY ConstantsAssumption
    <2>2. priority[s] \in Nat /\ active_priority \in Nat
      BY <2>0, <2>1, Zenon
    <2>3. /\ PriorityOf(kept) \in Nat
          /\ kept # {} => PriorityOf(kept) = active_priority
      BY <2>2 DEF PriorityOf
    <2>4. MaxMergeSources \in Nat \ {0} /\ Cardinality({}) = 0
      BY ConstantsAssumption, FS_EmptySet
    <2> QED  BY <2>2, <2>3, <2>4
  <1>5. ASSUME NEW S \in SUBSET kept
        PROVE  /\ DOMAIN Only(S) = S
               /\ \A t \in S : t \in DOMAIN sources /\ Only(S)[t] = sources[t]
    BY <1>3 DEF Only
  <1>6. ASSUME NEW S \in SUBSET others
        PROVE  /\ DOMAIN With(S, p) = S \cup {s}
               /\ With(S, p)[s] = [sequence |-> sequence[s], age |-> 0]
               /\ \A t \in S : t \in DOMAIN sources /\ With(S, p)[t] = sources[t]
    <2>1. With(S, p) = [t \in S \cup {s} |->
                           IF t = s THEN [sequence |-> sequence[s], age |-> 0]
                           ELSE sources[t]]
      BY <1>2 DEF With
    <2>2. s \notin S /\ S \subseteq DOMAIN sources
      BY <1>3
    <2> HIDE DEF p, kept
    <2> QED  BY <2>1, <2>2
  <1>7. ASSUME NEW S \in SUBSET others, Merge(With(S, p), priority[s]),
               \/ /\ S = others /\ priority[s] = active_priority
                  /\ s \notin kept => Cardinality(S) # MaxMergeSources
               \/ S = {} /\ others = {}
               \/ S = {} /\ priority[s] > PriorityOf(kept)
        PROVE  Taken(s, S)
    <2>1. DOMAIN With(S, p) # {}
      BY <1>6
    <2>2. UpToDate'
      BY <1>7, <2>1, MergeTells
    <2>3. sources' = With(S, p) /\ active_priority' = priority[s]
      BY <1>7 DEF Merge
    <2> QED  BY <1>6, <1>7, <2>2, <2>3 DEF Taken, Kept
  <1>8. CASE s \notin kept
    <2> DEFINE rest == IF priority[s] > PriorityOf(kept) THEN {} ELSE kept
    <2>1. NewSource(p, kept)
      BY <1>1, <1>2, <1>8 DEF HandlePDUData
    <2>2. CASE /\ \/ priority[s] < PriorityOf(kept)
                  \/ Cardinality(rest) = MaxMergeSources
               /\ Ignore(kept)
      <3>1. \/ priority[s] < PriorityOf(kept)
            \/ /\ priority[s] <= PriorityOf(kept)
               /\ Cardinality(kept) = MaxMergeSources
        BY <1>4, <2>2
      <3>2. sources' = Only(kept) /\ active_priority' = PriorityOf(kept)
            /\ told' = told
        BY <2>2 DEF Ignore
      <3> QED  BY <1>5, <1>8, <3>1, <3>2 DEF Ignored, Kept
    <2>3. CASE /\ priority[s] >= PriorityOf(kept)
               /\ Cardinality(rest) # MaxMergeSources
               /\ Merge(With(rest, p), priority[s])
      <3>1. rest \in SUBSET others /\ others = kept
        BY <1>8
      <3>2. \/ rest = others /\ priority[s] = active_priority
            \/ rest = {} /\ others = {}
            \/ rest = {} /\ priority[s] > PriorityOf(kept)
        BY <1>4, <2>3, <3>1
      <3> HIDE DEF rest
      <3> QED  BY <1>7, <2>3, <3>1, <3>2
    <2> QED
      <3>1. ~ p.terminated
        BY <1>2
      <3>2. rest = IF p.priority > PriorityOf(kept) THEN {} ELSE kept
        BY <1>2
      <3> HIDE DEF p, kept
      <3> QED  BY <1>2, <2>1, <2>2, <2>3, <3>1, <3>2 DEF NewSource
  <1>9. CASE s \in kept
    <2>1. KnownSource(p, kept)
      BY <1>1, <1>2, <1>9 DEF HandlePDUData
    <2>2. CASE old /\ Ignore(kept)
      <3>1. sources' = Only(kept) /\ active_priority' = PriorityOf(kept)
            /\ told' = told
        BY <2>2 DEF Ignore
      <3> QED  BY <1>5, <1>9, <2>2, <3>1 DEF Ignored, Kept
    <2>3. CASE /\ priority[s] < active_priority /\ others # {}
               /\ Merge(Only(others), active_priority)
      <3>1. DOMAIN Only(others) = others
        BY <1>5
      <3>2. UpToDate'
        BY <2>3, <3>1, MergeTells
      <3>3. sources' = Only(others) /\ active_priority' = active_priority
        BY <2>3 DEF Merge
      <3> QED  BY <1>5, <1>9, <2>3, <3>1, <3>2, <3>3 DEF Dropped, Kept
    <2> DEFINE rest == IF priority[s] > active_priority THEN {} ELSE others
    <2>4. CASE /\ priority[s] < active_priority => others = {}
               /\ Merge(With(rest, p), priority[s])
      <3>1. rest \in SUBSET others
        OBVIOUS
      <3>2. \/ rest = others /\ priority[s] = active_priority
            \/ rest = {} /\ others = {}
            \/ rest = {} /\ priority[s] > PriorityOf(kept)
        BY <1>4, <1>9, <2>4
      <3> HIDE DEF rest
      <3> QED  BY <1>7, <1>9, <2>4, <3>1, <3>2
    <2> QED
      <3>1. ~ p.terminated
        BY <1>2
      <3>2. rest = IF p.priority > active_priority THEN {} ELSE others
        BY <1>2
      <3> HIDE DEF p, kept
      <3> QED  BY <1>2, <2>1, <2>2, <2>3, <2>4, <3>1, <3>2 DEF KnownSource
  <1> QED  BY <1>8, <1>9

\* Of the other sources only the time passes; the sender's number goes on.
LEMMA SendFacts ==
    ASSUME SenderTypes, NEW s \in Sources, RegularSend(s)
    PROVE  /\ s \in up /\ s \notin heard
           /\ sequence[s] \in Numbers
           /\ Newest(s)' = sequence[s]
           /\ Newest(s) \in Numbers /\ Ahead(Newest(s), 1) = sequence[s]
           /\ \A t \in Sources : t # s => Newest(t)' = Newest(t)
  <1>1. /\ s \in up /\ s \notin heard
        /\ sequence' = [sequence EXCEPT ![s] = (sequence[s] + 1) % Modulus]
    BY DEF RegularSend, Deliver
  <1>2. sequence \in [Sources -> Numbers] /\ sequence[s] \in Numbers
    BY DEF SenderTypes
  <1>3. sequence'[s] = (sequence[s] + 1) % Modulus
    BY <1>1, <1>2
  <1>4. \A t \in Sources : t # s => sequence'[t] = sequence[t]
    BY <1>1, <1>2
  <1> QED  BY <1>1, <1>2, <1>3, <1>4, NewestNext, NewestBefore DEF Newest

\* A source that is tracked after another one's packet was so before.
LEMMA OthersKept ==
    ASSUME InflatorTypes, SenderTypes, registered, NEW s \in Sources,
           RegularSend(s), NEW t \in DOMAIN sources', t # s
    PROVE  /\ t \in DOMAIN sources /\ sources'[t] = sources[t]
           /\ t \in Sources /\ sources[t].age \in Nat
           /\ sources[t].age <= ExpiryInterval
           /\ active_priority' = active_priority
  <1>1. /\ t \in Unexpired(s) /\ sources'[t] = sources[t]
        /\ active_priority' = active_priority
    <2>1. CASE Ignored(s)
      BY <2>1 DEF Ignored, Kept, PriorityOf
    <2>2. CASE Dropped(s)
      BY <2>2 DEF Dropped, Kept
    <2>3. ASSUME NEW S \in SUBSET (Unexpired(s) \ {s}), Taken(s, S)
          PROVE  /\ t \in Unexpired(s) /\ sources'[t] = sources[t]
                 /\ active_priority' = active_priority
      <3>1. t \in S
        BY <2>3 DEF Taken
      <3> QED  BY <2>3, <3>1 DEF Taken, Kept
    <2> QED  BY <2>1, <2>2, <2>3, SendEffect
  <1>2. t \in DOMAIN sources /\ sources[t].age <= ExpiryInterval
    BY <1>1 DEF Unexpired
  <1>3. t \in Sources /\ sources[t] \in Tracked
    BY <1>2 DEF InflatorTypes
  <1>4. sources[t].age \in Nat
    BY <1>3, ConstantsAssumption DEF Tracked
  <1> QED  BY <1>1, <1>2, <1>3, <1>4

\* It is as fresh as before.
LEMMA OthersFresh ==
    ASSUME InflatorTypes, SenderTypes, registered, NEW s \in Sources,
           RegularSend(s), NEW t \in DOMAIN sources', t # s, Fresh(t)
    PROVE  Fresh(t)'
  <1>1. /\ t \in Sources /\ sources'[t] = sources[t]
        /\ active_priority' = active_priority
    BY OthersKept
  <1>2. Newest(t)' = Newest(t)
    BY <1>1, SendFacts
  <1>3. up' = up /\ priority' = priority /\ (t \in heard' => t \in heard)
    BY DEF RegularSend
  <1> QED  BY <1>1, <1>2, <1>3 DEF Fresh

\* The sender is fresh, unless its packet looked old.
LEMMA SenderKept ==
    ASSUME InflatorTypes, SenderTypes, registered, NEW s \in Sources,
           RegularSend(s), s \in DOMAIN sources'
    PROVE  \/ Fresh(s)'
           \/ /\ Ignored(s) /\ s \in DOMAIN sources /\ sources'[s] = sources[s]
              /\ IsOld(sequence[s], sources[s].sequence)
              /\ ~ Fresh(s)
  <1>1. CASE Ignored(s)
    <2>1. /\ s \in Unexpired(s) /\ s \in DOMAIN sources
          /\ sources'[s] = sources[s]
          /\ IsOld(sequence[s], sources[s].sequence)
      BY <1>1 DEF Ignored, Kept
    <2>2. ~ Fresh(s)
      BY <2>1, SendFacts, NextIsNew DEF Fresh, Newest
    <2> QED  BY <1>1, <2>1, <2>2
  <1>2. CASE Dropped(s)
    BY <1>2 DEF Dropped
  <1>3. ASSUME NEW S \in SUBSET (Unexpired(s) \ {s}), Taken(s, S)
        PROVE  Fresh(s)'
    <2>1. /\ sources'[s].sequence = sequence[s] /\ sources'[s].age = 0
          /\ active_priority' = priority[s]
      BY <1>3 DEF Taken
    <2>2. up' = up /\ priority' = priority
      BY DEF RegularSend
    <2> QED  BY <2>1, <2>2, SendFacts DEF Fresh
  <1> QED  BY <1>1, <1>2, <1>3, SendEffect

\* A packet leaves nobody behind who has not been waiting.
LEMMA SendWait ==
    ASSUME InflatorTypes, SenderTypes, registered, NEW s \in Sources,
           RegularSend(s), WaitInv
    PROVE  WaitInv'
  <1> SUFFICES ASSUME NEW t \in DOMAIN sources'
               PROVE  \/ Fresh(t)' \/ sources'[t].age >= calm'
                      \/ sources'[t].age > ExpiryInterval
    BY DEF WaitInv
  <1>0. calm' = calm
    BY DEF RegularSend
  <1>1. CASE t # s
    <2>1. t \in DOMAIN sources /\ sources'[t] = sources[t]
      BY <1>1, OthersKept
    <2>2. Fresh(t) => Fresh(t)'
      BY <1>1, OthersFresh
    <2> QED  BY <1>0, <2>1, <2>2 DEF WaitInv
  <1>2. CASE t = s
    <2>1. CASE /\ s \in DOMAIN sources /\ sources'[s] = sources[s]
               /\ ~ Fresh(s)
      BY <1>0, <1>2, <2>1 DEF WaitInv
    <2> QED  BY <1>2, <2>1, SenderKept
  <1> QED  BY <1>1, <1>2

\* What is not fresh is too old, and expires with the first packet of another
\* source.
LEMMA SendFresh ==
    ASSUME InflatorTypes, SenderTypes, registered, NEW s \in Sources,
           RegularSend(s), WaitInv, FreshInv
    PROVE  FreshInv'
  <1>0. /\ calm' = calm /\ up' = up /\ heard' = heard \cup {s}
        /\ s \in up /\ s \notin heard
        /\ calm \in Nat /\ ExpiryInterval \in Nat
    BY ConstantsAssumption DEF RegularSend, SenderTypes
  <1>1. ASSUME calm >= ExpiryInterval + 1, NEW t \in DOMAIN sources', t # s
        PROVE  Fresh(t)'
    <2>1. /\ t \in DOMAIN sources /\ sources[t].age \in Nat
          /\ sources[t].age <= ExpiryInterval
      BY <1>1, OthersKept
    <2> DEFINE a == sources[t].age
    <2>2. Fresh(t) \/ a >= calm \/ a > ExpiryInterval
      BY <2>1 DEF WaitInv
    <2>3. ~ (a >= calm) /\ ~ (a > ExpiryInterval)
      <3> HIDE DEF a
      <3> QED  BY <1>0, <1>1, <2>1 DEF a
    <2> QED  BY <1>1, <2>2, <2>3, OthersFresh
  <1>2. ASSUME calm >= ExpiryInterval + 1, NEW a \in Nat,
               a >= calm \/ a > ExpiryInterval
        PROVE  a > ExpiryInterval
    BY <1>0, <1>2
  <1>3. ASSUME calm >= ExpiryInterval + 1, s \in DOMAIN sources, ~ Fresh(s)
        PROVE  sources[s].age > ExpiryInterval
    <2>1. sources[s] \in Tracked
      BY <1>3 DEF InflatorTypes
    <2>2. sources[s].age \in Nat
      BY <2>1, ConstantsAssumption DEF Tracked
    <2> QED  BY <1>2, <1>3, <2>2 DEF WaitInv
  <1>4. ASSUME calm >= ExpiryInterval + 1
        PROVE  \/ AllFresh'
               \/ /\ heard' = {s} /\ s \in DOMAIN sources'
                  /\ sources'[s].age > ExpiryInterval
    <2>1. CASE s \in DOMAIN sources' => Fresh(s)'
      BY <1>1, <1>4, <2>1 DEF AllFresh
    <2>2. CASE /\ s \in DOMAIN sources' /\ s \in DOMAIN sources
               /\ sources'[s] = sources[s] /\ ~ Fresh(s)
      <3>1. sources'[s].age > ExpiryInterval
        BY <1>3, <1>4, <2>2
      <3>2. heard = {}
        BY <1>0, <1>4, <2>2 DEF FreshInv, AllFresh
      <3> QED  BY <1>0, <2>2, <3>1, <3>2
    <2> QED  BY <2>1, <2>2, SenderKept
  <1>5. ASSUME calm >= ExpiryInterval + 2
        PROVE  AllFresh' \/ \E b \in up' : Alone(b)'
    <2>0. calm >= ExpiryInterval + 1
      BY <1>0, <1>5
    <2>1. CASE AllFresh
      <3>1. s \in DOMAIN sources' => Fresh(s)'
        BY <2>1, SenderKept DEF AllFresh
      <3> QED  BY <1>1, <2>0, <3>1 DEF AllFresh
    <2>2. ASSUME NEW b \in up, Alone(b)
          PROVE  AllFresh' \/ Alone(s)'
      <3>1. up = {s} /\ DOMAIN sources = {s} /\ sources[s].age > ExpiryInterval
        BY <1>0, <2>2 DEF Alone
      <3>2. DOMAIN sources' \subseteq {s}
        BY <3>1, OthersKept
      <3>3. CASE s \in DOMAIN sources' => Fresh(s)'
        BY <3>2, <3>3 DEF AllFresh
      <3>4. CASE s \in DOMAIN sources' /\ sources'[s] = sources[s]
        BY <1>0, <3>1, <3>2, <3>4 DEF Alone
      <3> QED  BY <3>3, <3>4, SenderKept
    <2> QED  BY <1>0, <1>5, <2>1, <2>2 DEF FreshInv
  <1>6. ASSUME /\ heard' = {s} /\ s \in DOMAIN sources'
               /\ sources'[s].age > ExpiryInterval,
               calm >= ExpiryInterval + 1
        PROVE  \E b \in DOMAIN sources' :
                  /\ heard' = {b} /\ sources'[b].age > ExpiryInterval
                  /\ \A t \in DOMAIN sources' \ {b} : Fresh(t)'
    BY <1>1, <1>6
  <1> QED  BY <1>0, <1>4, <1>5, <1>6 DEF FreshInv

\* A packet is taken once the number kept is reached.
LEMMA SendLag ==
    ASSUME InflatorTypes, SenderTypes, registered, NEW s \in Sources,
           RegularSend(s), LagInv
    PROVE  LagInv'
  <1>0. /\ calm' = calm /\ up' = up /\ heard' = heard \cup {s}
        /\ s \in up /\ s \notin heard
        /\ calm \in Nat
    BY ConstantsAssumption DEF RegularSend, SenderTypes
  <1>1. calm' >= 1 => heard' \subseteq up'
    BY <1>0 DEF LagInv
  <1>2. Since(s) = calm - 1 /\ Since(s)' = calm
    BY <1>0 DEF Since
  <1>3. ASSUME s \in DOMAIN sources, IsOld(sequence[s], sources[s].sequence),
               calm >= 1
        PROVE  \E j \in 0 .. SequenceThreshold - 1 :
                  /\ j + calm <= SequenceThreshold
                  /\ sources[s].sequence = Ahead(sequence[s], j)
    <2>1. sources[s].sequence \in Numbers
      BY <1>3 DEF InflatorTypes, Tracked
    <2>2. PICK j \in 0 .. SequenceThreshold - 1 :
                  sources[s].sequence = Ahead(sequence[s], j)
      BY <1>3, <2>1, SendFacts, OldIsBehind
    <2>3. CASE calm = 1
      BY <2>2, <2>3, NumberFacts
    <2>4. CASE calm > 1
      <3>1. Since(s) >= 1
        BY <1>0, <1>2, <2>4
      <3>2. PICK k \in 0 .. SequenceThreshold :
                  /\ k = 0 \/ k + Since(s) <= SequenceThreshold
                  /\ sources[s].sequence = Ahead(Newest(s), k)
        BY <1>0, <1>3, <3>1 DEF LagInv
      <3>3. j \in 0 .. SequenceThreshold /\ j + 1 \in 0 .. SequenceThreshold
        BY NumberFacts
      <3>4. sources[s].sequence = Ahead(Newest(s), j + 1)
        BY <2>2, <3>3, SendFacts, AheadAhead
      <3>5. k = j + 1
        BY <3>2, <3>3, <3>4, SendFacts, AheadDiffers
      <3>6. j + calm <= SequenceThreshold
        BY <1>0, <1>2, <3>2, <3>5, NumberFacts
      <3> QED  BY <2>2, <3>6
    <2> QED  BY <1>0, <1>3, <2>3, <2>4
  <1>4. ASSUME NEW t \in DOMAIN sources' \cap up', calm >= 1, Since(t)' >= 1
        PROVE  \E k \in 0 .. SequenceThreshold :
                  /\ k = 0 \/ k + Since(t)' <= SequenceThreshold
                  /\ sources'[t].sequence = Ahead(Newest(t)', k)
    <2>1. CASE t # s
      <3>1. t \in DOMAIN sources /\ sources'[t] = sources[t] /\ t \in Sources
        BY <2>1, OthersKept
      <3>2. Since(t)' = Since(t)
        BY <1>0, <2>1 DEF Since
      <3>3. Newest(t)' = Newest(t)
        BY <2>1, <3>1, SendFacts
      <3>4. t \in DOMAIN sources \cap up
        BY <1>0, <3>1
      <3> QED  BY <1>4, <3>1, <3>2, <3>3, <3>4 DEF LagInv
    <2>2. CASE t = s /\ Fresh(s)'
      <3>1. sources'[s].sequence = Newest(s)'
        BY <2>2 DEF Fresh
      <3>2. Ahead(Newest(s)', 0) = Newest(s)'
        BY SendFacts, NumberFacts DEF Ahead, Numbers
      <3>3. 0 \in 0 .. SequenceThreshold
        BY NumberFacts
      <3> QED  BY <2>2, <3>1, <3>2, <3>3
    <2>3. CASE /\ t = s /\ s \in DOMAIN sources /\ sources'[s] = sources[s]
               /\ IsOld(sequence[s], sources[s].sequence)
      <3>1. PICK j \in 0 .. SequenceThreshold - 1 :
                  /\ j + calm <= SequenceThreshold
                  /\ sources[s].sequence = Ahead(sequence[s], j)
        BY <1>3, <1>4, <2>3
      <3>2. j \in 0 .. SequenceThreshold
        BY NumberFacts
      <3> QED  BY <1>2, <2>3, <3>1, <3>2, SendFacts
    <2> QED  BY <2>1, <2>2, <2>3, SenderKept
  <1>5. ASSUME NEW t \in DOMAIN sources' \cap up'
        PROVE  \/ Fresh(t)' \/ calm <= SequenceThreshold
               \/ calm = SequenceThreshold + 1 /\ t \notin heard'
    <2>1. CASE t # s
      <3>1. t \in DOMAIN sources \cap up
        BY <1>0, <2>1, OthersKept
      <3>2. Fresh(t) => Fresh(t)'
        BY <2>1, OthersFresh
      <3>3. t \in heard' => t \in heard
        BY <1>0, <2>1
      <3> QED  BY <3>1, <3>2, <3>3 DEF LagInv
    <2>2. CASE /\ t = s /\ s \in DOMAIN sources
               /\ IsOld(sequence[s], sources[s].sequence)
      <3>1. CASE calm >= 1
        <4>1. PICK j \in 0 .. SequenceThreshold - 1 :
                    j + calm <= SequenceThreshold
          BY <1>3, <2>2, <3>1
        <4> QED  BY <1>0, <4>1, NumberFacts
      <3> QED  BY <1>0, <3>1, NumberFacts
    <2> QED  BY <2>1, <2>2, SenderKept
  <1> QED  BY <1>0, <1>1, <1>4, <1>5 DEF LagInv

\* Nobody who is fresh expires.
LEMMA FreshUnexpired ==
    ASSUME InflatorTypes, AllFresh, NEW s
    PROVE  Unexpired(s) = DOMAIN sources
  <1>1. ASSUME NEW t \in DOMAIN sources
        PROVE  sources[t].age <= ExpiryInterval
    <2>1. sources[t] \in Tracked /\ sources[t].age <= 1
      BY DEF InflatorTypes, AllFresh, Fresh
    <2> DEFINE a == sources[t].age
    <2>2. a \in Nat /\ a <= 1
      BY <2>1, ConstantsAssumption DEF Tracked
    <2> HIDE DEF a
    <2>3. a <= ExpiryInterval
      BY <2>2, ConstantsAssumption
    <2> QED  BY <2>3 DEF a
  <1> QED  BY <1>1 DEF Unexpired

\* What the universe was told stays true when nothing changes.
LEMMA StillUpToDate ==
    ASSUME UpToDate, told' = told, active_priority' = active_priority,
           DOMAIN sources' = DOMAIN sources,
           \A t \in DOMAIN sources : sources'[t].sequence = sources[t].sequence
    PROVE  UpToDate'
  BY DEF UpToDate

\* The source of a packet takes its place among those of the highest priority.
LEMMA SendLead ==
    ASSUME InflatorTypes, SenderTypes, registered, NEW s \in Sources,
           RegularSend(s), FreshInv, LeadInv
    PROVE  LeadInv'
  <1>0. /\ calm' = calm /\ up' = up /\ heard' = heard \cup {s}
        /\ priority' = priority
        /\ s \in up /\ s \notin heard /\ Top' = Top
        /\ calm \in Nat /\ ExpiryInterval \in Nat \ {0}
    BY ConstantsAssumption DEF RegularSend, SenderTypes, Top
  <1> SUFFICES ASSUME calm >= ExpiryInterval + 2, AllFresh'
               PROVE  /\ \A u \in Top :
                            u \in heard' \/ calm >= ExpiryInterval + 3 =>
                               /\ Lead'
                               /\ \/ u \in DOMAIN sources'
                                  \/ Cardinality(DOMAIN sources') = MaxMergeSources
                      /\ \/ DOMAIN sources' \cap heard' # {}
                         \/ calm >= ExpiryInterval + 3
                         => UpToDate'
    BY <1>0 DEF LeadInv
  <1>1. /\ \A u \in up : priority[u] \in Nat
        /\ active_priority \in Nat
        /\ MaxMergeSources # 0 /\ Cardinality({}) = 0
    <2>1. Priorities \subseteq Nat /\ 0 \in Nat
      BY ConstantsAssumption
    <2>2. /\ up \subseteq Sources /\ priority \in [Sources -> Priorities]
          /\ active_priority \in Priorities \cup {0}
      BY DEF SenderTypes, InflatorTypes
    <2>3. active_priority \in Nat
      BY <2>1, <2>2, Zenon
    <2>4. \A u \in up : priority[u] \in Nat
      BY <2>1, <2>2
    <2> QED  BY <2>3, <2>4, ConstantsAssumption, FS_EmptySet
  <1>2. \A u \in Top : u \in up /\ \A v \in up : priority[v] <= priority[u]
    BY DEF Top
  <1>3. CASE AllFresh
    <2>1. Unexpired(s) = DOMAIN sources
      BY <1>3, FreshUnexpired
    <2>2. \A t \in DOMAIN sources : t \in up /\ priority[t] = active_priority
      BY <1>3 DEF AllFresh, Fresh
    <2>3. \A u \in Top : u \in heard \/ calm >= ExpiryInterval + 3 =>
             /\ Lead
             /\ \/ u \in DOMAIN sources
                \/ Cardinality(DOMAIN sources) = MaxMergeSources
      BY <1>3 DEF LeadInv
    <2>4. CASE Ignored(s)
      <3>1. s \notin DOMAIN sources
        <4>1. ASSUME s \in DOMAIN sources PROVE FALSE
          <5>1. s \in DOMAIN sources' /\ sources'[s] = sources[s]
            BY <2>1, <2>4, <4>1 DEF Ignored, Kept
          <5>2. IsOld(sequence[s], sources[s].sequence) /\ Fresh(s)
            BY <1>3, <2>1, <2>4, <4>1 DEF Ignored, AllFresh
          <5> QED  BY <5>2, SendFacts, NextIsNew DEF Fresh, Newest
        <4> QED  BY <4>1
      <3>2. /\ DOMAIN sources' = DOMAIN sources
            /\ \A t \in DOMAIN sources : sources'[t] = sources[t]
            /\ active_priority' = PriorityOf(DOMAIN sources)
            /\ told' = told
            /\ \/ priority[s] < PriorityOf(DOMAIN sources)
               \/ /\ priority[s] <= PriorityOf(DOMAIN sources)
                  /\ Cardinality(DOMAIN sources) = MaxMergeSources
        BY <2>1, <2>4, <3>1 DEF Ignored, Kept
      <3>3. DOMAIN sources # {}
        <4>1. ASSUME DOMAIN sources = {} PROVE FALSE
          <5>1. PriorityOf(DOMAIN sources) = 0
            BY <4>1 DEF PriorityOf
          <5>2. Cardinality(DOMAIN sources) # MaxMergeSources
            BY <1>1, <4>1
          <5>3. priority[s] \in Nat /\ priority[s] < 0
            BY <1>0, <1>1, <3>2, <5>1, <5>2
          <5> DEFINE q == priority[s]
          <5> HIDE DEF q
          <5>4. q \in Nat /\ q < 0
            BY <5>3 DEF q
          <5> QED  BY <5>4
        <4> QED  BY <4>1
      <3>4. PriorityOf(DOMAIN sources) = active_priority
        BY <3>3 DEF PriorityOf
      <3>5. Lead => Lead'
        BY <1>0, <3>2, <3>4 DEF Lead
      <3>6. ASSUME s \in Top
            PROVE  Lead' /\ Cardinality(DOMAIN sources) = MaxMergeSources
        <4>1. PICK t \in DOMAIN sources : TRUE
          BY <3>3
        <4>2. active_priority <= priority[s]
          BY <1>2, <2>2, <3>6, <4>1
        <4>3. priority[s] = active_priority
          BY <1>0, <1>1, <3>2, <3>4, <4>2
        <4>4. Cardinality(DOMAIN sources) = MaxMergeSources
          BY <1>0, <1>1, <3>2, <3>4, <4>2
        <4>5. \A v \in up : priority[v] <= active_priority
          BY <1>2, <3>6, <4>3
        <4> QED  BY <1>0, <3>2, <3>3, <3>4, <4>4, <4>5 DEF Lead
      <3>7. ASSUME \/ DOMAIN sources' \cap heard' # {}
                   \/ calm >= ExpiryInterval + 3
            PROVE  UpToDate'
        <4>1. DOMAIN sources \cap heard # {} \/ calm >= ExpiryInterval + 3
          BY <1>0, <3>1, <3>2, <3>7
        <4>2. UpToDate
          BY <1>3, <4>1 DEF LeadInv
        <4> QED  BY <3>2, <3>4, <4>2, StillUpToDate
      <3>8. ASSUME NEW u \in Top, u \in heard' \/ calm >= ExpiryInterval + 3
            PROVE  /\ Lead'
                   /\ \/ u \in DOMAIN sources'
                      \/ Cardinality(DOMAIN sources') = MaxMergeSources
        <4>1. CASE u = s
          BY <3>2, <3>6, <4>1
        <4>2. CASE u # s
          <5>1. u \in heard \/ calm >= ExpiryInterval + 3
            BY <1>0, <3>8, <4>2
          <5> QED  BY <2>3, <3>2, <3>5, <5>1
        <4> QED  BY <4>1, <4>2
      <3> QED  BY <3>7, <3>8
    <2>5. CASE Dropped(s)
      <3>1. s \in DOMAIN sources /\ priority[s] < active_priority
        BY <2>1, <2>5 DEF Dropped
      <3> QED  BY <1>1, <2>2, <3>1
    <2>6. ASSUME NEW S \in SUBSET (Unexpired(s) \ {s}), Taken(s, S)
          PROVE  /\ UpToDate'
                 /\ \A u \in Top : u \in heard' \/ calm >= ExpiryInterval + 3 =>
                       /\ Lead'
                       /\ \/ u \in DOMAIN sources'
                          \/ Cardinality(DOMAIN sources') = MaxMergeSources
      <3>1. /\ DOMAIN sources' = S \cup {s} /\ active_priority' = priority[s]
            /\ UpToDate'
        BY <2>6 DEF Taken
      <3>2. \/ /\ S = DOMAIN sources \ {s} /\ priority[s] = active_priority
               /\ \/ s \in DOMAIN sources
                  \/ Cardinality(S) # MaxMergeSources
            \/ DOMAIN sources \ {s} = {} /\ S = {}
            \/ priority[s] > PriorityOf(DOMAIN sources)
        BY <2>1, <2>6 DEF Taken
      <3>3. ASSUME NEW u \in Top, u \in heard' \/ calm >= ExpiryInterval + 3
            PROVE  /\ Lead'
                   /\ \/ u \in DOMAIN sources'
                      \/ Cardinality(DOMAIN sources') = MaxMergeSources
        <4>1. CASE u = s
          <5>1. \A v \in up : priority[v] <= priority[s]
            BY <1>2, <4>1
          <5> QED  BY <1>0, <3>1, <4>1, <5>1 DEF Lead
        <4>2. CASE u # s
          <5>1. u \in heard \/ calm >= ExpiryInterval + 3
            BY <1>0, <3>3, <4>2
          <5>2. /\ Lead
                /\ \/ u \in DOMAIN sources
                   \/ Cardinality(DOMAIN sources) = MaxMergeSources
            BY <2>3, <5>1
          <5>3. /\ DOMAIN sources # {} /\ priority[s] <= active_priority
                /\ PriorityOf(DOMAIN sources) = active_priority
            BY <1>0, <5>2 DEF Lead, PriorityOf
          <5>4. ~ (priority[s] > PriorityOf(DOMAIN sources))
            BY <1>0, <1>1, <5>3
          <5>5. CASE /\ S = DOMAIN sources \ {s}
                     /\ priority[s] = active_priority
                     /\ \/ s \in DOMAIN sources
                        \/ Cardinality(S) # MaxMergeSources
            <6>1. Lead'
              BY <1>0, <3>1, <5>2, <5>5 DEF Lead
            <6>2. CASE s \in DOMAIN sources
              <7>1. DOMAIN sources' = DOMAIN sources
                BY <3>1, <5>5, <6>2
              <7> QED  BY <5>2, <6>1, <7>1
            <6>3. CASE s \notin DOMAIN sources
              <7>1. S = DOMAIN sources
                BY <5>5, <6>3
              <7>2. u \in DOMAIN sources
                BY <5>2, <5>5, <6>3, <7>1
              <7> QED  BY <3>1, <6>1, <7>1, <7>2
            <6> QED  BY <6>2, <6>3
          <5>6. CASE DOMAIN sources \ {s} = {} /\ S = {}
            <6>1. DOMAIN sources = {s} /\ DOMAIN sources' = {s}
              BY <3>1, <5>3, <5>6
            <6>2. priority[s] = active_priority
              BY <2>2, <6>1
            <6> QED  BY <1>0, <3>1, <5>2, <6>1, <6>2 DEF Lead
          <5> QED  BY <3>2, <5>4, <5>5, <5>6
        <4> QED  BY <4>1, <4>2
      <3> QED  BY <3>1, <3>3
    <2> QED  BY <2>4, <2>5, <2>6, SendEffect
  <1>4. ASSUME NEW b \in up, Alone(b)
        PROVE  /\ Lead' /\ UpToDate' /\ \A u \in Top : u \in DOMAIN sources'
    <2>1. up = {s} /\ DOMAIN sources = {s} /\ sources[s].age > ExpiryInterval
      BY <1>0, <1>4 DEF Alone
    <2>2. Unexpired(s) = {s}
      BY <2>1 DEF Unexpired
    <2>3. CASE Ignored(s)
      <3>1. s \in DOMAIN sources' /\ sources'[s] = sources[s]
        BY <2>2, <2>3 DEF Ignored, Kept
      <3>2. sources'[s].age <= 1
        BY <3>1 DEF AllFresh, Fresh
      <3>3. sources[s] \in Tracked
        BY <2>1 DEF InflatorTypes
      <3> DEFINE a == sources[s].age
      <3>4. a \in Nat /\ a <= 1 /\ a > ExpiryInterval
        BY <2>1, <3>1, <3>2, <3>3, ConstantsAssumption DEF Tracked
      <3> HIDE DEF a
      <3> QED  BY <1>0, <3>4
    <2>4. CASE Dropped(s)
      BY <2>2, <2>4 DEF Dropped
    <2>5. ASSUME NEW S \in SUBSET (Unexpired(s) \ {s}), Taken(s, S)
          PROVE  /\ Lead' /\ UpToDate' /\ \A u \in Top : u \in DOMAIN sources'
      <3>1. /\ DOMAIN sources' = {s} /\ active_priority' = priority[s]
            /\ UpToDate'
        BY <2>2, <2>5 DEF Taken
      <3>2. priority[s] <= priority[s]
        BY <1>0, <1>1
      <3> QED  BY <1>0, <1>2, <2>1, <3>1, <3>2 DEF Lead
    <2> QED  BY <2>3, <2>4, <2>5, SendEffect
  <1>5. AllFresh \/ \E b \in up : Alone(b)
    BY DEF FreshInv
  <1> QED  BY <1>3, <1>4, <1>5

-----------------------------------------------------------------------------
(* Ticks *)

\* Of the sources that send, some have the highest priority.
LEMMA TopExists ==
    ASSUME SenderTypes, up # {}
    PROVE  Top # {}
  <1>1. /\ \A u \in up : priority[u] \in Nat
        /\ IsFiniteSet(up)
    <2>1. Priorities \subseteq Nat
      BY ConstantsAssumption
    <2>2. up \subseteq Sources /\ priority \in [Sources -> Priorities]
      BY DEF SenderTypes
    <2>3. IsFiniteSet(up)
      BY <2>2, ConstantsAssumption, FS_Subset
    <2> QED  BY <2>1, <2>2, <2>3
  <1> DEFINE Above(u) == {v \in up : priority[v] > priority[u]}
             T == {Above(u) : u \in up}
             R == StrictSubsetOrdering(up)
  <1>2. IsWellFoundedOn(R, FiniteSubsetsOf(up))
    BY FS_StrictSubsetOrderingWellFounded
  <1>3. T \subseteq FiniteSubsetsOf(up) /\ T # {}
    <2>1. \A u \in up : Above(u) \in SUBSET up
      OBVIOUS
    <2>2. \A A \in SUBSET up : A \in FiniteSubsetsOf(up)
      BY <1>1, FS_Subset DEF FiniteSubsetsOf
    <2> HIDE DEF Above
    <2> QED  BY <2>1, <2>2
  <1>4. PICK A \in T : \A B \in T : ~ (<<B, A>> \in R)
    <2> HIDE DEF T, R
    <2> QED  BY <1>2, <1>3, WFMin
  <1>5. PICK u \in up : A = Above(u)
    OBVIOUS
  <1>6. ASSUME NEW v \in up PROVE priority[v] <= priority[u]
    <2>1. ASSUME priority[v] > priority[u] PROVE FALSE
      <3>1. v \in Above(u) /\ v \notin Above(v)
        BY <1>1, <2>1
      <3>2. Above(v) \subseteq Above(u)
        BY <1>1, <2>1
      <3>3. Above(v) \in T /\ Above(v) \in SUBSET up /\ Above(u) \in SUBSET up
        OBVIOUS
      <3> HIDE DEF Above
      <3>4. <<Above(v), Above(u)>> \in R
        BY <3>1, <3>2, <3>3 DEF StrictSubsetOrdering
      <3> QED  BY <1>4, <1>5, <3>3, <3>4
    <2> QED  BY <1>1, <2>1
  <1> QED  BY <1>6 DEF Top

\* A tick after everybody was heard.
RegularTick ==
    /\ Tick
    /\ up \subseteq heard
    /\ calm' = IF calm = CalmRounds THEN calm ELSE calm + 1

\* What a tick does.
LEMMA TickFacts ==
    ASSUME InflatorTypes, SenderTypes, RegularTick
    PROVE  /\ UNCHANGED <<registered, active_priority, told, up, priority,
                          sequence>>
           /\ heard' = {} /\ up \subseteq heard
           /\ calm \in Nat /\ calm' \in Nat /\ calm <= calm' /\ calm' <= calm + 1
           /\ ExpiryInterval \in Nat \ {0}
           /\ DOMAIN sources' = DOMAIN sources
           /\ \A t \in Sources : Newest(t)' = Newest(t)
           /\ \A t \in DOMAIN sources :
                 /\ t \in Sources
                 /\ sources'[t].sequence = sources[t].sequence
                 /\ sources[t].age \in Nat
                 /\ sources'[t].age = IF sources[t].age > ExpiryInterval
                                      THEN sources[t].age
                                      ELSE sources[t].age + 1
  <1>1. /\ UNCHANGED <<registered, active_priority, told, up, priority, sequence>>
        /\ heard' = {} /\ up \subseteq heard
        /\ DOMAIN sources' = DOMAIN sources
        /\ \A t \in DOMAIN sources :
              sources'[t] = [sources[t] EXCEPT !.age =
                               IF @ > ExpiryInterval THEN @ ELSE @ + 1]
    BY DEF RegularTick, Tick, senderVars
  <1>2. /\ calm \in Nat /\ calm' \in Nat /\ calm <= calm' /\ calm' <= calm + 1
        /\ ExpiryInterval \in Nat \ {0}
    BY ConstantsAssumption DEF RegularTick, SenderTypes
  <1>3. \A t \in Sources : Newest(t)' = Newest(t)
    BY <1>1 DEF Newest
  <1>4. ASSUME NEW t \in DOMAIN sources
        PROVE  /\ t \in Sources
               /\ sources'[t].sequence = sources[t].sequence
               /\ sources[t].age \in Nat
               /\ sources'[t].age = IF sources[t].age > ExpiryInterval
                                    THEN sources[t].age
                                    ELSE sources[t].age + 1
    <2>1. sources[t] \in Tracked /\ t \in Sources
      BY DEF InflatorTypes
    <2> QED  BY <1>1, <1>2, <2>1 DEF Tracked
  <1> QED  BY <1>1, <1>2, <1>3, <1>4

\* Whoever is fresh stays so: it was heard in this round.
LEMMA TickKeepsFresh ==
    ASSUME InflatorTypes, SenderTypes, RegularTick, NEW t \in DOMAIN sources,
           Fresh(t)
    PROVE  Fresh(t)'
  <1>1. t \in up /\ t \in heard /\ sources[t].age = 0
    BY TickFacts DEF Fresh
  <1>2. sources'[t].age = 1
    BY <1>1, TickFacts
  <1>3. t \notin heard'
    BY TickFacts
  <1>4. sources'[t].age <= 1
    BY <1>2
  <1>5. /\ t \in up' /\ sources'[t].sequence = Newest(t)'
        /\ priority'[t] = active_priority'
    BY <1>1, TickFacts DEF Fresh
  <1> QED  BY <1>3, <1>4, <1>5 DEF Fresh

\* Whoever has been waiting for long does not become fresh.
LEMMA TickMakesNoFresh ==
    ASSUME InflatorTypes, SenderTypes, RegularTick, WaitInv,
           calm >= ExpiryInterval + 1, NEW t \in DOMAIN sources, Fresh(t)'
    PROVE  Fresh(t)
  <1>1. sources'[t].age <= 1
    BY DEF Fresh
  <1> DEFINE a == sources[t].age
  <1>2. /\ a \in Nat /\ calm \in Nat /\ ExpiryInterval \in Nat \ {0}
        /\ sources'[t].age = IF a > ExpiryInterval THEN a ELSE a + 1
    BY TickFacts
  <1>3. Fresh(t) \/ a >= calm \/ a > ExpiryInterval
    BY DEF WaitInv
  <1> HIDE DEF a
  <1> QED  BY <1>1, <1>2, <1>3

\* The time of those that wait goes on.
LEMMA TickWait ==
    ASSUME InflatorTypes, SenderTypes, RegularTick, WaitInv
    PROVE  WaitInv'
  <1> SUFFICES ASSUME NEW t \in DOMAIN sources
               PROVE  \/ Fresh(t)' \/ sources'[t].age >= calm'
                      \/ sources'[t].age > ExpiryInterval
    BY TickFacts DEF WaitInv
  <1> DEFINE a == sources[t].age
             b == sources'[t].age
  <1>1. /\ a \in Nat /\ calm \in Nat /\ calm' \in Nat /\ calm' <= calm + 1
        /\ ExpiryInterval \in Nat
        /\ b = IF a > ExpiryInterval THEN a ELSE a + 1
    BY TickFacts
  <1>2. Fresh(t) \/ a >= calm \/ a > ExpiryInterval
    BY DEF WaitInv
  <1>3. ASSUME a >= calm \/ a > ExpiryInterval
        PROVE  b >= calm' \/ b > ExpiryInterval
    <2> HIDE DEF a, b
    <2> QED  BY <1>1, <1>3
  <1> QED  BY <1>2, <1>3, TickKeepsFresh

\* One that is still not fresh is alone.
LEMMA TickFresh ==
    ASSUME InflatorTypes, SenderTypes, RegularTick, up # {}, WaitInv, FreshInv
    PROVE  FreshInv'
  <1>1. heard' = {}
    BY TickFacts
  <1>2. ASSUME calm' >= ExpiryInterval + 2
        PROVE  AllFresh' \/ \E b \in up' : Alone(b)'
    <2>1. calm >= ExpiryInterval + 1
      BY <1>2, TickFacts
    <2>2. heard # {} /\ up \subseteq heard /\ up' = up
          /\ DOMAIN sources' = DOMAIN sources
      BY TickFacts
    <2>3. CASE AllFresh
      BY <2>2, <2>3, TickKeepsFresh DEF AllFresh
    <2>4. ASSUME NEW b \in DOMAIN sources, heard = {b},
                 sources[b].age > ExpiryInterval,
                 \A t \in DOMAIN sources \ {b} : Fresh(t)
          PROVE  b \in up' /\ Alone(b)'
      <3>1. up = {b}
        BY <2>2, <2>4
      <3>2. DOMAIN sources = {b}
        BY <2>4, <3>1 DEF Fresh
      <3>3. sources'[b].age > ExpiryInterval
        BY <2>4, TickFacts
      <3> QED  BY <2>2, <3>1, <3>2, <3>3 DEF Alone
    <2> QED  BY <2>1, <2>2, <2>3, <2>4 DEF FreshInv
  <1> QED  BY <1>1, <1>2 DEF FreshInv

\* The packets of the round that ends are counted.
LEMMA TickLag ==
    ASSUME InflatorTypes, SenderTypes, RegularTick, LagInv
    PROVE  LagInv'
  <1>0. /\ heard' = {} /\ up' = up /\ DOMAIN sources' = DOMAIN sources
        /\ calm \in Nat /\ calm' \in Nat /\ calm' <= calm + 1
        /\ calm <= calm'
    BY TickFacts
  <1>1. ASSUME NEW t \in DOMAIN sources' \cap up'
        PROVE  t \in DOMAIN sources \cap up /\ t \in heard
    BY <1>0, TickFacts
  <1>2. ASSUME NEW t \in DOMAIN sources' \cap up', calm' >= 1, Since(t)' >= 1
        PROVE  \E k \in 0 .. SequenceThreshold :
                  /\ k = 0 \/ k + Since(t)' <= SequenceThreshold
                  /\ sources'[t].sequence = Ahead(Newest(t)', k)
    <2>1. Since(t) = calm /\ Since(t)' = calm' - 1
      BY <1>0, <1>1 DEF Since
    <2>2. calm >= 1
      BY <1>0, <1>2, <2>1
    <2>3. PICK k \in 0 .. SequenceThreshold :
                  /\ k = 0 \/ k + Since(t) <= SequenceThreshold
                  /\ sources[t].sequence = Ahead(Newest(t), k)
      BY <1>1, <2>1, <2>2 DEF LagInv
    <2>4. k = 0 \/ k + Since(t)' <= SequenceThreshold
      <3>1. ASSUME k + calm <= SequenceThreshold
            PROVE  k + (calm' - 1) <= SequenceThreshold
        <4> DEFINE c == calm
                   d == calm'
        <4>1. /\ k \in Nat /\ c \in Nat /\ d \in Nat /\ d <= c + 1
              /\ SequenceThreshold \in Nat /\ k + c <= SequenceThreshold
          BY <1>0, <3>1, NumberFacts
        <4> HIDE DEF c, d
        <4>2. k + (d - 1) <= SequenceThreshold
          BY <4>1
        <4> QED  BY <4>2 DEF d
      <3> QED  BY <2>1, <2>3, <3>1
    <2>5. sources'[t].sequence = sources[t].sequence /\ Newest(t)' = Newest(t)
      BY <1>1, TickFacts
    <2> QED  BY <2>3, <2>4, <2>5
  <1>3. ASSUME NEW t \in DOMAIN sources' \cap up'
        PROVE  \/ Fresh(t)' \/ calm' <= SequenceThreshold
               \/ calm' = SequenceThreshold + 1 /\ t \notin heard'
    <2>1. Fresh(t) \/ calm <= SequenceThreshold
      BY <1>1 DEF LagInv
    <2>2. Fresh(t) => Fresh(t)'
      BY <1>1, TickKeepsFresh
    <2>3. calm <= SequenceThreshold =>
             calm' <= SequenceThreshold \/ calm' = SequenceThreshold + 1
      BY <1>0, NumberFacts
    <2> QED  BY <1>0, <2>1, <2>2, <2>3
  <1> QED  BY <1>0, <1>2, <1>3 DEF LagInv

\* All sources of the highest priority were heard in the round that ends.
LEMMA TickLead ==
    ASSUME InflatorTypes, SenderTypes, RegularTick, up # {}, WaitInv, LeadInv
    PROVE  LeadInv'
  <1>0. /\ heard' = {} /\ up' = up /\ DOMAIN sources' = DOMAIN sources
        /\ priority' = priority /\ active_priority' = active_priority
        /\ told' = told /\ up \subseteq heard
        /\ calm \in Nat /\ calm' \in Nat /\ calm' <= calm + 1
        /\ ExpiryInterval \in Nat
    BY TickFacts
  <1>1. Top' = Top /\ Top \subseteq up
    BY <1>0 DEF Top
  <1> SUFFICES ASSUME calm' >= ExpiryInterval + 3, AllFresh'
               PROVE  /\ Lead' /\ UpToDate'
                      /\ \A u \in Top :
                            \/ u \in DOMAIN sources'
                            \/ Cardinality(DOMAIN sources') = MaxMergeSources
    BY <1>0, <1>1 DEF LeadInv
  <1>2. calm >= ExpiryInterval + 2 /\ calm >= ExpiryInterval + 1
    BY <1>0
  <1>3. AllFresh
    BY <1>0, <1>2, TickMakesNoFresh DEF AllFresh
  <1>4. \A u \in Top :
           /\ Lead
           /\ \/ u \in DOMAIN sources
              \/ Cardinality(DOMAIN sources) = MaxMergeSources
    BY <1>0, <1>1, <1>2, <1>3 DEF LeadInv
  <1>5. Lead
    BY <1>4, TopExists
  <1>6. DOMAIN sources \cap heard # {}
    BY <1>0, <1>3, <1>5 DEF Lead, AllFresh, Fresh
  <1>7. UpToDate
    BY <1>2, <1>3, <1>6 DEF LeadInv
  <1>8. UpToDate'
    BY <1>0, <1>7, TickFacts, StillUpToDate
  <1>9. Lead'
    BY <1>0, <1>5 DEF Lead
  <1> QED  BY <1>0, <1>4, <1>8, <1>9

\* After a disturbance nothing is claimed.
LEMMA Disturbed ==
    ASSUME InflatorTypes', calm' = 0
    PROVE  SettleInv'
  <1>0. ExpiryInterval \in Nat
    BY ConstantsAssumption
  <1>1. ASSUME NEW t \in DOMAIN sources'
        PROVE  sources'[t].age >= 0
    <2>1. sources'[t] \in Tracked
      BY DEF InflatorTypes
    <2> QED  BY <1>0, <2>1 DEF Tracked
  <1>2. WaitInv'
    BY <1>1 DEF WaitInv
  <1>3. FreshInv'
    BY <1>0 DEF FreshInv
  <1>4. LagInv'
    BY NumberFacts DEF LagInv
  <1>5. LeadInv'
    BY <1>0 DEF LeadInv
  <1> QED  BY <1>2, <1>3, <1>4, <1>5 DEF SettleInv

\* Every step keeps it.
LEMMA SettleNext ==
    InflatorTypes /\ SenderTypes /\ SettleInv /\ [Next]_vars => SettleInv'
  <1> SUFFICES ASSUME InflatorTypes, SenderTypes, SettleInv, [Next]_vars
               PROVE  SettleInv'
    OBVIOUS
  <1>0. InflatorTypes'
    BY TypesNext
  <1>1. ASSUME NEW s \in Sources, RegularSend(s)
        PROVE  SettleInv'
    <2> SUFFICES ASSUME registered', up' # {}
                 PROVE  WaitInv' /\ FreshInv' /\ LagInv' /\ LeadInv'
      BY DEF SettleInv
    <2>1. registered /\ up # {}
      BY <1>1 DEF RegularSend
    <2>2. WaitInv /\ FreshInv /\ LagInv /\ LeadInv
      BY <2>1 DEF SettleInv
    <2> QED  BY <1>1, <2>1, <2>2, SendWait, SendFresh, SendLag, SendLead
  <1>2. ASSUME RegularTick
        PROVE  SettleInv'
    <2> SUFFICES ASSUME registered', up' # {}
                 PROVE  WaitInv' /\ FreshInv' /\ LagInv' /\ LeadInv'
      BY DEF SettleInv
    <2>1. registered /\ up # {}
      BY <1>2, TickFacts
    <2>2. WaitInv /\ FreshInv /\ LagInv /\ LeadInv
      BY <2>1 DEF SettleInv
    <2> QED  BY <1>2, <2>1, <2>2, TickWait, TickFresh, TickLag, TickLead
  <1>3. CASE calm' = 0
    BY <1>0, <1>3, Disturbed
  <1>4. CASE UNCHANGED vars
    <2>1. UNCHANGED <<registered, sources, active_priority, told, up, priority,
                      sequence, heard, calm>>
      BY <1>4 DEF vars, inflatorVars, senderVars
    <2>2. \A t : /\ Fresh(t)' <=> Fresh(t)
                 /\ Alone(t)' <=> Alone(t)
                 /\ Since(t)' = Since(t)
                 /\ Newest(t)' = Newest(t)
      BY <2>1 DEF Fresh, Alone, Since, Newest
    <2>3. /\ AllFresh' <=> AllFresh
          /\ Lead' <=> Lead
          /\ UpToDate' <=> UpToDate
          /\ Top' = Top
      BY <2>1, <2>2 DEF AllFresh, Lead, UpToDate, Top
    <2>4. WaitInv => WaitInv'
      BY <2>1, <2>2 DEF WaitInv
    <2>5. FreshInv => FreshInv'
      BY <2>1, <2>2, <2>3 DEF FreshInv
    <2>6. LagInv => LagInv'
      BY <2>1, <2>2 DEF LagInv
    <2>7. LeadInv => LeadInv'
      BY <2>1, <2>3 DEF LeadInv
    <2> QED  BY <2>1, <2>4, <2>5, <2>6, <2>7 DEF SettleInv
  <1>5. ASSUME NEW s \in Sources, SendDMX(s)
        PROVE  RegularSend(s) \/ calm' = 0
    BY <1>5 DEF SendDMX, RegularSend, Disturb
  <1>6. Tick => RegularTick \/ calm' = 0
    BY DEF Tick, RegularTick, Disturb
  <1>7. \/ \E s \in Sources : SendDMX(s)
        \/ Tick \/ calm' = 0 \/ UNCHANGED vars
    <2>1. ASSUME NEW s \in Sources,
                 \/ StreamTerminated(s) \/ LatePacket(s) \/ Vanish(s)
                 \/ \E p \in Priorities : ChangePriority(s, p)
                 \/ \E restarted \in BOOLEAN : ComeBack(s, restarted)
          PROVE  calm' = 0
      BY <2>1 DEF StreamTerminated, LatePacket, ChangePriority, Vanish, ComeBack,
                  Disturb
    <2>2. RemoveHandler \/ SetHandler => calm' = 0
      BY DEF RemoveHandler, SetHandler, Disturb
    <2> QED  BY <2>1, <2>2 DEF Next
  <1> QED  BY <1>1, <1>2, <1>3, <1>4, <1>5, <1>6, <1>7

\* It holds in every reachable state.
LEMMA SettleInvariant == Spec => []SettleInv
  <1>1. Init => SettleInv
    <2> SUFFICES ASSUME Init PROVE SettleInv
      OBVIOUS
    <2>1. ExpiryInterval \in Nat /\ SequenceThreshold \in Nat
      BY ConstantsAssumption, NumberFacts
    <2>2. calm = 0 /\ DOMAIN sources = {}
      BY DEF Init
    <2> QED
      BY <2>1, <2>2 DEF SettleInv, WaitInv, FreshInv, LagInv, LeadInv
  <1> QED  BY <1>1, SettleNext, TypesInvariant, PTL DEF Spec

\* Whatever has happened before, when all sources have been heard regularly for
\* the expiry interval and three rounds more, and for as many packets as
\* SEQUENCE_DIFF_THRESHOLD and two more, the universe has been told the merge
\* of the newest frames of the sources with the highest priority, as many of
\* them as fit, and of nothing else.
THEOREM Settles == Spec => []SettlesOnTheHighest
  <1>1. ASSUME InflatorTypes, SenderTypes, SettleInv,
               calm = CalmRounds, registered, up # {}
        PROVE  /\ DOMAIN sources \subseteq Top
               /\ \/ DOMAIN sources = Top
                  \/ Cardinality(DOMAIN sources) = MaxMergeSources
               /\ told.frames = {[cid |-> s, sequence |-> Newest(s)] :
                                    s \in DOMAIN sources}
               /\ \A s \in Top : told.priority = priority[s]
    <2>1. WaitInv /\ FreshInv /\ LagInv /\ LeadInv
      BY <1>1 DEF SettleInv
    <2>2. /\ calm >= ExpiryInterval + 2 /\ calm >= ExpiryInterval + 3
          /\ ~ (calm <= SequenceThreshold) /\ calm # SequenceThreshold + 1
          /\ ExpiryInterval \in Nat \ {0}
      BY <1>1, ConstantsAssumption
    <2>3. AllFresh
      <3>1. ASSUME NEW b \in up, Alone(b) PROVE FALSE
        <4>1. b \in DOMAIN sources \cap up /\ sources[b].age > ExpiryInterval
          BY <3>1 DEF Alone
        <4>2. Fresh(b)
          BY <2>1, <2>2, <4>1 DEF LagInv
        <4>3. sources[b] \in Tracked /\ sources[b].age <= 1
          <5>1. sources[b] \in Tracked
            BY <1>1, <4>1 DEF InflatorTypes
          <5>2. sources[b].age <= 1
            BY <4>2 DEF Fresh
          <5> QED  BY <5>1, <5>2
        <4> DEFINE a == sources[b].age
        <4>4. a \in Nat /\ a <= 1 /\ a > ExpiryInterval
          <5>1. a \in 0 .. ExpiryInterval + 1
            BY <4>3 DEF Tracked
          <5> QED  BY <2>2, <4>1, <4>3, <5>1
        <4> HIDE DEF a
        <4> QED  BY <2>2, <4>4
      <3> QED  BY <2>1, <2>2, <3>1 DEF FreshInv
    <2>4. /\ UpToDate
          /\ \A s \in Top : /\ Lead
                            /\ \/ s \in DOMAIN sources
                               \/ Cardinality(DOMAIN sources) = MaxMergeSources
      BY <2>1, <2>2, <2>3 DEF LeadInv
    <2>5. Lead
      BY <1>1, <2>4, TopExists
    <2>6. \A s \in DOMAIN sources :
             /\ s \in up /\ priority[s] = active_priority
             /\ sources[s].sequence = Newest(s)
      BY <2>3 DEF AllFresh, Fresh
    <2>7. DOMAIN sources \subseteq Top
      BY <2>5, <2>6 DEF Top, Lead
    <2>8. \A s \in Top : priority[s] = active_priority
      <3> SUFFICES ASSUME NEW s \in Top PROVE priority[s] = active_priority
        OBVIOUS
      <3>1. PICK t \in DOMAIN sources : t \in Top
        BY <2>5, <2>7 DEF Lead
      <3>2. priority[t] <= priority[s] /\ priority[s] <= priority[t]
        BY <3>1 DEF Top
      <3>3. priority[s] \in Nat /\ priority[t] \in Nat
        <4>1. Priorities \subseteq Nat
          BY ConstantsAssumption
        <4>2. s \in Sources /\ t \in Sources /\ priority \in [Sources -> Priorities]
          BY <1>1, <3>1 DEF SenderTypes, Top
        <4> QED  BY <4>1, <4>2
      <3> DEFINE p == priority[s]
                 q == priority[t]
      <3>4. p = q
        <4>1. p \in Nat /\ q \in Nat /\ p <= q /\ q <= p
          BY <3>2, <3>3
        <4> HIDE DEF p, q
        <4> QED  BY <4>1
      <3> QED  BY <2>6, <3>4
    <2>9. told.frames = {[cid |-> s, sequence |-> Newest(s)] : s \in DOMAIN sources}
      BY <2>4, <2>6 DEF UpToDate
    <2>10. \A s \in Top : told.priority = priority[s]
      BY <2>4, <2>8 DEF UpToDate
    <2> QED  BY <2>4, <2>7, <2>9, <2>10
  <1>2. InflatorTypes /\ SenderTypes /\ SettleInv => SettlesOnTheHighest
    BY <1>1 DEF SettlesOnTheHighest
  <1> QED  BY <1>2, TypesInvariant, SettleInvariant, PTL

=============================================================================
