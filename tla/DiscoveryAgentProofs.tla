------------------------- MODULE DiscoveryAgentProofs -------------------------
(***************************************************************************)
(* Proofs about DiscoveryAgent, for UIDs of any size, any responders and   *)
(* any line, any limits (two attempts at an empty branch at least) and any *)
(* number of discoveries.                                                  *)
(***************************************************************************)
EXTENDS DiscoveryAgent, FiniteSetTheorems, SequenceTheorems, TLAPS

-----------------------------------------------------------------------------
(* The inductive invariants *)

\* The positions of m_uid_ranges, the top last.
Stack == 1 .. Len(m_uid_ranges)

\* The attempt counter of the range at i; 0 until the range is first searched.
Attempt(i) == m_uid_ranges[i].attempt

\* The UID lies in the range, bounds included.
InRange(u, range) == range.lower <= u /\ u <= range.upper

\* A callback is set while a discovery runs, and until then no result of it is
\* there.
RunInv ==
    /\ m_on_complete <=> phase # "idle"
    /\ m_on_complete => \A i \in 1 .. Len(results) : ~ results[i].ran

\* A range that has used up its attempts is popped at once, one that has used
\* up its failures as soon as it is looked at again.
LimitsInv ==
    /\ \A i \in Stack : Attempt(i) < MAX_EMPTY_BRANCH_ATTEMPTS
    /\ \A i \in Stack : i < Top \/ phase # "SendDiscovery" =>
          m_uid_ranges[i].failures < MAX_BRANCH_FAILURES
    /\ phase = "BranchMute" => m_mute_attempts < MAX_MUTE_ATTEMPTS

\* The UIDs still to be muted are among the known ones; those that are not to
\* be muted any more have acknowledged.
AckedInv ==
    /\ phase = "UnMuteAll" =>
          m_uids = m_uids_to_mute /\ acked = {}
    /\ phase = "IncrementalMute" =>
          /\ m_uids_to_mute \cup {m_muting_uid} \subseteq m_uids
          /\ m_uids \subseteq acked \cup m_uids_to_mute \cup {m_muting_uid}
          /\ m_muting_uid \notin m_uids_to_mute
    /\ phase \in {"SendDiscovery", "Branch", "BranchMute"} => m_uids \subseteq acked

\* A range that has not been searched yet is as it was made, and only ranges
\* that have been searched were split; what lies above such a range on the
\* stack came from it.
FreshInv ==
    /\ \A i \in Stack : Attempt(i) = 0 =>
          /\ m_uid_ranges[i].failures = 0
          /\ m_uid_ranges[i].uids_discovered = 0
          /\ ~ m_uid_ranges[i].branch_corrupt
    /\ \A i \in Stack : i > 1 => Attempt(m_uid_ranges[i].parent) > 0
    /\ \A i, j \in Stack : Attempt(i) > 0 /\ i < j => i <= m_uid_ranges[j].parent
    /\ phase \in {"Branch", "BranchMute"} => Attempt(Top) > 0
    /\ phase \in {"UnMuteAll", "IncrementalMute"} =>
           m_uid_ranges = <<NewRange(0, MaxUID, 0)>>

\* Well-behaved responders that have not been found.
Missing == Good \ m_uids

\* Where one of them will be found: in a range that has not been searched, or
\* by the call that is outstanding.
Covered(u) ==
    \/ \E i \in Stack : Attempt(i) = 0 /\ InRange(u, m_uid_ranges[i])
    \/ phase = "Branch" /\ InRange(u, TopRange)
    \/ phase = "BranchMute" /\ u = m_muting_uid

\* No well-behaved responder is lost.
CoverInv ==
    ~ noisy /\ phase # "idle" =>
        /\ phase # "UnMuteAll" => muted \cap Good \subseteq m_uids
        /\ m_bad_uids \cap Good = {}
        /\ \A u \in Missing : Covered(u)

\* Something was or will be found in the range at i, or in one above it.
Fruitful(i) ==
    \/ \E j \in i .. Top :
          \/ m_uid_ranges[j].uids_discovered > 0
          \/ /\ Attempt(j) = 0
             /\ \E u \in Missing : InRange(u, m_uid_ranges[j])
    \/ phase = "Branch" /\ \E u \in Missing : InRange(u, TopRange)
    \/ phase = "BranchMute"

\* All responders behave, and so does the line.
Behaved == ~ noisy /\ Present = Good

\* Whatever was asked to be muted is muted, and nothing else was reported.
AllAck ==
    /\ acked \subseteq Good
    /\ phase # "UnMuteAll" => acked \subseteq muted
    /\ m_bad_uids = {}
    /\ phase = "BranchMute" => m_muting_uid \in Missing

\* No range has failed, or was searched twice without a find.
Clean ==
    /\ ~ m_tree_corrupt
    /\ \A i \in Stack : /\ Attempt(i) <= 1
                        /\ m_uid_ranges[i].failures = 0
                        /\ ~ m_uid_ranges[i].branch_corrupt

\* A range is split for a reason: something will be found in it.
NotInVain ==
    \A i \in Stack : /\ Attempt(i) > 0
                     /\ i < Top \/ phase = "SendDiscovery"
                     => Fruitful(i)

\* On a line that behaves, a running discovery meets no error.
ExactInv == Behaved /\ phase # "idle" => AllAck /\ Clean /\ NotInVain


-----------------------------------------------------------------------------
(* Data *)

\* A set of UIDs has a smallest one, the first that std::set iterates over.
LEMMA SmallestUID ==
    ASSUME NEW uids \in SUBSET UIDs, uids # {}
    PROVE  (CHOOSE u \in uids : \A v \in uids : u <= v) \in uids
  <1>1. uids \in SUBSET Nat
    BY ConstantsAssumption DEF UIDs
  <1>2. PICK u \in uids : \A v \in uids : <<v, u>> \notin OpToRel(<, Nat)
    BY <1>1, NatLessThanWellFounded, WFMin
  <1>3. OpToRel(<, Nat) = {ss \in Nat \X Nat : ss[1] < ss[2]}
    BY DEF OpToRel
  <1>4. \A v \in uids : ~ (v < u)
    BY <1>1, <1>2, <1>3
  <1>5. \A v \in uids : u <= v
    BY <1>1, <1>4
  <1> QED  BY <1>5, Zenon

\* What the stack consists of.
LEMMA StackFacts ==
    ASSUME m_uid_ranges \in Seq(UIDRange), m_uid_ranges # <<>>
    PROVE  /\ Top \in Nat /\ Top >= 1
           /\ TopRange \in UIDRange
           /\ \A i \in 1 .. Top : m_uid_ranges[i] \in UIDRange
  BY DEF Top, TopRange

\* The fields of a range.
LEMMA RangeFields ==
    ASSUME NEW r \in UIDRange
    PROVE  /\ r.lower \in Nat /\ r.upper \in Nat
           /\ r.lower \in UIDs /\ r.upper \in UIDs
           /\ r.parent \in Nat /\ r.attempt \in Nat /\ r.failures \in Nat
           /\ r.uids_discovered \in Nat /\ r.branch_corrupt \in BOOLEAN
  BY ConstantsAssumption DEF UIDRange, UIDs

\* The range at the top is assigned to.
LEMMA TopSet ==
    ASSUME m_uid_ranges \in Seq(UIDRange), m_uid_ranges # <<>>,
           NEW r \in UIDRange
    PROVE  /\ WithTop(r) \in Seq(UIDRange)
           /\ Len(WithTop(r)) = Top
           /\ WithTop(r)[Top] = r
           /\ \A i \in 1 .. Top - 1 : WithTop(r)[i] = m_uid_ranges[i]
  BY StackFacts DEF WithTop, Top

\* Two ranges are pushed.
LEMMA TwoPushed ==
    ASSUME NEW s \in Seq(UIDRange), NEW a \in UIDRange, NEW b \in UIDRange
    PROVE  LET t == s \o <<a, b>> IN
           /\ t \in Seq(UIDRange)
           /\ Len(t) = Len(s) + 2
           /\ \A i \in 1 .. Len(s) : t[i] = s[i]
           /\ t[Len(s) + 1] = a
           /\ t[Len(s) + 2] = b
  OBVIOUS

\* One is popped.
LEMMA OnePopped ==
    ASSUME NEW s \in Seq(UIDRange), s # <<>>
    PROVE  /\ SubSeq(s, 1, Len(s) - 1) \in Seq(UIDRange)
           /\ Len(SubSeq(s, 1, Len(s) - 1)) = Len(s) - 1
           /\ \A i \in 1 .. Len(s) - 1 : SubSeq(s, 1, Len(s) - 1)[i] = s[i]
  <1> DEFINE n == Len(s) - 1
             t == SubSeq(s, 1, n)
  <1>1. n \in Nat /\ \A i \in 1 .. n : s[i] \in UIDRange
    OBVIOUS
  <1> HIDE DEF n
  <1>2. /\ t \in Seq(UIDRange)
        /\ Len(t) = IF 1 <= n THEN n - 1 + 1 ELSE 0
        /\ \A i \in 1 .. n - 1 + 1 : t[i] = s[1 + i - 1]
    BY <1>1, SubSeqProperties
  <1> HIDE DEF t
  <1>3. Len(t) = n /\ \A i \in 1 .. n : t[i] = s[i]
    BY <1>1, <1>2
  <1> QED  BY <1>2, <1>3 DEF t, n

\* uids_discovered += n
LEMMA CountAdded ==
    ASSUME NEW r \in UIDRange, NEW n \in Nat
    PROVE  LET s == [r EXCEPT !.uids_discovered = @ + n] IN
           /\ s \in UIDRange
           /\ s.lower = r.lower /\ s.upper = r.upper
           /\ s.parent = r.parent /\ s.attempt = r.attempt
           /\ s.failures = r.failures /\ s.branch_corrupt = r.branch_corrupt
           /\ s.uids_discovered = r.uids_discovered + n
  BY DEF UIDRange

\* uids_discovered = 0
LEMMA CountReset ==
    ASSUME NEW r \in UIDRange
    PROVE  LET s == [r EXCEPT !.uids_discovered = 0] IN
           /\ s \in UIDRange
           /\ s.lower = r.lower /\ s.upper = r.upper
           /\ s.parent = r.parent /\ s.attempt = r.attempt
           /\ s.failures = r.failures /\ s.branch_corrupt = r.branch_corrupt
           /\ s.uids_discovered = 0
  BY DEF UIDRange

\* branch_corrupt = true
LEMMA Spoilt ==
    ASSUME NEW r \in UIDRange
    PROVE  LET s == [r EXCEPT !.branch_corrupt = TRUE] IN
           /\ s \in UIDRange
           /\ s.lower = r.lower /\ s.upper = r.upper
           /\ s.parent = r.parent /\ s.attempt = r.attempt
           /\ s.failures = r.failures /\ s.uids_discovered = r.uids_discovered
           /\ s.branch_corrupt = TRUE
  BY DEF UIDRange

\* attempt++
LEMMA AttemptAdded ==
    ASSUME NEW r \in UIDRange
    PROVE  LET s == [r EXCEPT !.attempt = @ + 1] IN
           /\ s \in UIDRange
           /\ s.lower = r.lower /\ s.upper = r.upper
           /\ s.parent = r.parent /\ s.failures = r.failures
           /\ s.uids_discovered = r.uids_discovered
           /\ s.branch_corrupt = r.branch_corrupt
           /\ s.attempt = r.attempt + 1
  BY DEF UIDRange

\* failures++
LEMMA FailureAdded ==
    ASSUME NEW r \in UIDRange
    PROVE  LET s == [r EXCEPT !.failures = @ + 1] IN
           /\ s \in UIDRange
           /\ s.lower = r.lower /\ s.upper = r.upper
           /\ s.parent = r.parent /\ s.attempt = r.attempt
           /\ s.uids_discovered = r.uids_discovered
           /\ s.branch_corrupt = r.branch_corrupt
           /\ s.failures = r.failures + 1
  BY DEF UIDRange

-----------------------------------------------------------------------------
(* The steps of the stack *)

\* The parent of the top.
LEMMA TopParent ==
    ASSUME m_uid_ranges \in Seq(UIDRange), m_uid_ranges # <<>>, StackIsPath
    PROVE  /\ TopRange.parent < Top
           /\ TopRange.parent = 0 <=> Top = 1
  <1>1. \A i \in 1 .. Len(m_uid_ranges) :
           /\ m_uid_ranges[i].parent < i
           /\ m_uid_ranges[i].parent = 0 <=> i = 1
    BY DEF StackIsPath
  <1>2. Len(m_uid_ranges) \in 1 .. Len(m_uid_ranges)
    BY StackFacts DEF Top
  <1> QED  BY <1>1, <1>2 DEF Top, TopRange

\* FreeCurrentRange on any stack whose top has a parent below it.
LEMMA FreeFacts ==
    ASSUME NEW ranges \in Seq(UIDRange), ranges # <<>>,
           ranges[Len(ranges)].parent < Len(ranges),
           ranges[Len(ranges)].parent = 0 <=> Len(ranges) = 1,
           FreeCurrentRange(ranges)
    PROVE  /\ m_uid_ranges' \in Seq(UIDRange)
           /\ Len(m_uid_ranges') = Len(ranges) - 1
           /\ \A i \in 1 .. Len(ranges) - 1 :
                 m_uid_ranges'[i] =
                     IF i = ranges[Len(ranges)].parent
                     THEN [ranges[i] EXCEPT !.uids_discovered =
                              @ + ranges[Len(ranges)].uids_discovered]
                     ELSE ranges[i]
  <1> DEFINE top == Len(ranges)
             range == ranges[top]
             rest == SubSeq(ranges, 1, top - 1)
  <1>1. top \in Nat /\ top >= 1 /\ range \in UIDRange
    OBVIOUS
  <1>2. /\ rest \in Seq(UIDRange) /\ Len(rest) = top - 1
        /\ \A i \in 1 .. top - 1 : rest[i] = ranges[i]
    BY OnePopped
  <1>3. m_uid_ranges' = IF top = 1 THEN rest
                        ELSE [rest EXCEPT ![range.parent].uids_discovered =
                                  @ + range.uids_discovered]
    BY DEF FreeCurrentRange
  <1>4. CASE top = 1
    BY <1>2, <1>3, <1>4
  <1>5. CASE top # 1
    <2> DEFINE p == range.parent
               new == [rest[p] EXCEPT !.uids_discovered =
                          @ + range.uids_discovered]
    <2>1. p \in 1 .. top - 1
      BY <1>1, <1>5, RangeFields
    <2>2. rest[p] \in UIDRange /\ range.uids_discovered \in Nat
      BY <1>1, <1>2, <2>1, RangeFields
    <2>3. new \in UIDRange
      BY <2>2, CountAdded
    <2>4. m_uid_ranges' = [rest EXCEPT ![p] = new]
      BY <1>3, <1>5
    <2>5. /\ m_uid_ranges' \in Seq(UIDRange)
          /\ Len(m_uid_ranges') = top - 1
          /\ \A i \in 1 .. top - 1 :
                m_uid_ranges'[i] = IF i = p THEN new ELSE rest[i]
      <3> HIDE DEF rest, new, p
      <3> QED  BY <1>1, <1>2, <2>1, <2>3, <2>4
    <2> QED  BY <1>2, <2>1, <2>5
  <1> QED  BY <1>4, <1>5

\* The top was popped, its count went to its parent, and unless it reached a
\* limit nothing else changed.
Popped(limit) ==
    /\ m_uid_ranges' \in Seq(UIDRange)
    /\ Len(m_uid_ranges') = Top - 1
    /\ \A i \in 1 .. Top - 1 :
          /\ m_uid_ranges'[i].lower = m_uid_ranges[i].lower
          /\ m_uid_ranges'[i].upper = m_uid_ranges[i].upper
          /\ m_uid_ranges'[i].parent = m_uid_ranges[i].parent
          /\ m_uid_ranges'[i].attempt = m_uid_ranges[i].attempt
          /\ m_uid_ranges'[i].failures = m_uid_ranges[i].failures
          /\ i # TopRange.parent => m_uid_ranges'[i] = m_uid_ranges[i]
          /\ i = TopRange.parent => m_uid_ranges'[i].uids_discovered =
                m_uid_ranges[i].uids_discovered + TopRange.uids_discovered
          /\ ~ limit => m_uid_ranges'[i].branch_corrupt =
                m_uid_ranges[i].branch_corrupt

\* Nobody answered in the range.
LEMMA EmptyPopped ==
    ASSUME m_uid_ranges \in Seq(UIDRange), m_uid_ranges # <<>>, StackIsPath,
           FreeCurrentRange(m_uid_ranges)
    PROVE  Popped(FALSE)
  <1>1. /\ Top \in Nat /\ Top >= 1
        /\ \A i \in 1 .. Top : m_uid_ranges[i] \in UIDRange
    BY StackFacts
  <1>2. TopRange.parent < Top /\ (TopRange.parent = 0 <=> Top = 1)
    BY TopParent
  <1>3. /\ m_uid_ranges' \in Seq(UIDRange)
        /\ Len(m_uid_ranges') = Top - 1
        /\ \A i \in 1 .. Top - 1 :
              m_uid_ranges'[i] =
                  IF i = TopRange.parent
                  THEN [m_uid_ranges[i] EXCEPT !.uids_discovered =
                           @ + TopRange.uids_discovered]
                  ELSE m_uid_ranges[i]
    BY <1>2, FreeFacts DEF Top, TopRange
  <1>4. TopRange.uids_discovered \in Nat
    BY StackFacts, RangeFields
  <1>5. ASSUME NEW i \in 1 .. Top - 1
        PROVE  LET new == [m_uid_ranges[i] EXCEPT !.uids_discovered =
                              @ + TopRange.uids_discovered] IN
               /\ new.lower = m_uid_ranges[i].lower
               /\ new.upper = m_uid_ranges[i].upper
               /\ new.parent = m_uid_ranges[i].parent
               /\ new.attempt = m_uid_ranges[i].attempt
               /\ new.failures = m_uid_ranges[i].failures
               /\ new.uids_discovered =
                     m_uid_ranges[i].uids_discovered + TopRange.uids_discovered
               /\ new.branch_corrupt = m_uid_ranges[i].branch_corrupt
    BY <1>1, <1>4, CountAdded
  <1> QED  BY <1>3, <1>5 DEF Popped

\* What SearchTop makes of the top.
Attempted == IF TopRange.uids_discovered = 0
             THEN [TopRange EXCEPT !.attempt = @ + 1] ELSE TopRange

\* Attempted differs in the number of attempts only.
LEMMA AttemptedFacts ==
    ASSUME m_uid_ranges \in Seq(UIDRange), m_uid_ranges # <<>>
    PROVE  /\ Attempted \in UIDRange
           /\ Attempted.lower = TopRange.lower
           /\ Attempted.upper = TopRange.upper
           /\ Attempted.parent = TopRange.parent
           /\ Attempted.failures = TopRange.failures
           /\ Attempted.uids_discovered = TopRange.uids_discovered
           /\ Attempted.branch_corrupt = TopRange.branch_corrupt
           /\ Attempted.attempt = IF TopRange.uids_discovered = 0
                                  THEN TopRange.attempt + 1
                                  ELSE TopRange.attempt
  <1>1. TopRange \in UIDRange
    BY StackFacts
  <1> QED  BY <1>1, AttemptAdded DEF Attempted

\* The two outcomes of SearchTop.
LEMMA SearchTopFacts ==
    ASSUME m_uid_ranges \in Seq(UIDRange), StackIsPath, SearchTop
    PROVE  /\ m_uid_ranges # <<>>
           /\ \/ LimitReached(Attempted) /\ Popped(TRUE) /\ UNCHANGED phase
              \/ /\ ~ LimitReached(Attempted)
                 /\ m_uid_ranges' = WithTop(Attempted)
                 /\ phase' = "Branch"
                 /\ UNCHANGED m_tree_corrupt
  <1> DEFINE ranges == IF Attempted.parent = 0 THEN WithTop(Attempted)
                       ELSE [WithTop(Attempted) EXCEPT
                                ![Attempted.parent].branch_corrupt = TRUE]
  <1>0. m_uid_ranges # <<>>
    BY DEF SearchTop
  <1>1. \/ /\ LimitReached(Attempted)
           /\ FreeCurrentRange(ranges)
           /\ UNCHANGED phase
        \/ /\ ~ LimitReached(Attempted)
           /\ m_uid_ranges' = WithTop(Attempted)
           /\ phase' = "Branch"
           /\ UNCHANGED m_tree_corrupt
    BY DEF SearchTop, Attempted
  <1>2. ASSUME FreeCurrentRange(ranges) PROVE Popped(TRUE)
    <2>1. /\ Top \in Nat /\ Top >= 1
          /\ \A i \in 1 .. Top : m_uid_ranges[i] \in UIDRange
      BY <1>0, StackFacts
    <2>2. TopRange.parent < Top /\ (TopRange.parent = 0 <=> Top = 1)
      BY <1>0, TopParent
    <2> DEFINE p == TopRange.parent
               old == WithTop(Attempted)
               spoilt == [old[p] EXCEPT !.branch_corrupt = TRUE]
    <2>3. /\ old \in Seq(UIDRange) /\ Len(old) = Top
          /\ old[Top] = Attempted
          /\ \A i \in 1 .. Top - 1 : old[i] = m_uid_ranges[i]
      BY <1>0, AttemptedFacts, TopSet
    <2>4. p \in Nat /\ p # Top
      BY <1>0, <2>1, <2>2, StackFacts, RangeFields
    <2>5. p # 0 => spoilt \in UIDRange
      <3>1. p # 0 => old[p] \in UIDRange
        <4> HIDE DEF old
        <4> QED  BY <2>1, <2>2, <2>3, <2>4
      <3> QED  BY <3>1, Spoilt
    <2>6. ranges = IF p = 0 THEN old ELSE [old EXCEPT ![p] = spoilt]
      BY <1>0, AttemptedFacts
    <2>7. /\ ranges \in Seq(UIDRange) /\ Len(ranges) = Top
          /\ ranges[Top] = Attempted
          /\ \A i \in 1 .. Top - 1 :
                ranges[i] = IF i = p THEN spoilt ELSE m_uid_ranges[i]
      <3> HIDE DEF old, spoilt, p, ranges
      <3>1. CASE p = 0
        BY <2>1, <2>3, <2>6, <3>1
      <3>2. CASE p # 0
        <4>1. p \in 1 .. Len(old) /\ ranges = [old EXCEPT ![p] = spoilt]
          BY <2>1, <2>2, <2>3, <2>4, <2>6, <3>2 DEF p
        <4>2. /\ ranges \in Seq(UIDRange) /\ Len(ranges) = Len(old)
              /\ \A j \in 1 .. Len(old) :
                    ranges[j] = IF j = p THEN spoilt ELSE old[j]
          BY <2>3, <2>5, <3>2, <4>1, ExceptSeq
        <4> QED  BY <2>1, <2>3, <2>4, <4>2
      <3> QED  BY <3>1, <3>2
    <2>8. /\ m_uid_ranges' \in Seq(UIDRange)
          /\ Len(m_uid_ranges') = Top - 1
          /\ \A i \in 1 .. Top - 1 :
                m_uid_ranges'[i] =
                    IF i = p
                    THEN [ranges[i] EXCEPT !.uids_discovered =
                             @ + TopRange.uids_discovered]
                    ELSE ranges[i]
      <3> HIDE DEF ranges
      <3>1. ranges # <<>>
        BY <2>1, <2>7
      <3>2. /\ Attempted.parent = p
            /\ Attempted.uids_discovered = TopRange.uids_discovered
        BY <1>0, AttemptedFacts
      <3>3. /\ ranges[Len(ranges)].parent < Len(ranges)
            /\ ranges[Len(ranges)].parent = 0 <=> Len(ranges) = 1
        BY <2>2, <2>7, <3>2
      <3>4. /\ m_uid_ranges' \in Seq(UIDRange)
            /\ Len(m_uid_ranges') = Len(ranges) - 1
            /\ \A i \in 1 .. Len(ranges) - 1 :
                  m_uid_ranges'[i] =
                      IF i = ranges[Len(ranges)].parent
                      THEN [ranges[i] EXCEPT !.uids_discovered =
                               @ + ranges[Len(ranges)].uids_discovered]
                      ELSE ranges[i]
        BY <1>2, <2>7, <3>1, <3>3, FreeFacts
      <3> QED  BY <2>7, <3>2, <3>4
    <2>9. ASSUME NEW i \in 1 .. Top - 1, i # p
          PROVE  m_uid_ranges'[i] = m_uid_ranges[i]
      BY <2>7, <2>8, <2>9
    <2>10. ASSUME p \in 1 .. Top - 1
           PROVE  /\ m_uid_ranges'[p].lower = m_uid_ranges[p].lower
                  /\ m_uid_ranges'[p].upper = m_uid_ranges[p].upper
                  /\ m_uid_ranges'[p].parent = m_uid_ranges[p].parent
                  /\ m_uid_ranges'[p].attempt = m_uid_ranges[p].attempt
                  /\ m_uid_ranges'[p].failures = m_uid_ranges[p].failures
                  /\ m_uid_ranges'[p].uids_discovered =
                        m_uid_ranges[p].uids_discovered
                          + TopRange.uids_discovered
      <3>1. m_uid_ranges'[p] = [spoilt EXCEPT !.uids_discovered =
                                   @ + TopRange.uids_discovered]
        <4> HIDE DEF ranges, spoilt, p
        <4> QED  BY <2>7, <2>8, <2>10
      <3>2. spoilt = [m_uid_ranges[p] EXCEPT !.branch_corrupt = TRUE]
        BY <2>3, <2>10
      <3>3. m_uid_ranges[p] \in UIDRange /\ TopRange.uids_discovered \in Nat
        BY <1>0, <2>1, <2>10, StackFacts, RangeFields
      <3> HIDE DEF spoilt, p
      <3>4. /\ spoilt \in UIDRange
            /\ spoilt.lower = m_uid_ranges[p].lower
            /\ spoilt.upper = m_uid_ranges[p].upper
            /\ spoilt.parent = m_uid_ranges[p].parent
            /\ spoilt.attempt = m_uid_ranges[p].attempt
            /\ spoilt.failures = m_uid_ranges[p].failures
            /\ spoilt.uids_discovered = m_uid_ranges[p].uids_discovered
        BY <3>2, <3>3, Spoilt
      <3> QED  BY <3>1, <3>3, <3>4, CountAdded
    <2> HIDE DEF ranges, spoilt, old
    <2>11. ASSUME NEW i \in 1 .. Top - 1
           PROVE  /\ m_uid_ranges'[i].lower = m_uid_ranges[i].lower
                  /\ m_uid_ranges'[i].upper = m_uid_ranges[i].upper
                  /\ m_uid_ranges'[i].parent = m_uid_ranges[i].parent
                  /\ m_uid_ranges'[i].attempt = m_uid_ranges[i].attempt
                  /\ m_uid_ranges'[i].failures = m_uid_ranges[i].failures
                  /\ i # p => m_uid_ranges'[i] = m_uid_ranges[i]
                  /\ i = p => m_uid_ranges'[i].uids_discovered =
                        m_uid_ranges[i].uids_discovered
                          + TopRange.uids_discovered
      <3>1. CASE i = p
        BY <2>10, <3>1
      <3>2. CASE i # p
        BY <2>9, <3>2
      <3> QED  BY <3>1, <3>2
    <2> QED  BY <2>8, <2>11 DEF Popped
  <1> QED  BY <1>0, <1>1, <1>2

-----------------------------------------------------------------------------
(* The stack is kept *)

\* The stack is a path of nested ranges whose counters are within their
\* limits; ranges not yet searched are untouched.
StackInv ==
    /\ m_uid_ranges \in Seq(UIDRange)
    /\ \A i \in Stack : m_uid_ranges[i].failures <= MAX_BRANCH_FAILURES
    /\ StackIsPath
    /\ LimitsInv
    /\ FreshInv

\* A new range has done nothing yet.
LEMMA NewRangeFacts ==
    ASSUME NEW l \in UIDs, NEW u \in UIDs, NEW p \in Nat
    PROVE  LET r == NewRange(l, u, p) IN
           /\ r \in UIDRange
           /\ r.lower = l /\ r.upper = u /\ r.parent = p /\ r.attempt = 0
           /\ r.failures = 0 /\ r.uids_discovered = 0 /\ r.branch_corrupt = FALSE
  BY DEF NewRange, UIDRange

\* InitDiscovery.
LEMMA RootPushed ==
    ASSUME m_uid_ranges' = <<NewRange(0, MaxUID, 0)>>, phase' = "UnMuteAll"
    PROVE  StackInv'
  <1> DEFINE r == NewRange(0, MaxUID, 0)
  <1>1. /\ r \in UIDRange
        /\ r.lower = 0 /\ r.upper = MaxUID /\ r.parent = 0 /\ r.attempt = 0
        /\ r.failures = 0 /\ r.uids_discovered = 0 /\ r.branch_corrupt = FALSE
    <2>1. 0 \in UIDs /\ MaxUID \in UIDs
      BY ConstantsAssumption DEF UIDs
    <2> QED  BY <2>1 DEF NewRange, UIDRange
  <1>2. ~ r.branch_corrupt
    BY <1>1, Zenon
  <1> HIDE DEF r
  <1>3. /\ m_uid_ranges' \in Seq(UIDRange) /\ Len(m_uid_ranges') = 1
        /\ m_uid_ranges'[1] = r /\ m_uid_ranges' # <<>>
    BY <1>1 DEF r
  <1>4. StackIsPath'
    BY <1>1, <1>3, ConstantsAssumption DEF StackIsPath
  <1>5. LimitsInv'
    BY <1>1, <1>3, ConstantsAssumption DEF LimitsInv, Stack, Attempt
  <1>6. FreshInv'
    BY <1>1, <1>2, <1>3 DEF FreshInv, Stack, Attempt
  <1> QED
    BY <1>1, <1>3, <1>4, <1>5, <1>6, ConstantsAssumption DEF StackInv, Stack

\* Abort.
LEMMA StackEmptied ==
    ASSUME m_uid_ranges' = <<>>, phase' = "idle"
    PROVE  StackInv'
  <1>1. m_uid_ranges' \in Seq(UIDRange) /\ Len(m_uid_ranges') = 0
    OBVIOUS
  <1>2. StackIsPath'
    BY <1>1 DEF StackIsPath
  <1>3. LimitsInv' /\ FreshInv'
    BY <1>1 DEF LimitsInv, FreshInv, Stack
  <1> QED  BY <1>1, <1>2, <1>3 DEF StackInv, Stack

\* The steps that leave the stack alone.
LEMMA StackSame ==
    ASSUME StackInv, UNCHANGED m_uid_ranges,
           phase = "SendDiscovery" =>
              phase' = "SendDiscovery" \/ m_uid_ranges = <<>>,
           phase' \in {"Branch", "BranchMute"} =>
              phase \in {"Branch", "BranchMute"},
           phase' \in {"UnMuteAll", "IncrementalMute"} =>
              phase \in {"UnMuteAll", "IncrementalMute"},
           phase' = "BranchMute" => m_mute_attempts' < MAX_MUTE_ATTEMPTS
    PROVE  StackInv'
  <1>1. StackIsPath'
    BY DEF StackInv, StackIsPath
  <1>2. LimitsInv'
    <2>1. Stack' = Stack /\ Top' = Top /\ \A i \in Stack : Attempt(i)' = Attempt(i)
      BY DEF Stack, Top, Attempt
    <2>2. CASE phase = "SendDiscovery" /\ phase' # "SendDiscovery"
      <3>1. Stack' = {}
        BY <2>2 DEF Stack
      <3> QED  BY <3>1 DEF LimitsInv
    <2>3. CASE phase = "SendDiscovery" => phase' = "SendDiscovery"
      <3>1. \A i \in Stack : Attempt(i)' < MAX_EMPTY_BRANCH_ATTEMPTS
        BY <2>1 DEF StackInv, LimitsInv
      <3>2. \A i \in Stack : (i < Top \/ phase' # "SendDiscovery") =>
               m_uid_ranges[i].failures < MAX_BRANCH_FAILURES
        BY <2>3 DEF StackInv, LimitsInv
      <3> QED  BY <2>1, <3>1, <3>2 DEF LimitsInv
    <2> QED  BY <2>2, <2>3
  <1>3. FreshInv'
    BY DEF StackInv, FreshInv, Stack, Attempt, Top
  <1> QED  BY <1>1, <1>2, <1>3 DEF StackInv, Stack

\* A range is popped.
LEMMA StackPopped ==
    ASSUME StackInv, m_uid_ranges # <<>>, NEW limit, Popped(limit),
           phase' = "SendDiscovery"
    PROVE  StackInv'
  <1> DEFINE n == Top - 1
             p == TopRange.parent
             R == m_uid_ranges
             S == m_uid_ranges'
  <1>1. /\ Top \in Nat /\ n \in Nat /\ Len(R) = n + 1 /\ Len(S) = n
        /\ S \in Seq(UIDRange) /\ R \in Seq(UIDRange)
        /\ \A i \in 1 .. n : R[i] \in UIDRange
    BY StackFacts DEF StackInv, Popped, Top
  <1>2. \A i \in 1 .. n :
           /\ S[i].lower = R[i].lower /\ S[i].upper = R[i].upper
           /\ S[i].parent = R[i].parent /\ S[i].attempt = R[i].attempt
           /\ S[i].failures = R[i].failures
           /\ i # p => S[i] = R[i]
    BY DEF Popped
  <1>3. StackIsPath'
    <2>1. \A i \in 1 .. n : R[i].parent \in 0 .. n
      BY <1>1, RangeFields DEF StackInv, StackIsPath
    <2> QED  BY <1>1, <1>2, <2>1 DEF StackInv, StackIsPath
  <1>4. LimitsInv' /\ \A i \in 1 .. n : S[i].failures <= MAX_BRANCH_FAILURES
    <2>1. \A i \in 1 .. n : /\ R[i].failures < MAX_BRANCH_FAILURES
                            /\ R[i].failures \in Nat
                            /\ R[i].attempt < MAX_EMPTY_BRANCH_ATTEMPTS
      BY <1>1, RangeFields DEF StackInv, LimitsInv, Stack, Top, Attempt
    <2> QED  BY <1>1, <1>2, <2>1, ConstantsAssumption
             DEF LimitsInv, Stack, Attempt
  <1>5. FreshInv'
    <2>1. p \in Nat /\ (p = 0 <=> n = 0) /\ p <= n
      BY <1>1, TopParent, StackFacts, RangeFields DEF StackInv
    <2>2. p # 0 => R[p].attempt > 0
      BY <1>1, <2>1 DEF StackInv, FreshInv, Stack, Attempt, TopRange, Top
    <2>3. ASSUME NEW i \in 1 .. n, S[i].attempt = 0
          PROVE  S[i].failures = 0 /\ S[i].uids_discovered = 0
                 /\ ~ S[i].branch_corrupt
      <3>1. i # p
        BY <1>1, <1>2, <2>1, <2>2, <2>3
      <3> QED  BY <1>1, <1>2, <2>3, <3>1 DEF StackInv, FreshInv, Stack, Attempt
    <2>4. ASSUME NEW i \in 1 .. n, i > 1
          PROVE  S[S[i].parent].attempt > 0
      <3>1. R[i].parent \in 1 .. n
        BY <1>1, <2>4, RangeFields DEF StackInv, StackIsPath
      <3> QED
        BY <1>1, <1>2, <2>4, <3>1 DEF StackInv, FreshInv, Stack, Attempt
    <2>5. ASSUME NEW i \in 1 .. n, NEW j \in 1 .. n, S[i].attempt > 0, i < j
          PROVE  i <= S[j].parent
      BY <1>1, <1>2, <2>5 DEF StackInv, FreshInv, Stack, Attempt
    <2> QED  BY <1>1, <2>3, <2>4, <2>5 DEF FreshInv, Stack, Attempt
  <1> QED  BY <1>1, <1>3, <1>4, <1>5 DEF StackInv, Stack

\* The top is assigned to.
LEMMA StackTopSet ==
    ASSUME StackInv, m_uid_ranges # <<>>, NEW r \in UIDRange,
           m_uid_ranges' = WithTop(r),
           r.lower = TopRange.lower, r.upper = TopRange.upper,
           r.parent = TopRange.parent,
           r.attempt > 0, r.attempt < MAX_EMPTY_BRANCH_ATTEMPTS,
           \/ phase' = "SendDiscovery" /\ r.failures <= MAX_BRANCH_FAILURES
           \/ phase' = "Branch" /\ r.failures < MAX_BRANCH_FAILURES
    PROVE  StackInv'
  <1> DEFINE n == Top
             R == m_uid_ranges
             S == m_uid_ranges'
  <1>1. /\ n \in Nat /\ n >= 1 /\ Len(R) = n /\ Len(S) = n
        /\ S \in Seq(UIDRange) /\ R \in Seq(UIDRange)
        /\ S[n] = r /\ \A i \in 1 .. n - 1 : S[i] = R[i]
        /\ \A i \in 1 .. n : R[i] \in UIDRange
        /\ TopRange = R[n] /\ S # <<>>
    BY StackFacts, TopSet DEF StackInv, Top, TopRange
  <1>2. \A i \in 1 .. n :
           /\ S[i].lower = R[i].lower /\ S[i].upper = R[i].upper
           /\ S[i].parent = R[i].parent
    BY <1>1
  <1>3. \A i \in 1 .. n : R[i].parent \in 0 .. n - 1
    BY <1>1, RangeFields DEF StackInv, StackIsPath
  <1>4. StackIsPath'
    BY <1>1, <1>2, <1>3 DEF StackInv, StackIsPath
  <1>5. LimitsInv' /\ \A i \in 1 .. n : S[i].failures <= MAX_BRANCH_FAILURES
    <2>1. \A i \in 1 .. n : R[i].failures \in Nat /\ r.failures \in Nat
      BY <1>1, RangeFields
    <2>2. \A i \in 1 .. n - 1 :
             /\ R[i].failures < MAX_BRANCH_FAILURES
             /\ R[i].attempt < MAX_EMPTY_BRANCH_ATTEMPTS
      BY <1>1 DEF StackInv, LimitsInv, Stack, Top, Attempt
    <2>3. ASSUME NEW i \in 1 .. n
          PROVE  /\ S[i].attempt < MAX_EMPTY_BRANCH_ATTEMPTS
                 /\ S[i].failures <= MAX_BRANCH_FAILURES
                 /\ i < n \/ phase' # "SendDiscovery" =>
                       S[i].failures < MAX_BRANCH_FAILURES
      <3>1. CASE i = n
        BY <1>1, <2>1, <3>1, ConstantsAssumption
      <3>2. CASE i \in 1 .. n - 1
        BY <1>1, <2>1, <2>2, <3>2, ConstantsAssumption
      <3> QED  BY <1>1, <3>1, <3>2
    <2>4. Stack' = 1 .. n /\ Top' = n
      BY <1>1 DEF Stack, Top
    <2>5. phase' # "BranchMute"
      OBVIOUS
    <2> HIDE DEF n, R
    <2> QED  BY <2>3, <2>4, <2>5 DEF LimitsInv, Attempt
  <1>6. FreshInv'
    <2>1. ASSUME NEW i \in 1 .. n, S[i].attempt = 0
          PROVE  S[i].failures = 0 /\ S[i].uids_discovered = 0
                 /\ ~ S[i].branch_corrupt
      <3>1. i \in 1 .. n - 1
        BY <1>1, <2>1
      <3> QED  BY <1>1, <2>1, <3>1 DEF StackInv, FreshInv, Stack, Attempt
    <2>2. ASSUME NEW i \in 1 .. n, i > 1
          PROVE  S[S[i].parent].attempt > 0
      <3>1. R[i].parent \in 1 .. n - 1
        BY <1>1, <1>3, <2>2 DEF StackInv, StackIsPath
      <3> QED
        BY <1>1, <1>2, <2>2, <3>1 DEF StackInv, FreshInv, Stack, Attempt
    <2>3. ASSUME NEW i \in 1 .. n, NEW j \in 1 .. n, S[i].attempt > 0, i < j
          PROVE  i <= S[j].parent
      BY <1>1, <1>2, <2>3 DEF StackInv, FreshInv, Stack, Attempt
    <2> QED  BY <1>1, <2>1, <2>2, <2>3 DEF FreshInv, Stack, Attempt, Top
  <1> QED  BY <1>1, <1>4, <1>5, <1>6 DEF StackInv, Stack

\* The middle of the range at the top, and the range itself once it is split.
Mid == (TopRange.lower + TopRange.upper) \div 2
\* The top of the stack as HandleCollision leaves it.
SplitTop == [TopRange EXCEPT !.uids_discovered = 0]

\* The first range it pushes, the lower half of the top.
LowerHalf == NewRange(TopRange.lower, Mid, Top)

\* The second one, the upper half, which is searched first.
UpperHalf == NewRange(Mid + 1, TopRange.upper, Top)

\* A range is split, the upper half is on top.
LEMMA SplitFacts ==
    ASSUME StackInv, m_uid_ranges # <<>>, TopRange.lower # TopRange.upper,
           m_uid_ranges' = WithTop(SplitTop) \o <<LowerHalf, UpperHalf>>
    PROVE  LET n == Top
               S == m_uid_ranges' IN
           /\ n \in Nat /\ n >= 1
           /\ S \in Seq(UIDRange) /\ Len(S) = n + 2
           /\ \A i \in 1 .. n - 1 : S[i] = m_uid_ranges[i]
           /\ S[n] = SplitTop /\ S[n + 1] = LowerHalf /\ S[n + 2] = UpperHalf
           /\ Mid \in Nat /\ TopRange.lower <= Mid /\ Mid < TopRange.upper
           /\ LowerHalf \in UIDRange /\ UpperHalf \in UIDRange
  <1>1. /\ Top \in Nat /\ Top >= 1 /\ TopRange \in UIDRange
    BY StackFacts DEF StackInv
  <1>2. /\ TopRange.lower \in Nat /\ TopRange.upper \in Nat
        /\ TopRange.lower \in UIDs /\ TopRange.upper \in UIDs
    BY <1>1, RangeFields
  <1>3. TopRange.lower <= TopRange.upper
    BY <1>1 DEF StackInv, StackIsPath, Top, TopRange
  <1>4. Mid \in Nat /\ TopRange.lower <= Mid /\ Mid < TopRange.upper
    BY <1>2, <1>3 DEF Mid
  <1>5. Mid \in UIDs /\ Mid + 1 \in UIDs
    BY <1>2, <1>4, ConstantsAssumption DEF UIDs
  <1>6. LowerHalf \in UIDRange /\ UpperHalf \in UIDRange
    BY <1>1, <1>2, <1>5, NewRangeFacts DEF LowerHalf, UpperHalf
  <1>7. SplitTop \in UIDRange
    BY <1>1, CountReset DEF SplitTop
  <1> DEFINE s == WithTop(SplitTop)
  <1>8. /\ s \in Seq(UIDRange) /\ Len(s) = Top /\ s[Top] = SplitTop
        /\ \A i \in 1 .. Top - 1 : s[i] = m_uid_ranges[i]
    BY <1>7, TopSet DEF StackInv
  <1> HIDE DEF s
  <1> DEFINE t == s \o <<LowerHalf, UpperHalf>>
  <1>9. /\ t \in Seq(UIDRange) /\ Len(t) = Len(s) + 2
        /\ \A i \in 1 .. Len(s) : t[i] = s[i]
        /\ t[Len(s) + 1] = LowerHalf
        /\ t[Len(s) + 2] = UpperHalf
    BY <1>6, <1>8, TwoPushed
  <1>10. m_uid_ranges' = t
    BY DEF s
  <1> HIDE DEF t
  <1>11. /\ t \in Seq(UIDRange) /\ Len(t) = Top + 2
         /\ \A i \in 1 .. Top - 1 : t[i] = m_uid_ranges[i]
         /\ t[Top] = SplitTop /\ t[Top + 1] = LowerHalf /\ t[Top + 2] = UpperHalf
    BY <1>1, <1>8, <1>9
  <1> QED  BY <1>1, <1>4, <1>6, <1>10, <1>11

\* Splitting a range of at least two UIDs keeps the stack invariant.
LEMMA StackSplit ==
    ASSUME StackInv, m_uid_ranges # <<>>, TopRange.lower # TopRange.upper,
           m_uid_ranges' = WithTop(SplitTop) \o <<LowerHalf, UpperHalf>>,
           phase = "Branch", phase' = "SendDiscovery"
    PROVE  StackInv'
  <1> DEFINE n == Top
             R == m_uid_ranges
             S == m_uid_ranges'
  <1>1. /\ n \in Nat /\ n >= 1 /\ Len(R) = n /\ Len(S) = n + 2
        /\ S \in Seq(UIDRange) /\ R \in Seq(UIDRange)
        /\ \A i \in 1 .. n - 1 : S[i] = R[i]
        /\ TopRange = R[n]
        /\ S[n] = SplitTop /\ S[n + 1] = LowerHalf /\ S[n + 2] = UpperHalf
        /\ Mid \in Nat /\ TopRange.lower <= Mid /\ Mid < TopRange.upper
    BY SplitFacts DEF StackInv, Top, TopRange
  <1>2. \A i \in 1 .. n : R[i] \in UIDRange
    BY StackFacts DEF StackInv
  <1>3. /\ SplitTop.lower = R[n].lower /\ SplitTop.upper = R[n].upper
        /\ SplitTop.parent = R[n].parent /\ SplitTop.attempt = R[n].attempt
        /\ SplitTop.failures = R[n].failures
    BY <1>1, <1>2, CountReset DEF SplitTop
  <1>4. /\ LowerHalf.lower = R[n].lower /\ LowerHalf.upper = Mid
        /\ LowerHalf.parent = n /\ LowerHalf.attempt = 0
        /\ LowerHalf.failures = 0 /\ LowerHalf.uids_discovered = 0
        /\ LowerHalf.branch_corrupt = FALSE
        /\ UpperHalf.lower = Mid + 1 /\ UpperHalf.upper = R[n].upper
        /\ UpperHalf.parent = n /\ UpperHalf.attempt = 0
        /\ UpperHalf.failures = 0 /\ UpperHalf.uids_discovered = 0
        /\ UpperHalf.branch_corrupt = FALSE
    BY <1>1 DEF LowerHalf, UpperHalf, NewRange
  <1>5. \A i \in 1 .. n :
           /\ S[i].lower = R[i].lower /\ S[i].upper = R[i].upper
           /\ S[i].parent = R[i].parent /\ S[i].attempt = R[i].attempt
           /\ S[i].failures = R[i].failures
    <2> HIDE DEF n, R, S
    <2>1. ASSUME NEW i \in 1 .. n
          PROVE  i \in 1 .. n - 1 \/ i = n
      BY <1>1
    <2>2. ASSUME NEW i \in 1 .. n - 1
          PROVE  S[i] = R[i]
      BY <1>1
    <2>3. S[n] = SplitTop
      BY <1>1
    <2> QED  BY <1>3, <2>1, <2>2, <2>3
  <1>6. \A i \in 1 .. n : R[i].parent \in 0 .. n - 1 /\ R[i].parent < i
    BY <1>1, <1>2, RangeFields DEF StackInv, StackIsPath
  <1>7. \A i \in 1 .. n + 2 : i \in 1 .. n \/ i = n + 1 \/ i = n + 2
    BY <1>1
  <1>8. \A i \in 1 .. n : R[i].lower \in Nat /\ R[i].upper \in Nat
                          /\ R[i].failures \in Nat
    BY <1>2, RangeFields
  <1>9. StackIsPath'
    <2>1. ASSUME NEW i \in 1 .. n + 2
          PROVE  /\ S[i].lower <= S[i].upper
                 /\ S[i].parent = 0 <=> i = 1
                 /\ S[i].parent < i
                 /\ i > 1 => /\ S[S[i].parent].lower <= S[i].lower
                             /\ S[i].upper <= S[S[i].parent].upper
      <3>1. CASE i \in 1 .. n
        <4>1. /\ R[i].lower <= R[i].upper
              /\ R[i].parent = 0 <=> i = 1
              /\ R[i].parent < i
              /\ i > 1 => /\ R[R[i].parent].lower <= R[i].lower
                          /\ R[i].upper <= R[R[i].parent].upper
          BY <1>1, <3>1 DEF StackInv, StackIsPath
        <4>2. i > 1 => R[i].parent \in 1 .. n
          BY <1>1, <1>6, <3>1, <4>1
        <4> QED  BY <1>5, <3>1, <4>1, <4>2
      <3>2. CASE i = n + 1
        BY <1>1, <1>4, <1>5, <1>8, <3>2
      <3>3. CASE i = n + 2
        BY <1>1, <1>4, <1>5, <1>8, <3>3
      <3> QED  BY <1>7, <3>1, <3>2, <3>3
    <2>2. ASSUME NEW i \in 1 .. n + 2, NEW j \in 1 .. n + 2, i < j,
                 S[i].parent = S[j].parent
          PROVE  S[i].upper < S[j].lower
      <3>1. CASE j \in 1 .. n
        <4>1. i \in 1 .. n
          BY <1>1, <2>2, <3>1
        <4> QED  BY <1>1, <1>5, <2>2, <3>1, <4>1 DEF StackInv, StackIsPath
      <3>2. CASE j = n + 1
        <4>1. i \in 1 .. n
          BY <1>1, <2>2, <3>2
        <4> QED  BY <1>1, <1>4, <1>5, <1>6, <2>2, <3>2, <4>1
      <3>3. CASE j = n + 2
        <4>1. i \notin 1 .. n
          BY <1>1, <1>4, <1>5, <1>6, <2>2, <3>3
        <4>2. i = n + 1
          BY <1>7, <2>2, <3>3, <4>1
        <4> QED  BY <1>1, <1>4, <3>3, <4>2
      <3> QED  BY <1>7, <3>1, <3>2, <3>3
    <2> QED  BY <1>1, <2>1, <2>2 DEF StackIsPath
  <1>10. \A i \in 1 .. n + 2 : /\ S[i].failures < MAX_BRANCH_FAILURES
                               /\ S[i].failures \in Nat
                               /\ S[i].attempt < MAX_EMPTY_BRANCH_ATTEMPTS
    <2>1. \A i \in 1 .. n : /\ R[i].failures < MAX_BRANCH_FAILURES
                            /\ R[i].attempt < MAX_EMPTY_BRANCH_ATTEMPTS
      BY <1>1 DEF StackInv, LimitsInv, Stack, Attempt
    <2> QED  BY <1>1, <1>4, <1>5, <1>7, <1>8, <2>1, ConstantsAssumption
  <1>11. LimitsInv' /\ \A i \in 1 .. n + 2 : S[i].failures <= MAX_BRANCH_FAILURES
    <2>1. Stack' = 1 .. n + 2
      BY <1>1 DEF Stack
    <2>2. ASSUME NEW i \in 1 .. n + 2 PROVE S[i].failures <= MAX_BRANCH_FAILURES
      <3> DEFINE f == S[i].failures
      <3>1. f < MAX_BRANCH_FAILURES /\ f \in Nat
        BY <1>10
      <3> HIDE DEF f
      <3>2. f <= MAX_BRANCH_FAILURES
        BY <3>1, ConstantsAssumption
      <3> QED  BY <3>2 DEF f
    <2> HIDE DEF n
    <2> QED  BY <1>10, <2>1, <2>2 DEF LimitsInv, Attempt
  <1>12. FreshInv'
    <2>0. R[n].attempt > 0
      BY <1>1 DEF StackInv, FreshInv, Attempt
    <2>1. ASSUME NEW i \in 1 .. n + 2, S[i].attempt = 0
          PROVE  S[i].failures = 0 /\ S[i].uids_discovered = 0
                 /\ ~ S[i].branch_corrupt
      <3>1. CASE i \in 1 .. n - 1
        BY <1>1, <2>1, <3>1 DEF StackInv, FreshInv, Stack, Attempt
      <3>2. CASE i = n + 1 \/ i = n + 2
        <4>1. ~ LowerHalf.branch_corrupt /\ ~ UpperHalf.branch_corrupt
          BY <1>4, Zenon
        <4> QED  BY <1>1, <1>4, <3>2, <4>1
      <3>3. i # n
        BY <1>1, <1>5, <2>0, <2>1
      <3> QED  BY <1>1, <3>1, <3>2, <3>3
    <2>2. ASSUME NEW i \in 1 .. n + 2, i > 1
          PROVE  S[S[i].parent].attempt > 0
      <3>1. CASE i \in 1 .. n
        <4>1. R[i].parent \in 1 .. n
          BY <1>1, <1>6, <2>2, <3>1 DEF StackInv, StackIsPath
        <4> QED
          BY <1>1, <1>5, <2>2, <3>1, <4>1 DEF StackInv, FreshInv, Stack, Attempt
      <3>2. CASE i = n + 1 \/ i = n + 2
        BY <1>1, <1>4, <1>5, <2>0, <3>2
      <3> QED  BY <1>7, <3>1, <3>2
    <2>3. ASSUME NEW i \in 1 .. n + 2, NEW j \in 1 .. n + 2,
                 S[i].attempt > 0, i < j
          PROVE  i <= S[j].parent
      <3>1. i \in 1 .. n
        <4>1. S[n + 1].attempt = 0 /\ S[n + 2].attempt = 0
          BY <1>1, <1>4
        <4>2. S[i].attempt # 0
          <5> DEFINE a == S[i].attempt
          <5>1. a > 0
            BY <2>3
          <5> HIDE DEF a
          <5>2. a # 0
            BY <5>1
          <5> QED  BY <5>2 DEF a
        <4>3. i # n + 1 /\ i # n + 2
          BY <4>1, <4>2, Zenon
        <4> QED  BY <1>7, <4>3
      <3>2. CASE j \in 1 .. n
        <4>1. R[i].attempt > 0
          BY <1>5, <2>3, <3>1
        <4>2. i <= R[j].parent
          BY <1>1, <2>3, <3>1, <3>2, <4>1 DEF StackInv, FreshInv, Stack, Attempt
        <4> QED  BY <1>5, <3>2, <4>2
      <3>3. CASE j = n + 1 \/ j = n + 2
        BY <1>1, <1>4, <3>1, <3>3
      <3> QED  BY <1>7, <3>2, <3>3
    <2> QED  BY <1>1, <2>1, <2>2, <2>3 DEF FreshInv, Stack, Attempt
  <1> QED  BY <1>1, <1>9, <1>11, <1>12 DEF StackInv, Stack

\* What StackInv says of the top.
LEMMA TopFacts ==
    ASSUME StackInv, m_uid_ranges # <<>>
    PROVE  /\ TopRange \in UIDRange /\ Top \in Stack
           /\ TopRange.attempt \in Nat /\ TopRange.failures \in Nat
           /\ TopRange.uids_discovered \in Nat
           /\ TopRange.attempt < MAX_EMPTY_BRANCH_ATTEMPTS
           /\ TopRange.failures <= MAX_BRANCH_FAILURES
           /\ phase # "SendDiscovery" => TopRange.failures < MAX_BRANCH_FAILURES
           /\ phase \in {"Branch", "BranchMute"} => TopRange.attempt > 0
           /\ TopRange.uids_discovered # 0 => TopRange.attempt > 0
  <1>1. TopRange \in UIDRange /\ Top \in Nat /\ Top >= 1
    BY StackFacts DEF StackInv
  <1>2. Top \in Stack
    BY <1>1 DEF Stack, Top
  <1>3. /\ TopRange.attempt \in Nat /\ TopRange.failures \in Nat
        /\ TopRange.uids_discovered \in Nat
    BY <1>1, RangeFields
  <1>4. /\ TopRange.attempt < MAX_EMPTY_BRANCH_ATTEMPTS
        /\ TopRange.failures <= MAX_BRANCH_FAILURES
        /\ phase # "SendDiscovery" => TopRange.failures < MAX_BRANCH_FAILURES
    BY <1>2 DEF StackInv, LimitsInv, Attempt, TopRange
  <1>5. /\ phase \in {"Branch", "BranchMute"} => TopRange.attempt > 0
        /\ TopRange.attempt = 0 => TopRange.uids_discovered = 0
    BY <1>2 DEF StackInv, FreshInv, Attempt, TopRange
  <1> QED  BY <1>1, <1>2, <1>3, <1>4, <1>5

\* The stack is empty at first.
LEMMA StackInit == Init => StackInv
  <1> SUFFICES ASSUME Init PROVE StackInv
    OBVIOUS
  <1>1. /\ m_uid_ranges \in Seq(UIDRange) /\ Len(m_uid_ranges) = 0
        /\ phase = "idle"
    BY DEF Init
  <1>2. StackIsPath
    BY <1>1 DEF StackIsPath
  <1>3. LimitsInv /\ FreshInv
    BY <1>1 DEF LimitsInv, FreshInv, Stack
  <1> QED  BY <1>1, <1>2, <1>3 DEF StackInv, Stack

\* The client's calls start a discovery, end it or leave it alone.
LEMMA CallStack ==
    ASSUME StackInv,
           \/ LineChanges
           \/ \E discovery \in Discoveries : RequestDiscovery(discovery)
           \/ Abort
           \/ UNCHANGED vars
    PROVE  StackInv'
  <1>1. ASSUME UNCHANGED <<m_uid_ranges, phase, m_mute_attempts>>
        PROVE  StackInv'
    BY <1>1, StackSame DEF StackInv, LimitsInv
  <1>2. ASSUME NEW discovery, InitDiscovery(discovery) PROVE StackInv'
    BY <1>2, RootPushed DEF InitDiscovery
  <1>3. ASSUME NEW discovery, RequestDiscovery(discovery) PROVE StackInv'
    BY <1>1, <1>2, <1>3 DEF RequestDiscovery, agentVars
  <1>4. CASE Abort
    BY <1>2, <1>4, StackEmptied DEF Abort
  <1> QED  BY <1>1, <1>3, <1>4 DEF LineChanges, vars, agentVars

\* The answers of the target.
LEMMA AnswerStack ==
    ASSUME StackInv, TargetAnswers
    PROVE  StackInv'
  <1>1. ASSUME UnMuteComplete PROVE StackInv'
    BY <1>1, StackSame DEF UnMuteComplete, MaybeMuteNextDevice
  <1>2. ASSUME NEW status, IncrementalMuteComplete(status) PROVE StackInv'
    BY <1>2, StackSame DEF IncrementalMuteComplete, MaybeMuteNextDevice
  <1>3. ASSUME NEW answer, BranchComplete(answer) PROVE StackInv'
    <2>1. phase = "Branch" /\ m_uid_ranges # <<>>
      BY <1>3 DEF BranchComplete, StackInv, StackIsPath
    <2> DEFINE failed == [TopRange EXCEPT !.failures = @ + 1]
    <2>2. ASSUME m_uid_ranges' = WithTop(failed), phase' = "SendDiscovery"
          PROVE  StackInv'
      <3>1. /\ failed \in UIDRange
            /\ failed.lower = TopRange.lower /\ failed.upper = TopRange.upper
            /\ failed.parent = TopRange.parent
            /\ failed.attempt = TopRange.attempt
            /\ failed.failures = TopRange.failures + 1
        BY <2>1, TopFacts, FailureAdded
      <3> HIDE DEF failed
      <3>2. /\ failed.attempt > 0 /\ failed.attempt < MAX_EMPTY_BRANCH_ATTEMPTS
            /\ failed.failures <= MAX_BRANCH_FAILURES
        BY <2>1, <3>1, TopFacts, ConstantsAssumption
      <3> QED  BY <2>1, <2>2, <3>1, <3>2, StackTopSet
    <2>3. CASE FreeCurrentRange(m_uid_ranges) /\ phase' = "SendDiscovery"
      BY <2>1, <2>3, EmptyPopped, StackPopped DEF StackInv
    <2>4. CASE HandleCollision /\ phase' = "SendDiscovery"
      <3>1. m_uid_ranges' =
               IF TopRange.lower = TopRange.upper THEN WithTop(failed)
               ELSE WithTop(SplitTop) \o <<LowerHalf, UpperHalf>>
        BY <2>4 DEF HandleCollision, SplitTop, LowerHalf, UpperHalf, Mid
      <3> QED  BY <2>1, <2>2, <2>4, <3>1, StackSplit
    <2>5. CASE /\ UNCHANGED m_uid_ranges
               /\ phase' = "BranchMute" /\ m_mute_attempts' = 0
      BY <2>1, <2>5, StackSame, ConstantsAssumption
    <2> QED  BY <1>3, <2>2, <2>3, <2>4, <2>5 DEF BranchComplete
  <1>4. ASSUME NEW status, BranchMuteComplete(status) PROVE StackInv'
    <2>1. phase = "BranchMute" /\ m_uid_ranges # <<>>
      BY <1>4 DEF BranchMuteComplete, StackInv, StackIsPath
    <2> DEFINE found == [TopRange EXCEPT !.uids_discovered = @ + 1]
    <2>2. ASSUME m_uid_ranges' = WithTop(found), phase' = "SendDiscovery"
          PROVE  StackInv'
      <3>1. /\ found \in UIDRange
            /\ found.lower = TopRange.lower /\ found.upper = TopRange.upper
            /\ found.parent = TopRange.parent
            /\ found.attempt = TopRange.attempt
            /\ found.failures = TopRange.failures
        BY <2>1, TopFacts, CountAdded
      <3> HIDE DEF found
      <3>2. /\ found.attempt > 0 /\ found.attempt < MAX_EMPTY_BRANCH_ATTEMPTS
            /\ found.failures <= MAX_BRANCH_FAILURES
        BY <2>1, <3>1, TopFacts
      <3> QED  BY <2>1, <2>2, <3>1, <3>2, StackTopSet
    <2>3. CASE /\ UNCHANGED <<m_uid_ranges, phase>>
               /\ m_mute_attempts' < MAX_MUTE_ATTEMPTS
      BY <2>1, <2>3, StackSame
    <2>4. CASE UNCHANGED m_uid_ranges /\ phase' = "SendDiscovery"
      BY <2>1, <2>4, StackSame
    <2> QED  BY <1>4, <2>2, <2>3, <2>4 DEF BranchMuteComplete
  <1> QED  BY <1>1, <1>2, <1>3, <1>4 DEF TargetAnswers

\* SendDiscovery.
LEMMA SendStack ==
    ASSUME StackInv, SendDiscovery
    PROVE  StackInv'
  <1>0. phase = "SendDiscovery"
    BY DEF SendDiscovery
  <1>1. CASE Complete
    BY <1>0, <1>1, StackSame DEF Complete
  <1>2. CASE SearchTop
    <2>1. /\ m_uid_ranges # <<>>
          /\ \/ Popped(TRUE) /\ UNCHANGED phase
             \/ /\ ~ LimitReached(Attempted)
                /\ m_uid_ranges' = WithTop(Attempted)
                /\ phase' = "Branch"
      BY <1>2, SearchTopFacts DEF StackInv
    <2>2. CASE Popped(TRUE) /\ UNCHANGED phase
      BY <1>0, <2>1, <2>2, StackPopped
    <2>3. CASE /\ ~ LimitReached(Attempted)
               /\ m_uid_ranges' = WithTop(Attempted)
               /\ phase' = "Branch"
      <3>1. /\ Attempted \in UIDRange
            /\ Attempted.lower = TopRange.lower
            /\ Attempted.upper = TopRange.upper
            /\ Attempted.parent = TopRange.parent
            /\ Attempted.failures = TopRange.failures
            /\ Attempted.attempt = IF TopRange.uids_discovered = 0
                                   THEN TopRange.attempt + 1
                                   ELSE TopRange.attempt
        BY <2>1, AttemptedFacts DEF StackInv
      <3>2. /\ Attempted.attempt # MAX_EMPTY_BRANCH_ATTEMPTS
            /\ Attempted.failures # MAX_BRANCH_FAILURES
        BY <2>3 DEF LimitReached
      <3>3. /\ Attempted.attempt > 0
            /\ Attempted.attempt < MAX_EMPTY_BRANCH_ATTEMPTS
            /\ Attempted.failures < MAX_BRANCH_FAILURES
        BY <2>1, <3>1, <3>2, TopFacts, ConstantsAssumption
      <3> QED  BY <2>1, <2>3, <3>1, <3>3, StackTopSet
    <2> QED  BY <2>1, <2>2, <2>3
  <1> QED  BY <1>1, <1>2 DEF SendDiscovery

\* Every step of the agent and of the line keeps the stack invariant.
LEMMA StackNext == StackInv /\ [Next]_vars => StackInv'
  BY CallStack, AnswerStack, SendStack DEF Next

\* The stack of ranges is in order in every reachable state.
LEMMA StackInvariant == Spec => []StackInv
  BY StackInit, StackNext, PTL DEF Spec

\* The stack is a path through the UID tree, whatever is received and whenever
\* the search is cut off: no parent pointer of a UIDRange dangles, and
\* BranchComplete and BranchMuteComplete never look at an empty stack.
THEOREM Path == Spec => []StackIsPath
  <1>1. StackInv => StackIsPath
    BY DEF StackInv
  <1> QED  BY <1>1, StackInvariant, PTL

-----------------------------------------------------------------------------
(* Types *)

\* What TypeOK says of everything but the stack.
AgentTypes ==
    /\ m_uids \subseteq UIDs
    /\ m_bad_uids \subseteq UIDs
    /\ m_uids_to_mute \subseteq UIDs
    /\ m_muting_uid \in UIDs
    /\ m_mute_attempts \in 0 .. MAX_MUTE_ATTEMPTS
    /\ m_tree_corrupt \in BOOLEAN
    /\ m_on_complete \in BOOLEAN
    /\ phase \in Calls \cup {"idle", "SendDiscovery"}
    /\ waiting \in Discoveries \cup {"none"}
    /\ acked \subseteq UIDs
\* The types of what the responders and the test driver keep.
LineTypes ==
    /\ stopped \in BOOLEAN
    /\ kind \in [UIDs -> Kinds]
    /\ muted \subseteq UIDs
    /\ noisy \in BOOLEAN
    /\ asked \in 0 .. MaxRequests

\* MaybeMuteNextDevice takes one of the UIDs that are left.
LEMMA NextDevice ==
    ASSUME NEW uids \in SUBSET UIDs, MaybeMuteNextDevice(uids), uids # {}
    PROVE  /\ m_muting_uid' \in uids
           /\ m_uids_to_mute' = uids \ {m_muting_uid'}
           /\ phase' = "IncrementalMute"
  BY SmallestUID DEF MaybeMuteNextDevice

\* All three hold at first.
LEMMA TypesInit == Init => AgentTypes /\ LineTypes /\ results \in Seq(Result)
  <1> SUFFICES ASSUME Init PROVE AgentTypes /\ LineTypes /\ results \in Seq(Result)
    OBVIOUS
  <1>1. /\ m_tree_corrupt \in BOOLEAN /\ m_on_complete \in BOOLEAN
        /\ stopped \in BOOLEAN
    BY Zenon DEF Init
  <1>2. noisy \in BOOLEAN /\ 0 \in UIDs
    BY ConstantsAssumption DEF Init, UIDs
  <1> QED
    BY <1>1, <1>2, ConstantsAssumption DEF Init, AgentTypes, LineTypes

\* InitDiscovery.
LEMMA StartTypes ==
    ASSUME AgentTypes, NEW discovery, InitDiscovery(discovery),
           waiting' \in Discoveries \cup {"none"}
    PROVE  AgentTypes'
  <1>1. m_on_complete' \in BOOLEAN /\ m_tree_corrupt' \in BOOLEAN
    BY Zenon DEF InitDiscovery
  <1>2. phase' \in Calls
    BY DEF InitDiscovery, Calls
  <1> QED  BY <1>1, <1>2 DEF AgentTypes, InitDiscovery

\* The agent's variables keep their types, given a sound stack.
LEMMA AgentTypesNext ==
    ASSUME StackInv, AgentTypes, [Next]_vars
    PROVE  AgentTypes'
  <1>1. CASE LineChanges \/ UNCHANGED vars
    BY <1>1 DEF LineChanges, agentVars, vars, AgentTypes
  <1>2. ASSUME NEW discovery \in Discoveries, RequestDiscovery(discovery)
        PROVE  AgentTypes'
    <2>1. waiting' \in Discoveries \cup {"none"}
      BY <1>2 DEF RequestDiscovery, AgentTypes
    <2>2. CASE InitDiscovery(discovery)
      BY <2>1, <2>2, StartTypes
    <2>3. CASE UNCHANGED <<agentVars, phase, acked>>
      BY <2>1, <2>3 DEF AgentTypes, agentVars
    <2> QED  BY <1>2, <2>2, <2>3 DEF RequestDiscovery
  <1>3. CASE Abort
    <2>1. CASE InitDiscovery(waiting) /\ waiting' = "none"
      BY <2>1, StartTypes
    <2>2. CASE /\ m_on_complete' = FALSE \/ UNCHANGED m_on_complete
               /\ phase' = "idle"
               /\ waiting' = "none" \/ UNCHANGED waiting
               /\ UNCHANGED <<m_uids, m_bad_uids, m_uids_to_mute, m_muting_uid,
                              m_mute_attempts, m_tree_corrupt, acked>>
      <3>1. m_on_complete' \in BOOLEAN
        BY <2>2, Zenon DEF AgentTypes
      <3> QED  BY <2>2, <3>1 DEF AgentTypes
    <2> QED  BY <1>3, <2>1, <2>2 DEF Abort
  <1>4. ASSUME UnMuteComplete PROVE AgentTypes'
    <2>1. /\ m_muting_uid' \in UIDs /\ m_uids_to_mute' \subseteq UIDs
          /\ phase' \in {"SendDiscovery", "IncrementalMute"}
      BY <1>4, NextDevice DEF AgentTypes, UnMuteComplete, MaybeMuteNextDevice
    <2> QED  BY <1>4, <2>1 DEF AgentTypes, UnMuteComplete, Calls
  <1>5. ASSUME NEW status, IncrementalMuteComplete(status) PROVE AgentTypes'
    <2>1. /\ m_muting_uid' \in UIDs /\ m_uids_to_mute' \subseteq UIDs
          /\ phase' \in {"SendDiscovery", "IncrementalMute"}
      BY <1>5, NextDevice
      DEF AgentTypes, IncrementalMuteComplete, MaybeMuteNextDevice
    <2> QED  BY <1>5, <2>1 DEF AgentTypes, IncrementalMuteComplete, Muting, Calls
  <1>6. ASSUME NEW answer \in {Nothing, Garbage} \cup {Found(u) : u \in UIDs},
               BranchComplete(answer)
        PROVE  AgentTypes'
    <2>1. answer.uid \in UIDs
      BY <1>6, ConstantsAssumption DEF Nothing, Garbage, Found, UIDs
    <2>2. m_tree_corrupt' \in BOOLEAN
      <3>1. m_tree_corrupt \in BOOLEAN
        BY DEF AgentTypes
      <3> QED
        BY <1>6, <3>1, Zenon DEF BranchComplete, FreeCurrentRange, HandleCollision
    <2>3. /\ m_muting_uid' \in UIDs /\ m_mute_attempts' \in 0 .. MAX_MUTE_ATTEMPTS
          /\ phase' \in {"SendDiscovery", "BranchMute"}
      BY <1>6, <2>1, ConstantsAssumption DEF AgentTypes, BranchComplete
    <2> QED  BY <1>6, <2>2, <2>3 DEF AgentTypes, BranchComplete, Calls
  <1>7. ASSUME NEW status, BranchMuteComplete(status) PROVE AgentTypes'
    <2>1. m_mute_attempts' \in 0 .. MAX_MUTE_ATTEMPTS
      BY <1>7, ConstantsAssumption
      DEF AgentTypes, BranchMuteComplete, StackInv, LimitsInv
    <2>2. /\ m_uids' \subseteq UIDs /\ m_bad_uids' \subseteq UIDs
          /\ phase' \in {"SendDiscovery", "BranchMute"}
      BY <1>7 DEF AgentTypes, BranchMuteComplete
    <2> QED
      BY <1>7, <2>1, <2>2 DEF AgentTypes, BranchMuteComplete, Muting, Calls
  <1>8. CASE SendDiscovery
    <2>1. m_on_complete' \in BOOLEAN /\ m_tree_corrupt' \in BOOLEAN
      <3>1. m_tree_corrupt \in BOOLEAN /\ m_on_complete \in BOOLEAN
        BY DEF AgentTypes
      <3> QED
        BY <1>8, <3>1, Zenon
        DEF SendDiscovery, Complete, SearchTop, FreeCurrentRange
    <2>2. /\ phase' \in {"SendDiscovery", "Branch", "idle"}
          /\ waiting' = "none" \/ UNCHANGED waiting
      BY <1>8 DEF SendDiscovery, Complete, SearchTop
    <2> QED  BY <1>8, <2>1, <2>2 DEF AgentTypes, SendDiscovery, Calls
  <1> QED
    BY <1>1, <1>2, <1>3, <1>4, <1>5, <1>6, <1>7, <1>8 DEF Next, TargetAnswers

\* So do the responders' ones.
LEMMA LineTypesNext ==
    ASSUME AgentTypes, LineTypes, [Next]_vars
    PROVE  LineTypes'
  <1>1. CASE LineChanges
    BY <1>1 DEF LineChanges, LineTypes
  <1>2. ASSUME NEW discovery, RequestDiscovery(discovery) PROVE LineTypes'
    BY <1>2, ConstantsAssumption DEF RequestDiscovery, lineVars, LineTypes
  <1>3. CASE Abort
    <2>1. stopped' \in BOOLEAN
      BY <1>3, Zenon DEF Abort
    <2> QED  BY <1>3, <2>1 DEF Abort, lineVars, LineTypes
  <1>4. CASE TargetAnswers
    <2>1. muted' \subseteq UIDs
      BY <1>4
      DEF TargetAnswers, UnMuteComplete, IncrementalMuteComplete, Muting,
          BranchComplete, BranchMuteComplete, lineVars, LineTypes, AgentTypes
    <2>2. UNCHANGED <<stopped, kind, noisy, asked>>
      BY <1>4
      DEF TargetAnswers, UnMuteComplete, IncrementalMuteComplete,
          BranchComplete, BranchMuteComplete, lineVars
    <2> QED  BY <2>1, <2>2 DEF LineTypes
  <1>5. CASE SendDiscovery \/ UNCHANGED vars
    BY <1>5 DEF SendDiscovery, lineVars, vars, LineTypes
  <1> QED  BY <1>1, <1>2, <1>3, <1>4, <1>5 DEF Next

\* RunCallback appends a result.
LEMMA ResultAdded ==
    ASSUME results \in Seq(Result), NEW ran \in BOOLEAN, NEW status \in BOOLEAN,
           NEW uids \in SUBSET UIDs
    PROVE  RunCallback(ran, status, uids) \in Seq(Result)
  <1>1. [ran |-> ran, status |-> status, uids |-> uids] \in Result
    BY DEF Result
  <1> QED  BY <1>1 DEF RunCallback

\* And the results handed to the callers.
LEMMA ResultsNext ==
    ASSUME AgentTypes, results \in Seq(Result), [Next]_vars
    PROVE  results' \in Seq(Result)
  <1>1. CASE results' = <<>> \/ UNCHANGED results
    <2>1. <<>> \in Seq(Result)
      OBVIOUS
    <2> QED  BY <1>1, <2>1, Zenon
  <1>2. CASE Abort
    <2>1. RunCallback(FALSE, FALSE, {}) \in Seq(Result)
      <3>1. FALSE \in BOOLEAN /\ {} \in SUBSET UIDs
        OBVIOUS
      <3> QED  BY <3>1, ResultAdded
    <2> QED  BY <1>1, <1>2, <2>1, Zenon DEF Abort
  <1>3. CASE Complete
    <2> DEFINE refused == [ran |-> FALSE, status |-> FALSE, uids |-> {}]
               first == RunCallback(TRUE, ~ m_tree_corrupt, m_uids)
    <2>1. first \in Seq(Result)
      <3>1. (~ m_tree_corrupt) \in BOOLEAN
        BY Zenon
      <3> QED  BY <3>1, ResultAdded DEF AgentTypes
    <2>2. refused \in Result
      BY DEF Result
    <2> HIDE DEF first, refused
    <2>3. results' = first \o <<>> \/ results' = first \o <<refused>>
      BY <1>3 DEF Complete, first, refused
    <2>4. <<>> \in Seq(Result) /\ <<refused>> \in Seq(Result)
      BY <2>2
    <2> QED  BY <2>1, <2>3, <2>4
  <1> QED
    BY <1>1, <1>2, <1>3
    DEF Next, vars, LineChanges, RequestDiscovery, TargetAnswers, UnMuteComplete,
        IncrementalMuteComplete, BranchComplete, BranchMuteComplete,
        SendDiscovery, SearchTop

\* Everything but the stack.
LEMMA TypesInvariant ==
    Spec => [](AgentTypes /\ LineTypes /\ results \in Seq(Result))
  <1>1. /\ StackInv /\ AgentTypes /\ LineTypes /\ results \in Seq(Result)
        /\ [Next]_vars
        => (AgentTypes /\ LineTypes /\ results \in Seq(Result))'
    BY AgentTypesNext, LineTypesNext, ResultsNext
  <1> QED  BY <1>1, TypesInit, StackInvariant, PTL DEF Spec

\* Every member keeps its type, and the counters of a range and of the mutes
\* never skip the limit they are compared to with ==.
THEOREM TypeCorrect == Spec => []TypeOK
  <1>1. StackInv /\ AgentTypes /\ LineTypes /\ results \in Seq(Result) => TypeOK
    <2> SUFFICES ASSUME StackInv, AgentTypes, LineTypes, results \in Seq(Result)
                 PROVE  TypeOK
      OBVIOUS
    <2>1. \A i \in 1 .. Len(m_uid_ranges) :
             /\ m_uid_ranges[i].attempt <= MAX_EMPTY_BRANCH_ATTEMPTS
             /\ m_uid_ranges[i].failures <= MAX_BRANCH_FAILURES
      <3>1. \A i \in 1 .. Len(m_uid_ranges) :
               /\ m_uid_ranges[i].attempt \in Nat
               /\ m_uid_ranges[i].attempt < MAX_EMPTY_BRANCH_ATTEMPTS
               /\ m_uid_ranges[i].failures <= MAX_BRANCH_FAILURES
        BY RangeFields DEF StackInv, LimitsInv, Stack, Attempt
      <3> QED  BY <3>1, ConstantsAssumption
    <2> QED  BY <2>1 DEF TypeOK, StackInv, AgentTypes, LineTypes
  <1> QED  BY <1>1, StackInvariant, TypesInvariant, PTL

-----------------------------------------------------------------------------
(* Results *)

\* What Append adds.
LEMMA ResultAppended ==
    ASSUME results \in Seq(Result), NEW r
    PROVE  /\ Len(Append(results, r)) = Len(results) + 1
           /\ \A i \in 1 .. Len(results) : Append(results, r)[i] = results[i]
           /\ Append(results, r)[Len(results) + 1] = r
  OBVIOUS

\* A discovery that Abort ends has no result.
LEMMA AbortAdds ==
    ASSUME results \in Seq(Result), results' = RunCallback(FALSE, FALSE, {})
    PROVE  /\ Len(results') = Len(results) + 1
           /\ \A i \in 1 .. Len(results) : results'[i] = results[i]
           /\ ~ results'[Len(results) + 1].ran
  <1> DEFINE r == [ran |-> FALSE, status |-> FALSE, uids |-> {}]
  <1>1. ~ r.ran /\ results' = Append(results, r)
    BY DEF RunCallback
  <1> HIDE DEF r
  <1> QED  BY <1>1, ResultAppended

\* The results that Complete adds: the discovery's own, and the refusal of the
\* one that was waiting.
LEMMA CompleteAdds ==
    ASSUME AgentTypes, results \in Seq(Result), Complete,
           NEW i \in 1 .. Len(results'), results'[i].ran
    PROVE  \/ i \in 1 .. Len(results) /\ results'[i] = results[i]
           \/ /\ results'[i].uids = m_uids
              /\ results'[i].status = ~ m_tree_corrupt
  <1> DEFINE refused == [ran |-> FALSE, status |-> FALSE, uids |-> {}]
             own == [ran |-> TRUE, status |-> ~ m_tree_corrupt, uids |-> m_uids]
             first == RunCallback(TRUE, ~ m_tree_corrupt, m_uids)
             n == Len(results)
  <1>1. /\ n \in Nat /\ Len(first) = n + 1
        /\ \A j \in 1 .. n : first[j] = results[j]
        /\ first[n + 1] = own
    <2>1. first = Append(results, own)
      BY DEF RunCallback
    <2> HIDE DEF first, own
    <2> QED  BY <2>1, ResultAppended
  <1>2. first \in Seq(Result) /\ refused \in Result
    <2>1. (~ m_tree_corrupt) \in BOOLEAN
      BY Zenon
    <2> QED  BY <2>1, ResultAdded DEF AgentTypes, Result
  <1>3. ~ refused.ran
    OBVIOUS
  <1>4. own.uids = m_uids /\ own.status = ~ m_tree_corrupt
    OBVIOUS
  <1> HIDE DEF first, refused, own, n
  <1>5. results' = first \o <<>> \/ results' = first \o <<refused>>
    BY DEF Complete, first, refused
  <1>6. CASE results' = first \o <<>>
    <2>1. results' = first
      BY <1>2, <1>6
    <2>2. i \in 1 .. n \/ i = n + 1
      BY <1>1, <2>1
    <2> QED  BY <1>1, <1>4, <2>1, <2>2 DEF n
  <1>7. CASE results' = first \o <<refused>>
    <2>1. /\ Len(results') = n + 2
          /\ \A j \in 1 .. n + 1 : results'[j] = first[j]
          /\ results'[n + 2] = refused
      BY <1>1, <1>2, <1>7
    <2>2. i # n + 2
      BY <1>3, <2>1
    <2>3. i \in 1 .. n \/ i = n + 1
      BY <1>1, <2>1, <2>2
    <2> QED  BY <1>1, <1>4, <2>1, <2>3 DEF n
  <1> QED  BY <1>5, <1>6, <1>7

\* The results of a step: those that were there, of a discovery that has come
\* to its end, and the one of a discovery that comes to its end.
LEMMA ResultsOfStep ==
    ASSUME RunInv, AgentTypes, results \in Seq(Result), [Next]_vars,
           NEW i \in 1 .. Len(results'), results'[i].ran
    PROVE  \/ /\ i \in 1 .. Len(results) /\ results'[i] = results[i]
              /\ UNCHANGED <<acked, lineVars>>
           \/ /\ SendDiscovery /\ m_uid_ranges = <<>>
              /\ results'[i].uids = m_uids
              /\ results'[i].status = ~ m_tree_corrupt
  <1>1. results' # <<>>
    OBVIOUS
  <1>2. CASE UNCHANGED results
    <2>1. phase = "idle" /\ ~ m_on_complete
      BY <1>2 DEF RunInv
    <2> QED
      BY <1>1, <1>2, <2>1
      DEF Next, vars, LineChanges, RequestDiscovery, Abort, TargetAnswers,
          UnMuteComplete, IncrementalMuteComplete, BranchComplete,
          BranchMuteComplete, SendDiscovery
  <1>3. CASE Abort /\ m_on_complete
    <2>1. results' = RunCallback(FALSE, FALSE, {})
      BY <1>3 DEF Abort
    <2>2. \A j \in 1 .. Len(results) : ~ results[j].ran
      BY <1>3 DEF RunInv
    <2>3. /\ Len(results') = Len(results) + 1
          /\ \A j \in 1 .. Len(results) : results'[j] = results[j]
          /\ ~ results'[Len(results) + 1].ran
      BY <2>1, AbortAdds
    <2>4. i \in 1 .. Len(results) \/ i = Len(results) + 1
      BY <2>3
    <2> QED  BY <2>2, <2>3, <2>4
  <1>4. CASE SendDiscovery /\ Complete
    <2>1. m_uid_ranges = <<>>
      BY <1>4 DEF Complete
    <2>2. \/ i \in 1 .. Len(results) /\ results'[i] = results[i]
          \/ /\ results'[i].uids = m_uids
             /\ results'[i].status = ~ m_tree_corrupt
      BY <1>4, CompleteAdds
    <2> QED  BY <1>4, <2>1, <2>2 DEF SendDiscovery
  <1> QED
    BY <1>1, <1>2, <1>3, <1>4
    DEF Next, vars, LineChanges, RequestDiscovery, Abort, TargetAnswers,
        UnMuteComplete, IncrementalMuteComplete, BranchComplete,
        BranchMuteComplete, SendDiscovery, SearchTop

\* No discovery runs at first.
LEMMA RunInit == Init => RunInv
  <1> SUFFICES ASSUME Init PROVE RunInv
    OBVIOUS
  <1>1. ~ m_on_complete
    BY Zenon DEF Init
  <1> QED  BY <1>1 DEF Init, RunInv

\* m_on_complete is set from InitDiscovery to Complete or Abort.
LEMMA RunNext ==
    ASSUME RunInv, AgentTypes, results \in Seq(Result), [Next]_vars
    PROVE  RunInv'
  <1>1. ASSUME NEW discovery, InitDiscovery(discovery)
        PROVE  m_on_complete' /\ phase' = "UnMuteAll"
    <2>1. m_on_complete'
      BY <1>1, Zenon DEF InitDiscovery
    <2> QED  BY <1>1, <2>1 DEF InitDiscovery
  <1>2. CASE \/ LineChanges
             \/ UNCHANGED <<m_on_complete, phase, results>>
    BY <1>2 DEF LineChanges, agentVars, RunInv
  <1>3. ASSUME NEW discovery, RequestDiscovery(discovery)
        PROVE  RunInv'
    <2>1. CASE InitDiscovery(discovery) /\ results' = <<>>
      BY <1>1, <2>1 DEF RunInv
    <2>2. CASE UNCHANGED <<agentVars, phase, results>>
      BY <1>2, <2>2 DEF agentVars
    <2> QED  BY <1>3, <2>1, <2>2 DEF RequestDiscovery
  <1>4. CASE Abort
    <2>1. CASE ~ m_on_complete
      <3>1. UNCHANGED m_on_complete /\ phase' = "idle"
        BY <1>4, <2>1 DEF Abort
      <3> QED  BY <2>1, <3>1 DEF RunInv
    <2>2. CASE m_on_complete
      <3>1. results' = RunCallback(FALSE, FALSE, {})
        BY <1>4, <2>2 DEF Abort
      <3>2. /\ Len(results') = Len(results) + 1
            /\ \A j \in 1 .. Len(results) : results'[j] = results[j]
            /\ ~ results'[Len(results) + 1].ran
        BY <3>1, AbortAdds
      <3>3. ASSUME NEW i \in 1 .. Len(results') PROVE ~ results'[i].ran
        <4>1. i \in 1 .. Len(results) \/ i = Len(results) + 1
          BY <3>2
        <4> QED  BY <2>2, <3>2, <4>1 DEF RunInv
      <3>4. CASE InitDiscovery(waiting)
        BY <1>1, <3>3, <3>4 DEF RunInv
      <3>5. CASE m_on_complete' = FALSE /\ phase' = "idle"
        <4>1. ~ m_on_complete'
          BY <3>5, Zenon
        <4> QED  BY <3>5, <4>1 DEF RunInv
      <3> QED  BY <1>4, <2>2, <3>4, <3>5 DEF Abort
    <2> QED  BY <2>1, <2>2
  <1>5. CASE TargetAnswers
    <2>1. /\ phase # "idle" /\ phase' # "idle"
          /\ UNCHANGED <<m_on_complete, results>>
      BY <1>5
      DEF TargetAnswers, UnMuteComplete, IncrementalMuteComplete,
          MaybeMuteNextDevice, BranchComplete, BranchMuteComplete
    <2> QED  BY <2>1 DEF RunInv
  <1>6. CASE SendDiscovery
    <2>1. CASE Complete
      <3>1. ~ m_on_complete' /\ phase' = "idle"
        BY <2>1, Zenon DEF Complete
      <3> QED  BY <3>1 DEF RunInv
    <2>2. CASE SearchTop
      <3>1. /\ phase # "idle" /\ phase' # "idle"
            /\ UNCHANGED <<m_on_complete, results>>
        BY <1>6, <2>2 DEF SendDiscovery, SearchTop
      <3> QED  BY <3>1 DEF RunInv
    <2> QED  BY <1>6, <2>1, <2>2 DEF SendDiscovery
  <1> QED
    BY <1>2, <1>3, <1>4, <1>5, <1>6 DEF Next, vars, agentVars

\* The invariants so far.
BaseInv == /\ StackInv
           /\ AgentTypes /\ LineTypes /\ results \in Seq(Result)
           /\ RunInv

\* What the proofs below build on is an invariant.
LEMMA BaseInvariant == Spec => []BaseInv
  <1>1. /\ AgentTypes /\ results \in Seq(Result) /\ RunInv /\ [Next]_vars
        => RunInv'
    BY RunNext
  <1>2. Spec => []RunInv
    BY <1>1, RunInit, TypesInvariant, PTL DEF Spec
  <1> QED  BY <1>2, StackInvariant, TypesInvariant, PTL DEF BaseInv

-----------------------------------------------------------------------------
(* Only responders that answered are reported *)

\* InitDiscovery: what is known has to be muted.
LEMMA StartAcked ==
    ASSUME NEW discovery, InitDiscovery(discovery)
    PROVE  AckedInv'
  BY DEF InitDiscovery, AckedInv

\* The known responders are muted one by one, found ones at once.
LEMMA AckedNext ==
    ASSUME AgentTypes, AckedInv, [Next]_vars
    PROVE  AckedInv'
  <1>1. CASE UNCHANGED <<m_uids, m_uids_to_mute, m_muting_uid, acked, phase>>
    BY <1>1 DEF AckedInv
  <1>2. ASSUME NEW discovery, RequestDiscovery(discovery) PROVE AckedInv'
    BY <1>1, <1>2, StartAcked DEF RequestDiscovery, agentVars
  <1>3. CASE Abort
    <2>1. CASE phase' = "idle"
      BY <2>1 DEF AckedInv
    <2> QED  BY <1>3, <2>1, StartAcked DEF Abort
  <1>4. CASE UnMuteComplete
    <2>1. /\ m_uids = m_uids_to_mute /\ UNCHANGED <<m_uids, acked>>
          /\ MaybeMuteNextDevice(m_uids_to_mute)
      BY <1>4 DEF UnMuteComplete, AckedInv
    <2>2. CASE m_uids_to_mute = {}
      BY <2>1, <2>2 DEF MaybeMuteNextDevice, AckedInv
    <2>3. CASE m_uids_to_mute # {}
      <3>1. /\ m_muting_uid' \in m_uids_to_mute
            /\ m_uids_to_mute' = m_uids_to_mute \ {m_muting_uid'}
            /\ phase' = "IncrementalMute"
        BY <2>1, <2>3, NextDevice DEF AgentTypes
      <3> QED  BY <2>1, <3>1 DEF AckedInv
    <2> QED  BY <2>2, <2>3
  <1>5. ASSUME NEW status, IncrementalMuteComplete(status) PROVE AckedInv'
    <2>1. /\ m_uids_to_mute \cup {m_muting_uid} \subseteq m_uids
          /\ m_uids \subseteq acked \cup m_uids_to_mute \cup {m_muting_uid}
          /\ m_muting_uid \notin m_uids_to_mute
          /\ MaybeMuteNextDevice(m_uids_to_mute)
      BY <1>5 DEF IncrementalMuteComplete, AckedInv
    <2>2. /\ m_uids' \subseteq acked' \cup m_uids_to_mute
          /\ m_uids_to_mute \subseteq m_uids'
      BY <1>5, <2>1 DEF IncrementalMuteComplete, Muting
    <2>3. CASE m_uids_to_mute = {}
      BY <2>1, <2>2, <2>3 DEF MaybeMuteNextDevice, AckedInv
    <2>4. CASE m_uids_to_mute # {}
      <3>1. /\ m_muting_uid' \in m_uids_to_mute
            /\ m_uids_to_mute' = m_uids_to_mute \ {m_muting_uid'}
            /\ phase' = "IncrementalMute"
        BY <2>1, <2>4, NextDevice DEF AgentTypes
      <3> QED  BY <2>2, <3>1 DEF AckedInv
    <2> QED  BY <2>3, <2>4
  <1>6. ASSUME NEW answer, BranchComplete(answer) PROVE AckedInv'
    BY <1>6 DEF BranchComplete, AckedInv
  <1>7. ASSUME NEW status, BranchMuteComplete(status) PROVE AckedInv'
    <2>1. m_uids \subseteq acked /\ phase = "BranchMute"
      BY <1>7 DEF BranchMuteComplete, AckedInv
    <2>2. m_uids' \subseteq acked' /\ phase' \in {"SendDiscovery", "BranchMute"}
      BY <1>7, <2>1 DEF BranchMuteComplete, Muting
    <2> QED  BY <2>2 DEF AckedInv
  <1>8. CASE SendDiscovery
    BY <1>8 DEF SendDiscovery, Complete, SearchTop, AckedInv
  <1> QED
    BY <1>1, <1>2, <1>3, <1>4, <1>5, <1>6, <1>7, <1>8
    DEF Next, TargetAnswers, LineChanges, vars, agentVars

\* Every UID the agent counts as found has acknowledged a mute.
LEMMA AckedInvariant == Spec => []AckedInv
  <1>1. Init => AckedInv
    BY DEF Init, AckedInv
  <1>2. BaseInv /\ AckedInv /\ [Next]_vars => AckedInv'
    BY AckedNext DEF BaseInv
  <1> QED  BY <1>1, <1>2, BaseInvariant, PTL DEF Spec

\* Whatever a bad line makes of the answers, the agent reports no UID that did
\* not acknowledge a mute in this discovery: an incremental one drops the
\* known UIDs that do not, and BranchMuteComplete adds those that do.
THEOREM OnlyAcked == Spec => []ReportsOnlyAcked
  <1>1. Init => ReportsOnlyAcked
    BY DEF Init, ReportsOnlyAcked
  <1>2. BaseInv /\ AckedInv /\ ReportsOnlyAcked /\ [Next]_vars => ReportsOnlyAcked'
    <2> SUFFICES ASSUME BaseInv, AckedInv, ReportsOnlyAcked, [Next]_vars,
                        NEW i \in 1 .. Len(results'), results'[i].ran
                 PROVE  results'[i].uids \subseteq acked'
      BY DEF ReportsOnlyAcked
    <2>1. CASE /\ i \in 1 .. Len(results) /\ results'[i] = results[i]
               /\ UNCHANGED acked
      BY <2>1 DEF ReportsOnlyAcked
    <2>2. CASE SendDiscovery /\ results'[i].uids = m_uids
      BY <2>2 DEF SendDiscovery, AckedInv
    <2> QED  BY <2>1, <2>2, ResultsOfStep DEF BaseInv
  <1> QED  BY <1>1, <1>2, BaseInvariant, AckedInvariant, PTL DEF Spec

-----------------------------------------------------------------------------
(* The responders *)

\* A set with no more than one element has no two different ones.
LEMMA AtMostOne ==
    ASSUME NEW S, IsFiniteSet(S), ~ (Cardinality(S) > 1), NEW a \in S, NEW b \in S
    PROVE  a = b
  <1>1. /\ IsFiniteSet(S \ {a}) /\ Cardinality(S \ {a}) = Cardinality(S) - 1
        /\ Cardinality(S) \in Nat
    BY FS_RemoveElement, FS_CardinalityType
  <1>2. Cardinality(S \ {a}) \in Nat
    BY <1>1, FS_CardinalityType
  <1>3. Cardinality(S \ {a}) = 0
    BY <1>1, <1>2
  <1>4. S \ {a} = {}
    BY <1>1, <1>3, FS_EmptySet
  <1> QED  BY <1>4

\* The responders are finitely many.
LEMMA AnsweringFinite ==
    ASSUME NEW l, NEW h
    PROVE  IsFiniteSet(Answering(l, h))
  <1>1. IsFiniteSet(UIDs)
    BY ConstantsAssumption, FS_Interval DEF UIDs
  <1> QED  BY <1>1, FS_Subset DEF Answering, Present

\* A well-behaved responder that is not muted answers.
LEMMA GoodAnswers ==
    ASSUME NEW u \in Good, u \notin muted, NEW l, NEW h, l <= u, u <= h
    PROVE  u \in Answering(l, h)
  BY DEF Good, Present, Answering

\* What is received when it does: nobody else's UID, and garbage only when
\* somebody else answers too.
LEMMA ReceivedFromGood ==
    ASSUME ~ noisy, NEW l \in Nat, NEW h \in Nat,
           NEW u \in Good \cap Answering(l, h),
           NEW answer \in BranchAnswers(l, h)
    PROVE  /\ answer # Nothing
           /\ answer = Garbage => l # h
           /\ answer.type = "found" => answer.uid = u
  <1> DEFINE A == Answering(l, h)
  <1>0. IsFiniteSet(A)
    BY AnsweringFinite
  <1>1. CASE Cardinality(A) > 1 \/ \E v \in A : kind[v] = "rambling"
    <2>1. answer = Garbage
      BY <1>1 DEF BranchAnswers
    <2>2. ASSUME l = h PROVE FALSE
      <3>1. \A v \in A : v = u
        BY <2>2, ConstantsAssumption DEF Answering, Present, UIDs
      <3>2. A = {u}
        BY <3>1
      <3>3. Cardinality(A) = 1
        BY <3>2, FS_Singleton
      <3>4. kind[u] = "good"
        BY DEF Good
      <3> QED  BY <1>1, <3>1, <3>3, <3>4
    <2> QED  BY <2>1, <2>2 DEF Garbage, Nothing
  <1>2. CASE ~ (Cardinality(A) > 1) /\ ~ (\E v \in A : kind[v] = "rambling")
    <2>1. PICK v \in A : answer = Found(v)
      BY <1>2 DEF BranchAnswers
    <2>2. v = u
      BY <1>0, <1>2, AtMostOne
    <2> QED  BY <2>1, <2>2 DEF Found, Nothing, Garbage
  <1> QED  BY <1>1, <1>2

\* A well-behaved responder acknowledges.
LEMMA GoodAcks ==
    ASSUME ~ noisy, NEW u \in Good, NEW status \in MuteAnswers(u)
    PROVE  status
  <1>1. AcksMute(u)
    BY DEF Good, AcksMute
  <1>2. status = AcksMute(u)
    BY Zenon DEF MuteAnswers
  <1> QED  BY <1>1, <1>2

-----------------------------------------------------------------------------
(* No well-behaved responder is missed *)

\* The root covers every UID.
LEMMA RootCovers ==
    ASSUME m_uid_ranges = <<NewRange(0, MaxUID, 0)>>
    PROVE  \A u \in UIDs : Covered(u)
  <1> DEFINE r == NewRange(0, MaxUID, 0)
  <1>1. r.lower = 0 /\ r.upper = MaxUID /\ r.attempt = 0
    BY DEF NewRange
  <1> HIDE DEF r
  <1>2. Len(m_uid_ranges) = 1 /\ m_uid_ranges[1] = r
    BY DEF r
  <1>3. 1 \in Stack /\ Attempt(1) = 0
    BY <1>1, <1>2 DEF Stack, Attempt
  <1>4. \A u \in UIDs : InRange(u, m_uid_ranges[1])
    BY <1>1, <1>2, ConstantsAssumption DEF InRange, UIDs
  <1> QED  BY <1>3, <1>4 DEF Covered

\* A range below the top that has not been searched stays as it is, and so does
\* what it covers.
LEMMA FreshStays ==
    ASSUME StackInv, m_uid_ranges # <<>>,
           NEW i \in Stack, Attempt(i) = 0, i # Top,
           NEW u, InRange(u, m_uid_ranges[i]),
           \/ \E limit : Popped(limit)
           \/ \E r \in UIDRange : m_uid_ranges' = WithTop(r)
           \/ /\ TopRange.lower # TopRange.upper
              /\ m_uid_ranges' = WithTop(SplitTop) \o <<LowerHalf, UpperHalf>>
    PROVE  /\ i \in Stack' /\ m_uid_ranges'[i].attempt = 0
           /\ InRange(u, m_uid_ranges'[i])
           /\ Covered(u)'
  <1>0. Top \in Nat /\ Top >= 1 /\ i \in 1 .. Top - 1
    BY StackFacts DEF StackInv, Stack, Top
  <1>1. CASE \E limit : Popped(limit)
    <2>1. PICK limit : Popped(limit)
      BY <1>1
    <2>2. /\ Len(m_uid_ranges') = Top - 1
          /\ m_uid_ranges'[i].lower = m_uid_ranges[i].lower
          /\ m_uid_ranges'[i].upper = m_uid_ranges[i].upper
          /\ m_uid_ranges'[i].attempt = m_uid_ranges[i].attempt
      BY <1>0, <2>1 DEF Popped
    <2> QED  BY <1>0, <2>2 DEF Stack, Attempt, InRange, Covered
  <1>2. CASE \E r \in UIDRange : m_uid_ranges' = WithTop(r)
    <2>1. Len(m_uid_ranges') = Top /\ m_uid_ranges'[i] = m_uid_ranges[i]
      BY <1>0, <1>2, TopSet DEF StackInv
    <2> QED  BY <1>0, <2>1 DEF Stack, Attempt, InRange, Covered
  <1>3. CASE /\ TopRange.lower # TopRange.upper
             /\ m_uid_ranges' = WithTop(SplitTop) \o <<LowerHalf, UpperHalf>>
    <2>1. Len(m_uid_ranges') = Top + 2 /\ m_uid_ranges'[i] = m_uid_ranges[i]
      BY <1>0, <1>3, SplitFacts
    <2> QED  BY <1>0, <2>1 DEF Stack, Attempt, InRange, Covered
  <1> QED  BY <1>1, <1>2, <1>3

\* The halves cover the range.
LEMMA HalvesCover ==
    ASSUME StackInv, m_uid_ranges # <<>>, TopRange.lower # TopRange.upper,
           m_uid_ranges' = WithTop(SplitTop) \o <<LowerHalf, UpperHalf>>,
           NEW u \in UIDs, InRange(u, TopRange)
    PROVE  \E j \in Stack' : /\ Top < j
                             /\ m_uid_ranges'[j].attempt = 0
                             /\ InRange(u, m_uid_ranges'[j])
  <1>1. /\ Top \in Nat /\ Len(m_uid_ranges') = Top + 2
        /\ m_uid_ranges'[Top + 1] = LowerHalf
        /\ m_uid_ranges'[Top + 2] = UpperHalf
        /\ Mid \in Nat
    BY SplitFacts
  <1>2. /\ LowerHalf.lower = TopRange.lower /\ LowerHalf.upper = Mid
        /\ UpperHalf.lower = Mid + 1 /\ UpperHalf.upper = TopRange.upper
        /\ LowerHalf.attempt = 0 /\ UpperHalf.attempt = 0
    BY DEF LowerHalf, UpperHalf, NewRange
  <1>3. u \in Nat
    BY ConstantsAssumption DEF UIDs
  <1>4. CASE u <= Mid
    <2>1. Top + 1 \in Stack' /\ Top < Top + 1
      BY <1>1 DEF Stack
    <2>2. InRange(u, LowerHalf)
      BY <1>2, <1>4 DEF InRange
    <2> QED  BY <1>1, <1>2, <2>1, <2>2
  <1>5. CASE Mid + 1 <= u
    <2>1. Top + 2 \in Stack' /\ Top < Top + 2
      BY <1>1 DEF Stack
    <2>2. InRange(u, UpperHalf)
      BY <1>2, <1>5 DEF InRange
    <2> QED  BY <1>1, <1>2, <2>1, <2>2
  <1>6. u <= Mid \/ Mid + 1 <= u
    BY <1>1, <1>3
  <1> QED  BY <1>4, <1>5, <1>6

\* A range that is looked at for the first time reaches no limit.
LEMMA FreshTop ==
    ASSUME StackInv, m_uid_ranges # <<>>, Attempt(Top) = 0
    PROVE  ~ LimitReached(Attempted)
  <1>1. TopRange.attempt = 0
    BY DEF Attempt, TopRange
  <1>2. /\ TopRange.failures = 0 /\ TopRange.uids_discovered = 0
        /\ ~ TopRange.branch_corrupt
    BY TopFacts DEF StackInv, FreshInv, TopRange
  <1>3. /\ Attempted.attempt = 1 /\ Attempted.failures = 0
        /\ Attempted.branch_corrupt = TopRange.branch_corrupt
    BY <1>1, <1>2, AttemptedFacts DEF StackInv
  <1>4. ~ Attempted.branch_corrupt
    BY <1>2, <1>3
  <1>5. /\ Attempted.attempt # MAX_EMPTY_BRANCH_ATTEMPTS
        /\ Attempted.failures # MAX_BRANCH_FAILURES
    BY <1>3, ConstantsAssumption
  <1> QED  BY <1>4, <1>5, Zenon DEF LimitReached

\* Discovery starts with the whole range.
LEMMA StartCover ==
    ASSUME NEW discovery, InitDiscovery(discovery)
    PROVE  CoverInv'
  <1>1. (\A u \in UIDs : Covered(u))'
    <2>1. (m_uid_ranges = <<NewRange(0, MaxUID, 0)>>)'
      BY DEF InitDiscovery, NewRange
    <2> QED  BY <2>1, RootCovers, PTL
  <1>2. Missing' \subseteq UIDs
    BY DEF Missing, Good
  <1> QED  BY <1>1, <1>2 DEF InitDiscovery, CoverInv

\* The known responders are muted.
LEMMA MuteCover ==
    ASSUME BaseInv, AckedInv, CoverInv,
           \/ UnMuteComplete
           \/ \E status \in BOOLEAN : IncrementalMuteComplete(status)
    PROVE  CoverInv'
  <1> SUFFICES ASSUME ~ noisy'
      PROVE  /\ muted' \cap Good' \subseteq m_uids'
             /\ m_bad_uids' \cap Good' = {}
             /\ \A u \in Missing' : Covered(u)'
    BY DEF CoverInv
  <1>0. /\ ~ noisy /\ UNCHANGED <<kind, m_bad_uids, m_uid_ranges>>
        /\ phase \in {"UnMuteAll", "IncrementalMute"}
    BY DEF UnMuteComplete, IncrementalMuteComplete
  <1>1. Good' = Good /\ m_bad_uids \cap Good = {}
    BY <1>0 DEF Good, CoverInv
  <1>2. (\A u \in UIDs : Covered(u))'
    <2>1. m_uid_ranges = <<NewRange(0, MaxUID, 0)>>
      BY <1>0 DEF BaseInv, StackInv, FreshInv
    <2>2. (m_uid_ranges = <<NewRange(0, MaxUID, 0)>>)'
      BY <1>0, <2>1 DEF NewRange
    <2> QED  BY <2>2, RootCovers, PTL
  <1>3. Missing' \subseteq UIDs
    BY DEF Missing, Good
  <1>4. ASSUME UnMuteComplete PROVE muted' \cap Good \subseteq m_uids'
    BY <1>4 DEF UnMuteComplete
  <1>5. ASSUME NEW status \in BOOLEAN, IncrementalMuteComplete(status)
        PROVE  muted' \cap Good \subseteq m_uids'
    <2>1. /\ muted \cap Good \subseteq m_uids /\ m_muting_uid \in m_uids
          /\ status \in MuteAnswers(m_muting_uid)
      BY <1>0, <1>5 DEF IncrementalMuteComplete, CoverInv, AckedInv
    <2>2. CASE status
      BY <1>5, <2>1, <2>2 DEF IncrementalMuteComplete, Muting
    <2>3. CASE ~ status
      <3>1. m_muting_uid \notin Good
        BY <1>0, <2>1, <2>3, GoodAcks
      <3> QED  BY <1>5, <2>1, <2>3, <3>1 DEF IncrementalMuteComplete, Muting
    <2> QED  BY <2>2, <2>3
  <1> QED  BY <1>0, <1>1, <1>2, <1>3, <1>4, <1>5

\* An answer to a DUB: whoever is missing in the range at the top answered.
LEMMA BranchCover ==
    ASSUME BaseInv, CoverInv, NEW answer, BranchComplete(answer)
    PROVE  CoverInv'
  <1> SUFFICES ASSUME ~ noisy'
      PROVE  /\ muted' \cap Good' \subseteq m_uids'
             /\ m_bad_uids' \cap Good' = {}
             /\ \A u \in Missing' : Covered(u)'
    BY DEF CoverInv
  <1>0. /\ ~ noisy /\ UNCHANGED <<kind, muted, m_uids, m_bad_uids>>
        /\ phase = "Branch"
        /\ answer \in BranchAnswers(TopRange.lower, TopRange.upper)
    BY DEF BranchComplete, lineVars
  <1>1. /\ Good' = Good /\ Missing' = Missing
        /\ muted \cap Good \subseteq m_uids /\ m_bad_uids \cap Good = {}
        /\ StackInv
    BY <1>0 DEF Good, Missing, CoverInv, BaseInv
  <1>2. m_uid_ranges # <<>>
    BY <1>0, <1>1 DEF StackInv, StackIsPath
  <1> DEFINE failed == [TopRange EXCEPT !.failures = @ + 1]
             split == WithTop(SplitTop) \o <<LowerHalf, UpperHalf>>
  <1>3. failed \in UIDRange
    BY <1>1, <1>2, TopFacts, FailureAdded
  <1> HIDE DEF failed
  <1>4. \/ answer = Nothing /\ Popped(FALSE)
        \/ /\ answer = Garbage
           /\ TopRange.lower = TopRange.upper /\ m_uid_ranges' = WithTop(failed)
        \/ /\ answer = Garbage
           /\ TopRange.lower # TopRange.upper /\ m_uid_ranges' = split
        \/ /\ answer.type = "found" /\ answer.uid \in m_uids \cup m_bad_uids
           /\ m_uid_ranges' = WithTop(failed)
        \/ /\ answer.type = "found" /\ UNCHANGED m_uid_ranges
           /\ m_muting_uid' = answer.uid /\ phase' = "BranchMute"
    <2>1. FreeCurrentRange(m_uid_ranges) => Popped(FALSE)
      BY <1>1, <1>2, EmptyPopped DEF StackInv
    <2> QED
      BY <2>1
      DEF BranchComplete, HandleCollision, failed, SplitTop, LowerHalf,
          UpperHalf, Mid
  <1>5. ASSUME NEW u \in Missing PROVE Covered(u)'
    <2>1. CASE \E i \in Stack : Attempt(i) = 0 /\ InRange(u, m_uid_ranges[i])
      <3>1. PICK i \in Stack : Attempt(i) = 0 /\ InRange(u, m_uid_ranges[i])
        BY <2>1
      <3>2. i # Top
        BY <1>0, <1>1, <1>2, <3>1, TopFacts DEF Attempt, TopRange
      <3>3. CASE UNCHANGED m_uid_ranges
        BY <3>1, <3>3 DEF Covered, Stack, Attempt, InRange
      <3> QED  BY <1>1, <1>2, <1>3, <1>4, <3>1, <3>2, <3>3, FreshStays
    <2>2. CASE InRange(u, TopRange)
      <3>1. u \in Good /\ u \notin muted /\ u \notin m_uids \cup m_bad_uids
        BY <1>1 DEF Missing
      <3>2. TopRange.lower \in Nat /\ TopRange.upper \in Nat
        BY <1>1, <1>2, TopFacts, RangeFields
      <3>3. u \in Answering(TopRange.lower, TopRange.upper)
        BY <2>2, <3>1, GoodAnswers DEF InRange
      <3>4. /\ answer # Nothing
            /\ answer = Garbage => TopRange.lower # TopRange.upper
            /\ answer.type = "found" => answer.uid = u
        BY <1>0, <3>1, <3>2, <3>3, ReceivedFromGood
      <3>5. CASE /\ TopRange.lower # TopRange.upper /\ m_uid_ranges' = split
        <4>1. u \in UIDs
          BY <3>1 DEF Good
        <4>2. PICK j \in Stack' : /\ m_uid_ranges'[j].attempt = 0
                                  /\ InRange(u, m_uid_ranges'[j])
          BY <1>1, <1>2, <2>2, <3>5, <4>1, HalvesCover
        <4> QED  BY <4>2 DEF Covered, Attempt, InRange
      <3>6. CASE m_muting_uid' = u /\ phase' = "BranchMute"
        BY <3>6 DEF Covered
      <3> QED  BY <1>4, <3>1, <3>4, <3>5, <3>6
    <2> QED  BY <1>0, <2>1, <2>2 DEF Covered, CoverInv
  <1> QED  BY <1>0, <1>1, <1>5

\* An answer to the mute of a responder that was found.
LEMMA BranchMuteCover ==
    ASSUME BaseInv, CoverInv, NEW status, BranchMuteComplete(status)
    PROVE  CoverInv'
  <1> SUFFICES ASSUME ~ noisy'
      PROVE  /\ muted' \cap Good' \subseteq m_uids'
             /\ m_bad_uids' \cap Good' = {}
             /\ \A u \in Missing' : Covered(u)'
    BY DEF CoverInv
  <1>0. /\ ~ noisy /\ UNCHANGED <<kind, m_muting_uid>> /\ phase = "BranchMute"
        /\ status \in MuteAnswers(m_muting_uid)
    BY DEF BranchMuteComplete
  <1>1. /\ Good' = Good /\ StackInv
        /\ muted \cap Good \subseteq m_uids /\ m_bad_uids \cap Good = {}
    BY <1>0 DEF Good, CoverInv, BaseInv
  <1>2. m_uid_ranges # <<>>
    BY <1>0, <1>1 DEF StackInv, StackIsPath
  <1>3. m_muting_uid \in Good => status
    BY <1>0, GoodAcks
  <1>4. /\ m_uids' = IF status THEN m_uids \cup {m_muting_uid} ELSE m_uids
        /\ muted' = IF status THEN muted \cup {m_muting_uid} ELSE muted
        /\ status => UNCHANGED m_bad_uids
        /\ m_bad_uids' \subseteq m_bad_uids \cup {m_muting_uid}
    BY DEF BranchMuteComplete, Muting
  <1>5. /\ muted' \cap Good \subseteq m_uids'
        /\ m_bad_uids' \cap Good = {}
    BY <1>1, <1>3, <1>4
  <1> DEFINE found == [TopRange EXCEPT !.uids_discovered = @ + 1]
  <1>6. found \in UIDRange
    BY <1>1, <1>2, TopFacts, CountAdded
  <1> HIDE DEF found
  <1>7. m_uid_ranges' = WithTop(found) \/ UNCHANGED m_uid_ranges
    BY DEF BranchMuteComplete, found
  <1>8. ASSUME NEW u \in Missing' PROVE Covered(u)'
    <2>1. u \in Missing /\ u # m_muting_uid
      BY <1>1, <1>3, <1>4 DEF Missing
    <2>2. PICK i \in Stack : Attempt(i) = 0 /\ InRange(u, m_uid_ranges[i])
      BY <1>0, <2>1 DEF CoverInv, Covered
    <2>3. i # Top
      BY <1>0, <1>1, <1>2, <2>2, TopFacts DEF Attempt, TopRange
    <2>4. CASE UNCHANGED m_uid_ranges
      BY <2>2, <2>4 DEF Covered, Stack, Attempt, InRange
    <2> QED  BY <1>1, <1>2, <1>6, <1>7, <2>2, <2>3, <2>4, FreshStays
  <1> QED  BY <1>1, <1>5, <1>8

\* SendDiscovery: a range that has not been searched is searched now.
LEMMA SendCover ==
    ASSUME BaseInv, CoverInv, SendDiscovery
    PROVE  CoverInv'
  <1>1. CASE Complete
    BY <1>1 DEF Complete, CoverInv
  <1>2. CASE SearchTop
    <2> SUFFICES ASSUME ~ noisy'
        PROVE  /\ muted' \cap Good' \subseteq m_uids'
               /\ m_bad_uids' \cap Good' = {}
               /\ \A u \in Missing' : Covered(u)'
      BY DEF CoverInv
    <2>0. /\ ~ noisy /\ UNCHANGED <<kind, muted, m_uids, m_bad_uids>>
          /\ phase = "SendDiscovery" /\ StackInv
      BY DEF SendDiscovery, lineVars, BaseInv
    <2>1. /\ Good' = Good /\ Missing' = Missing
          /\ muted \cap Good \subseteq m_uids /\ m_bad_uids \cap Good = {}
      BY <2>0 DEF Good, Missing, CoverInv
    <2>2. /\ m_uid_ranges # <<>>
          /\ \/ LimitReached(Attempted) /\ Popped(TRUE)
             \/ m_uid_ranges' = WithTop(Attempted) /\ phase' = "Branch"
      BY <1>2, <2>0, SearchTopFacts DEF StackInv
    <2>3. /\ Attempted \in UIDRange /\ Attempted.lower = TopRange.lower
          /\ Attempted.upper = TopRange.upper
      BY <2>0, <2>2, AttemptedFacts DEF StackInv
    <2>4. ASSUME NEW u \in Missing PROVE Covered(u)'
      <3>1. PICK i \in Stack : Attempt(i) = 0 /\ InRange(u, m_uid_ranges[i])
        BY <2>0 DEF CoverInv, Covered
      <3>2. CASE i # Top
        BY <2>0, <2>2, <2>3, <3>1, <3>2, FreshStays
      <3>3. CASE i = Top
        <4>1. m_uid_ranges' = WithTop(Attempted) /\ phase' = "Branch"
          BY <2>0, <2>2, <3>1, <3>3, FreshTop
        <4>2. TopRange' = Attempted
          BY <2>0, <2>2, <2>3, <4>1, TopSet DEF StackInv, TopRange, Top
        <4>3. InRange(u, Attempted)
          BY <2>3, <3>1, <3>3 DEF InRange, TopRange
        <4> QED  BY <4>1, <4>2, <4>3 DEF Covered, InRange
      <3> QED  BY <3>2, <3>3
    <2> QED  BY <2>0, <2>1, <2>4
  <1> QED  BY <1>1, <1>2 DEF SendDiscovery

\* Every step keeps each missing well-behaved responder covered.
LEMMA CoverNext ==
    ASSUME BaseInv, AckedInv, CoverInv, [Next]_vars
    PROVE  CoverInv'
  <1>1. CASE UNCHANGED <<agentVars, phase, lineVars>>
    BY <1>1
    DEF agentVars, lineVars, CoverInv, Covered, Missing, Good, Stack, Attempt,
        Top, TopRange
  <1>2. CASE LineChanges
    BY <1>2 DEF LineChanges, CoverInv
  <1>3. ASSUME NEW discovery, RequestDiscovery(discovery) PROVE CoverInv'
    BY <1>1, <1>3, StartCover DEF RequestDiscovery
  <1>4. CASE Abort
    <2>1. CASE phase' = "idle"
      BY <2>1 DEF CoverInv
    <2> QED  BY <1>4, <2>1, StartCover DEF Abort
  <1> QED
    BY <1>1, <1>2, <1>3, <1>4, MuteCover, BranchCover, BranchMuteCover, SendCover
    DEF Next, TargetAnswers, vars

\* So no well-behaved responder is ever lost.
LEMMA CoverInvariant == Spec => []CoverInv
  <1>1. Init => CoverInv
    BY DEF Init, CoverInv
  <1>2. BaseInv /\ AckedInv /\ CoverInv /\ [Next]_vars => CoverInv'
    BY CoverNext
  <1> QED  BY <1>1, <1>2, BaseInvariant, AckedInvariant, PTL DEF Spec

\* Whatever the other responders do, a discovery on a line without noise
\* reports every responder that behaves: a range is given up only after a DUB
\* for it, and HandleCollision splits it without a gap.
THEOREM EveryGood == Spec => []FindsEveryGood
  <1>1. Init => FindsEveryGood
    BY DEF Init, FindsEveryGood
  <1>2. BaseInv /\ CoverInv /\ FindsEveryGood /\ [Next]_vars => FindsEveryGood'
    <2> SUFFICES ASSUME BaseInv, CoverInv, FindsEveryGood, [Next]_vars, ~ noisy',
                        NEW i \in 1 .. Len(results'), results'[i].ran
                 PROVE  Good' \subseteq results'[i].uids
      BY DEF FindsEveryGood
    <2>1. CASE /\ i \in 1 .. Len(results) /\ results'[i] = results[i]
               /\ UNCHANGED lineVars
      BY <2>1 DEF FindsEveryGood, lineVars, Good
    <2>2. CASE /\ SendDiscovery /\ m_uid_ranges = <<>>
               /\ results'[i].uids = m_uids
      <3>1. phase = "SendDiscovery" /\ ~ noisy /\ Good' = Good
        BY <2>2 DEF SendDiscovery, lineVars, Good
      <3>2. Stack = {}
        BY <2>2 DEF Stack
      <3>3. Missing = {}
        BY <3>1, <3>2 DEF CoverInv, Covered
      <3> QED  BY <2>2, <3>1, <3>3 DEF Missing
    <2> QED  BY <2>1, <2>2, ResultsOfStep DEF BaseInv
  <1> QED  BY <1>1, <1>2, BaseInvariant, CoverInvariant, PTL DEF Spec

-----------------------------------------------------------------------------
(* On a line where everybody behaves *)

\* Who answers is well-behaved, not muted and in the range.
LEMMA AnsweringBehaved ==
    ASSUME Behaved, NEW l, NEW h, NEW u \in Answering(l, h)
    PROVE  u \in Good /\ u \notin muted /\ l <= u /\ u <= h
  BY DEF Behaved, Answering, Good

\* What is received then.
LEMMA ReceivedBehaved ==
    ASSUME Behaved, NEW l \in Nat, NEW h \in Nat,
           NEW answer \in BranchAnswers(l, h)
    PROVE  /\ answer = Nothing => Answering(l, h) = {}
           /\ answer = Garbage => l # h /\ Answering(l, h) # {}
           /\ answer.type = "found" => answer.uid \in Answering(l, h)
  <1> DEFINE A == Answering(l, h)
  <1>0. IsFiniteSet(A) /\ ~ noisy
    BY AnsweringFinite DEF Behaved
  <1>1. ~ \E u \in A : kind[u] = "rambling"
    BY AnsweringBehaved DEF Good
  <1>2. CASE A = {}
    BY <1>0, <1>2 DEF BranchAnswers, Nothing, Garbage
  <1>3. CASE A # {} /\ Cardinality(A) > 1
    <2>1. answer = Garbage
      BY <1>0, <1>3 DEF BranchAnswers
    <2>2. ASSUME l = h PROVE FALSE
      <3>1. PICK u \in A : TRUE
        BY <1>3
      <3>2. \A v \in A : v = u
        BY <2>2, ConstantsAssumption DEF Answering, Present, UIDs
      <3>3. A = {u}
        BY <3>2
      <3>4. Cardinality(A) = 1
        BY <3>3, FS_Singleton
      <3> QED  BY <1>3, <3>4
    <2> QED  BY <1>3, <2>1, <2>2 DEF Garbage, Nothing
  <1>4. CASE A # {} /\ ~ (Cardinality(A) > 1)
    <2>1. PICK u \in A : answer = Found(u)
      BY <1>0, <1>1, <1>4 DEF BranchAnswers
    <2> QED  BY <2>1 DEF Found, Nothing, Garbage
  <1> QED  BY <1>2, <1>3, <1>4

\* Who acknowledges is there.
LEMMA AckPresent ==
    ASSUME ~ noisy, NEW u \in UIDs, NEW status \in MuteAnswers(u), status
    PROVE  u \in Present
  <1>1. status = AcksMute(u)
    BY Zenon DEF MuteAnswers
  <1>2. AcksMute(u)
    BY <1>1
  <1> QED  BY <1>2 DEF AcksMute, Present

\* The root has not been searched.
LEMMA RootExact ==
    ASSUME m_uid_ranges = <<NewRange(0, MaxUID, 0)>>, ~ m_tree_corrupt
    PROVE  Clean /\ NotInVain
  <1> DEFINE r == NewRange(0, MaxUID, 0)
  <1>1. r.attempt = 0 /\ r.failures = 0 /\ r.branch_corrupt = FALSE
    BY DEF NewRange
  <1>2. ~ r.branch_corrupt
    BY <1>1, Zenon
  <1> HIDE DEF r
  <1>3. Len(m_uid_ranges) = 1 /\ m_uid_ranges[1] = r
    BY DEF r
  <1> QED  BY <1>1, <1>2, <1>3 DEF Clean, NotInVain, Stack, Attempt

\* Discovery starts with the whole range.
LEMMA StartExact ==
    ASSUME NEW discovery, InitDiscovery(discovery)
    PROVE  ExactInv'
  <1>1. (m_uid_ranges = <<NewRange(0, MaxUID, 0)>>)' /\ (~ m_tree_corrupt)'
    <2>1. ~ m_tree_corrupt'
      BY Zenon DEF InitDiscovery
    <2> QED  BY <2>1 DEF InitDiscovery, NewRange
  <1>2. (Clean /\ NotInVain)'
    BY <1>1, RootExact, PTL
  <1>3. AllAck'
    BY DEF InitDiscovery, AllAck
  <1> QED  BY <1>2, <1>3 DEF ExactInv

\* The known responders are muted.
LEMMA MuteExact ==
    ASSUME BaseInv, AckedInv, ExactInv,
           \/ UnMuteComplete
           \/ \E status \in BOOLEAN : IncrementalMuteComplete(status)
    PROVE  ExactInv'
  <1> SUFFICES ASSUME Behaved' PROVE AllAck' /\ Clean' /\ NotInVain'
    BY DEF ExactInv
  <1>0. /\ UNCHANGED <<kind, noisy, m_bad_uids, m_uid_ranges, m_tree_corrupt>>
        /\ phase \in {"UnMuteAll", "IncrementalMute"}
        /\ phase' \in {"SendDiscovery", "IncrementalMute"}
    BY DEF UnMuteComplete, IncrementalMuteComplete, MaybeMuteNextDevice
  <1>1. Behaved /\ Good' = Good
    BY <1>0 DEF Behaved, Good, Present
  <1>2. AllAck /\ Clean
    BY <1>0, <1>1 DEF ExactInv
  <1>3. m_uid_ranges = <<NewRange(0, MaxUID, 0)>> /\ ~ m_tree_corrupt
    BY <1>0, <1>2 DEF BaseInv, StackInv, FreshInv, Clean
  <1>4. (m_uid_ranges = <<NewRange(0, MaxUID, 0)>>)' /\ (~ m_tree_corrupt)'
    BY <1>0, <1>3 DEF NewRange
  <1>5. (Clean /\ NotInVain)'
    BY <1>4, RootExact, PTL
  <1>6. ASSUME UnMuteComplete PROVE acked' \subseteq Good /\ acked' \subseteq muted'
    BY <1>6 DEF UnMuteComplete, AckedInv
  <1>7. ASSUME NEW status \in BOOLEAN, IncrementalMuteComplete(status)
        PROVE  acked' \subseteq Good /\ acked' \subseteq muted'
    <2>1. /\ acked \subseteq Good /\ acked \subseteq muted
          /\ status \in MuteAnswers(m_muting_uid) /\ m_muting_uid \in UIDs
      BY <1>2, <1>7 DEF IncrementalMuteComplete, AllAck, BaseInv, AgentTypes
    <2>2. status => m_muting_uid \in Good
      BY <1>1, <2>1, AckPresent DEF Behaved
    <2> QED  BY <1>7, <2>1, <2>2 DEF IncrementalMuteComplete, Muting
  <1>8. AllAck'
    BY <1>0, <1>1, <1>2, <1>6, <1>7 DEF AllAck
  <1> QED  BY <1>5, <1>8

\* Nobody answers: the range is popped, and what was found in it is counted
\* for its parent.
LEMMA EmptyExact ==
    ASSUME StackInv, phase = "Branch", Clean, NotInVain,
           FreeCurrentRange(m_uid_ranges), phase' = "SendDiscovery",
           UNCHANGED <<m_uids, kind>>,
           \A u \in Missing : ~ InRange(u, TopRange)
    PROVE  Clean' /\ NotInVain'
  <1>0. m_uid_ranges # <<>>
    BY DEF StackInv, StackIsPath
  <1>1. Popped(FALSE)
    BY <1>0, EmptyPopped DEF StackInv
  <1> DEFINE n == Top - 1
             p == TopRange.parent
  <1>2. /\ n \in Nat /\ Top = n + 1 /\ Len(m_uid_ranges') = n
        /\ Stack = 1 .. n + 1 /\ Stack' = 1 .. n /\ Top' = n
        /\ \A i \in 1 .. n + 1 : m_uid_ranges[i] \in UIDRange
    BY <1>0, <1>1, StackFacts DEF StackInv, Popped, Stack, Top
  <1>3. \A i \in 1 .. n :
           /\ m_uid_ranges'[i].lower = m_uid_ranges[i].lower
           /\ m_uid_ranges'[i].upper = m_uid_ranges[i].upper
           /\ m_uid_ranges'[i].attempt = m_uid_ranges[i].attempt
           /\ m_uid_ranges'[i].failures = m_uid_ranges[i].failures
           /\ m_uid_ranges'[i].branch_corrupt = m_uid_ranges[i].branch_corrupt
           /\ i # p => m_uid_ranges'[i] = m_uid_ranges[i]
           /\ i = p => m_uid_ranges'[i].uids_discovered =
                 m_uid_ranges[i].uids_discovered + TopRange.uids_discovered
    BY <1>1 DEF Popped
  <1>4. Clean'
    <2>1. ~ m_tree_corrupt'
      <3>1. ~ m_tree_corrupt /\ ~ TopRange.branch_corrupt
        BY <1>0, TopFacts DEF Clean, TopRange
      <3>2. m_tree_corrupt' = (m_tree_corrupt \/
               (Len(m_uid_ranges) = 1 /\ TopRange.branch_corrupt))
        BY DEF FreeCurrentRange, TopRange, Top
      <3> QED  BY <3>1, <3>2
    <2> QED  BY <1>2, <1>3, <2>1 DEF Clean, Attempt
  <1>5. ASSUME NEW i \in 1 .. n, m_uid_ranges'[i].attempt > 0
        PROVE  Fruitful(i)'
    <2>1. Attempt(i) > 0 /\ i < Top /\ i \in Stack
      BY <1>2, <1>3, <1>5 DEF Attempt
    <2>2. Fruitful(i)
      BY <2>1 DEF NotInVain
    <2>3. PICK j \in i .. Top :
             \/ m_uid_ranges[j].uids_discovered > 0
             \/ /\ Attempt(j) = 0
                /\ \E u \in Missing : InRange(u, m_uid_ranges[j])
      BY <2>2 DEF Fruitful
    <2>4. CASE j = Top
      <3>1. TopRange.uids_discovered > 0
        BY <2>3, <2>4 DEF TopRange
      <3>2. p \in 1 .. n /\ i <= p
        <4>1. p < Top /\ p \in Nat
          BY <1>0, TopParent, StackFacts, RangeFields DEF StackInv
        <4>2. i <= p
          BY <1>0, <2>1, TopFacts DEF StackInv, FreshInv, TopRange
        <4> QED  BY <1>2, <4>1, <4>2
      <3>3. /\ m_uid_ranges[p].uids_discovered \in Nat
            /\ TopRange.uids_discovered \in Nat
        BY <1>0, <1>2, <3>2, RangeFields, TopFacts
      <3>4. m_uid_ranges'[p].uids_discovered > 0
        BY <1>3, <3>1, <3>2, <3>3
      <3> HIDE DEF n, p
      <3> QED  BY <1>2, <3>2, <3>4 DEF Fruitful
    <2>5. CASE j # Top
      <3>1. j \in 1 .. n /\ j \in i .. n
        BY <1>2, <2>5
      <3>2. m_uid_ranges[j].uids_discovered > 0 =>
               m_uid_ranges'[j].uids_discovered > 0
        <4>1. /\ m_uid_ranges[j].uids_discovered \in Nat
              /\ TopRange.uids_discovered \in Nat
          BY <1>0, <1>2, <3>1, RangeFields, TopFacts
        <4> QED  BY <1>3, <3>1, <4>1
      <3>3. \A u : InRange(u, m_uid_ranges[j]) => InRange(u, m_uid_ranges'[j])
        BY <1>3, <3>1 DEF InRange
      <3>4. m_uid_ranges'[j].attempt = Attempt(j)
        BY <1>3, <3>1 DEF Attempt
      <3>5. Missing' = Missing
        BY DEF Missing, Good
      <3> HIDE DEF n, p
      <3> QED
        BY <1>2, <2>3, <3>1, <3>2, <3>3, <3>4, <3>5
        DEF Fruitful, Attempt, InRange
    <2> QED  BY <2>4, <2>5
  <1> HIDE DEF n, p
  <1> QED  BY <1>2, <1>4, <1>5 DEF NotInVain, Attempt

\* Several answer: one of them at least is in a half.
LEMMA CollisionExact ==
    ASSUME StackInv, m_uid_ranges # <<>>, TopRange.lower # TopRange.upper,
           m_uid_ranges' = WithTop(SplitTop) \o <<LowerHalf, UpperHalf>>,
           phase' = "SendDiscovery",
           Clean, UNCHANGED <<m_uids, kind, m_tree_corrupt>>,
           NEW u \in Missing, InRange(u, TopRange)
    PROVE  Clean' /\ NotInVain'
  <1> DEFINE n == Top
             S == m_uid_ranges'
  <1>1. /\ n \in Nat /\ n >= 1 /\ Len(S) = n + 2
        /\ \A i \in 1 .. n - 1 : S[i] = m_uid_ranges[i]
        /\ S[n] = SplitTop /\ S[n + 1] = LowerHalf /\ S[n + 2] = UpperHalf
    BY SplitFacts
  <1>2. Stack = 1 .. n /\ Stack' = 1 .. n + 2 /\ Top' = n + 2
    BY <1>1 DEF Stack, Top
  <1>3. /\ SplitTop.attempt = m_uid_ranges[n].attempt
        /\ SplitTop.failures = m_uid_ranges[n].failures
        /\ SplitTop.branch_corrupt = m_uid_ranges[n].branch_corrupt
    BY TopFacts, CountReset DEF SplitTop, TopRange
  <1>4. /\ LowerHalf.attempt = 0 /\ LowerHalf.failures = 0
        /\ LowerHalf.branch_corrupt = FALSE
        /\ UpperHalf.attempt = 0 /\ UpperHalf.failures = 0
        /\ UpperHalf.branch_corrupt = FALSE
    BY DEF LowerHalf, UpperHalf, NewRange
  <1>5. ~ LowerHalf.branch_corrupt /\ ~ UpperHalf.branch_corrupt
    BY <1>4, Zenon
  <1>6. \A i \in 1 .. n + 2 : i \in 1 .. n - 1 \/ i = n \/ i = n + 1 \/ i = n + 2
    BY <1>1
  <1>7. Clean'
    <2>1. \A i \in 1 .. n : /\ m_uid_ranges[i].attempt <= 1
                            /\ m_uid_ranges[i].failures = 0
                            /\ ~ m_uid_ranges[i].branch_corrupt
      BY <1>2 DEF Clean, Attempt
    <2>2. ASSUME NEW i \in 1 .. n + 2
          PROVE  S[i].attempt <= 1 /\ S[i].failures = 0 /\ ~ S[i].branch_corrupt
      <3>1. CASE i \in 1 .. n - 1
        BY <1>1, <2>1, <3>1
      <3>2. CASE i = n
        BY <1>1, <1>3, <2>1, <3>2
      <3>3. CASE i = n + 1 \/ i = n + 2
        BY <1>1, <1>4, <1>5, <3>3
      <3> QED  BY <1>6, <3>1, <3>2, <3>3
    <2> HIDE DEF n
    <2> QED  BY <1>2, <2>2 DEF Clean, Attempt
  <1>8. Missing' = Missing /\ u \in UIDs
    BY DEF Missing, Good
  <1>9. PICK j \in Stack' : /\ Top < j /\ S[j].attempt = 0
                            /\ InRange(u, S[j])
    BY <1>8, HalvesCover
  <1>10. ASSUME NEW i \in 1 .. n + 2, S[i].attempt > 0 PROVE Fruitful(i)'
    <2>1. i \in 1 .. n
      <3>1. S[n + 1].attempt = 0 /\ S[n + 2].attempt = 0
        BY <1>1, <1>4
      <3>2. S[i].attempt # 0
        <4> DEFINE a == S[i].attempt
        <4>1. a > 0
          BY <1>10
        <4> HIDE DEF a
        <4>2. a # 0
          BY <4>1
        <4> QED  BY <4>2 DEF a
      <3>3. i # n + 1 /\ i # n + 2
        BY <3>1, <3>2, Zenon
      <3> QED  BY <1>1, <1>6, <3>3
    <2>2. j \in i .. n + 2
      BY <1>1, <1>2, <1>9, <2>1
    <2> HIDE DEF n
    <2> QED  BY <1>2, <1>8, <1>9, <2>2 DEF Fruitful, Attempt, InRange
  <1> HIDE DEF n
  <1> QED  BY <1>2, <1>7, <1>10 DEF NotInVain, Attempt

\* An answer to a DUB: who answers is missing, and who is missing answers.
LEMMA BranchExact ==
    ASSUME BaseInv, AckedInv, CoverInv, ExactInv,
           NEW answer, BranchComplete(answer)
    PROVE  ExactInv'
  <1> SUFFICES ASSUME Behaved' PROVE AllAck' /\ Clean' /\ NotInVain'
    BY DEF ExactInv
  <1>0. /\ UNCHANGED <<kind, noisy, muted, m_uids, m_bad_uids, acked>>
        /\ phase = "Branch" /\ phase' \in {"SendDiscovery", "BranchMute"}
        /\ answer \in BranchAnswers(TopRange.lower, TopRange.upper)
    BY DEF BranchComplete, lineVars
  <1>1. Behaved /\ Good' = Good /\ Missing' = Missing
    BY <1>0 DEF Behaved, Good, Present, Missing
  <1>2. AllAck /\ Clean /\ NotInVain /\ StackInv
    BY <1>0, <1>1 DEF ExactInv, BaseInv
  <1>3. m_uid_ranges # <<>>
    BY <1>0, <1>2 DEF StackInv, StackIsPath
  <1> DEFINE A == Answering(TopRange.lower, TopRange.upper)
  <1>4. TopRange.lower \in Nat /\ TopRange.upper \in Nat
    BY <1>2, <1>3, TopFacts, RangeFields
  <1>5. ASSUME NEW u \in A PROVE u \in Missing /\ InRange(u, TopRange)
    <2>1. u \in Good /\ u \notin muted /\ InRange(u, TopRange)
      BY <1>1, AnsweringBehaved DEF InRange
    <2>2. m_uids \subseteq muted
      BY <1>0, <1>2 DEF AckedInv, AllAck
    <2> QED  BY <2>1, <2>2 DEF Missing
  <1>6. ASSUME NEW u \in Missing, InRange(u, TopRange) PROVE u \in A
    <2>1. u \in Good /\ u \notin m_uids
      BY DEF Missing
    <2>2. u \notin muted
      BY <1>0, <1>1, <2>1 DEF CoverInv, Behaved
    <2> QED  BY <1>6, <2>1, <2>2, GoodAnswers DEF InRange
  <1>7. /\ answer = Nothing => A = {}
        /\ answer = Garbage => TopRange.lower # TopRange.upper /\ A # {}
        /\ answer.type = "found" => answer.uid \in A
    BY <1>0, <1>1, <1>4, ReceivedBehaved
  <1> HIDE DEF A
  <1>8. AllAck'
    <2>1. ASSUME phase' = "BranchMute" PROVE m_muting_uid' \in Missing
      BY <1>5, <1>7, <2>1 DEF BranchComplete
    <2> QED  BY <1>0, <1>1, <1>2, <2>1 DEF AllAck
  <1>9. CASE answer = Nothing
    <2>1. FreeCurrentRange(m_uid_ranges) /\ phase' = "SendDiscovery"
      BY <1>9 DEF BranchComplete, Nothing, Garbage
    <2>2. \A u \in Missing : ~ InRange(u, TopRange)
      BY <1>6, <1>7, <1>9
    <2> QED  BY <1>0, <1>2, <1>8, <2>1, <2>2, EmptyExact
  <1>10. CASE answer = Garbage
    <2>1. /\ HandleCollision /\ phase' = "SendDiscovery"
          /\ TopRange.lower # TopRange.upper
      BY <1>7, <1>10 DEF BranchComplete, Nothing, Garbage
    <2>2. /\ m_uid_ranges' = WithTop(SplitTop) \o <<LowerHalf, UpperHalf>>
          /\ UNCHANGED m_tree_corrupt
      BY <2>1 DEF HandleCollision, SplitTop, LowerHalf, UpperHalf, Mid
    <2>3. PICK u \in Missing : InRange(u, TopRange)
      BY <1>5, <1>7, <1>10
    <2> QED  BY <1>0, <1>2, <1>3, <1>8, <2>1, <2>2, <2>3, CollisionExact
  <1>11. CASE answer.type = "found"
    <2>1. answer.uid \notin m_uids \cup m_bad_uids
      BY <1>2, <1>5, <1>7, <1>11 DEF Missing, AllAck
    <2>2. UNCHANGED <<m_uid_ranges, m_tree_corrupt>> /\ phase' = "BranchMute"
      BY <1>11, <2>1 DEF BranchComplete, Nothing, Garbage
    <2>3. Clean'
      BY <1>2, <2>2 DEF Clean, Stack, Attempt
    <2>4. NotInVain'
      BY <2>2 DEF NotInVain, Fruitful
    <2> QED  BY <1>8, <2>3, <2>4
  <1> QED  BY <1>9, <1>10, <1>11 DEF BranchComplete

\* The responder that was found acknowledges.
LEMMA BranchMuteExact ==
    ASSUME BaseInv, ExactInv, NEW status, BranchMuteComplete(status)
    PROVE  ExactInv'
  <1> SUFFICES ASSUME Behaved' PROVE AllAck' /\ Clean' /\ NotInVain'
    BY DEF ExactInv
  <1>0. /\ UNCHANGED <<kind, noisy, m_tree_corrupt>> /\ phase = "BranchMute"
        /\ status \in MuteAnswers(m_muting_uid)
    BY DEF BranchMuteComplete
  <1>1. Behaved /\ Good' = Good
    BY <1>0 DEF Behaved, Good, Present
  <1>2. AllAck /\ Clean /\ StackInv
    BY <1>0, <1>1 DEF ExactInv, BaseInv
  <1>3. m_uid_ranges # <<>>
    BY <1>0, <1>2 DEF StackInv, StackIsPath
  <1>4. m_muting_uid \in Good
    BY <1>0, <1>2 DEF AllAck, Missing
  <1>5. status
    BY <1>0, <1>1, <1>4, GoodAcks DEF Behaved
  <1> DEFINE found == [TopRange EXCEPT !.uids_discovered = @ + 1]
  <1>6. /\ m_uid_ranges' = WithTop(found) /\ phase' = "SendDiscovery"
        /\ acked' = acked \cup {m_muting_uid}
        /\ muted' = muted \cup {m_muting_uid}
        /\ UNCHANGED m_bad_uids
    BY <1>5 DEF BranchMuteComplete, Muting
  <1>7. AllAck'
    BY <1>0, <1>1, <1>2, <1>4, <1>6 DEF AllAck
  <1>8. /\ found \in UIDRange /\ found.attempt = TopRange.attempt
        /\ found.failures = TopRange.failures
        /\ found.branch_corrupt = TopRange.branch_corrupt
        /\ found.uids_discovered > 0
    <2>1. TopRange \in UIDRange
      BY <1>2, <1>3, TopFacts DEF StackInv
    <2> DEFINE c == TopRange.uids_discovered
    <2>2. c \in Nat
      BY <2>1 DEF UIDRange
    <2>3. /\ found \in UIDRange /\ found.attempt = TopRange.attempt
          /\ found.failures = TopRange.failures
          /\ found.branch_corrupt = TopRange.branch_corrupt
          /\ found.uids_discovered = c + 1
      <3>1. 1 \in Nat
        OBVIOUS
      <3> QED  BY <2>1, <3>1, CountAdded
    <2> HIDE DEF c, found
    <2> QED  BY <2>2, <2>3
  <1> HIDE DEF found
  <1> DEFINE n == Top
  <1>9. /\ n \in Nat /\ n >= 1 /\ Len(m_uid_ranges') = n
        /\ m_uid_ranges'[n] = found
        /\ \A i \in 1 .. n - 1 : m_uid_ranges'[i] = m_uid_ranges[i]
    BY <1>2, <1>3, <1>6, <1>8, TopSet, StackFacts DEF StackInv
  <1>10. Stack = 1 .. n /\ Stack' = 1 .. n /\ Top' = n /\ TopRange = m_uid_ranges[n]
    BY <1>9 DEF Stack, Top, TopRange
  <1>11. Clean'
    <2>1. \A i \in 1 .. n : /\ m_uid_ranges[i].attempt <= 1
                            /\ m_uid_ranges[i].failures = 0
                            /\ ~ m_uid_ranges[i].branch_corrupt
      BY <1>2, <1>10 DEF Clean, Attempt
    <2>2. ASSUME NEW i \in 1 .. n
          PROVE  /\ m_uid_ranges'[i].attempt <= 1
                 /\ m_uid_ranges'[i].failures = 0
                 /\ ~ m_uid_ranges'[i].branch_corrupt
      <3>1. CASE i \in 1 .. n - 1
        BY <1>9, <2>1, <3>1
      <3>2. CASE i = n
        BY <1>8, <1>9, <1>10, <2>1, <3>2
      <3> QED  BY <1>9, <3>1, <3>2
    <2>3. ~ m_tree_corrupt'
      BY <1>0, <1>2 DEF Clean
    <2> HIDE DEF n
    <2> QED  BY <1>10, <2>2, <2>3 DEF Clean, Attempt
  <1>12. ASSUME NEW i \in 1 .. n PROVE Fruitful(i)'
    <2>1. n \in i .. n
      BY <1>9
    <2> HIDE DEF n
    <2> QED  BY <1>8, <1>9, <1>10, <2>1 DEF Fruitful
  <1> HIDE DEF n
  <1> QED  BY <1>7, <1>10, <1>11, <1>12 DEF NotInVain

\* SendDiscovery reaches no limit.
LEMMA SendExact ==
    ASSUME BaseInv, ExactInv, SendDiscovery
    PROVE  ExactInv'
  <1>1. CASE Complete
    BY <1>1 DEF Complete, ExactInv
  <1>2. CASE SearchTop
    <2> SUFFICES ASSUME Behaved' PROVE AllAck' /\ Clean' /\ NotInVain'
      BY DEF ExactInv
    <2>0. /\ UNCHANGED <<kind, noisy, muted, m_uids, m_bad_uids, m_muting_uid,
                         acked>>
          /\ phase = "SendDiscovery"
      BY DEF SendDiscovery, lineVars
    <2>1. Behaved /\ Good' = Good /\ Missing' = Missing
      BY <2>0 DEF Behaved, Good, Present, Missing
    <2>2. AllAck /\ Clean /\ NotInVain /\ StackInv
      BY <2>0, <2>1 DEF ExactInv, BaseInv
    <2>3. /\ m_uid_ranges # <<>>
          /\ \/ LimitReached(Attempted)
             \/ /\ m_uid_ranges' = WithTop(Attempted) /\ phase' = "Branch"
                /\ UNCHANGED m_tree_corrupt
      BY <1>2, <2>2, SearchTopFacts DEF StackInv
    <2>4. /\ Attempted \in UIDRange /\ Attempted.lower = TopRange.lower
          /\ Attempted.upper = TopRange.upper
          /\ Attempted.failures = TopRange.failures
          /\ Attempted.uids_discovered = TopRange.uids_discovered
          /\ Attempted.branch_corrupt = TopRange.branch_corrupt
          /\ Attempted.attempt = IF TopRange.uids_discovered = 0
                                 THEN TopRange.attempt + 1
                                 ELSE TopRange.attempt
      BY <2>2, <2>3, AttemptedFacts DEF StackInv
    <2>5. /\ TopRange.attempt <= 1 /\ TopRange.failures = 0
          /\ ~ TopRange.branch_corrupt
          /\ TopRange.attempt \in Nat /\ TopRange.uids_discovered \in Nat
          /\ Top \in Stack
      BY <2>2, <2>3, TopFacts DEF Clean, TopRange, Attempt
    <2> DEFINE n == Top
    <2>6. /\ n \in Nat /\ n >= 1 /\ Stack = 1 .. n /\ TopRange = m_uid_ranges[n]
      BY <2>2, <2>3, StackFacts DEF StackInv, Stack, Top, TopRange
    <2>7. TopRange.attempt > 0 => TopRange.uids_discovered > 0
      <3> SUFFICES ASSUME TopRange.attempt > 0
                   PROVE  TopRange.uids_discovered > 0
        OBVIOUS
      <3>1. Fruitful(Top)
        BY <2>0, <2>2, <2>5 DEF NotInVain, Attempt, TopRange
      <3>2. PICK j \in Top .. Top : \/ m_uid_ranges[j].uids_discovered > 0
                                    \/ Attempt(j) = 0
        BY <2>0, <3>1 DEF Fruitful
      <3>3. j = Top
        BY <2>6
      <3> QED  BY <2>5, <3>2, <3>3 DEF Attempt, TopRange
    <2>8. Attempted.attempt <= 1 /\ ~ LimitReached(Attempted)
      <3>1. Attempted.attempt \in Nat /\ Attempted.attempt <= 1
        BY <2>4, <2>5, <2>7
      <3>2. /\ Attempted.attempt # MAX_EMPTY_BRANCH_ATTEMPTS
            /\ Attempted.failures # MAX_BRANCH_FAILURES
        BY <2>4, <2>5, <3>1, ConstantsAssumption
      <3>3. ~ Attempted.branch_corrupt
        BY <2>4, <2>5
      <3>4. ~ LimitReached(Attempted)
        BY <3>2, <3>3, Zenon DEF LimitReached
      <3> QED  BY <3>1, <3>4
    <2>9. /\ m_uid_ranges' = WithTop(Attempted) /\ phase' = "Branch"
          /\ UNCHANGED m_tree_corrupt
      BY <2>3, <2>8
    <2>10. /\ Len(m_uid_ranges') = n /\ m_uid_ranges'[n] = Attempted
           /\ \A i \in 1 .. n - 1 : m_uid_ranges'[i] = m_uid_ranges[i]
      BY <2>2, <2>3, <2>4, <2>9, TopSet DEF StackInv
    <2>11. Stack' = 1 .. n /\ Top' = n /\ TopRange' = Attempted
      BY <2>6, <2>10 DEF Stack, Top, TopRange
    <2>12. AllAck'
      BY <2>0, <2>1, <2>2, <2>9 DEF AllAck
    <2>13. Clean'
      <3>1. \A i \in 1 .. n : /\ m_uid_ranges[i].attempt <= 1
                              /\ m_uid_ranges[i].failures = 0
                              /\ ~ m_uid_ranges[i].branch_corrupt
        BY <2>2, <2>6 DEF Clean, Attempt
      <3>2. ASSUME NEW i \in 1 .. n
            PROVE  /\ m_uid_ranges'[i].attempt <= 1
                   /\ m_uid_ranges'[i].failures = 0
                   /\ ~ m_uid_ranges'[i].branch_corrupt
        <4>1. CASE i \in 1 .. n - 1
          BY <2>10, <3>1, <4>1
        <4>2. CASE i = n
          BY <2>4, <2>5, <2>8, <2>10, <4>2
        <4> QED  BY <2>6, <4>1, <4>2
      <3>3. ~ m_tree_corrupt'
        BY <2>2, <2>9 DEF Clean
      <3> HIDE DEF n
      <3> QED  BY <2>11, <3>2, <3>3 DEF Clean, Attempt
    <2>14. ASSUME NEW i \in 1 .. n - 1, m_uid_ranges'[i].attempt > 0
           PROVE  Fruitful(i)'
      <3>1. Fruitful(i)
        <4>1. i \in Stack /\ Attempt(i) > 0
          BY <2>6, <2>10, <2>14 DEF Attempt
        <4> QED  BY <2>0, <2>2, <4>1 DEF NotInVain
      <3>2. PICK j \in i .. n :
               \/ m_uid_ranges[j].uids_discovered > 0
               \/ /\ Attempt(j) = 0
                  /\ \E u \in Missing : InRange(u, m_uid_ranges[j])
        BY <2>0, <3>1 DEF Fruitful
      <3>3. CASE j \in 1 .. n - 1
        <4>1. m_uid_ranges'[j] = m_uid_ranges[j]
          BY <2>10, <3>3
        <4> HIDE DEF n
        <4> QED
          BY <2>1, <2>11, <3>2, <4>1 DEF Fruitful, Attempt, InRange
      <3>4. CASE j = n /\ m_uid_ranges[j].uids_discovered > 0
        <4>1. m_uid_ranges'[j].uids_discovered > 0
          BY <2>4, <2>6, <2>10, <3>4
        <4> HIDE DEF n
        <4> QED  BY <2>11, <3>2, <4>1 DEF Fruitful
      <3>5. CASE j = n /\ \E u \in Missing : InRange(u, m_uid_ranges[j])
        <4>1. PICK u \in Missing : InRange(u, TopRange)
          BY <2>6, <3>5
        <4>2. InRange(u, Attempted)
          BY <2>4, <4>1 DEF InRange
        <4> QED  BY <2>1, <2>9, <2>11, <4>2 DEF Fruitful, InRange
      <3> QED  BY <2>6, <3>2, <3>3, <3>4, <3>5
    <2>15. NotInVain'
      <3>1. ASSUME NEW i \in 1 .. n, i < n PROVE i \in 1 .. n - 1
        BY <2>6, <3>1
      <3> HIDE DEF n
      <3> QED  BY <2>9, <2>11, <2>14, <3>1 DEF NotInVain, Attempt
    <2> QED  BY <2>12, <2>13, <2>15
  <1> QED  BY <1>1, <1>2 DEF SendDiscovery

\* Every step of a discovery that meets no error leaves it without one.
LEMMA ExactNext ==
    ASSUME BaseInv, AckedInv, CoverInv, ExactInv, [Next]_vars
    PROVE  ExactInv'
  <1>1. CASE UNCHANGED <<agentVars, phase, lineVars, acked>>
    <2>1. (Behaved' => Behaved) /\ Missing' = Missing /\ Good' = Good
      BY <1>1 DEF agentVars, lineVars, Behaved, Missing, Good, Present
    <2>2. AllAck => AllAck'
      BY <1>1, <2>1 DEF agentVars, lineVars, AllAck
    <2>3. Clean /\ NotInVain => Clean' /\ NotInVain'
      BY <1>1, <2>1
      DEF agentVars, Clean, NotInVain, Fruitful, Stack, Attempt, Top, TopRange,
          InRange
    <2> QED  BY <1>1, <2>1, <2>2, <2>3 DEF ExactInv
  <1>2. CASE LineChanges
    BY <1>2 DEF LineChanges, ExactInv
  <1>3. ASSUME NEW discovery, RequestDiscovery(discovery) PROVE ExactInv'
    BY <1>1, <1>3, StartExact DEF RequestDiscovery
  <1>4. CASE Abort
    <2>1. CASE phase' = "idle"
      BY <2>1 DEF ExactInv
    <2> QED  BY <1>4, <2>1, StartExact DEF Abort
  <1> QED
    BY <1>1, <1>2, <1>3, <1>4, MuteExact, BranchExact, BranchMuteExact, SendExact
    DEF Next, TargetAnswers, vars

\* So on a line that behaves no discovery ever meets an error.
LEMMA ExactInvariant == Spec => []ExactInv
  <1>1. Init => ExactInv
    BY DEF Init, ExactInv
  <1>2. BaseInv /\ AckedInv /\ CoverInv /\ ExactInv /\ [Next]_vars => ExactInv'
    BY ExactNext
  <1> QED
    BY <1>1, <1>2, BaseInvariant, AckedInvariant, CoverInvariant, PTL DEF Spec

\* Where every responder behaves, a discovery that runs to its end reports
\* success and exactly the responders that are there: none is missed, none that
\* has gone is kept, and no branch is called corrupt.
THEOREM ExactlyThePresent == Spec => []FindsExactlyThePresent
  <1>1. Init => FindsExactlyThePresent
    BY DEF Init, FindsExactlyThePresent
  <1>2. /\ BaseInv /\ AckedInv /\ CoverInv /\ ExactInv /\ FindsExactlyThePresent
        /\ [Next]_vars
        => FindsExactlyThePresent'
    <2> SUFFICES ASSUME BaseInv, AckedInv, CoverInv, ExactInv,
                        FindsExactlyThePresent, [Next]_vars, Behaved',
                        NEW i \in 1 .. Len(results'), results'[i].ran
                 PROVE  results'[i].status /\ results'[i].uids = Present'
      BY DEF FindsExactlyThePresent, Behaved
    <2>1. CASE /\ i \in 1 .. Len(results) /\ results'[i] = results[i]
               /\ UNCHANGED lineVars
      BY <2>1 DEF FindsExactlyThePresent, lineVars, Good, Present, Behaved
    <2>2. CASE /\ SendDiscovery /\ m_uid_ranges = <<>>
               /\ results'[i].uids = m_uids
               /\ results'[i].status = ~ m_tree_corrupt
      <3>1. /\ phase = "SendDiscovery" /\ Behaved
            /\ Good' = Good /\ Present' = Good
        BY <2>2 DEF SendDiscovery, lineVars, Good, Present, Behaved
      <3>2. Stack = {}
        BY <2>2 DEF Stack
      <3>3. Missing = {}
        BY <3>1, <3>2 DEF CoverInv, Covered, Behaved
      <3>4. ~ m_tree_corrupt /\ acked \subseteq Good /\ m_uids \subseteq acked
        BY <3>1 DEF ExactInv, AllAck, Clean, AckedInv
      <3> QED  BY <2>2, <3>1, <3>3, <3>4 DEF Missing
    <2> QED  BY <2>1, <2>2, ResultsOfStep DEF BaseInv
  <1> QED
    BY <1>1, <1>2, BaseInvariant, AckedInvariant, CoverInvariant,
       ExactInvariant, PTL DEF Spec

=============================================================================
