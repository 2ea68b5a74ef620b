--------------------------- MODULE DiscoveryAgent ---------------------------
(***************************************************************************)
(* The RDM discovery algorithm (common/rdm/DiscoveryAgent.cpp): un-mute    *)
(* every responder, mute the known ones, then search the UID tree with     *)
(* Discovery Unique Branch (DUB) messages, splitting a range in which      *)
(* responses collide and muting every responder found.                     *)
(*                                                                         *)
(* The agent talks to a target (a widget) that answers each call later.    *)
(* `phase' names the outstanding call.  SendDiscovery calls itself until   *)
(* it sends a DUB or runs out of ranges: one step per iteration, and no    *)
(* other action is possible in between (phase "SendDiscovery").            *)
(*                                                                         *)
(* The agent's only client in olad is the DiscoverableQueueingRDMController *)
(* in front of the widget: it starts the next discovery, if one is waiting, *)
(* from within the completion callback of the one before.                  *)
(***************************************************************************)
EXTENDS Integers, Sequences, FiniteSets

CONSTANTS
    MaxUID,                     \* UIDs are 0 .. MaxUID, MaxUID is AllDevices
    MAX_EMPTY_BRANCH_ATTEMPTS,
    MAX_BRANCH_FAILURES,
    MAX_MUTE_ATTEMPTS,
    Kinds,                      \* the kinds of responders that may be present
    Noise,                      \* the values `noisy' may start with
    MaxRequests                 \* bound on discoveries asked for

ASSUME ConstantsAssumption ==
    /\ MaxUID \in Nat
    /\ MAX_EMPTY_BRANCH_ATTEMPTS \in Nat \ {0, 1}
    /\ MAX_BRANCH_FAILURES \in Nat \ {0}
    /\ MAX_MUTE_ATTEMPTS \in Nat \ {0}
    /\ Noise \subseteq BOOLEAN
    /\ MaxRequests \in Nat

UIDs == 0 .. MaxUID

VARIABLES
    m_uids,            \* UIDs found
    m_bad_uids,        \* UIDs that did not acknowledge a mute
    m_uids_to_mute,    \* known UIDs still to be muted, taken in order
    m_uid_ranges,      \* stack of UIDRange, the top is last
    m_muting_uid,
    m_mute_attempts,
    m_tree_corrupt,
    m_on_complete,     \* a completion callback is set
    phase,             \* the call to the target that is outstanding
    waiting,           \* discovery the client starts when this one completes
    stopped,           \* the widget was stopped, the target is silent
    \* The line and the responders on it.
    kind,              \* kind[u]: how the responder with UID u behaves
    muted,             \* responders that are muted
    noisy,             \* the line is so bad that any answer may be received
    \* History, read by the properties only.
    asked,             \* discoveries the client asked for
    acked,             \* UIDs that acknowledged a mute in this discovery
    results            \* what callbacks were run with since this discovery
                       \* was started or the line changed

agentVars == <<m_uids, m_bad_uids, m_uids_to_mute, m_uid_ranges, m_muting_uid,
               m_mute_attempts, m_tree_corrupt, m_on_complete>>
lineVars == <<kind, muted, noisy>>
vars == <<agentVars, phase, waiting, stopped, lineVars, asked, acked, results>>

-----------------------------------------------------------------------------
(* Types *)

UIDRange == [lower: UIDs, upper: UIDs, parent: Nat, attempt: Nat,
             failures: Nat, uids_discovered: Nat, branch_corrupt: BOOLEAN]
Result == [ran: BOOLEAN, status: BOOLEAN, uids: SUBSET UIDs]
Calls == {"UnMuteAll", "IncrementalMute", "Branch", "BranchMute"}
Discoveries == {"full", "incremental"}

\* A range whose parent is at index `parent' of the stack, 0 for NULL.
NewRange(lower, upper, parent) ==
    [lower |-> lower, upper |-> upper, parent |-> parent, attempt |-> 0,
     failures |-> 0, uids_discovered |-> 0, branch_corrupt |-> FALSE]

\* Type invariant; the counters stay within the limits they are compared to
\* with ==, which a counter that skipped its limit would never meet.
TypeOK ==
    /\ m_uids \subseteq UIDs
    /\ m_bad_uids \subseteq UIDs
    /\ m_uids_to_mute \subseteq UIDs
    /\ m_uid_ranges \in Seq(UIDRange)
    /\ \A i \in 1 .. Len(m_uid_ranges) :
          /\ m_uid_ranges[i].attempt <= MAX_EMPTY_BRANCH_ATTEMPTS
          /\ m_uid_ranges[i].failures <= MAX_BRANCH_FAILURES
    /\ m_muting_uid \in UIDs
    /\ m_mute_attempts \in 0 .. MAX_MUTE_ATTEMPTS
    /\ m_tree_corrupt \in BOOLEAN
    /\ m_on_complete \in BOOLEAN
    /\ phase \in Calls \cup {"idle", "SendDiscovery"}
    /\ waiting \in Discoveries \cup {"none"}
    /\ stopped \in BOOLEAN
    /\ kind \in [UIDs -> Kinds]
    /\ muted \subseteq UIDs
    /\ noisy \in BOOLEAN
    /\ asked \in 0 .. MaxRequests
    /\ acked \subseteq UIDs
    /\ results \in Seq(Result)

\* On a noisy line it does not matter which responders there are.
Init ==
    /\ m_uids = {}
    /\ m_bad_uids = {}
    /\ m_uids_to_mute = {}
    /\ m_uid_ranges = <<>>
    /\ m_muting_uid = 0
    /\ m_mute_attempts = 0
    /\ m_tree_corrupt = FALSE
    /\ m_on_complete = FALSE
    /\ phase = "idle"
    /\ waiting = "none"
    /\ stopped = FALSE
    /\ noisy \in Noise
    /\ kind \in [UIDs -> Kinds]
    /\ noisy => \A u \in UIDs : kind[u] = "absent"
    /\ muted = {}
    /\ asked = 0
    /\ acked = {}
    /\ results = <<>>

-----------------------------------------------------------------------------
(* The responders, in the terms of DiscoveryAgentTestHelper.h *)

Present == {u \in UIDs : kind[u] # "absent"}
Good == {u \in UIDs : kind[u] = "good"}

\* Those that answer a DUB for lower - upper: an obnoxious responder although
\* it is muted, a bipolar one only while the range is wide.
Answering(lower, upper) ==
    {u \in Present :
        /\ lower <= u /\ u <= upper
        /\ u \in muted => kind[u] = "obnoxious"
        /\ kind[u] = "bipolar" => upper - lower > 1}

\* What the agent makes of the bytes it receives: the length is 0, the checks
\* of BranchComplete fail, or they name a UID.
Nothing == [type |-> "nothing", uid |-> 0]
Garbage == [type |-> "garbage", uid |-> 0]
Found(u) == [type |-> "found", uid |-> u]

BranchAnswers(lower, upper) ==
    LET answering == Answering(lower, upper)
    IN  IF noisy THEN {Nothing, Garbage} \cup {Found(u) : u \in UIDs}
        ELSE IF answering = {} THEN {Nothing}
        ELSE IF \/ Cardinality(answering) > 1
                \/ \E u \in answering : kind[u] = "rambling"
        THEN {Garbage}
        ELSE {Found(u) : u \in answering}

AcksMute(u) == kind[u] \in {"good", "obnoxious", "bipolar", "rambling"}

MuteAnswers(u) == IF noisy THEN BOOLEAN ELSE {AcksMute(u)}

\* A responder is plugged in, replaced or removed between two discoveries.
LineChanges ==
    /\ phase = "idle" /\ ~noisy /\ ~stopped /\ asked = 1
    /\ \E u \in UIDs, k \in Kinds :
          /\ k # kind[u]
          /\ kind' = [kind EXCEPT ![u] = k]
          /\ muted' = muted \ {u}
    /\ results' = <<>>
    /\ UNCHANGED <<agentVars, phase, waiting, stopped, noisy, asked, acked>>

-----------------------------------------------------------------------------
(* The private methods.  Their parameters are the members' values after    *)
(* what the caller has already assigned.                                   *)

RunCallback(ran, status, uids) ==
    Append(results, [ran |-> ran, status |-> status, uids |-> uids])

\* Mutant: a full discovery does not forget the UIDs of the one before.
InitDiscoveryKeeps(discovery) ==
    /\ m_on_complete' = TRUE
    /\ m_uids_to_mute' = IF discovery = "incremental" THEN m_uids ELSE {}
    /\ m_bad_uids' = {}
    /\ m_tree_corrupt' = FALSE
    /\ m_uid_ranges' = <<NewRange(0, MaxUID, 0)>>
    /\ phase' = "UnMuteAll"
    /\ acked' = {}
    /\ UNCHANGED <<m_uids, m_muting_uid, m_mute_attempts>>

\* InitDiscovery when no discovery runs.
InitDiscovery(discovery) ==
    /\ m_on_complete' = TRUE
    /\ m_uids_to_mute' = IF discovery = "incremental" THEN m_uids ELSE {}
    /\ m_uids' = IF discovery = "incremental" THEN m_uids ELSE {}
    /\ m_bad_uids' = {}
    /\ m_tree_corrupt' = FALSE
    /\ m_uid_ranges' = <<NewRange(0, MaxUID, 0)>>
    /\ phase' = "UnMuteAll"
    /\ acked' = {}
    /\ UNCHANGED <<m_muting_uid, m_mute_attempts>>

MaybeMuteNextDevice(uids) ==
    \/ /\ uids = {}
       /\ phase' = "SendDiscovery"
       /\ UNCHANGED <<m_uids_to_mute, m_muting_uid>>
    \/ /\ uids # {}
       /\ m_muting_uid' = CHOOSE u \in uids : \A v \in uids : u <= v
       /\ m_uids_to_mute' = uids \ {m_muting_uid'}
       /\ phase' = "IncrementalMute"

Top == Len(m_uid_ranges)
TopRange == m_uid_ranges[Top]
WithTop(range) == [m_uid_ranges EXCEPT ![Top] = range]

\* FreeCurrentRange: pop the top of `ranges', its count goes to its parent.
FreeCurrentRange(ranges) ==
    LET top == Len(ranges)
        range == ranges[top]
        rest == SubSeq(ranges, 1, top - 1)
    IN
    /\ m_uid_ranges' = IF top = 1 THEN rest
                       ELSE [rest EXCEPT ![range.parent].uids_discovered =
                                 @ + range.uids_discovered]
    /\ m_tree_corrupt' = (m_tree_corrupt \/ (top = 1 /\ range.branch_corrupt))

\* Mutant: both halves contain the mid point.
HandleCollisionOverlap ==
    LET lower == TopRange.lower
        upper == TopRange.upper
        mid == (lower + upper) \div 2
    IN
    /\ m_uid_ranges' =
         IF lower = upper
         THEN WithTop([TopRange EXCEPT !.failures = @ + 1])
         ELSE WithTop([TopRange EXCEPT !.uids_discovered = 0])
                \o <<NewRange(lower, mid, Top), NewRange(mid, upper, Top)>>
    /\ UNCHANGED m_tree_corrupt

\* Mutant: the mid point is in neither half.
HandleCollisionGap ==
    LET lower == TopRange.lower
        upper == TopRange.upper
        mid == (lower + upper) \div 2
    IN
    /\ m_uid_ranges' =
         IF lower = upper
         THEN WithTop([TopRange EXCEPT !.failures = @ + 1])
         ELSE WithTop([TopRange EXCEPT !.uids_discovered = 0])
                \o <<NewRange(lower, mid - 1, Top),
                     NewRange(mid + 1, upper, Top)>>
    /\ UNCHANGED m_tree_corrupt

\* HandleCollision: search the two halves, upper half first.
HandleCollision ==
    LET lower == TopRange.lower
        upper == TopRange.upper
        mid == (lower + upper) \div 2
    IN
    /\ m_uid_ranges' =
         IF lower = upper
         THEN WithTop([TopRange EXCEPT !.failures = @ + 1])
         ELSE WithTop([TopRange EXCEPT !.uids_discovered = 0])
                \o <<NewRange(lower, mid, Top), NewRange(mid + 1, upper, Top)>>
    /\ UNCHANGED m_tree_corrupt

-----------------------------------------------------------------------------
(* Calls of the client *)

\* RunFullDiscovery and RunIncrementalDiscovery of the queue: start the agent,
\* or wait for the running discovery; one that is waiting becomes a full one
\* when any of those who wait asked for it.
RequestDiscovery(discovery) ==
    /\ ~stopped
    /\ phase # "SendDiscovery"
    /\ asked < MaxRequests
    /\ asked' = asked + 1
    /\ \/ /\ ~m_on_complete
          /\ InitDiscovery(discovery)
          /\ results' = <<>>
          /\ UNCHANGED waiting
       \/ /\ m_on_complete
          /\ waiting' = IF waiting = "full" THEN waiting ELSE discovery
          /\ UNCHANGED <<agentVars, phase, acked, results>>
    /\ UNCHANGED <<stopped, lineVars>>

\* Abort, called when the widget stops and by the destructor.  It forgets the
\* callback before running it, so the client can start the waiting discovery,
\* which the next call aborts in turn.
Abort ==
    /\ phase # "SendDiscovery"
    /\ stopped' = TRUE
    /\ \/ /\ ~m_on_complete
          /\ m_uid_ranges' = <<>>
          /\ phase' = "idle"
          /\ UNCHANGED <<m_uids, m_bad_uids, m_uids_to_mute, m_muting_uid,
                         m_mute_attempts, m_tree_corrupt, m_on_complete,
                         waiting, acked, results>>
       \/ /\ m_on_complete
          /\ results' = RunCallback(FALSE, FALSE, {})
          /\ waiting' = "none"
          /\ IF waiting # "none" THEN InitDiscovery(waiting)
             ELSE /\ m_on_complete' = FALSE
                  /\ m_uid_ranges' = <<>>
                  /\ phase' = "idle"
                  /\ UNCHANGED <<m_uids, m_bad_uids, m_uids_to_mute,
                                 m_muting_uid, m_mute_attempts,
                                 m_tree_corrupt, acked>>
    /\ UNCHANGED <<lineVars, asked>>

-----------------------------------------------------------------------------
(* Answers of the target *)

UnMuteComplete ==
    /\ phase = "UnMuteAll" /\ ~stopped
    /\ muted' = {}
    /\ MaybeMuteNextDevice(m_uids_to_mute)
    /\ UNCHANGED <<m_uids, m_bad_uids, m_uid_ranges, m_mute_attempts,
                   m_tree_corrupt, m_on_complete, waiting, stopped, kind,
                   noisy, asked, acked, results>>

\* The responder behind a mute that is answered with `status'.
Muting(status) ==
    /\ muted' = IF status THEN muted \cup {m_muting_uid} ELSE muted
    /\ acked' = IF status THEN acked \cup {m_muting_uid} ELSE acked

\* Mutant: a known responder that has gone is kept.
IncrementalMuteKeeps(status) ==
    /\ phase = "IncrementalMute" /\ ~stopped
    /\ status \in MuteAnswers(m_muting_uid)
    /\ Muting(status)
    /\ MaybeMuteNextDevice(m_uids_to_mute)
    /\ UNCHANGED <<m_uids, m_bad_uids, m_uid_ranges, m_mute_attempts,
                   m_tree_corrupt, m_on_complete, waiting, stopped, kind,
                   noisy, asked, results>>

IncrementalMuteComplete(status) ==
    /\ phase = "IncrementalMute" /\ ~stopped
    /\ status \in MuteAnswers(m_muting_uid)
    /\ Muting(status)
    /\ m_uids' = IF status THEN m_uids ELSE m_uids \ {m_muting_uid}
    /\ MaybeMuteNextDevice(m_uids_to_mute)
    /\ UNCHANGED <<m_bad_uids, m_uid_ranges, m_mute_attempts, m_tree_corrupt,
                   m_on_complete, waiting, stopped, kind, noisy, asked,
                   results>>

BranchComplete(answer) ==
    /\ phase = "Branch" /\ ~stopped
    /\ answer \in BranchAnswers(TopRange.lower, TopRange.upper)
    /\ \/ /\ answer = Nothing
          /\ FreeCurrentRange(m_uid_ranges)
          /\ phase' = "SendDiscovery"
          /\ UNCHANGED <<m_muting_uid, m_mute_attempts>>
       \/ /\ answer = Garbage
          /\ HandleCollision
          /\ phase' = "SendDiscovery"
          /\ UNCHANGED <<m_muting_uid, m_mute_attempts>>
       \/ /\ answer.type = "found"
          /\ answer.uid \in m_uids \cup m_bad_uids
          /\ m_uid_ranges' = WithTop([TopRange EXCEPT !.failures = @ + 1])
          /\ phase' = "SendDiscovery"
          /\ UNCHANGED <<m_muting_uid, m_mute_attempts, m_tree_corrupt>>
       \/ /\ answer.type = "found"
          /\ answer.uid \notin m_uids \cup m_bad_uids
          /\ m_muting_uid' = answer.uid
          /\ m_mute_attempts' = 0
          /\ phase' = "BranchMute"
          /\ UNCHANGED <<m_uid_ranges, m_tree_corrupt>>
    /\ UNCHANGED <<m_uids, m_bad_uids, m_uids_to_mute, m_on_complete, waiting,
                   stopped, lineVars, asked, acked, results>>

\* Mutant: a UID that cannot be muted is not remembered.
BranchMuteForgets(status) ==
    /\ phase = "BranchMute" /\ ~stopped
    /\ status \in MuteAnswers(m_muting_uid)
    /\ Muting(status)
    /\ m_mute_attempts' = m_mute_attempts + 1
    /\ m_uids' = IF status THEN m_uids \cup {m_muting_uid} ELSE m_uids
    /\ m_uid_ranges' =
         IF status THEN WithTop([TopRange EXCEPT !.uids_discovered = @ + 1])
         ELSE m_uid_ranges
    /\ phase' = IF status \/ m_mute_attempts' >= MAX_MUTE_ATTEMPTS
                THEN "SendDiscovery" ELSE phase
    /\ UNCHANGED <<m_bad_uids, m_uids_to_mute, m_muting_uid, m_tree_corrupt,
                   m_on_complete, waiting, stopped, kind, noisy, asked,
                   results>>

BranchMuteComplete(status) ==
    /\ phase = "BranchMute" /\ ~stopped
    /\ status \in MuteAnswers(m_muting_uid)
    /\ Muting(status)
    /\ m_mute_attempts' = m_mute_attempts + 1
    /\ \/ /\ status
          /\ m_uids' = m_uids \cup {m_muting_uid}
          /\ m_uid_ranges' =
               WithTop([TopRange EXCEPT !.uids_discovered = @ + 1])
          /\ phase' = "SendDiscovery"
          /\ UNCHANGED m_bad_uids
       \/ /\ ~status
          /\ m_mute_attempts' < MAX_MUTE_ATTEMPTS
          /\ UNCHANGED <<m_uids, m_bad_uids, m_uid_ranges, phase>>
       \/ /\ ~status
          /\ m_mute_attempts' >= MAX_MUTE_ATTEMPTS
          /\ m_bad_uids' = m_bad_uids \cup {m_muting_uid}
          /\ phase' = "SendDiscovery"
          /\ UNCHANGED <<m_uids, m_uid_ranges>>
    /\ UNCHANGED <<m_uids_to_mute, m_muting_uid, m_tree_corrupt,
                   m_on_complete, waiting, stopped, kind, noisy, asked,
                   results>>

-----------------------------------------------------------------------------
(* SendDiscovery *)

\* The stack is empty: the callback is run while m_on_complete still holds
\* it, so a discovery the client starts from there is refused.
Complete ==
    /\ m_uid_ranges = <<>>
    /\ LET refused == [ran |-> FALSE, status |-> FALSE, uids |-> {}]
       IN  results' = RunCallback(TRUE, ~m_tree_corrupt, m_uids)
                         \o (IF waiting = "none" THEN <<>> ELSE <<refused>>)
    /\ waiting' = "none"
    /\ m_on_complete' = FALSE
    /\ phase' = "idle"
    /\ UNCHANGED <<m_uid_ranges, m_tree_corrupt>>

LimitReached(range) ==
    \/ range.failures = MAX_BRANCH_FAILURES
    \/ range.attempt = MAX_EMPTY_BRANCH_ATTEMPTS
    \/ range.branch_corrupt

SearchTop ==
    LET range == IF TopRange.uids_discovered = 0
                 THEN [TopRange EXCEPT !.attempt = @ + 1] ELSE TopRange
        ranges == IF range.parent = 0 THEN WithTop(range)
                  ELSE [WithTop(range) EXCEPT
                           ![range.parent].branch_corrupt = TRUE]
    IN
    /\ m_uid_ranges # <<>>
    /\ \/ /\ LimitReached(range)
          /\ FreeCurrentRange(ranges)
          /\ UNCHANGED phase
       \/ /\ ~LimitReached(range)
          /\ m_uid_ranges' = WithTop(range)
          /\ phase' = "Branch"
          /\ UNCHANGED m_tree_corrupt
    /\ UNCHANGED <<results, waiting, m_on_complete>>

SendDiscovery ==
    /\ phase = "SendDiscovery"
    /\ Complete \/ SearchTop
    /\ UNCHANGED <<m_uids, m_bad_uids, m_uids_to_mute, m_muting_uid,
                   m_mute_attempts, stopped, lineVars, asked, acked>>

-----------------------------------------------------------------------------

TargetAnswers ==
    \/ UnMuteComplete
    \/ \E status \in BOOLEAN : IncrementalMuteComplete(status)
    \/ phase = "Branch" /\ \E answer \in {Nothing, Garbage}
                               \cup {Found(u) : u \in UIDs} :
                             BranchComplete(answer)
    \/ \E status \in BOOLEAN : BranchMuteComplete(status)

Next ==
    \/ LineChanges
    \/ \E discovery \in Discoveries : RequestDiscovery(discovery)
    \/ Abort
    \/ TargetAnswers
    \/ SendDiscovery

\* The target answers every call, SendDiscovery runs on, and a widget that is
\* stopped is destroyed.
Fairness ==
    /\ WF_vars(TargetAnswers)
    /\ WF_vars(SendDiscovery)
    /\ WF_vars(stopped /\ Abort)

Spec == Init /\ [][Next]_vars
FairSpec == Spec /\ Fairness

-----------------------------------------------------------------------------
(* Properties *)

\* The stack is a path through the UID tree: below every range lies its
\* parent, which covers it, and the ranges with the same parent are disjoint.
\* The parent pointers of DiscoveryAgent therefore never dangle, and no
\* handler looks at the top of an empty stack.
StackIsPath ==
    /\ \A i \in 1 .. Len(m_uid_ranges) :
          LET range == m_uid_ranges[i]
          IN  /\ range.lower <= range.upper
              /\ range.parent = 0 <=> i = 1
              /\ range.parent < i
              /\ i > 1 => /\ m_uid_ranges[range.parent].lower <= range.lower
                          /\ range.upper <= m_uid_ranges[range.parent].upper
    /\ \A i, j \in 1 .. Len(m_uid_ranges) :
          i < j /\ m_uid_ranges[i].parent = m_uid_ranges[j].parent =>
              m_uid_ranges[i].upper < m_uid_ranges[j].lower
    /\ phase \in {"Branch", "BranchMute"} => m_uid_ranges # <<>>

\* On a line where every responder behaves, a discovery reports success and
\* exactly the responders that are there, also an incremental one after some
\* were added or removed.
FindsExactlyThePresent ==
    ~noisy /\ Present = Good =>
        \A i \in 1 .. Len(results) :
            results[i].ran => results[i].status /\ results[i].uids = Present

\* However the others behave, no well-behaved responder is missed: a range is
\* only abandoned after its halves have been searched.
FindsEveryGood ==
    ~noisy =>
        \A i \in 1 .. Len(results) :
            results[i].ran => Good \subseteq results[i].uids

\* Even on a line that garbles everything, no UID is reported that did not
\* acknowledge a mute in this very discovery.
ReportsOnlyAcked ==
    \A i \in 1 .. Len(results) :
        results[i].ran => results[i].uids \subseteq acked

\* Whatever is received, discovery comes to an end.
Terminates == m_on_complete ~> ~m_on_complete

\* "This will either run immediately or after the current request completes"
\* (QueueingRDMController.cpp:244): every discovery a client asked for is
\* really run, unless the widget stops.  The code does not provide this: a
\* discovery started from within m_on_complete is refused, see InitDiscovery.
EveryDiscoveryRuns ==
    ~stopped => \A i \in 1 .. Len(results) : results[i].ran
=============================================================================
