------------------------ MODULE RDMControllerContract ------------------------
(***************************************************************************)
(* What every RDMControllerInterface promises its caller                   *)
(* (include/ola/rdm/RDMControllerInterface.h): a request that is sent is   *)
(* answered, by running its callback, once.  How and when is up to the     *)
(* implementation: the call itself may run the callback, an answer may     *)
(* come later, and several requests may be given up together.              *)
(*                                                                         *)
(* This is the specification that QueueingRDMController and ArtNetNode are *)
(* shown to implement.                                                     *)
(***************************************************************************)
EXTENDS Naturals

CONSTANT Requests

VARIABLES
    outstanding,  \* requests sent whose callback has not been run
    answers       \* answers[r]: how often r's callback has been run

vars == <<outstanding, answers>>

Init ==
    /\ outstanding = {}
    /\ answers = [r \in Requests |-> 0]

\* SendRDMRequest(r, on_complete) with an r that was not sent before.
Fresh(r) == r \notin outstanding /\ answers[r] = 0

\* The call returns and the answer comes later.
Send(r) ==
    /\ Fresh(r)
    /\ outstanding' = outstanding \cup {r}
    /\ UNCHANGED answers

\* The callback is run before the call returns.
AnswerAtOnce(r) ==
    /\ Fresh(r)
    /\ answers' = [answers EXCEPT ![r] = 1]
    /\ UNCHANGED outstanding

\* The callbacks of some requests are run.
Answer(done) ==
    /\ done # {}
    /\ outstanding' = outstanding \ done
    /\ answers' = [r \in Requests |-> IF r \in done THEN 1 ELSE answers[r]]

Next ==
    \/ \E r \in Requests : Send(r) \/ AnswerAtOnce(r)
    \/ \E done \in SUBSET outstanding : Answer(done)

Spec == Init /\ [][Next]_vars

\* "as time tends to infinity, the probably that the callback is run tends
\* to 1": no request stays outstanding.
Answered == \A r \in Requests : r \in outstanding ~> r \notin outstanding

=============================================================================
