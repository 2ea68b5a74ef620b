---------------------- MODULE MCQueueingRDMController ----------------------
(* Small instance: three requests, two of them to the same device, one full *)
(* and one incremental discovery.                                           *)
EXTENDS QueueingRDMController

CONSTANTS r1, r2, r3, full, incremental, uid1, uid2

MCRequests == {r1, r2, r3}
MCTwoRequests == {r1, r3}
MCOrigins == {uid1, uid2}
MCOrigin == [r \in Requests |-> IF r = r3 THEN uid2 ELSE uid1]
MCSizes == {0, 1}
MCDiscoveries == {full, incremental}
MCFullDiscoveries == {full}
=============================================================================
