----------------------------- MODULE MCArtNetNode -----------------------------
(* Small instance: two nodes and two devices, which start behind one node, *)
(* whose table then takes two packets, and are moved one by one.           *)
EXTENDS ArtNetNode

CONSTANTS n1, n2, bcast, queued, label

MCNodes == {n1, n2}
MCUIDs == {1, 2}
Table(first, second) ==
    [n \in MCNodes |-> IF n = n1 THEN first ELSE second]
MCTables == {Table({1, 2}, {}), Table({1}, {2})}
MCRequests == {[id |-> 1, dest |-> 1, pid |-> label]}
=============================================================================
