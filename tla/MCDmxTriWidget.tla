--------------------------- MODULE MCDmxTriWidget ---------------------------
(* Two responders, and a request for each way a request is handled.         *)
EXTENDS DmxTriWidget

CONSTANTS u1, u2, all, esta

Request(command, dest) == [command |-> command, dest |-> dest]
MCRequests == {Request("REMOTE", u1), Request("REMOTE", esta),
               Request("QUEUED_GET", u2), Request("QUEUED_GET", all),
               Request("OTHER", esta), Request("DUB", all)}
MCLists == {<<>>, <<u1>>, <<u2, u1>>}
=============================================================================
