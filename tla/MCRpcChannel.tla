---------------------------- MODULE MCRpcChannel ----------------------------
(* Small instance: a connection with an RDM request, a discovery and a call *)
(* that fails at once, so that two sequence numbers are reused, and one     *)
(* with a stream, a call of an unknown method and one olad cannot read.     *)
EXTENDS RpcChannel

CONSTANTS c1, c2, a1, a2

MCConnections == {c1, c2}
MCAddresses == {a1, a2}
Call(name, c, kind) == [name |-> name, on |-> c, kind |-> kind]
MCCalls == {Call(1, c1, "rdm"), Call(2, c1, "discovery"),
            Call(3, c1, "failing"), Call(1, c2, "unknown"),
            Call(2, c2, "stream"), Call(3, c2, "malformed")}
=============================================================================
