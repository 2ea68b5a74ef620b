-------------------------- MODULE MCDiscoveryAgent --------------------------
(* Every kind of responder. *)
EXTENDS DiscoveryAgent

MCKinds == {"absent", "good", "obnoxious", "nonmuting", "bipolar", "rambling"}
=============================================================================
