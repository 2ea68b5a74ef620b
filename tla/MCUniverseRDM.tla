--------------------------- MODULE MCUniverseRDM ----------------------------
(* Ports, UIDs and discoveries are interchangeable. *)
EXTENDS UniverseRDM, TLC

Symmetry == Permutations(Ports) \cup Permutations(UIDs)
                \cup Permutations(Discoveries)
=============================================================================
