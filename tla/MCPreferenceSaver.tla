-------------------------- MODULE MCPreferenceSaver --------------------------
(* Small instance: two preference files. *)
EXTENDS PreferenceSaver

CONSTANTS ports, universes

MCFiles == {ports, universes}
=============================================================================
