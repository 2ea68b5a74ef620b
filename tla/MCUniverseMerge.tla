-------------------------- MODULE MCUniverseMerge ---------------------------
(* Frames of different lengths whose HTP merge is neither of them, and an   *)
(* empty one.                                                               *)
EXTENDS UniverseMerge

CONSTANTS p1, c1

MCClientOrder == <<c1>>
MCFrames == {<<>>, <<1>>, <<0, 1>>}
=============================================================================
