--------------------------- MODULE MCE131Inflator ---------------------------
(* Three sources for two places, two priorities, and sequence numbers that  *)
(* wrap after four packets.                                                 *)
EXTENDS E131Inflator, TLC

CONSTANTS s1, s2, s3

MCSources == {s1, s2, s3}
MCSymmetry == Permutations(MCSources)
=============================================================================
