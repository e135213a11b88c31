--------------------------- MODULE MCChannelCircuits -------------------------
(* The instance of ChannelCircuits for TLC: two circuits, at the same time  *)
(* or one after the other with the same ID, on a channel that the relay     *)
(* loads, fails to write to and closes.                                     *)
EXTENDS ChannelCircuits, TLC

CONSTANTS k1, k2, i1, i2

MCCircuits == {k1, k2}
MCIds == {i1, i2}
MCRelay == {"relay"}
MCSymmetry == Permutations(MCCircuits) \cup Permutations(MCIds)
=============================================================================
