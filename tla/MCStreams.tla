------------------------------ MODULE MCStreams ------------------------------
(* The sets among the constants of Streams, for TLC: some drain rates and   *)
(* round-trip times, one of them that of a stalled clock.                   *)
EXTENDS Streams

MCRates == {0, 1, 4}
MCRtts == {0, 1, 2, 5}
MCChanQueues == {0, 3}
==============================================================================
