----------------------------- MODULE MCScheduler -----------------------------
(* The instance of Scheduler for TLC: two channels, one of which may close. *)
EXTENDS Scheduler

CONSTANTS c1, c2

MCChannels == {c1, c2}
MCNoTimer == -1
==============================================================================
