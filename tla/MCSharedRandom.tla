---- MODULE MCSharedRandom ----
(* SharedRandom for TLC: three authorities, phases of one or two rounds.   *)
EXTENDS SharedRandom, TLC

CONSTANTS a1, a2, a3

MCAuths == {a1, a2, a3}
Symmetry == Permutations(MCAuths)
====
