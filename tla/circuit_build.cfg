\* Two circuits through at most three relays.
CONSTANTS
  k1 = k1
  k2 = k2
  Circuits <- MCTwo
  MaxLen = 3
  Addr <- MCAddr
  Canonical = "canonical"
  Plans <- MCPlans
SPECIFICATION FairSpec
CHECK_DEADLOCK FALSE
INVARIANTS NobodyIsOrphaned PathAgrees
PROPERTIES EveryCircuitResolves
