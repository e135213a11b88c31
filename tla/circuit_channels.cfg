\* Two circuits whose origins know the first relay by different addresses.
CONSTANTS
  k1 = k1
  k2 = k2
  Circuits <- MCTwo
  MaxLen = 3
  Addr <- MCAddr
  Canonical = "canonical"
  Plans <- MCPlans
SPECIFICATION Spec
CHECK_DEADLOCK FALSE
INVARIANT UsesSuitableChannels
