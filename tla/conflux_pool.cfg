\* Sets of two legs; one more launch may recover a leg that closed.
CONSTANTS
  NumLegs = 2
  Retries = 1
  MaxLegs = 3
SPECIFICATION FairSpec
CHECK_DEADLOCK FALSE
INVARIANTS ObjectsOwned HandshakeAgrees
PROPERTIES NothingLeaks
