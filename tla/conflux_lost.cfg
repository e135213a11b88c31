\* A leg closes with less than an increment in flight.
CONSTANTS
  Legs <- MCTwoLegs
  Failures <- MCTwoLegs
  CanBlock = {}
  Alg <- MCAlg
  RTTs = {1, 2}
  Cwnds = {2}
  sendme_inc = 2
  Commands <- MCDataBack
  MaxSend <- MCMaxSend
SPECIFICATION Spec
INVARIANTS NothingLost
CHECK_DEADLOCK FALSE
