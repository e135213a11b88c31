\* Two legs, one of which may block and either of which may close while cells are in
\* flight.
CONSTANTS
  Legs <- MCTwoLegs
  Failures <- MCTwoLegs
  CanBlock = {1}
  Alg <- MCAlg
  RTTs = {1, 2}
  Cwnds = {2}
  sendme_inc = 2
  Commands <- MCMixedBack
  MaxSend <- MCMaxSend
SPECIFICATION FairSpec
CHECK_DEADLOCK FALSE
INVARIANTS SequencesAgree LossIsBounded
PROPERTIES IsOrderedStream EverythingDelivered
