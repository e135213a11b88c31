SPECIFICATION Spec
CONSTANTS
  a1 = a1
  a2 = a2
  a3 = a3
  None = None
  Auths <- MCAuths
  N_ROUNDS = 2
  Agreements = 3
  Start = 2
  End = 9
  MaxCrashes = 1
  MaxLost = 1
SYMMETRY Symmetry
INVARIANTS OneConsensusPerRound OneCommitPerRun
PROPERTY SrvIsAgreed
