\* Two guards, two circuits and three changes of the world around them; three
\* servers of the hosts file.
SPECIFICATION MCSpec
CONSTANTS
  g1 = g1
  g2 = g2
  c1 = c1
  c2 = c2
  Guards <- MCGuards
  Circuits <- MCCircuits
  MinFiltered = 1
  MaxSample = 2
  SamplePercent = 100
  NPrimary = 1
  NToUse = 1
  Retry <- MCRetry
  LikelyDown = 0
  ConnectTimeout = 1
  IdleTimeout = 0
  Constrained = TRUE
  NoGuard = NoGuard
  Never <- MCNever
  Consensuses <- MCConsensuses
  Filters <- MCFilters
  Excluded <- MCExcluded
  MaxEvents = 3
SYMMETRY MCSymmetry
CHECK_DEADLOCK FALSE
INVARIANTS SelectionAgrees CleanMeansSaved FetchesAreRight
PROPERTIES UpgradedWhenNeeded
