SPECIFICATION FairSpec
CONSTANTS
  c1 = c1
  c2 = c2
  Channels <- MCChannels
  Modes = {"vanilla", "kist"}
  High = 1
  Low = 1
  WriteAfter = 0
  Interval = 1
  MaxLimit = 1
  MaxCells = 2
  MaxDestroys = 1
  DirectTo = 1
  Closers = {c1}
  NoChannel = NoChannel
  NoTimer <- MCNoTimer
  Huge = 100
CHECK_DEADLOCK FALSE
INVARIANTS ChannelsAreScheduled
PROPERTIES CellsMove
