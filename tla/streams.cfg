CONSTANTS
\* Two streams on a circuit with a window of three cells.
  NumStreams = 2
  Data = 3
  Cwnd = 3
  Inc = 2
  High = 2
  Low = 1
  XoffLimit = 1
\* A stream of 11 bytes whose counters are not scaled down.
  Window = 2
  MaxCell = 1
  XoffBytes = 4
  XonRate = 2
  Burst = 1
  XoffScaleAt = 20
  XonScaleAt = 20
  XmitScaleAt = 40
  DrainedMax = 16
  RateMax = 4
  Rates <- MCRates
  MaxBytes = 11
\* Windows of four to eight cells, increments of two.
  CwndInit = 4
  CwndMin = 4
  CwndMax = 8
  CwndInc = 1
  IncPctSs = 100
  IncRate = 1
  SsCap = 6
  SsMax = 7
  Alpha = 2
  Beta = 3
  Gamma = 4
  Delta = 5
  FullGap = 1
  FullMinPct = 25
  FullPerCwnd = TRUE
  EwmaCwndPct = 50
  EwmaMax = 10
  EwmaSs = 2
  RttResetPct = 100
  JumpRatio = 10
  Rtts <- MCRtts
  ChanQueues <- MCChanQueues
SPECIFICATION FairStreamsSpec
CHECK_DEADLOCK FALSE
INVARIANTS NoStreamLeftBehind StreamEndsAgree WindowStaysUsable
PROPERTIES StreamsAreDelivered WindowWedgeEnds
