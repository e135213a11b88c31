\* Congestion control: the window moves between 2 and 5 cells.
CONSTANTS
  UseCC = TRUE
  CIRCWINDOW_START = 4
  sendme_inc = 2
  circwindow = 4
  CwndInit = 4
  Cwnds = {2, 5}
  EmitVersion <- MCEmitMixed
  AcceptMin <- MCAcceptOne
  MaxData <- MCMaxData
  MaxOther <- MCMaxOther
SPECIFICATION FairSpec
CHECK_DEADLOCK FALSE
INVARIANTS NoProtocolClose WindowConservation EndsAgree SendmesMatchDigests NoLostWakeup
PROPERTIES BufferedDataGetsSent
