------------------------------- MODULE Streams -------------------------------
(***************************************************************************)
(* What holds a stream back: who starts and stops the reading of the       *)
(* streams of a circuit (EdgeReading), what the XONs and XOFFs of one      *)
(* stream say (XonXoff), and how the circuit's window moves (Vegas).  They *)
(* share no variable: EdgeReading takes any fixed window and one XON for   *)
(* each XOFF, XonXoff any window that its SENDMEs reopen, Vegas any time   *)
(* for a SENDME to come.  So a behaviour runs one of them.                 *)
(***************************************************************************)
EXTENDS EdgeReading

\* Those of XonXoff; XoffBytes is its XoffLimit.
CONSTANTS Window, MaxCell, XoffBytes, XonRate, Burst, XoffScaleAt, XonScaleAt,
          XmitScaleAt, DrainedMax, RateMax, Rates, MaxBytes

\* Those of Vegas, which has Inc from EdgeReading.
CONSTANTS CwndInit, CwndMin, CwndMax, CwndInc, IncPctSs, IncRate, SsCap, SsMax,
          Alpha, Beta, Gamma, Delta, FullGap, FullMinPct, FullPerCwnd,
          EwmaCwndPct, EwmaMax, EwmaSs, RttResetPct, JumpRatio, Rtts, ChanQueues

VARIABLES part, snd, outstanding, data, rcv, ctl, valid,
          cc, is_monotime_clock_broken, settled

Stream == INSTANCE XonXoff WITH XoffLimit <- XoffBytes
Controller == INSTANCE Vegas

ASSUME StreamsAssumption == Stream!XonXoffAssumption /\ Controller!VegasAssumption

streamVars == <<snd, outstanding, data, rcv, ctl, valid>>
controllerVars == <<cc, is_monotime_clock_broken, settled>>
allVars == <<part, vars, streamVars, controllerVars>>

EdgeSteps == part = "edge" /\ UNCHANGED <<part, streamVars, controllerVars>>
StreamSteps == part = "xonxoff" /\ UNCHANGED <<part, vars, controllerVars>>
ControllerSteps == part = "vegas" /\ UNCHANGED <<part, vars, streamVars>>

StreamsInit ==
  /\ part \in {"edge", "xonxoff", "vegas"}
  /\ Init /\ Stream!Init /\ Controller!Init

StreamsNext ==
  \/ EdgeSteps /\ Next
  \/ StreamSteps /\ Stream!Next
  \/ ControllerSteps /\ Controller!Next

StreamsSpec == StreamsInit /\ [][StreamsNext]_allVars

(* The fairness of EdgeReading and of Vegas, each for its own behaviours.   *)
FairStreamsSpec ==
  /\ StreamsSpec
  /\ SF_allVars(EdgeSteps /\ Progress)
  /\ WF_allVars(\/ EdgeSteps /\ reenable_blocked_connections_cb
                \/ ControllerSteps /\ Controller!FairStep)

(* Everything that arrives for the streams is packaged and written out at   *)
(* the other end (AllDelivered of EdgeReading).                             *)
StreamsAreDelivered == part = "edge" => AllDelivered

(* Both ends agree on whether the stream is stopped, a stopped one has      *)
(* something buffered, the buffer is bounded, and no XON or XOFF of an      *)
(* honest receiver is refused (XonXoff).                                    *)
StreamEndsAgree ==
  /\ Stream!TypeOK /\ Stream!EndsAgree
  /\ Stream!StoppedWhileBuffering /\ Stream!BufferIsBounded
  /\ Stream!HonestCellsAreValid

(* Whatever the estimates do, the window keeps its limits, and a sender     *)
(* without room in it has enough cells out to make the other end answer     *)
(* (Vegas).                                                                 *)
WindowStaysUsable ==
  Controller!TypeOK /\ Controller!CwndInBounds /\ Controller!NeverStarved

(* A window that an abnormally low RTT put at its minimum grows again once  *)
(* the path is idle and its RTT steady (WedgeEnds of Vegas).                *)
WindowWedgeEnds == Controller!WedgeEnds
==============================================================================
