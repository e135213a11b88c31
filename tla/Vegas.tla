-------------------------------- MODULE Vegas --------------------------------
(***************************************************************************)
(* The congestion control of one end of a circuit: TOR_VEGAS and the RTT   *)
(* and bandwidth-delay estimates it works from                             *)
(* (core/or/congestion_control_vegas.c, congestion_control_common.c).      *)
(* Cells are sent while the window has room; the other end acknowledges    *)
(* every Inc of them with a SENDME, and each SENDME updates the estimates, *)
(* which way the window moves, and the counters that say when it may move  *)
(* again.  The time a SENDME took is arbitrary (0 when the clock has       *)
(* stalled), and so is whether the channel blocks the circuit.             *)
(*                                                                         *)
(* The arithmetic is that of the code on naturals; VegasAssumption says    *)
(* for which parameters no subtraction of it wraps around.                 *)
(***************************************************************************)
EXTENDS Naturals

CONSTANTS
    Inc,                        \* sendme_inc
    CwndInit, CwndMin, CwndMax, CwndInc,
    IncPctSs, IncRate,          \* cwnd_inc_pct_ss, cwnd_inc_rate
    SsCap, SsMax,               \* ss_cwnd_cap, ss_cwnd_max
    Alpha, Beta, Gamma, Delta,
    FullGap, FullMinPct, FullPerCwnd,
    EwmaCwndPct, EwmaMax, EwmaSs, RttResetPct,
    JumpRatio,                  \* DELTA_DISCREPENCY_RATIO_MAX
    Rtts,                       \* RTTs that can be measured, 0 a stalled clock
    ChanQueues                  \* possible lengths of a blocked circuit's queue

Larger(a, b) == IF a < b THEN b ELSE a
Smaller(a, b) == IF a < b THEN a ELSE b

VegasAssumption ==
    /\ {Inc, CwndInc, IncRate, SsCap, SsMax, JumpRatio, EwmaMax, EwmaSs}
          \subseteq Nat \ {0}
    /\ {CwndInit, CwndMin, CwndMax, IncPctSs, Alpha, Beta, Gamma, Delta,
        FullGap, FullMinPct, EwmaCwndPct} \subseteq Nat
    /\ RttResetPct \in 0 .. 100 /\ FullPerCwnd \in BOOLEAN
    /\ Rtts \subseteq Nat /\ ChanQueues \subseteq Nat
    /\ \E r \in Rtts : \A s \in Rtts : s <= r
    /\ Inc <= CwndMin /\ Inc <= CwndInit /\ CwndInit <= CwndMax
    /\ CwndMin <= CwndMax /\ CwndMin <= SsMax
    /\ CwndInc <= CwndMin /\ CwndInc <= CwndInit /\ CwndInc <= Delta
    /\ Smaller(CwndInit, CwndMin) <= Gamma

VARIABLES
    cc,         \* congestion_control_t
    is_monotime_clock_broken,
    settled     \* from now on the path is idle: one RTT, nothing blocks

vars == <<cc, is_monotime_clock_broken, settled>>

CongestionControl ==
    [cwnd : Nat, inflight : Nat,
     ewma_rtt_usec : Nat, min_rtt_usec : Nat, bdp : Nat,
     next_cc_event : Nat, next_cwnd_event : Nat,
     in_slow_start : BOOLEAN, cwnd_full : BOOLEAN, blocked_chan : BOOLEAN]

\* congestion_control_init(): one update per SENDME in slow start
Init ==
    /\ cc = [cwnd |-> CwndInit, inflight |-> 0,
             ewma_rtt_usec |-> 0, min_rtt_usec |-> 0, bdp |-> 0,
             next_cc_event |-> 1, next_cwnd_event |-> 0,
             in_slow_start |-> TRUE, cwnd_full |-> FALSE,
             blocked_chan |-> FALSE]
    /\ is_monotime_clock_broken = FALSE
    /\ settled = FALSE

-----------------------------------------------------------------------------
(* Round-trip time.                                                        *)

CWND_UPDATE_RATE(c) ==
    IF c.in_slow_start THEN 1
    ELSE (c.cwnd + (IncRate * Inc) \div 2) \div (IncRate * Inc)

SENDME_PER_CWND(c) == (c.cwnd + Inc \div 2) \div Inc

n_ewma_count(c) ==
    Larger(2, IF c.in_slow_start THEN EwmaSs
              ELSE Smaller((CWND_UPDATE_RATE(c) * EwmaCwndPct) \div 100,
                           EwmaMax))

n_count_ewma(curr, prev, n) ==
    IF prev = 0 THEN curr ELSE (2 * curr + (n - 1) * prev) \div (n + 1)

percent_max_mix(a, b, pct) ==
    (pct * Larger(a, b)) \div 100 + ((100 - pct) * Smaller(a, b)) \div 100

time_delta_should_use_heuristics(c) ==
    ~ c.in_slow_start /\ c.ewma_rtt_usec # 0

SuddenDecrease(c, rtt) == c.ewma_rtt_usec > rtt * JumpRatio
SuddenIncrease(c, rtt) == rtt > c.ewma_rtt_usec * JumpRatio

time_delta_stalled_or_jumped(c, rtt, broken) ==
    \/ rtt = 0
    \/ /\ time_delta_should_use_heuristics(c)
       /\ IF SuddenDecrease(c, rtt) THEN broken ELSE SuddenIncrease(c, rtt)

\* What the same function leaves in is_monotime_clock_broken.
ClockBrokenAfter(c, rtt, broken) ==
    \/ rtt = 0
    \/ /\ broken
       /\ time_delta_should_use_heuristics(c) =>
              SuddenDecrease(c, rtt) \/ SuddenIncrease(c, rtt)

FaultyMinRtt(c, ewma) ==
    IF c.min_rtt_usec = 0 \/ ewma < c.min_rtt_usec THEN ewma
    ELSE c.min_rtt_usec

\* At the smallest window the minimum is raised again.
MinRtt(c, ewma) ==
    IF c.min_rtt_usec = 0 THEN ewma
    ELSE IF c.cwnd = CwndMin /\ ~ c.in_slow_start
    THEN percent_max_mix(ewma, c.min_rtt_usec, RttResetPct)
    ELSE Smaller(ewma, c.min_rtt_usec)

congestion_control_update_circuit_rtt(c, rtt, broken) ==
    IF time_delta_stalled_or_jumped(c, rtt, broken) THEN c
    ELSE LET ewma == n_count_ewma(rtt, c.ewma_rtt_usec, n_ewma_count(c))
         IN [c EXCEPT !.ewma_rtt_usec = ewma, !.min_rtt_usec = MinRtt(c, ewma)]

-----------------------------------------------------------------------------
(* Bandwidth-delay product: c is the state after the RTT update.           *)

\* The clock has been stalled all along: the window is the estimate, less
\* what a blocked circuit has queued.
BdpWithoutClock(c, blocked, chan_q) ==
    [c EXCEPT !.blocked_chan = blocked,
              !.bdp = IF ~ blocked THEN c.cwnd
                      ELSE IF chan_q >= c.cwnd THEN CwndMin
                      ELSE Larger(c.cwnd - chan_q, CwndMin)]

\* Becoming blocked or unblocked is a congestion signal of its own.
BdpFromRtt(c, blocked) ==
    [c EXCEPT !.bdp = (c.cwnd * c.min_rtt_usec) \div c.ewma_rtt_usec,
              !.next_cc_event = IF blocked # c.blocked_chan THEN 0 ELSE @,
              !.blocked_chan = blocked]

congestion_control_update_circuit_bdp(c, blocked, chan_q) ==
    IF c.ewma_rtt_usec = 0 THEN BdpWithoutClock(c, blocked, chan_q)
    ELSE BdpFromRtt(c, blocked)

-----------------------------------------------------------------------------
(* The window.                                                             *)

\* rfc3742_ss_inc(): slow start slows down above ss_cwnd_cap
rfc3742_ss_inc(c) ==
    IF c.cwnd <= SsCap THEN (IncPctSs * Inc + 50) \div 100
    ELSE Larger((Inc * SsCap + c.cwnd) \div (2 * c.cwnd), 1)

cwnd_became_full(c) == c.inflight + FullGap * Inc >= c.cwnd
cwnd_became_nonfull(c) == 100 * c.inflight < FullMinPct * c.cwnd

FullStatus(c) ==
    [c EXCEPT !.cwnd_full = \/ cwnd_became_full(c)
                            \/ @ /\ ~ cwnd_became_nonfull(c)]

QueueUse(c) == IF c.bdp > c.cwnd THEN 0 ELSE c.cwnd - c.bdp

\* One update in slow start; leaving it is part of the same update.
SlowStartStep(c) ==
    IF QueueUse(c) >= Gamma \/ c.blocked_chan
    THEN [c EXCEPT !.cwnd = c.bdp + Gamma, !.in_slow_start = FALSE]
    ELSE IF c.cwnd_full THEN [c EXCEPT !.cwnd = @ + rfc3742_ss_inc(c),
              !.in_slow_start = rfc3742_ss_inc(c)
                  * SENDME_PER_CWND([c EXCEPT !.cwnd = @ + rfc3742_ss_inc(c)])
                  > CwndInc * IncRate]
    ELSE c

SlowStartCapped(c) ==
    IF c.cwnd >= SsMax
    THEN [c EXCEPT !.cwnd = SsMax, !.in_slow_start = FALSE] ELSE c

\* One update in steady state.
FaultySteadyState(c) ==
    [c EXCEPT !.cwnd =
        IF QueueUse(c) > Delta THEN c.bdp + Delta - CwndInc
        ELSE IF QueueUse(c) > Beta \/ c.blocked_chan THEN c.cwnd - CwndInc
        ELSE IF c.cwnd_full /\ QueueUse(c) < Alpha THEN c.cwnd + CwndInc
        ELSE c.cwnd]

SteadyState(c) ==
    [c EXCEPT !.cwnd = Larger(CwndMin,
        IF QueueUse(c) > Delta THEN c.bdp + Delta - CwndInc
        ELSE IF QueueUse(c) > Beta \/ c.blocked_chan THEN c.cwnd - CwndInc
        ELSE IF c.cwnd_full /\ QueueUse(c) < Alpha THEN c.cwnd + CwndInc
        ELSE c.cwnd)]

CountedDown(c) ==
    [c EXCEPT !.next_cc_event = IF @ = 0 THEN 0 ELSE @ - 1,
              !.next_cwnd_event = IF @ = 0 THEN 0 ELSE @ - 1]

\* Counters that have run out start again, with the new window.
Rearmed(c) ==
    [c EXCEPT
        !.next_cwnd_event = IF @ = 0 THEN SENDME_PER_CWND(c) ELSE @,
        !.next_cc_event = IF @ = 0 THEN CWND_UPDATE_RATE(c) ELSE @]

cwnd_full_reset(c) ==
    IF FullPerCwnd THEN c.next_cwnd_event = SENDME_PER_CWND(c)
    ELSE c.next_cc_event = CWND_UPDATE_RATE(c)

FullReset(c) == [c EXCEPT !.cwnd_full = @ /\ ~ cwnd_full_reset(c)]

\* The steps of an update in their order; each takes the result of the one
\* before, so each set has one element.
Windows(c) ==
    IF c.in_slow_start THEN {SlowStartCapped(s) : s \in {SlowStartStep(c)}}
    ELSE IF c.next_cc_event = 0 THEN {SteadyState(c)} ELSE {c}

Updated(c) ==
    {FullReset(r) : r \in {Rearmed(w) : w \in
        UNION {Windows(f) : f \in {FullStatus(c)}}}}

\* The algorithm runs only if an RTT was measured or the channel blocks.
congestion_control_vegas_process_sendme(c, rtt, broken, blocked, chan_q) ==
    LET measured == ~ time_delta_stalled_or_jumped(c, rtt, broken)
        estimates ==
            {congestion_control_update_circuit_bdp(t, blocked, chan_q) :
                t \in {congestion_control_update_circuit_rtt(c, rtt, broken)}}
    IN {[u EXCEPT !.inflight = @ - Inc] : u \in
            IF blocked \/ measured THEN UNION {Updated(e) : e \in estimates}
            ELSE estimates}

congestion_control_dispatch_cc_alg(rtt, broken, blocked, chan_q) ==
    {[u EXCEPT !.cwnd = Smaller(@, CwndMax)] : u \in
        UNION {congestion_control_vegas_process_sendme(
                   c, rtt, broken, blocked, chan_q) : c \in {CountedDown(cc)}}}

-----------------------------------------------------------------------------

congestion_control_get_package_window(c) ==
    IF c.inflight > c.cwnd THEN 0 ELSE c.cwnd - c.inflight

congestion_control_note_cell_sent ==
    /\ congestion_control_get_package_window(cc) > 0
    /\ cc' = [cc EXCEPT !.inflight = @ + 1]
    /\ UNCHANGED <<is_monotime_clock_broken, settled>>

\* The SENDME for the oldest Inc cells arrives.  On a settled path it comes
\* when the sender has filled its window.
sendme_process_circuit_level(rtt, blocked, chan_q) ==
    /\ cc.inflight >= Inc
    /\ cc' \in congestion_control_dispatch_cc_alg(
                 rtt, is_monotime_clock_broken, blocked, chan_q)
    /\ is_monotime_clock_broken' =
           ClockBrokenAfter(cc, rtt, is_monotime_clock_broken)
    /\ UNCHANGED settled

AnySendme ==
    \E rtt \in Rtts, blocked \in BOOLEAN, chan_q \in ChanQueues :
        sendme_process_circuit_level(rtt, blocked, chan_q)

PathRtt == CHOOSE r \in Rtts : \A s \in Rtts : s <= r

Settle ==
    /\ ~ settled /\ settled' = TRUE
    /\ UNCHANGED <<cc, is_monotime_clock_broken>>

SettledSendme ==
    /\ settled /\ congestion_control_get_package_window(cc) = 0
    /\ sendme_process_circuit_level(PathRtt, FALSE, 0)

Next ==
    \/ congestion_control_note_cell_sent
    \/ ~ settled /\ AnySendme
    \/ Settle
    \/ SettledSendme

Spec == Init /\ [][Next]_vars

\* A sender with data to send fills its window, and the SENDMEs come back.
\* On a settled path only one of the two can happen at a time.
FairStep == congestion_control_note_cell_sent \/ SettledSendme

Fairness == WF_vars(FairStep)

FairSpec == Spec /\ Fairness

-----------------------------------------------------------------------------
(* Properties.                                                             *)

\* The counters and estimates are naturals, the flags Boolean.
TypeOK ==
    /\ cc \in CongestionControl
    /\ is_monotime_clock_broken \in BOOLEAN
    /\ settled \in BOOLEAN

\* Whatever the estimates do, the window stays between its limits.
CwndInBounds == cc.cwnd >= Smaller(CwndInit, CwndMin) /\ cc.cwnd <= CwndMax

\* A sender that waits for room in its window waits for a SENDME that the
\* other end can send: enough cells are out to make up a whole increment.
NeverStarved ==
    congestion_control_get_package_window(cc) = 0 => cc.inflight >= Inc

\* cwnd_full is reset only at the end of a window: the comment on
\* cwnd_full_reset() says "we reset cwnd_full once per congestion window".
FullResetPerWindow ==
    [][cc.cwnd_full /\ cwnd_became_full(cc) /\ ~ cc'.cwnd_full
           => cc.next_cwnd_event <= 1]_vars

\* The estimate a SENDME leads to does not exceed the window it is compared
\* with; the code says of the other case that it should not happen anymore.
BdpWithinCwnd ==
    [][cc'.inflight < cc.inflight => cc'.bdp <= cc.cwnd]_vars

\* A window that hit its minimum because of an abnormally low RTT does not
\* stay there: on an idle path with a steady RTT it grows again.
WedgeEnds == settled ~> cc.cwnd > CwndMin
=============================================================================
