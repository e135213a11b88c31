---------------------------- MODULE StreamsProofs ----------------------------
(***************************************************************************)
(* Proofs about what holds a stream back (Streams).  Of the controller:    *)
(* whatever round-trip times it is told, the window keeps its limits and   *)
(* never gets too small for an increment.  Of the two ends of a stream:    *)
(* they agree on whether it is stopped, the buffer is bounded, and the     *)
(* sender never has a reason to complain of the receiver's XONs and XOFFs. *)
(*                                                                         *)
(* What is on its way is described by functions over the positions of a    *)
(* queue, 0 for its front: s[j] is how many SENDMEs there are up to j, and *)
(* t[j] what the sender will have been told when it has handled the cells  *)
(* up to j (OnItsWay).  So what the sender was told last is t[0], what the *)
(* receiver said last is t[Len(ctl)], and the cells that were sent before  *)
(* an XOFF arrived are bounded by the SENDMEs behind it (BufferFits).      *)
(*                                                                         *)
(* That the sender finds enough bytes for every XON and XOFF follows from  *)
(* three such totals (Accounted): of the bytes on their way, the XONs and  *)
(* the XOFFs; and from what the receiver has counted since its last XON,   *)
(* which pays for the next (Pays).                                         *)
(*                                                                         *)
(* Of the sending end of the circuit: no stream is forgotten.  The handlers*)
(* package and start streams in loops over the list of them, wherever the  *)
(* list begins and however large a share each stream is given; one relation*)
(* describes all of it (Packs), what a stream needs so that nobody has to  *)
(* start it is kept by it (Settled), and a turn of a loop that broke this  *)
(* would have a first (NatLeast).  The state is right between two steps    *)
(* when besides that the data of each stream is bounded (CellsCounted), the*)
(* window and what it counts make the congestion window (Balanced) and the *)
(* XONs and XOFFs on their way turn what the sender was told into what the *)
(* receiver said last (AllTold).                                           *)
(***************************************************************************)
EXTENDS Streams, Integers, TLAPS, WellFoundedInduction

-----------------------------------------------------------------------------
(* The controller (Vegas).                                                 *)

(* What is divided stays a natural number.                                 *)
LEMMA DivNat == ASSUME NEW a \in Nat, NEW b \in Nat \ {0} PROVE a \div b \in Nat
  OBVIOUS

CwndFloor == Controller!Smaller(CwndInit, CwndMin)

(* A window that is large enough, in the middle of an update. *)
Usable(c) == c \in Controller!CongestionControl /\ c.cwnd >= CwndFloor

(* A window at its floor still has room for an increment.                  *)
LEMMA FloorFits ==
  ASSUME Controller!VegasAssumption
  PROVE  CwndFloor \in Nat /\ Inc <= CwndFloor /\ CwndInc <= CwndFloor
         /\ CwndFloor <= Gamma /\ CwndFloor <= CwndMin /\ CwndFloor <= CwndMax
         /\ CwndFloor <= SsMax
  BY DEF Controller!VegasAssumption, CwndFloor, Controller!Smaller

(* The round-trip estimates move neither the window nor the count of cells.*)
LEMMA RttUpdated ==
  ASSUME Controller!VegasAssumption, NEW c \in Controller!CongestionControl,
         NEW rtt \in Nat, NEW broken
  PROVE  LET t == Controller!congestion_control_update_circuit_rtt(c, rtt, broken)
         IN  t \in Controller!CongestionControl /\ t.cwnd = c.cwnd /\ t.inflight = c.inflight
<1> DEFINE ewma == Controller!n_count_ewma(rtt, c.ewma_rtt_usec, Controller!n_ewma_count(c))
           m == Controller!MinRtt(c, ewma)
<1>1. Inc \in Nat \ {0} /\ IncRate \in Nat \ {0} /\ EwmaSs \in Nat
      /\ EwmaMax \in Nat /\ EwmaCwndPct \in Nat /\ RttResetPct \in 0 .. 100
  BY DEF Controller!VegasAssumption
<1>2. Controller!n_ewma_count(c) \in Nat
  <2>1. (IncRate * Inc) \in Nat \ {0}
    BY <1>1
  <2>2. Controller!CWND_UPDATE_RATE(c) \in Nat
    <3>1. (IncRate * Inc) \div 2 \in Nat
      BY <2>1, DivNat
    <3>2. c.cwnd + (IncRate * Inc) \div 2 \in Nat
      BY <3>1 DEF Controller!CongestionControl
    <3> QED BY <2>1, <3>2, DivNat DEF Controller!CWND_UPDATE_RATE
  <2>3. Controller!CWND_UPDATE_RATE(c) * EwmaCwndPct \in Nat
    BY <2>2, <1>1
  <2>4. (Controller!CWND_UPDATE_RATE(c) * EwmaCwndPct) \div 100 \in Nat
    BY <2>3, DivNat
  <2> QED BY <2>4, <1>1 DEF Controller!n_ewma_count, Controller!Larger,
                            Controller!Smaller
<1>3. ewma \in Nat
  <2>1. CASE c.ewma_rtt_usec = 0
    BY <2>1, <1>1 DEF Controller!n_count_ewma
  <2>2. CASE c.ewma_rtt_usec # 0
    <3> DEFINE n == Controller!n_ewma_count(c)
    <3>1. n - 1 \in Nat
      BY <1>2, <1>1 DEF Controller!n_ewma_count, Controller!Larger
    <3>2. c.ewma_rtt_usec \in Nat
      BY DEF Controller!CongestionControl
    <3>3. (n - 1) * c.ewma_rtt_usec \in Nat
      BY <3>1, <3>2
    <3>4. 2 * rtt + (n - 1) * c.ewma_rtt_usec \in Nat
      BY <3>3, <1>1
    <3>5. n + 1 \in Nat \ {0}
      BY <1>2
    <3>6. (2 * rtt + (n - 1) * c.ewma_rtt_usec) \div (n + 1) \in Nat
      BY <3>4, <3>5, DivNat
    <3> QED BY <3>6, <2>2 DEF Controller!n_count_ewma
  <2> QED BY <2>1, <2>2
<1>4. m \in Nat
  <2>1. c.min_rtt_usec \in Nat
    BY DEF Controller!CongestionControl
  <2>2. Controller!percent_max_mix(ewma, c.min_rtt_usec, RttResetPct) \in Nat
    <3>1. /\ Controller!Larger(ewma, c.min_rtt_usec) \in Nat
          /\ Controller!Smaller(ewma, c.min_rtt_usec) \in Nat
      BY <1>3, <2>1 DEF Controller!Larger, Controller!Smaller
    <3>2. RttResetPct * Controller!Larger(ewma, c.min_rtt_usec) \in Nat
      BY <3>1, <1>1
    <3>3. (100 - RttResetPct) * Controller!Smaller(ewma, c.min_rtt_usec) \in Nat
      BY <3>1, <1>1
    <3>4. /\ (RttResetPct * Controller!Larger(ewma, c.min_rtt_usec)) \div 100 \in Nat
          /\ ((100 - RttResetPct) * Controller!Smaller(ewma, c.min_rtt_usec)) \div 100 \in Nat
      BY <3>2, <3>3, DivNat
    <3> QED BY <3>4 DEF Controller!percent_max_mix
  <2> QED BY <1>3, <2>1, <2>2 DEF Controller!MinRtt, Controller!Smaller
<1> HIDE DEF ewma, m
<1> QED BY <1>3, <1>4 DEF Controller!congestion_control_update_circuit_rtt,
                          Controller!CongestionControl, ewma, m

(* Nor does the bandwidth-delay estimate.                                  *)
LEMMA BdpUpdated ==
  ASSUME Controller!VegasAssumption, NEW c \in Controller!CongestionControl,
         NEW blocked \in BOOLEAN,
         NEW chan_q \in Nat
  PROVE  LET t == Controller!congestion_control_update_circuit_bdp(c, blocked, chan_q)
         IN  t \in Controller!CongestionControl /\ t.cwnd = c.cwnd /\ t.inflight = c.inflight
<1>1. CwndMin \in Nat
  BY DEF Controller!VegasAssumption
<1>2. CASE c.ewma_rtt_usec = 0
  <2> DEFINE b == IF ~ blocked THEN c.cwnd
                  ELSE IF chan_q >= c.cwnd THEN CwndMin
                  ELSE Controller!Larger(c.cwnd - chan_q, CwndMin)
  <2>1. c.cwnd \in Nat
    BY DEF Controller!CongestionControl
  <2>2. b \in Nat
    BY <1>1, <2>1 DEF Controller!Larger
  <2>3. Controller!congestion_control_update_circuit_bdp(c, blocked, chan_q)
          = [c EXCEPT !.blocked_chan = blocked, !.bdp = b]
    BY <1>2 DEF Controller!congestion_control_update_circuit_bdp,
                Controller!BdpWithoutClock
  <2> HIDE DEF b
  <2> QED BY <2>2, <2>3 DEF Controller!CongestionControl
<1>3. CASE c.ewma_rtt_usec # 0
  <2> DEFINE b == (c.cwnd * c.min_rtt_usec) \div c.ewma_rtt_usec
  <2>1. c.cwnd * c.min_rtt_usec \in Nat /\ c.ewma_rtt_usec \in Nat \ {0}
    BY <1>3 DEF Controller!CongestionControl
  <2>2. b \in Nat
    BY <2>1, DivNat
  <2> HIDE DEF b
  <2> QED BY <2>2, <1>3 DEF Controller!congestion_control_update_circuit_bdp,
                            Controller!BdpFromRtt, Controller!CongestionControl, b
<1> QED BY <1>2, <1>3

(* Slow start ends with a window above the floor.                          *)
LEMMA SlowStart ==
  ASSUME Controller!VegasAssumption, NEW c, Usable(c)
  PROVE  /\ Usable(Controller!SlowStartCapped(Controller!SlowStartStep(c)))
         /\ Controller!SlowStartStep(c).inflight = c.inflight
<1>1. /\ c \in Controller!CongestionControl
      /\ c.cwnd \in Nat /\ c.bdp \in Nat /\ c.cwnd >= CwndFloor
  BY DEF Usable, Controller!CongestionControl
<1>2. CwndFloor \in Nat \ {0} /\ CwndFloor <= Gamma /\ CwndFloor <= SsMax /\ Gamma \in Nat
      /\ SsMax \in Nat /\ Inc \in Nat /\ SsCap \in Nat /\ IncPctSs \in Nat
  BY FloorFits DEF Controller!VegasAssumption
<1>3. Controller!rfc3742_ss_inc(c) \in Nat
  <2>1. IncPctSs * Inc + 50 \in Nat /\ Inc * SsCap + c.cwnd \in Nat
    BY <1>1, <1>2
  <2>2. 2 * c.cwnd \in Nat \ {0}
    BY <1>1, <1>2
  <2>3. (IncPctSs * Inc + 50) \div 100 \in Nat
    BY <2>1, DivNat
  <2>4. (Inc * SsCap + c.cwnd) \div (2 * c.cwnd) \in Nat
    BY <2>1, <2>2, DivNat
  <2> QED BY <2>3, <2>4 DEF Controller!rfc3742_ss_inc, Controller!Larger
<1> DEFINE i == Controller!rfc3742_ss_inc(c)
           more == i * Controller!SENDME_PER_CWND([c EXCEPT !.cwnd = @ + i]) > CwndInc * IncRate
<1>4. i \in Nat /\ more \in BOOLEAN
  BY <1>3
<1>5. Controller!SlowStartStep(c) =
        IF Controller!QueueUse(c) >= Gamma \/ c.blocked_chan
        THEN [c EXCEPT !.cwnd = c.bdp + Gamma, !.in_slow_start = FALSE]
        ELSE IF c.cwnd_full THEN [c EXCEPT !.cwnd = @ + i, !.in_slow_start = more]
        ELSE c
  BY DEF Controller!SlowStartStep
<1> HIDE DEF i, more
<1>6. Usable(Controller!SlowStartStep(c)) /\ Controller!SlowStartStep(c).inflight = c.inflight
  <2>1. CASE Controller!QueueUse(c) >= Gamma \/ c.blocked_chan
    <3> DEFINE g == c.bdp + Gamma
    <3>1. g \in Nat /\ g >= CwndFloor
      BY <1>1, <1>2
    <3>2. Controller!SlowStartStep(c) = [c EXCEPT !.cwnd = g, !.in_slow_start = FALSE]
      BY <1>5, <2>1
    <3> HIDE DEF g
    <3> QED BY <1>1, <3>1, <3>2 DEF Usable, Controller!CongestionControl
  <2>2. CASE ~(Controller!QueueUse(c) >= Gamma \/ c.blocked_chan) /\ c.cwnd_full
    <3> DEFINE g == c.cwnd + i
    <3>1. g \in Nat /\ g >= CwndFloor
      BY <1>1, <1>2, <1>4
    <3>2. Controller!SlowStartStep(c) = [c EXCEPT !.cwnd = g, !.in_slow_start = more]
      BY <1>1, <1>5, <2>2
    <3> HIDE DEF g
    <3> QED BY <1>1, <1>4, <3>1, <3>2 DEF Usable, Controller!CongestionControl
  <2>3. CASE ~(Controller!QueueUse(c) >= Gamma \/ c.blocked_chan) /\ ~c.cwnd_full
    BY <1>1, <1>5, <2>3 DEF Usable
  <2> QED BY <2>1, <2>2, <2>3
<1> QED BY <1>6, <1>2 DEF Controller!SlowStartCapped, Usable,
                          Controller!CongestionControl

(* So does a step of the steady state.                                     *)
LEMMA SteadyStep ==
  ASSUME Controller!VegasAssumption, NEW c, Usable(c)
  PROVE  Usable(Controller!SteadyState(c))
<1>1. /\ c \in Controller!CongestionControl
      /\ c.cwnd \in Nat /\ c.bdp \in Nat /\ c.cwnd >= CwndFloor
  BY DEF Usable, Controller!CongestionControl
<1>2. CwndFloor \in Nat /\ CwndInc <= CwndFloor /\ CwndFloor <= CwndMin /\ CwndMin \in Nat
      /\ CwndInc \in Nat /\ Delta \in Nat /\ CwndInc <= Delta
  BY FloorFits DEF Controller!VegasAssumption
<1> DEFINE w == Controller!Larger(CwndMin,
        IF Controller!QueueUse(c) > Delta THEN c.bdp + Delta - CwndInc
        ELSE IF Controller!QueueUse(c) > Beta \/ c.blocked_chan THEN c.cwnd - CwndInc
        ELSE IF c.cwnd_full /\ Controller!QueueUse(c) < Alpha THEN c.cwnd + CwndInc
        ELSE c.cwnd)
<1>3. w \in Nat /\ w >= CwndFloor
  BY <1>1, <1>2 DEF Controller!Larger
<1>4. Controller!SteadyState(c) = [c EXCEPT !.cwnd = w]
  BY DEF Controller!SteadyState
<1> HIDE DEF w
<1> QED BY <1>1, <1>3, <1>4 DEF Usable, Controller!CongestionControl

(* One whole update keeps the window above the floor.                      *)
LEMMA OneUpdate ==
  ASSUME Controller!VegasAssumption, NEW c, Usable(c), NEW u \in Controller!Updated(c)
  PROVE  Usable(u) /\ u.inflight = c.inflight
<1> DEFINE f == Controller!FullStatus(c)
<1>1. Usable(f) /\ f.inflight = c.inflight
  <2> DEFINE b == \/ Controller!cwnd_became_full(c)
                  \/ c.cwnd_full /\ ~ Controller!cwnd_became_nonfull(c)
  <2>1. b \in BOOLEAN
    OBVIOUS
  <2>2. f = [c EXCEPT !.cwnd_full = b]
    BY DEF Controller!FullStatus
  <2> HIDE DEF b, f
  <2> QED BY <2>1, <2>2 DEF Usable, Controller!CongestionControl
<1>2. PICK w \in Controller!Windows(f) : u = Controller!FullReset(Controller!Rearmed(w))
  BY DEF Controller!Updated
<1> HIDE DEF f
<1>3. Usable(w) /\ w.inflight = c.inflight
  <2>1. CASE f.in_slow_start
    <3>1. w = Controller!SlowStartCapped(Controller!SlowStartStep(f))
      BY <2>1, <1>2 DEF Controller!Windows
    <3>2. /\ Usable(Controller!SlowStartCapped(Controller!SlowStartStep(f)))
          /\ Controller!SlowStartStep(f).inflight = f.inflight
      BY <1>1, SlowStart
    <3>3. Controller!SlowStartCapped(Controller!SlowStartStep(f)).inflight
            = Controller!SlowStartStep(f).inflight
      BY DEF Controller!SlowStartCapped
    <3> QED BY <1>1, <3>1, <3>2, <3>3
  <2>2. CASE ~f.in_slow_start /\ f.next_cc_event = 0
    <3>1. w = Controller!SteadyState(f)
      BY <2>2, <1>2 DEF Controller!Windows
    <3>2. Usable(Controller!SteadyState(f)) /\ Controller!SteadyState(f).inflight = f.inflight
      BY <1>1, SteadyStep DEF Controller!SteadyState
    <3> QED BY <1>1, <3>1, <3>2
  <2>3. CASE ~f.in_slow_start /\ f.next_cc_event # 0
    BY <1>1, <1>2, <2>3 DEF Controller!Windows
  <2> QED BY <2>1, <2>2, <2>3
<1> DEFINE r == Controller!Rearmed(w)
<1>4. Usable(r) /\ r.inflight = c.inflight
  <2>1. Inc \in Nat \ {0} /\ IncRate \in Nat \ {0}
    BY DEF Controller!VegasAssumption
  <2>2. w.cwnd \in Nat
    BY <1>3 DEF Usable, Controller!CongestionControl
  <2>3. Controller!SENDME_PER_CWND(w) \in Nat
    <3>1. Inc \div 2 \in Nat
      BY <2>1, DivNat
    <3>2. w.cwnd + Inc \div 2 \in Nat
      BY <3>1, <2>2
    <3> QED BY <3>2, <2>1, DivNat DEF Controller!SENDME_PER_CWND
  <2>4. Controller!CWND_UPDATE_RATE(w) \in Nat
    <3>1. (IncRate * Inc) \in Nat \ {0}
      BY <2>1
    <3>2. (IncRate * Inc) \div 2 \in Nat
      BY <3>1, DivNat
    <3>3. w.cwnd + (IncRate * Inc) \div 2 \in Nat
      BY <3>2, <2>2
    <3> QED BY <3>1, <3>3, DivNat DEF Controller!CWND_UPDATE_RATE
  <2> DEFINE n == IF w.next_cwnd_event = 0 THEN Controller!SENDME_PER_CWND(w)
                  ELSE w.next_cwnd_event
             m == IF w.next_cc_event = 0 THEN Controller!CWND_UPDATE_RATE(w)
                  ELSE w.next_cc_event
  <2>5. n \in Nat /\ m \in Nat
    BY <1>3, <2>3, <2>4 DEF Usable, Controller!CongestionControl
  <2>6. r = [w EXCEPT !.next_cwnd_event = n, !.next_cc_event = m]
    BY <1>3 DEF Controller!Rearmed, Usable, Controller!CongestionControl
  <2> HIDE DEF n, m, r
  <2> QED BY <1>3, <2>5, <2>6 DEF Usable, Controller!CongestionControl
<1> HIDE DEF r
<1> DEFINE b == (r.cwnd_full /\ ~ Controller!cwnd_full_reset(r))
<1>5. u = [r EXCEPT !.cwnd_full = b]
  BY <1>2 DEF Controller!FullReset, r
<1>6. b \in BOOLEAN
  OBVIOUS
<1> HIDE DEF b
<1> QED BY <1>4, <1>5, <1>6 DEF Usable, Controller!CongestionControl

(* What a SENDME leaves, the maximum window included.                      *)
LEMMA Dispatched ==
  ASSUME Controller!VegasAssumption, Controller!TypeOK, Controller!CwndInBounds,
         cc.inflight >= Inc,
         NEW rtt \in Nat, NEW broken, NEW blocked \in BOOLEAN, NEW chan_q \in Nat,
         NEW d \in Controller!congestion_control_dispatch_cc_alg(rtt, broken, blocked,
         chan_q)
  PROVE  d \in Controller!CongestionControl /\ d.cwnd >= CwndFloor /\ d.cwnd <= CwndMax
<1> DEFINE c == Controller!CountedDown(cc)
<1>1. Usable(c) /\ c.inflight = cc.inflight
  <2> DEFINE n == IF cc.next_cwnd_event = 0 THEN 0 ELSE cc.next_cwnd_event - 1
             m == IF cc.next_cc_event = 0 THEN 0 ELSE cc.next_cc_event - 1
  <2>1. cc \in Controller!CongestionControl /\ n \in Nat /\ m \in Nat
    BY DEF Controller!TypeOK, Controller!CongestionControl
  <2>2. c = [cc EXCEPT !.next_cc_event = m, !.next_cwnd_event = n]
    BY <2>1 DEF Controller!CountedDown
  <2> HIDE DEF n, m
  <2> QED BY <2>1, <2>2 DEF Controller!CwndInBounds, CwndFloor, Usable,
                            Controller!CongestionControl
<1>2. PICK u \in Controller!congestion_control_vegas_process_sendme(
                   c, rtt, broken, blocked, chan_q) :
        d = [u EXCEPT !.cwnd = Controller!Smaller(@, CwndMax)]
  BY DEF Controller!congestion_control_dispatch_cc_alg
<1> HIDE DEF c
<1> DEFINE t == Controller!congestion_control_update_circuit_rtt(c, rtt, broken)
           e == Controller!congestion_control_update_circuit_bdp(t, blocked, chan_q)
<1>3. t \in Controller!CongestionControl /\ t.cwnd = c.cwnd /\ t.inflight = c.inflight
  BY <1>1, RttUpdated DEF Usable
<1> HIDE DEF t
<1>4. e \in Controller!CongestionControl /\ e.cwnd = t.cwnd /\ e.inflight = t.inflight
  BY <1>3, BdpUpdated
<1>5. Usable(e) /\ e.inflight = cc.inflight
  BY <1>1, <1>3, <1>4 DEF Usable
<1>6. PICK v \in {e} \cup Controller!Updated(e) : u = [v EXCEPT !.inflight = @ - Inc]
  <2>1. PICK v : /\ v \in IF blocked \/ ~ Controller!time_delta_stalled_or_jumped(c, rtt, broken)
                          THEN UNION {Controller!Updated(x) : x \in {e}} ELSE {e}
                 /\ u = [v EXCEPT !.inflight = @ - Inc]
    BY <1>2 DEF Controller!congestion_control_vegas_process_sendme, t
  <2>2. UNION {Controller!Updated(x) : x \in {e}} = Controller!Updated(e)
    OBVIOUS
  <2> QED BY <2>1, <2>2
<1> HIDE DEF e
<1>7. Usable(v) /\ v.inflight = cc.inflight
  BY <1>5, <1>6, OneUpdate
<1>8. Inc \in Nat /\ CwndMax \in Nat /\ CwndFloor \in Nat /\ CwndFloor <= CwndMax
  BY FloorFits DEF Controller!VegasAssumption
<1> DEFINE i == v.inflight - Inc
           x == Controller!Smaller(v.cwnd, CwndMax)
<1>9. i \in Nat /\ x \in Nat /\ x >= CwndFloor /\ x <= CwndMax
  BY <1>7, <1>8 DEF Usable, Controller!CongestionControl, Controller!Smaller
<1>10. d = [v EXCEPT !.inflight = i, !.cwnd = x]
  BY <1>2, <1>6, <1>7 DEF Usable, Controller!CongestionControl
<1> HIDE DEF i, x
<1> QED BY <1>7, <1>9, <1>10 DEF Usable, Controller!CongestionControl

(* Every step of the controller keeps its types and limits.                *)
LEMMA WindowStep ==
  ASSUME Controller!VegasAssumption, Controller!TypeOK, Controller!CwndInBounds,
         [Controller!Next]_Controller!vars
  PROVE  Controller!TypeOK' /\ Controller!CwndInBounds'
<1>1. CASE Controller!congestion_control_note_cell_sent
  BY <1>1 DEF Controller!congestion_control_note_cell_sent, Controller!TypeOK,
              Controller!CwndInBounds, Controller!CongestionControl
<1>2. ASSUME NEW rtt \in Nat, NEW blocked \in BOOLEAN, NEW chan_q \in Nat,
             Controller!sendme_process_circuit_level(rtt, blocked, chan_q)
      PROVE  Controller!TypeOK' /\ Controller!CwndInBounds'
  <2>1. cc' \in Controller!CongestionControl /\ cc'.cwnd >= CwndFloor /\ cc'.cwnd <= CwndMax
    BY <1>2, Dispatched DEF Controller!sendme_process_circuit_level
  <2>2. Controller!ClockBrokenAfter(cc, rtt, is_monotime_clock_broken) \in BOOLEAN
    BY DEF Controller!ClockBrokenAfter
  <2> QED BY <1>2, <2>1, <2>2 DEF Controller!sendme_process_circuit_level,
                                  Controller!TypeOK, Controller!CwndInBounds,
                                  CwndFloor
<1>3. CASE Controller!Settle
  BY <1>3 DEF Controller!Settle, Controller!TypeOK, Controller!CwndInBounds
<1>4. CASE Controller!SettledSendme
  <2>1. Controller!PathRtt \in Nat
    <3>1. PICK r \in Rtts : \A s \in Rtts : s <= r
      BY DEF Controller!VegasAssumption
    <3>2. Controller!PathRtt \in Rtts
      <4>1. \E q \in Rtts : \A s \in Rtts : s <= q
        BY <3>1
      <4> QED BY <4>1, Zenon DEF Controller!PathRtt
    <3> QED BY <3>2 DEF Controller!VegasAssumption
  <2>2. Controller!sendme_process_circuit_level(Controller!PathRtt, FALSE, 0)
    BY <1>4 DEF Controller!SettledSendme
  <2>3. FALSE \in BOOLEAN /\ 0 \in Nat
    OBVIOUS
  <2> QED BY <1>2, <2>1, <2>2, <2>3
<1>5. CASE UNCHANGED Controller!vars
  BY <1>5 DEF Controller!vars, Controller!TypeOK, Controller!CwndInBounds
<1>6. Rtts \subseteq Nat /\ ChanQueues \subseteq Nat
  BY DEF Controller!VegasAssumption
<1> QED BY <1>1, <1>2, <1>3, <1>4, <1>5, <1>6
   DEF Controller!Next, Controller!AnySendme

(* They hold at the start.                                                 *)
LEMMA WindowStart ==
  ASSUME Controller!VegasAssumption, Controller!Init
  PROVE  Controller!TypeOK /\ Controller!CwndInBounds
<1>1. CwndInit \in Nat /\ CwndMin \in Nat /\ CwndMax \in Nat /\ CwndInit <= CwndMax
  BY DEF Controller!VegasAssumption
<1>2. cc = [cwnd |-> CwndInit, inflight |-> 0,
            ewma_rtt_usec |-> 0, min_rtt_usec |-> 0, bdp |-> 0,
            next_cc_event |-> 1, next_cwnd_event |-> 0,
            in_slow_start |-> TRUE, cwnd_full |-> FALSE, blocked_chan |-> FALSE]
      /\ is_monotime_clock_broken = FALSE /\ settled = FALSE
  BY DEF Controller!Init
<1>3. cc \in Controller!CongestionControl /\ cc.cwnd = CwndInit
  BY <1>1, <1>2 DEF Controller!CongestionControl
<1>4. Controller!Smaller(CwndInit, CwndMin) <= CwndInit
  BY <1>1 DEF Controller!Smaller
<1> QED BY <1>1, <1>2, <1>3, <1>4 DEF Controller!TypeOK, Controller!CwndInBounds

(* A full window is a whole increment.                                     *)
LEMMA NotStarved ==
  ASSUME Controller!VegasAssumption, Controller!TypeOK, Controller!CwndInBounds
  PROVE  Controller!NeverStarved
<1>1. CwndFloor \in Nat /\ Inc <= CwndFloor /\ Inc \in Nat
  BY FloorFits DEF Controller!VegasAssumption
<1>2. cc.cwnd \in Nat /\ cc.inflight \in Nat /\ cc.cwnd >= CwndFloor
  BY DEF Controller!TypeOK, Controller!CwndInBounds, Controller!CongestionControl,
         CwndFloor
<1> QED BY <1>1, <1>2 DEF Controller!NeverStarved,
                          Controller!congestion_control_get_package_window

-----------------------------------------------------------------------------
(* One stream (XonXoff).                                                   *)

(* A full output buffer.                                                    *)
Full == XoffBytes + MaxCell * (Window + 2)
(* What an XON must account for.                                            *)
XonBytes == Stream!Least(XoffBytes, XonRate)
Cells == {"SENDME", "XOFF", "XON"}

(* The constants are numbers, and a full buffer can be counted.            *)
LEMMA XonXoffNumbers ==
  ASSUME Stream!XonXoffAssumption
  PROVE  /\ Window \in Nat /\ XoffBytes \in Nat /\ XonRate \in Nat /\ Burst \in Nat
         /\ DrainedMax \in Nat /\ RateMax \in Nat /\ MaxBytes \in Nat
         /\ MaxCell \in Nat \ {0} /\ XoffScaleAt \in Nat \ {0} /\ XonScaleAt \in Nat \ {0}
         /\ XmitScaleAt \in Nat \ {0} /\ 2 * MaxCell <= XmitScaleAt
         /\ Full \in Nat /\ 2 * Full <= DrainedMax
         /\ XonBytes \in Nat /\ XonBytes <= XoffBytes /\ XonBytes <= XonRate
  BY DEF Stream!XonXoffAssumption, Full, XonBytes, Stream!Least

-----------------------------------------------------------------------------
(* The receiver's decisions.                                               *)

(* The fields of a receiver.                                               *)
LEMMA Fields ==
  ASSUME NEW r \in Stream!Receiver
  PROVE  /\ r.outbuf \in Nat /\ r.xoff_sent \in BOOLEAN /\ r.drained_bytes \in 0 .. DrainedMax
         /\ r.draining \in BOOLEAN /\ r.ewma_drain_rate \in 0 .. RateMax
         /\ r.ewma_rate_last_sent \in 0 .. RateMax /\ r.sent \in Seq(Cells)
  BY DEF Stream!Receiver, Cells

(* What flow_control_decide_xon counts first.                              *)
LEMMA Accumulated ==
  ASSUME Stream!XonXoffAssumption, NEW r \in Stream!Receiver, NEW n \in Nat, n <= Full,
         NEW reliable \in BOOLEAN, NEW z, z = Stream!Accumulate(r, n, reliable)
  PROVE  /\ z \in Stream!Receiver /\ z.outbuf = r.outbuf /\ z.xoff_sent = r.xoff_sent
         /\ z.sent = r.sent /\ z.ewma_drain_rate = r.ewma_drain_rate
         /\ z.ewma_rate_last_sent = r.ewma_rate_last_sent
         /\ \/ z.drained_bytes = 0
            \/ z.draining = r.draining /\ z.drained_bytes <= r.drained_bytes + n
<1> DEFINE c == IF r.drained_bytes >= DrainedMax - n
                THEN r.drained_bytes \div 2 ELSE r.drained_bytes
<1>1. DrainedMax \in Nat /\ Full \in Nat /\ 2 * Full <= DrainedMax
  BY XonXoffNumbers
<1>2. /\ r.outbuf \in Nat /\ r.xoff_sent \in BOOLEAN /\ r.drained_bytes \in 0 .. DrainedMax
      /\ r.draining \in BOOLEAN /\ r.ewma_drain_rate \in 0 .. RateMax
      /\ r.ewma_rate_last_sent \in 0 .. RateMax /\ r.sent \in Seq(Cells)
  BY Fields
<1>3. c \in Nat /\ c + n \in 0 .. DrainedMax /\ c <= r.drained_bytes
  BY <1>1, <1>2, SMTT(30)
<1>4. z = IF ~ reliable THEN [r EXCEPT !.draining = FALSE, !.drained_bytes = 0]
        ELSE IF ~ r.draining /\ r.outbuf > 0
        THEN [r EXCEPT !.draining = TRUE, !.drained_bytes = 0]
        ELSE [r EXCEPT !.drained_bytes = c + n]
  BY DEF Stream!Accumulate
<1> HIDE DEF c
<1> DEFINE T(d, g) == [outbuf |-> r.outbuf, xoff_sent |-> r.xoff_sent,
             drained_bytes |-> d, draining |-> g, ewma_drain_rate |-> r.ewma_drain_rate,
             ewma_rate_last_sent |-> r.ewma_rate_last_sent, sent |-> r.sent]
<1>5. CASE ~reliable
  <2>1. z = T(0, FALSE)
    BY <1>4, <1>5 DEF Stream!Receiver
  <2>2. 0 \in 0 .. DrainedMax
    BY <1>1
  <2> QED BY <1>2, <2>1, <2>2 DEF Stream!Receiver, Cells
<1>6. CASE reliable /\ ~ r.draining /\ r.outbuf > 0
  <2>1. z = T(0, TRUE)
    BY <1>4, <1>6 DEF Stream!Receiver
  <2>2. 0 \in 0 .. DrainedMax
    BY <1>1
  <2> QED BY <1>2, <2>1, <2>2 DEF Stream!Receiver, Cells
<1>7. CASE reliable /\ ~(~ r.draining /\ r.outbuf > 0)
  <2>1. z = T(c + n, r.draining)
    BY <1>2, <1>4, <1>7 DEF Stream!Receiver
  <2>2. /\ z \in Stream!Receiver /\ z.outbuf = r.outbuf /\ z.xoff_sent = r.xoff_sent
        /\ z.sent = r.sent /\ z.ewma_drain_rate = r.ewma_drain_rate
        /\ z.ewma_rate_last_sent = r.ewma_rate_last_sent
        /\ z.draining = r.draining /\ z.drained_bytes = c + n
    BY <1>2, <1>3, <2>1 DEF Stream!Receiver, Cells
  <2>3. c + n <= r.drained_bytes + n
    BY <1>2, <1>3
  <2> QED BY <2>2, <2>3
<1> QED BY <1>5, <1>6, <1>7

(* Then a rate may be computed.                                            *)
LEMMA RateUpdated ==
  ASSUME Stream!XonXoffAssumption, NEW r \in Stream!Receiver, NEW rate \in Rates,
         NEW z, z = Stream!UpdateRate(r, rate)
  PROVE  /\ z \in Stream!Receiver /\ z.outbuf = r.outbuf /\ z.xoff_sent = r.xoff_sent
         /\ z.sent = r.sent /\ z.ewma_rate_last_sent = r.ewma_rate_last_sent
         /\ \/ z = r
            \/ /\ r.draining /\ r.drained_bytes > XonRate
               /\ ~z.draining /\ z.drained_bytes = 0
<1> DEFINE e == Stream!n_count_ewma(rate, r.ewma_drain_rate)
<1>1. DrainedMax \in Nat /\ RateMax \in Nat /\ rate \in 0 .. RateMax
  BY XonXoffNumbers DEF Stream!XonXoffAssumption
<1>2. /\ r.outbuf \in Nat /\ r.xoff_sent \in BOOLEAN /\ r.drained_bytes \in 0 .. DrainedMax
      /\ r.draining \in BOOLEAN /\ r.ewma_drain_rate \in 0 .. RateMax
      /\ r.ewma_rate_last_sent \in 0 .. RateMax /\ r.sent \in Seq(Cells)
  BY Fields
<1>3. e \in 0 .. RateMax
  BY <1>1, <1>2 DEF Stream!n_count_ewma, Stream!XonEwmaCnt
<1> HIDE DEF e
<1>5. CASE r.draining /\ r.drained_bytes > XonRate /\ rate # 0
  <2>1. z = [outbuf |-> r.outbuf, xoff_sent |-> r.xoff_sent,
             drained_bytes |-> 0, draining |-> FALSE, ewma_drain_rate |-> e,
             ewma_rate_last_sent |-> r.ewma_rate_last_sent, sent |-> r.sent]
    BY <1>5 DEF Stream!UpdateRate, Stream!Receiver, e
  <2>2. 0 \in 0 .. DrainedMax
    BY <1>1
  <2>3. /\ z \in Stream!Receiver /\ z.outbuf = r.outbuf /\ z.xoff_sent = r.xoff_sent
        /\ z.sent = r.sent /\ z.ewma_rate_last_sent = r.ewma_rate_last_sent
        /\ ~z.draining /\ z.drained_bytes = 0
    BY <1>2, <1>3, <2>1, <2>2 DEF Stream!Receiver, Cells
  <2> QED BY <1>5, <2>3
<1>6. CASE ~(r.draining /\ r.drained_bytes > XonRate /\ rate # 0)
  BY <1>6 DEF Stream!UpdateRate
<1> QED BY <1>5, <1>6

(* Then an XON may be sent.                                                *)
LEMMA XonConsidered ==
  ASSUME Stream!XonXoffAssumption, NEW r \in Stream!Receiver, NEW reliable \in BOOLEAN,
         NEW z, z = Stream!ConsiderXon(r, reliable)
  PROVE  /\ z \in Stream!Receiver /\ z.outbuf = r.outbuf
         /\ z.drained_bytes = r.drained_bytes /\ z.draining = r.draining
         /\ z.ewma_drain_rate = r.ewma_drain_rate
         /\ \/ z = r /\ ~(r.xoff_sent /\ r.outbuf = 0)
            \/ /\ ~z.xoff_sent /\ z.sent = Append(r.sent, "XON")
               /\ z.ewma_rate_last_sent = r.ewma_drain_rate
               /\ \/ r.xoff_sent /\ r.outbuf = 0
                  \/ /\ ~r.xoff_sent /\ r.ewma_rate_last_sent # 0
                     /\ r.ewma_drain_rate # r.ewma_rate_last_sent
<1>1. /\ r.outbuf \in Nat /\ r.xoff_sent \in BOOLEAN /\ r.drained_bytes \in 0 .. DrainedMax
      /\ r.draining \in BOOLEAN /\ r.ewma_drain_rate \in 0 .. RateMax
      /\ r.ewma_rate_last_sent \in 0 .. RateMax /\ r.sent \in Seq(Cells)
  BY Fields
<1>2. RateMax \in Nat
  BY XonXoffNumbers
<1>3. Stream!stream_drain_rate_changed(r, reliable) =>
        r.ewma_rate_last_sent # 0 /\ r.ewma_drain_rate # r.ewma_rate_last_sent
  BY <1>1, <1>2 DEF Stream!stream_drain_rate_changed, Stream!XonChangePct
<1>5. Append(r.sent, "XON") \in Seq(Cells)
  BY <1>1 DEF Cells
<1>6. ASSUME z = Stream!circuit_send_stream_xon(r)
      PROVE  /\ z \in Stream!Receiver /\ z.outbuf = r.outbuf
             /\ z.drained_bytes = r.drained_bytes /\ z.draining = r.draining
             /\ z.ewma_drain_rate = r.ewma_drain_rate
             /\ ~z.xoff_sent /\ z.sent = Append(r.sent, "XON")
             /\ z.ewma_rate_last_sent = r.ewma_drain_rate
  <2> DEFINE q == Append(r.sent, "XON")
  <2> HIDE DEF q
  <2>1. z = [outbuf |-> r.outbuf, xoff_sent |-> FALSE,
             drained_bytes |-> r.drained_bytes, draining |-> r.draining,
             ewma_drain_rate |-> r.ewma_drain_rate,
             ewma_rate_last_sent |-> r.ewma_drain_rate, sent |-> q]
    BY <1>6 DEF Stream!circuit_send_stream_xon, Stream!Receiver, q
  <2>2. q \in Seq(Cells)
    BY <1>5 DEF q
  <2>3. /\ z \in Stream!Receiver /\ z.outbuf = r.outbuf
        /\ z.drained_bytes = r.drained_bytes /\ z.draining = r.draining
        /\ z.ewma_drain_rate = r.ewma_drain_rate
        /\ z.xoff_sent = FALSE /\ z.sent = q
        /\ z.ewma_rate_last_sent = r.ewma_drain_rate
    BY <1>1, <2>1, <2>2 DEF Stream!Receiver, Cells
  <2> QED BY <2>3 DEF q
<1>7. CASE r.xoff_sent /\ r.outbuf = 0
  <2>1. z = Stream!circuit_send_stream_xon(r)
    BY <1>7 DEF Stream!ConsiderXon
  <2> QED BY <2>1, <1>6, <1>7
<1>8. CASE r.xoff_sent /\ r.outbuf # 0
  BY <1>1, <1>8 DEF Stream!ConsiderXon
<1>9. CASE ~r.xoff_sent /\ Stream!stream_drain_rate_changed(r, reliable)
  <2>1. z = Stream!circuit_send_stream_xon(r)
    BY <1>9 DEF Stream!ConsiderXon
  <2> QED BY <2>1, <1>3, <1>6, <1>9
<1>10. CASE ~r.xoff_sent /\ ~Stream!stream_drain_rate_changed(r, reliable)
  BY <1>1, <1>10 DEF Stream!ConsiderXon
<1> QED BY <1>1, <1>7, <1>8, <1>9, <1>10

(* At last an empty buffer ends the measurement.                           *)
LEMMA BufferEmptied ==
  ASSUME Stream!XonXoffAssumption, NEW r \in Stream!Receiver, NEW z,
         z = Stream!Emptied(r)
  PROVE  /\ z \in Stream!Receiver /\ z.outbuf = r.outbuf /\ z.xoff_sent = r.xoff_sent
         /\ z.sent = r.sent /\ z.ewma_rate_last_sent = r.ewma_rate_last_sent
         /\ \/ z = r /\ r.outbuf # 0
            \/ /\ r.outbuf = 0 /\ ~z.draining
               /\ \/ /\ r.drained_bytes >= XonRate /\ r.ewma_rate_last_sent # 0
                     /\ z.drained_bytes = 0
                  \/ /\ z.drained_bytes = r.drained_bytes
                     /\ z.ewma_drain_rate = r.ewma_drain_rate
<1> DEFINE e == Stream!Least(RateMax, 2 * r.ewma_drain_rate)
<1>1. RateMax \in Nat /\ DrainedMax \in Nat
  BY XonXoffNumbers
<1>2. /\ r.outbuf \in Nat /\ r.xoff_sent \in BOOLEAN /\ r.drained_bytes \in 0 .. DrainedMax
      /\ r.draining \in BOOLEAN /\ r.ewma_drain_rate \in 0 .. RateMax
      /\ r.ewma_rate_last_sent \in 0 .. RateMax /\ r.sent \in Seq(Cells)
  BY Fields
<1>3. e \in 0 .. RateMax
  BY <1>1, <1>2 DEF Stream!Least
<1> HIDE DEF e
<1> DEFINE T(d, x) == [outbuf |-> r.outbuf, xoff_sent |-> r.xoff_sent,
             drained_bytes |-> d, draining |-> FALSE, ewma_drain_rate |-> x,
             ewma_rate_last_sent |-> r.ewma_rate_last_sent, sent |-> r.sent]
<1>4. CASE r.outbuf # 0
  BY <1>4 DEF Stream!Emptied
<1>5. CASE r.outbuf = 0 /\ r.drained_bytes >= XonRate /\ r.ewma_rate_last_sent # 0
  <2>1. z = T(0, e)
    BY <1>5 DEF Stream!Emptied, Stream!Receiver, e
  <2>2. 0 \in 0 .. DrainedMax
    BY <1>1
  <2>3. /\ z \in Stream!Receiver /\ z.outbuf = r.outbuf /\ z.xoff_sent = r.xoff_sent
        /\ z.sent = r.sent /\ z.ewma_rate_last_sent = r.ewma_rate_last_sent
        /\ ~z.draining /\ z.drained_bytes = 0
    BY <1>2, <1>3, <2>1, <2>2 DEF Stream!Receiver, Cells
  <2> QED BY <1>5, <2>3
<1>6. CASE r.outbuf = 0 /\ ~(r.drained_bytes >= XonRate /\ r.ewma_rate_last_sent # 0)
  <2>1. z = T(r.drained_bytes, r.ewma_drain_rate)
    BY <1>6 DEF Stream!Emptied, Stream!Receiver
  <2>3. /\ z \in Stream!Receiver /\ z.outbuf = r.outbuf /\ z.xoff_sent = r.xoff_sent
        /\ z.sent = r.sent /\ z.ewma_rate_last_sent = r.ewma_rate_last_sent
        /\ ~z.draining /\ z.drained_bytes = r.drained_bytes
        /\ z.ewma_drain_rate = r.ewma_drain_rate
    BY <1>2, <2>1 DEF Stream!Receiver, Cells
  <2> QED BY <1>6, <2>3
<1> QED BY <1>4, <1>5, <1>6

(* The bytes written since they were last accounted for.                   *)
Counted(r) ==
  IF r.draining \/ r.ewma_drain_rate # 0 \/ (~r.xoff_sent /\ r.ewma_rate_last_sent # 0)
  THEN r.drained_bytes ELSE 0

(* Of v bytes that arrived, u are accounted for by XONs that were sent; the *)
(* others pay for what is counted and for an XON that may be sent at once. *)
Pays(r, v, u) ==
  IF r.xoff_sent
  THEN /\ v >= u + XonBytes /\ v >= u + Counted(r) + r.outbuf
       /\ r.ewma_drain_rate # 0 => v >= u + XonBytes + Counted(r) + r.outbuf
  ELSE v >= u + Counted(r) + r.outbuf
              + (IF r.ewma_drain_rate = r.ewma_rate_last_sent THEN 0 ELSE XonBytes)

(* flow_control_decide_xon as a whole: what it sends is paid for.          *)
LEMMA XonDecided ==
  ASSUME Stream!XonXoffAssumption, NEW r0 \in Stream!Receiver,
         NEW n \in 0 .. r0.outbuf, n <= Full,
         NEW reliable \in BOOLEAN, NEW rate \in Rates,
         NEW r \in Stream!Receiver, r.outbuf = r0.outbuf - n,
         r.xoff_sent = r0.xoff_sent,
         r.drained_bytes = r0.drained_bytes, r.draining = r0.draining,
         r.ewma_drain_rate = r0.ewma_drain_rate,
         r.ewma_rate_last_sent = r0.ewma_rate_last_sent, r.sent = r0.sent,
         NEW z, z = Stream!flow_control_decide_xon(r, n, reliable, rate)
  PROVE  /\ z \in Stream!Receiver /\ z.outbuf = r0.outbuf - n
         /\ \/ /\ z.xoff_sent = r0.xoff_sent /\ z.sent = r0.sent
               /\ ~(z.xoff_sent /\ z.outbuf = 0)
               /\ \A v, u \in Nat : Pays(r0, v, u) => Pays(z, v, u)
            \/ /\ ~z.xoff_sent /\ z.sent = Append(r0.sent, "XON")
               /\ r0.xoff_sent => z.outbuf = 0
               /\ \A v, u \in Nat : Pays(r0, v, u) => Pays(z, v, u + XonBytes)
<1>0. /\ XonBytes \in Nat /\ XonBytes <= XonRate /\ XonRate \in Nat /\ DrainedMax \in Nat
      /\ RateMax \in Nat
  BY XonXoffNumbers
<1>1. /\ r \in Stream!Receiver /\ r.outbuf = r0.outbuf - n /\ r.xoff_sent = r0.xoff_sent
      /\ r.drained_bytes = r0.drained_bytes /\ r.draining = r0.draining
      /\ r.ewma_drain_rate = r0.ewma_drain_rate
      /\ r.ewma_rate_last_sent = r0.ewma_rate_last_sent /\ r.sent = r0.sent
  OBVIOUS
<1>2. PICK a : a = Stream!Accumulate(r, n, reliable)
  OBVIOUS
<1>3. PICK b : b = Stream!UpdateRate(a, rate)
  OBVIOUS
<1>4. PICK c : c = Stream!ConsiderXon(b, reliable)
  OBVIOUS
<1>5. z = Stream!Emptied(c)
  BY <1>2, <1>3, <1>4, Zenon DEF Stream!flow_control_decide_xon
<1>6. n \in Nat
  BY Fields
<1>a. /\ a \in Stream!Receiver /\ a.outbuf = r.outbuf /\ a.xoff_sent = r.xoff_sent
      /\ a.sent = r.sent /\ a.ewma_drain_rate = r.ewma_drain_rate
      /\ a.ewma_rate_last_sent = r.ewma_rate_last_sent
      /\ \/ a.drained_bytes = 0
         \/ a.draining = r.draining /\ a.drained_bytes <= r.drained_bytes + n
  <2>1. r \in Stream!Receiver /\ n \in Nat /\ n <= Full /\ reliable \in BOOLEAN
    BY <1>1, <1>6
  <2> QED BY ONLY Stream!XonXoffAssumption, <1>2, <2>1, Accumulated
<1>b. /\ b \in Stream!Receiver /\ b.outbuf = a.outbuf /\ b.xoff_sent = a.xoff_sent
      /\ b.sent = a.sent /\ b.ewma_rate_last_sent = a.ewma_rate_last_sent
      /\ \/ b = a
         \/ /\ a.draining /\ a.drained_bytes > XonRate
            /\ ~b.draining /\ b.drained_bytes = 0
  BY <1>3, <1>a, RateUpdated
<1>c. /\ c \in Stream!Receiver /\ c.outbuf = b.outbuf
      /\ c.drained_bytes = b.drained_bytes /\ c.draining = b.draining
      /\ c.ewma_drain_rate = b.ewma_drain_rate
      /\ \/ c = b /\ ~(b.xoff_sent /\ b.outbuf = 0)
         \/ /\ ~c.xoff_sent /\ c.sent = Append(b.sent, "XON")
            /\ c.ewma_rate_last_sent = b.ewma_drain_rate
            /\ \/ b.xoff_sent /\ b.outbuf = 0
               \/ /\ ~b.xoff_sent /\ b.ewma_rate_last_sent # 0
                  /\ b.ewma_drain_rate # b.ewma_rate_last_sent
  BY <1>4, <1>b, XonConsidered
<1>z. /\ z \in Stream!Receiver /\ z.outbuf = c.outbuf /\ z.xoff_sent = c.xoff_sent
      /\ z.sent = c.sent /\ z.ewma_rate_last_sent = c.ewma_rate_last_sent
      /\ \/ z = c /\ c.outbuf # 0
         \/ /\ c.outbuf = 0 /\ ~z.draining
            /\ \/ /\ c.drained_bytes >= XonRate /\ c.ewma_rate_last_sent # 0
                  /\ z.drained_bytes = 0
               \/ /\ z.drained_bytes = c.drained_bytes
                  /\ z.ewma_drain_rate = c.ewma_drain_rate
  BY <1>5, <1>c, BufferEmptied
<1>7. /\ r0.outbuf \in Nat /\ r0.drained_bytes \in Nat /\ r0.ewma_drain_rate \in Nat
      /\ a.drained_bytes \in Nat /\ b.drained_bytes \in Nat /\ z.drained_bytes \in Nat
      /\ a.outbuf \in Nat /\ z.outbuf \in Nat
  BY <1>0, <1>a, <1>b, <1>z, SMTT(30) DEF Stream!Receiver
<1>8. ASSUME NEW v \in Nat, NEW u \in Nat, Pays(r0, v, u) PROVE Pays(a, v, u)
  <2>1. Counted(a) \in Nat /\ Counted(r0) \in Nat /\ Counted(a) <= Counted(r0) + n
    BY <1>1, <1>6, <1>7, <1>a DEF Counted
  <2> QED BY <1>0, <1>1, <1>6, <1>7, <1>8, <1>a, <2>1 DEF Pays
<1>9. ASSUME NEW v \in Nat, NEW u \in Nat, Pays(a, v, u) PROVE Pays(b, v, u)
  <2>1. CASE b = a
    BY <1>9, <2>1
  <2>2. CASE b # a
    <3>1. Counted(a) = a.drained_bytes /\ Counted(b) = 0
      BY <1>b, <2>2 DEF Counted
    <3> QED BY <1>0, <1>7, <1>9, <1>b, <2>2, <3>1 DEF Pays
  <2> QED BY <2>1, <2>2
<1>10. CASE c = b /\ ~(b.xoff_sent /\ b.outbuf = 0)
  <2>1. /\ z.xoff_sent = r0.xoff_sent /\ z.sent = r0.sent
        /\ ~(z.xoff_sent /\ z.outbuf = 0)
    BY <1>1, <1>a, <1>b, <1>z, <1>10
  <2>2. ASSUME NEW v \in Nat, NEW u \in Nat, Pays(b, v, u) PROVE Pays(z, v, u)
    <3>1. CASE z = c /\ c.outbuf # 0
      BY <1>10, <2>2, <3>1
    <3>2. CASE c.outbuf = 0
      <4>1. ~c.xoff_sent /\ ~z.xoff_sent /\ ~z.draining
        BY <1>10, <1>z, <3>2
      <4>2. CASE /\ c.drained_bytes >= XonRate /\ c.ewma_rate_last_sent # 0
                 /\ z.drained_bytes = 0
        <5>1. Counted(z) = 0 /\ Counted(b) = b.drained_bytes
          BY <1>10, <4>1, <4>2 DEF Counted
        <5> QED BY <1>0, <1>7, <1>10, <1>z, <2>2, <3>2, <4>1, <4>2, <5>1 DEF Pays
      <4>3. CASE z.drained_bytes = c.drained_bytes /\ z.ewma_drain_rate = c.ewma_drain_rate
        <5>1. Counted(z) \in Nat /\ Counted(b) \in Nat /\ Counted(z) <= Counted(b)
          BY <1>7, <1>10, <1>z, <4>1, <4>3 DEF Counted
        <5> QED BY <1>0, <1>7, <1>10, <1>z, <2>2, <3>2, <4>1, <4>3, <5>1 DEF Pays
      <4> QED BY <1>z, <3>2, <4>2, <4>3
    <3> QED BY <1>z, <3>1, <3>2
  <2> QED BY <1>1, <1>8, <1>9, <1>a, <1>b, <1>c, <1>z, <2>1, <2>2
<1>11. CASE ~(c = b /\ ~(b.xoff_sent /\ b.outbuf = 0))
  <2>0. /\ ~c.xoff_sent /\ c.sent = Append(b.sent, "XON")
        /\ c.ewma_rate_last_sent = b.ewma_drain_rate
        /\ \/ b.xoff_sent /\ b.outbuf = 0
           \/ /\ ~b.xoff_sent /\ b.ewma_rate_last_sent # 0
              /\ b.ewma_drain_rate # b.ewma_rate_last_sent
    BY <1>c, <1>11
  <2>1. /\ ~z.xoff_sent /\ z.sent = Append(r0.sent, "XON")
        /\ r0.xoff_sent => z.outbuf = 0
    BY <1>1, <1>a, <1>b, <1>c, <1>z, <2>0
  <2>2. ASSUME NEW v \in Nat, NEW u \in Nat, Pays(b, v, u)
        PROVE  Pays(z, v, u + XonBytes)
    <3>1. CASE b.xoff_sent /\ b.outbuf = 0
      <4>1. c.outbuf = 0 /\ z.outbuf = 0 /\ ~z.draining /\ ~z.xoff_sent
        BY <1>c, <1>z, <2>1, <3>1
      <4>2. CASE /\ c.drained_bytes >= XonRate /\ c.ewma_rate_last_sent # 0
                 /\ z.drained_bytes = 0
        <5>1. Counted(z) = 0 /\ Counted(b) = b.drained_bytes /\ b.ewma_drain_rate # 0
          BY <2>0, <4>1, <4>2 DEF Counted
        <5>2. b.drained_bytes >= XonBytes
          BY <1>0, <1>7, <1>c, <4>2
        <5>3. v >= u + XonBytes + b.drained_bytes + b.outbuf
          BY <2>2, <3>1, <5>1 DEF Pays
        <5> QED BY <1>0, <1>7, <3>1, <4>1, <5>1, <5>2, <5>3 DEF Pays
      <4>3. CASE z.drained_bytes = c.drained_bytes /\ z.ewma_drain_rate = c.ewma_drain_rate
        <5>1. CASE b.ewma_drain_rate = 0
          <6>1. Counted(z) = 0 /\ z.ewma_drain_rate = z.ewma_rate_last_sent
            BY <1>c, <1>z, <2>0, <4>1, <4>3, <5>1 DEF Counted
          <6> QED BY <1>0, <1>7, <2>2, <3>1, <4>1, <6>1 DEF Pays
        <5>2. CASE b.ewma_drain_rate # 0
          <6>1. /\ Counted(z) = b.drained_bytes /\ Counted(b) = b.drained_bytes
                /\ z.ewma_drain_rate = z.ewma_rate_last_sent
            BY <1>c, <1>z, <2>0, <4>1, <4>3, <5>2 DEF Counted
          <6> QED BY <1>0, <1>7, <2>2, <3>1, <4>1, <5>2, <6>1 DEF Pays
        <5> QED BY <5>1, <5>2
      <4> QED BY <1>z, <4>1, <4>2, <4>3
    <3>2. CASE ~(b.xoff_sent /\ b.outbuf = 0)
      <4>0. /\ ~b.xoff_sent /\ b.ewma_rate_last_sent # 0
            /\ b.ewma_drain_rate # b.ewma_rate_last_sent
        BY <2>0, <3>2
      <4>1. Counted(b) = b.drained_bytes /\ z.outbuf = b.outbuf
        BY <1>c, <1>z, <4>0 DEF Counted
      <4>5. v >= u + XonBytes + b.drained_bytes + b.outbuf /\ ~z.xoff_sent
        BY <1>0, <1>7, <1>b, <2>1, <2>2, <4>0, <4>1 DEF Pays
      <4>2. CASE z = c
        <5>1. Counted(z) \in Nat /\ Counted(z) <= Counted(b)
          BY <1>7, <1>c, <4>1, <4>2 DEF Counted
        <5>2. z.ewma_drain_rate = z.ewma_rate_last_sent
          BY <1>c, <2>0, <4>2
        <5> QED BY <1>0, <1>7, <4>1, <4>5, <5>1, <5>2 DEF Pays
      <4>3. CASE /\ c.drained_bytes >= XonRate /\ c.ewma_rate_last_sent # 0
                 /\ z.drained_bytes = 0
        <5>1. Counted(z) = 0
          BY <4>3 DEF Counted
        <5>2. b.drained_bytes >= XonBytes
          BY <1>0, <1>7, <1>c, <4>3
        <5> QED BY <1>0, <1>7, <4>1, <4>5, <5>1, <5>2 DEF Pays
      <4>4. CASE z.drained_bytes = c.drained_bytes /\ z.ewma_drain_rate = c.ewma_drain_rate
        <5>1. Counted(z) \in Nat /\ Counted(z) <= Counted(b)
          BY <1>7, <1>c, <4>1, <4>4 DEF Counted
        <5>2. z.ewma_drain_rate = z.ewma_rate_last_sent
          BY <1>c, <1>z, <2>0, <4>4
        <5> QED BY <1>0, <1>7, <4>1, <4>5, <5>1, <5>2 DEF Pays
      <4> QED BY <1>z, <4>2, <4>3, <4>4
    <3> QED BY <3>1, <3>2
  <2> QED BY <1>1, <1>8, <1>9, <1>a, <1>b, <1>c, <1>z, <2>1, <2>2
<1> QED BY <1>10, <1>11

(* flow_control_decide_xoff as a whole.                                    *)
LEMMA XoffDecided ==
  ASSUME Stream!XonXoffAssumption, NEW r \in Stream!Receiver, NEW reliable \in BOOLEAN,
         NEW rate \in Rates, NEW z, z = Stream!flow_control_decide_xoff(r, reliable,
         rate)
  PROVE  /\ z \in Stream!Receiver /\ z.outbuf = r.outbuf
         /\ \/ /\ z.xoff_sent = r.xoff_sent /\ z.sent = r.sent
               /\ z.xoff_sent \/ z.outbuf <= XoffBytes
               /\ \A v, u \in Nat : Pays(r, v, u) => Pays(z, v, u)
            \/ /\ ~r.xoff_sent /\ z.xoff_sent /\ z.sent = Append(r.sent, "XOFF")
               /\ r.outbuf > XoffBytes
               /\ \A v, u \in Nat : Pays(r, v, u) => Pays(z, v, u)
            \/ /\ ~z.xoff_sent /\ z.sent = Append(r.sent, "XON")
               /\ r.xoff_sent => z.outbuf = 0
               /\ z.outbuf <= XoffBytes
               /\ \A v, u \in Nat : Pays(r, v, u) => Pays(z, v, u + XonBytes)
<1>0. /\ XonBytes \in Nat /\ XonBytes <= XoffBytes /\ XoffBytes \in Nat
      /\ RateMax \in Nat /\ Full \in Nat /\ Burst \in Nat
  BY XonXoffNumbers
<1>1. /\ r.outbuf \in Nat /\ r.xoff_sent \in BOOLEAN /\ r.drained_bytes \in 0 .. DrainedMax
      /\ r.draining \in BOOLEAN /\ r.ewma_drain_rate \in 0 .. RateMax
      /\ r.ewma_rate_last_sent \in 0 .. RateMax /\ r.sent \in Seq(Cells)
  BY Fields
<1> DEFINE Stops == r.outbuf > XoffBytes /\ ~r.xoff_sent
<1>2. PICK x : x = IF Stops THEN [Stream!circuit_send_stream_xoff(r) EXCEPT !.ewma_drain_rate = 0]
                   ELSE r
  OBVIOUS
<1>3. z = IF r.outbuf > Burst THEN Stream!flow_control_decide_xon(x, 0, reliable, rate) ELSE x
  BY <1>2, Zenon DEF Stream!flow_control_decide_xoff
<1>4. /\ x \in Stream!Receiver /\ x.outbuf = r.outbuf
      /\ \/ x = r /\ ~Stops
         \/ /\ Stops /\ x.xoff_sent /\ x.sent = Append(r.sent, "XOFF")
            /\ x.draining = r.draining /\ x.drained_bytes = r.drained_bytes
            /\ x.ewma_drain_rate = 0
            /\ x.ewma_rate_last_sent = r.ewma_rate_last_sent
  <2>1. CASE Stops
    <3> DEFINE q == Append(r.sent, "XOFF")
    <3>1. q \in Seq(Cells)
      BY <1>1 DEF Cells
    <3> HIDE DEF q
    <3>2. x = [outbuf |-> r.outbuf, xoff_sent |-> TRUE, drained_bytes |-> r.drained_bytes,
               draining |-> r.draining, ewma_drain_rate |-> 0,
               ewma_rate_last_sent |-> r.ewma_rate_last_sent, sent |-> q]
      BY <1>2, <2>1 DEF Stream!circuit_send_stream_xoff, Stream!Receiver, q
    <3>3. 0 \in 0 .. RateMax
      BY <1>0
    <3>4. /\ x \in Stream!Receiver /\ x.outbuf = r.outbuf
          /\ x.xoff_sent /\ x.sent = q
          /\ x.draining = r.draining /\ x.drained_bytes = r.drained_bytes
          /\ x.ewma_drain_rate = 0
          /\ x.ewma_rate_last_sent = r.ewma_rate_last_sent
      BY <1>1, <3>1, <3>2, <3>3 DEF Stream!Receiver, Cells
    <3> QED BY <2>1, <3>4 DEF q
  <2>2. CASE ~Stops
    BY <1>2, <2>2
  <2> QED BY <2>1, <2>2
<1>5. \A v, u \in Nat : Pays(r, v, u) => Pays(x, v, u)
  <2> TAKE v \in Nat, u \in Nat
  <2> HAVE Pays(r, v, u)
  <2>1. CASE x = r
    BY <2>1
  <2>2. CASE x # r
    <3>1. /\ x.xoff_sent /\ ~r.xoff_sent /\ r.outbuf > XoffBytes /\ x.ewma_drain_rate = 0
          /\ Counted(x) \in Nat /\ Counted(r) \in Nat /\ Counted(x) <= Counted(r)
      BY <1>1, <1>4, <2>2 DEF Counted
    <3>2. v >= u + Counted(r) + r.outbuf
      BY <1>0, <1>1, <3>1 DEF Pays
    <3> QED BY <1>0, <1>1, <1>4, <3>1, <3>2, SMTT(30) DEF Pays
  <2> QED BY <2>1, <2>2
<1> HIDE DEF Stops
<1>6. CASE r.outbuf <= Burst
  <2>1. z = x
    BY <1>0, <1>1, <1>3, <1>6, XonXoffNumbers, SMTT(30)
  <2> QED BY <1>0, <1>1, <1>4, <1>5, <2>1 DEF Stops
<1>7. CASE r.outbuf > Burst
  <2>1. z = Stream!flow_control_decide_xon(x, 0, reliable, rate)
    BY <1>3, <1>7
  <2>2. x.outbuf = x.outbuf - 0 /\ 0 \in 0 .. x.outbuf /\ 0 <= Full
    BY <1>0, <1>1, <1>4
  <2>3. x \in Stream!Receiver
    BY <1>4
  <2>4. /\ z \in Stream!Receiver /\ z.outbuf = x.outbuf - 0
        /\ \/ /\ z.xoff_sent = x.xoff_sent /\ z.sent = x.sent
              /\ ~(z.xoff_sent /\ z.outbuf = 0)
              /\ \A v, u \in Nat : Pays(x, v, u) => Pays(z, v, u)
           \/ /\ ~z.xoff_sent /\ z.sent = Append(x.sent, "XON")
              /\ x.xoff_sent => z.outbuf = 0
              /\ \A v, u \in Nat : Pays(x, v, u) => Pays(z, v, u + XonBytes)
    BY ONLY <2>1, <2>2, <2>3, Stream!XonXoffAssumption, reliable \in BOOLEAN, rate \in Rates,
            XonDecided
  <2>5. z.outbuf = r.outbuf
    BY <1>1, <1>4, <2>4
  <2>6. \A v, u \in Nat : Pays(r, v, u) => Pays(x, v, u)
    BY <1>5
  <2>7. CASE /\ z.xoff_sent = x.xoff_sent /\ z.sent = x.sent
             /\ \A v, u \in Nat : Pays(x, v, u) => Pays(z, v, u)
    <3>1. \A v, u \in Nat : Pays(r, v, u) => Pays(z, v, u)
      BY <2>6, <2>7
    <3> QED BY <1>0, <1>1, <1>4, <2>4, <2>5, <2>7, <3>1 DEF Stops
  <2>8. CASE /\ ~z.xoff_sent /\ z.sent = Append(x.sent, "XON")
             /\ x.xoff_sent => z.outbuf = 0
             /\ \A v, u \in Nat : Pays(x, v, u) => Pays(z, v, u + XonBytes)
    <3>1. \A v, u \in Nat : Pays(r, v, u) => Pays(z, v, u + XonBytes)
      BY <2>6, <2>8
    <3>2. x = r /\ ~Stops
      BY <1>0, <1>1, <1>4, <2>5, <2>8 DEF Stops
    <3>3. z.outbuf <= XoffBytes
      BY <1>0, <1>1, <2>5, <2>8, <3>2 DEF Stops
    <3> QED BY <2>4, <2>5, <2>8, <3>1, <3>2, <3>3
  <2> QED BY <2>4, <2>7, <2>8
<1>8. r.outbuf <= Burst \/ r.outbuf > Burst
  BY <1>0, <1>1
<1> QED BY <1>6, <1>7, <1>8
-----------------------------------------------------------------------------
(* Functions over the positions of a queue, 0 for its front.  Longer is     *)
(* what one becomes when a cell is appended, Shifted when one is taken.     *)

Longer(f, n, v) == [j \in 0 .. n + 1 |-> IF j <= n THEN f[j] ELSE v]
Shifted(f, n) == [j \in 0 .. n - 1 |-> f[j + 1]]

(* f[j] is a total that grows by the weight w of each cell of q up to j.    *)
Sums(q, w, f) ==
  /\ f \in [0 .. Len(q) -> Nat]
  /\ \A j \in 1 .. Len(q) : f[j] = f[j - 1] + w[q[j]]
  /\ \A i, j \in 0 .. Len(q) : i <= j => f[i] <= f[j]

(* t[j] is the last XOFF or XON that a sender has been told when it has     *)
(* handled the cells of q up to j, and no XOFF comes to a stopped one; m is *)
(* the last cell of q that is not a SENDME.                                 *)
Told(q, t, m) ==
  /\ t \in [0 .. Len(q) -> {"XOFF", "XON"}] /\ m \in 0 .. Len(q)
  /\ \A j \in 1 .. Len(q) :
       /\ t[j] = (IF q[j] = "SENDME" THEN t[j - 1] ELSE q[j])
       /\ q[j] = "XOFF" => t[j - 1] = "XON"
  /\ m > 0 => q[m] # "SENDME"
  /\ \A j \in m + 1 .. Len(q) : q[j] = "SENDME"
  /\ \A j \in m .. Len(q) : t[j] = t[m]

(* A queue with one more at its end.                                       *)
LEMMA Appended ==
  ASSUME NEW S, NEW q \in Seq(S), NEW c \in S
  PROVE  /\ Append(q, c) \in Seq(S) /\ Len(Append(q, c)) = Len(q) + 1 /\ Len(q) \in Nat
         /\ \A j \in 1 .. Len(q) : Append(q, c)[j] = q[j]
         /\ Append(q, c)[Len(q) + 1] = c
  OBVIOUS

(* A queue without its first.                                              *)
LEMMA Taken ==
  ASSUME NEW S, NEW q \in Seq(S), q # <<>>
  PROVE  /\ Tail(q) \in Seq(S) /\ Len(Tail(q)) = Len(q) - 1 /\ Len(q) \in Nat \ {0}
         /\ Len(q) - 1 \in Nat
         /\ \A j \in 1 .. Len(q) - 1 : Tail(q)[j] = q[j + 1]
         /\ Head(q) = q[1] /\ Head(q) \in S
  OBVIOUS

(* A total goes on when a cell is appended.                                *)
LEMMA SumsAppend ==
  ASSUME NEW S, NEW q \in Seq(S), NEW c \in S, NEW w, w[c] \in Nat, NEW f, Sums(q, w, f)
  PROVE  LET g == Longer(f, Len(q), f[Len(q)] + w[c])
         IN  /\ Sums(Append(q, c), w, g)
             /\ g[Len(q) + 1] = f[Len(q)] + w[c]
             /\ \A j \in 0 .. Len(q) : g[j] = f[j]
<1> DEFINE n == Len(q)
           k == Append(q, c)
           v == f[n] + w[c]
           g == Longer(f, n, v)
<1>1. n \in Nat /\ Len(k) = n + 1 /\ (\A j \in 1 .. n : k[j] = q[j]) /\ k[n + 1] = c
  BY Appended
<1>2. /\ f \in [0 .. n -> Nat]
      /\ \A j \in 1 .. n : f[j] = f[j - 1] + w[q[j]]
      /\ \A i, j \in 0 .. n : i <= j => f[i] <= f[j]
  BY DEF Sums
<1> HIDE DEF n, k
<1>3. f[n] \in Nat
  BY <1>1, <1>2
<1>4. v \in Nat /\ f[n] <= v
  BY <1>3
<1>5. /\ g = [j \in 0 .. n + 1 |-> IF j <= n THEN f[j] ELSE v]
      /\ \A j \in 0 .. n : g[j] = f[j]
      /\ g[n + 1] = v
  BY <1>1 DEF Longer
<1>9. v = f[n] + w[c]
  OBVIOUS
<1> HIDE DEF v, g
<1>6. g \in [0 .. n + 1 -> Nat]
  BY <1>1, <1>2, <1>4, <1>5
<1>7. ASSUME NEW j \in 1 .. n + 1 PROVE g[j] = g[j - 1] + w[k[j]]
  <2>1. CASE j \in 1 .. n
    <3>1. k[j] = q[j] /\ g[j] = f[j] /\ g[j - 1] = f[j - 1]
      BY <1>1, <1>5, <2>1
    <3>2. f[j] = f[j - 1] + w[q[j]]
      BY <1>2, <2>1
    <3> QED BY <3>1, <3>2
  <2>2. CASE j = n + 1
    BY <1>1, <1>5, <1>9, <2>2
  <2> QED BY <1>1, <2>1, <2>2
<1>8. ASSUME NEW i \in 0 .. n + 1, NEW j \in 0 .. n + 1, i <= j PROVE g[i] <= g[j]
  <2>1. CASE j \in 0 .. n
    BY <1>1, <1>2, <1>5, <1>8, <2>1
  <2>2. CASE i \in 0 .. n /\ j = n + 1
    <3>1. f[i] <= f[n] /\ f[i] \in Nat
      BY <1>1, <1>2, <2>2
    <3> QED BY <1>3, <1>4, <1>5, <2>2, <3>1
  <2>3. CASE i = n + 1 /\ j = n + 1
    BY <1>4, <1>5, <2>3
  <2> QED BY <1>1, <1>8, <2>1, <2>2, <2>3
<1>10. Sums(k, w, g)
  BY <1>1, <1>6, <1>7, <1>8 DEF Sums
<1> QED BY <1>5, <1>9, <1>10 DEF n, k, g

(* A total of the cells behind the first.                                  *)
LEMMA SumsTake ==
  ASSUME NEW S, NEW q \in Seq(S), q # <<>>, NEW w, NEW f, Sums(q, w, f)
  PROVE  LET g == Shifted(f, Len(q))
         IN  /\ Sums(Tail(q), w, g)
             /\ f[1] = f[0] + w[Head(q)]
             /\ \A j \in 0 .. Len(q) - 1 : g[j] = f[j + 1]
<1> DEFINE n == Len(q)
           k == Tail(q)
           g == Shifted(f, n)
<1>1. /\ n \in Nat \ {0} /\ Len(k) = n - 1 /\ Head(q) = q[1]
      /\ \A j \in 1 .. n - 1 : k[j] = q[j + 1]
  BY Taken
<1>2. /\ f \in [0 .. n -> Nat]
      /\ \A j \in 1 .. n : f[j] = f[j - 1] + w[q[j]]
      /\ \A i, j \in 0 .. n : i <= j => f[i] <= f[j]
  BY DEF Sums
<1> HIDE DEF n, k
<1>3. f[1] = f[0] + w[Head(q)]
  BY <1>1, <1>2
<1>5. g = [j \in 0 .. n - 1 |-> f[j + 1]] /\ \A j \in 0 .. n - 1 : g[j] = f[j + 1]
  BY <1>1 DEF Shifted
<1> HIDE DEF g
<1>6. g \in [0 .. n - 1 -> Nat]
  BY <1>1, <1>2, <1>5
<1>7. ASSUME NEW j \in 1 .. n - 1 PROVE g[j] = g[j - 1] + w[k[j]]
  <2>1. j + 1 \in 1 .. n /\ j - 1 \in 0 .. n - 1 /\ (j + 1) - 1 = j /\ (j - 1) + 1 = j
    BY <1>1
  <2>2. f[j + 1] = f[j] + w[q[j + 1]]
    BY <1>2, <2>1
  <2>3. g[j] = f[j + 1] /\ g[j - 1] = f[j] /\ k[j] = q[j + 1]
    BY <1>1, <1>5, <2>1
  <2> QED BY <2>2, <2>3
<1>8. ASSUME NEW i \in 0 .. n - 1, NEW j \in 0 .. n - 1, i <= j PROVE g[i] <= g[j]
  BY <1>1, <1>2, <1>5, <1>8
<1>10. Sums(k, w, g)
  BY <1>1, <1>6, <1>7, <1>8 DEF Sums
<1> QED BY <1>3, <1>5, <1>10 DEF n, k, g

(* What the sender will have been told when a cell is appended.            *)
LEMMA ToldAppend ==
  ASSUME NEW q \in Seq(Cells), NEW c \in Cells, NEW t, NEW m, Told(q, t, m),
         c = "XOFF" => t[Len(q)] = "XON"
  PROVE  LET v == IF c = "SENDME" THEN t[Len(q)] ELSE c
             u == Longer(t, Len(q), v)
         IN  /\ Told(Append(q, c), u, IF c = "SENDME" THEN m ELSE Len(q) + 1)
             /\ u[Len(q) + 1] = v
             /\ u[0] = t[0]
<1> DEFINE n == Len(q)
           k == Append(q, c)
           v == IF c = "SENDME" THEN t[n] ELSE c
           u == Longer(t, n, v)
           l == IF c = "SENDME" THEN m ELSE n + 1
<1>1. n \in Nat /\ Len(k) = n + 1 /\ (\A j \in 1 .. n : k[j] = q[j]) /\ k[n + 1] = c
  BY Appended
<1>2. /\ t \in [0 .. n -> {"XOFF", "XON"}] /\ m \in 0 .. n
      /\ \A j \in 1 .. n : /\ t[j] = (IF q[j] = "SENDME" THEN t[j - 1] ELSE q[j])
                           /\ q[j] = "XOFF" => t[j - 1] = "XON"
      /\ m > 0 => q[m] # "SENDME"
      /\ \A j \in m + 1 .. n : q[j] = "SENDME"
      /\ \A j \in m .. n : t[j] = t[m]
  BY DEF Told
<1>3. c = "XOFF" => t[n] = "XON"
  OBVIOUS
<1> HIDE DEF n, k
<1>4. /\ v \in {"XOFF", "XON"} /\ (c = "SENDME" => v = t[n]) /\ (c # "SENDME" => v = c)
      /\ t[n] \in {"XOFF", "XON"}
  BY <1>1, <1>2 DEF Cells
<1>5. /\ u = [j \in 0 .. n + 1 |-> IF j <= n THEN t[j] ELSE v]
      /\ \A j \in 0 .. n : u[j] = t[j]
      /\ u[n + 1] = v
  BY <1>1 DEF Longer
<1>6. (c = "SENDME" => l = m) /\ (c # "SENDME" => l = n + 1)
  OBVIOUS
<1> HIDE DEF v, u, l
<1>7. u \in [0 .. n + 1 -> {"XOFF", "XON"}] /\ l \in 0 .. n + 1
  BY <1>1, <1>2, <1>4, <1>5, <1>6
<1>8. ASSUME NEW j \in 1 .. n + 1
      PROVE  /\ u[j] = (IF k[j] = "SENDME" THEN u[j - 1] ELSE k[j])
             /\ k[j] = "XOFF" => u[j - 1] = "XON"
  <2>1. CASE j \in 1 .. n
    <3>1. u[j] = t[j] /\ u[j - 1] = t[j - 1] /\ k[j] = q[j]
      BY <1>1, <1>5, <2>1
    <3>2. /\ t[j] = (IF q[j] = "SENDME" THEN t[j - 1] ELSE q[j])
          /\ q[j] = "XOFF" => t[j - 1] = "XON"
      BY <1>2, <2>1
    <3> QED BY <3>1, <3>2
  <2>2. CASE j = n + 1
    <3>1. u[j] = v /\ u[j - 1] = t[n] /\ k[j] = c
      BY <1>1, <1>5, <2>2
    <3> QED BY <1>3, <1>4, <3>1
  <2> QED BY <1>1, <2>1, <2>2
<1>9. l > 0 => k[l] # "SENDME"
  <2>1. CASE c = "SENDME"
    BY <1>1, <1>2, <1>6, <2>1
  <2>2. CASE c # "SENDME"
    BY <1>1, <1>6, <2>2
  <2> QED BY <2>1, <2>2
<1>10. \A j \in l + 1 .. n + 1 : k[j] = "SENDME"
  <2>1. CASE c = "SENDME"
    BY <1>1, <1>2, <1>6, <2>1
  <2>2. CASE c # "SENDME"
    BY <1>1, <1>6, <2>2
  <2> QED BY <2>1, <2>2
<1>11. ASSUME NEW j \in l .. n + 1 PROVE u[j] = u[l]
  <2>1. CASE c = "SENDME"
    <3>1. v = t[n] /\ t[n] = t[m] /\ u[l] = t[m]
      BY <1>1, <1>2, <1>4, <1>5, <1>6, <2>1
    <3>2. CASE j <= n
      <4>1. j \in m .. n /\ j \in 0 .. n
        BY <1>1, <1>2, <1>6, <2>1, <3>2
      <4> QED BY <1>2, <1>5, <3>1, <4>1
    <3>3. CASE j = n + 1
      BY <1>5, <3>1, <3>3
    <3> QED BY <1>1, <1>2, <1>6, <2>1, <3>2, <3>3
  <2>2. CASE c # "SENDME"
    BY <1>1, <1>6, <2>2
  <2> QED BY <2>1, <2>2
<1>12. Told(k, u, l)
  BY <1>1, <1>7, <1>8, <1>9, <1>10, <1>11 DEF Told
<1>13. u[0] = t[0]
  BY <1>1, <1>5
<1> QED BY <1>5, <1>12, <1>13 DEF n, k, u, v, l

(* What the sender has been told when it takes a cell.                     *)
LEMMA ToldTake ==
  ASSUME NEW q \in Seq(Cells), q # <<>>, NEW t, NEW m, Told(q, t, m)
  PROVE  LET u == Shifted(t, Len(q))
         IN  /\ Told(Tail(q), u, IF m = 0 THEN 0 ELSE m - 1)
             /\ u[0] = t[1] /\ u[Len(q) - 1] = t[Len(q)]
             /\ t[1] = (IF Head(q) = "SENDME" THEN t[0] ELSE Head(q))
             /\ Head(q) = "XOFF" => t[0] = "XON"
             /\ Head(q) # "SENDME" => m > 0
             /\ m = 1 => Head(q) # "SENDME" /\ t[Len(q)] = t[1]
<1> DEFINE n == Len(q)
           k == Tail(q)
           u == Shifted(t, n)
           l == IF m = 0 THEN 0 ELSE m - 1
<1>1. /\ n \in Nat \ {0} /\ Len(k) = n - 1 /\ Head(q) = q[1]
      /\ \A j \in 1 .. n - 1 : k[j] = q[j + 1]
  BY Taken
<1>2. /\ t \in [0 .. n -> {"XOFF", "XON"}] /\ m \in 0 .. n
      /\ \A j \in 1 .. n : /\ t[j] = (IF q[j] = "SENDME" THEN t[j - 1] ELSE q[j])
                           /\ q[j] = "XOFF" => t[j - 1] = "XON"
      /\ m > 0 => q[m] # "SENDME"
      /\ \A j \in m + 1 .. n : q[j] = "SENDME"
      /\ \A j \in m .. n : t[j] = t[m]
  BY DEF Told
<1> HIDE DEF n, k
<1>5. u = [j \in 0 .. n - 1 |-> t[j + 1]] /\ \A j \in 0 .. n - 1 : u[j] = t[j + 1]
  BY <1>1 DEF Shifted
<1>6. (m = 0 => l = 0) /\ (m # 0 => l = m - 1)
  OBVIOUS
<1> HIDE DEF u, l
<1>7. u \in [0 .. n - 1 -> {"XOFF", "XON"}] /\ l \in 0 .. n - 1
  BY <1>1, <1>2, <1>5, <1>6
<1>8. ASSUME NEW j \in 1 .. n - 1
      PROVE  /\ u[j] = (IF k[j] = "SENDME" THEN u[j - 1] ELSE k[j])
             /\ k[j] = "XOFF" => u[j - 1] = "XON"
  <2>1. j + 1 \in 1 .. n /\ j - 1 \in 0 .. n - 1 /\ (j + 1) - 1 = j /\ (j - 1) + 1 = j
    BY <1>1
  <2>2. u[j] = t[j + 1] /\ u[j - 1] = t[j] /\ k[j] = q[j + 1]
    BY <1>1, <1>5, <2>1
  <2>3. /\ t[j + 1] = (IF q[j + 1] = "SENDME" THEN t[j] ELSE q[j + 1])
        /\ q[j + 1] = "XOFF" => t[j] = "XON"
    BY <1>2, <2>1
  <2> QED BY <2>1, <2>2, <2>3
<1>9. l > 0 => k[l] # "SENDME"
  BY <1>1, <1>2, <1>6
<1>10. ASSUME NEW j \in l + 1 .. n - 1 PROVE k[j] = "SENDME"
  <2>1. j \in 1 .. n - 1 /\ j + 1 \in m + 1 .. n
    BY <1>1, <1>2, <1>6, <1>7
  <2> QED BY <1>1, <1>2, <2>1
<1>11. ASSUME NEW j \in l .. n - 1 PROVE u[j] = u[l]
  BY <1>1, <1>2, <1>5, <1>6
<1>12. Told(k, u, l)
  BY <1>1, <1>7, <1>8, <1>9, <1>10, <1>11 DEF Told
<1>13. u[0] = t[1] /\ u[n - 1] = t[n]
  BY <1>1, <1>5
<1>14. /\ t[1] = (IF q[1] = "SENDME" THEN t[0] ELSE q[1])
       /\ q[1] = "XOFF" => t[0] = "XON"
  BY <1>1, <1>2
<1>15. q[1] # "SENDME" => m > 0
  BY <1>1, <1>2
<1>16. m = 1 => q[1] # "SENDME" /\ t[n] = t[1]
  BY <1>1, <1>2
<1>17. Head(q) = q[1]
  BY <1>1
<1> QED BY <1>12, <1>13, <1>14, <1>15, <1>16, <1>17 DEF n, k, u, l

-----------------------------------------------------------------------------
(* The invariant.                                                          *)

OneFor(c) == [d \in Cells |-> IF d = c THEN 1 ELSE 0]

(* The counters after scaling.                                              *)
Scaled == snd.num_xoff_recv <= XoffScaleAt /\ snd.num_xon_recv <= XonScaleAt

(* What is on its way between the two ends: s counts the SENDMEs, t says    *)
(* what the sender was told last, m is the last XON or XOFF.                *)
OnItsWay(s, t, m) ==
  /\ Sums(ctl, OneFor("SENDME"), s) /\ Told(ctl, t, m)
  /\ snd.xoff_received <=> t[0] = "XOFF"
  /\ rcv.xoff_sent <=> t[Len(ctl)] = "XOFF"
  /\ outstanding + s[0] = Len(data) + s[Len(ctl)]

(* A receiver that has not stopped the sender is less than a cell beyond    *)
(* its limit.  One that has gets what was sent before the XOFF arrived: the *)
(* cells of the SENDMEs behind an XOFF on its way, or else the rest of the  *)
(* window.                                                                  *)
BufferFits(s, m) ==
  /\ rcv.xoff_sent => rcv.outbuf > 0
  /\ ~rcv.xoff_sent => rcv.outbuf <= XoffBytes + MaxCell
  /\ rcv.xoff_sent /\ m = 0 =>
       rcv.outbuf <= XoffBytes + 2 * MaxCell + MaxCell * (Window - Len(data))
  /\ rcv.xoff_sent /\ m > 0 =>
       rcv.outbuf <= XoffBytes + 2 * MaxCell + MaxCell * (s[Len(ctl)] - s[m])

Book == \E s, t, m : OnItsWay(s, t, m) /\ BufferFits(s, m)

EndsInv == Stream!TypeOK /\ Scaled /\ Book

(* Multiples keep their order.                                             *)
LEMMA Times == ASSUME NEW a \in Nat, NEW b \in Nat, NEW c \in Nat, a <= b
               PROVE  c * a \in Nat /\ c * b \in Nat /\ c * a <= c * b
<1>1. PICK d \in Nat : b = a + d
  <2>1. b - a \in Nat /\ b = a + (b - a)
    OBVIOUS
  <2> QED BY <2>1
<1>2. c * a \in Nat /\ c * d \in Nat
  OBVIOUS
<1>3. c * (a + d) = c * a + c * d
  OBVIOUS
<1>4. c * b = c * a + c * d
  BY <1>1, <1>3
<1> DEFINE x == c * a
           y == c * d
           z == c * b
<1>5. x \in Nat /\ y \in Nat /\ z = x + y
  BY <1>2, <1>4
<1> HIDE DEF x, y, z
<1>6. z \in Nat /\ x <= z
  BY <1>5
<1> QED BY <1>5, <1>6, Zenon DEF x, z

(* One multiple more.                                                      *)
LEMMA TimesNext == ASSUME NEW a \in Int, NEW c \in Int
                   PROVE  c * a \in Int /\ c * (a + 1) = c * a + c
  OBVIOUS

(* Cells sent and SENDMEs received keep the balance.                        *)
LEMMA Balance ==
  ASSUME NEW a \in Nat, NEW b \in Nat, NEW c \in Nat, NEW d \in Nat, a + b = c + d
  PROVE  (a + 1) + b = (c + 1) + d /\ (a - 1) + (b + 1) = c + d
  OBVIOUS

(* Where SENDMEs are counted, and how far.                                  *)
LEMMA Way ==
  ASSUME Stream!XonXoffAssumption, Stream!TypeOK, NEW s, NEW t, NEW m, OnItsWay(s, t, m)
  PROVE  /\ ctl \in Seq(Cells) /\ Len(ctl) \in Nat /\ Len(data) \in Nat
         /\ m \in 0 .. Len(ctl) /\ outstanding \in 0 .. Window
         /\ s \in [0 .. Len(ctl) -> Nat] /\ t \in [0 .. Len(ctl) -> {"XOFF", "XON"}]
         /\ s[0] \in Nat /\ s[m] \in Nat /\ s[Len(ctl)] \in Nat
         /\ s[0] <= s[m] /\ s[m] <= s[Len(ctl)]
         /\ t[m] = t[Len(ctl)]
         /\ Len(data) + (s[Len(ctl)] - s[m]) <= Window
         /\ Len(data) <= outstanding /\ Len(data) <= Window
<1>1. /\ ctl \in Seq(Cells) /\ Len(ctl) \in Nat /\ Len(data) \in Nat
      /\ outstanding \in 0 .. Window /\ Window \in Nat
  <2>1. ctl \in Seq(Cells) /\ data \in Seq(1 .. MaxCell) /\ outstanding \in 0 .. Window
    BY DEF Stream!TypeOK, Cells
  <2>2. Window \in Nat
    BY XonXoffNumbers
  <2> QED BY <2>1, <2>2
<1>2. /\ s \in [0 .. Len(ctl) -> Nat]
      /\ \A i, j \in 0 .. Len(ctl) : i <= j => s[i] <= s[j]
      /\ outstanding + s[0] = Len(data) + s[Len(ctl)]
  BY DEF OnItsWay, Sums
<1>3. /\ t \in [0 .. Len(ctl) -> {"XOFF", "XON"}] /\ m \in 0 .. Len(ctl)
      /\ \A j \in m .. Len(ctl) : t[j] = t[m]
  BY DEF OnItsWay, Told
<1>4. /\ s[0] \in Nat /\ s[m] \in Nat /\ s[Len(ctl)] \in Nat
      /\ s[0] <= s[m] /\ s[m] <= s[Len(ctl)]
  BY <1>1, <1>2, <1>3
<1>5. t[m] = t[Len(ctl)]
  BY <1>1, <1>3
<1> QED BY <1>1, <1>2, <1>3, <1>4, <1>5

(* What the invariant says of the two ends.                                *)
LEMMA Bounded ==
  ASSUME Stream!XonXoffAssumption, Stream!TypeOK, Book
  PROVE  /\ Stream!BufferIsBounded /\ Stream!StoppedWhileBuffering
         /\ Stream!EndsAgree /\ rcv.outbuf <= Full
<1>1. PICK s, t, m : OnItsWay(s, t, m) /\ BufferFits(s, m)
  BY DEF Book
<1>2. /\ ctl \in Seq(Cells) /\ Len(ctl) \in Nat /\ Len(data) \in Nat
      /\ m \in 0 .. Len(ctl)
      /\ s[0] \in Nat /\ s[m] \in Nat /\ s[Len(ctl)] \in Nat
      /\ s[m] <= s[Len(ctl)]
      /\ t[m] = t[Len(ctl)]
      /\ Len(data) + (s[Len(ctl)] - s[m]) <= Window
      /\ Len(data) <= Window
  BY <1>1, Way
<1>3. Window \in Nat /\ MaxCell \in Nat /\ XoffBytes \in Nat /\ Full \in Nat
  BY XonXoffNumbers
<1>4. Full = XoffBytes + 2 * MaxCell + MaxCell * Window
  BY <1>3 DEF Full
<1>5. MaxCell * Window \in Nat
  BY <1>3
<1>6. rcv.outbuf \in Nat /\ rcv.xoff_sent \in BOOLEAN
  BY DEF Stream!TypeOK, Stream!Receiver
<1>7. rcv.outbuf <= Full
  <2>1. CASE ~rcv.xoff_sent
    BY <1>1, <1>3, <1>4, <1>5, <1>6, <2>1 DEF BufferFits
  <2>2. CASE rcv.xoff_sent /\ m = 0
    <3>1. Window - Len(data) \in Nat /\ Window - Len(data) <= Window
      BY <1>2, <1>3
    <3>2. MaxCell * (Window - Len(data)) \in Nat
          /\ MaxCell * (Window - Len(data)) <= MaxCell * Window
      BY <1>3, <3>1, Times
    <3> QED BY <1>1, <1>3, <1>4, <1>5, <1>6, <2>2, <3>2 DEF BufferFits
  <2>3. CASE rcv.xoff_sent /\ m > 0
    <3> DEFINE d == s[Len(ctl)] - s[m]
    <3>1. d \in Nat /\ d <= Window
      BY <1>2, <1>3
    <3>2. rcv.outbuf <= XoffBytes + 2 * MaxCell + MaxCell * d
      BY <1>1, <2>3 DEF BufferFits
    <3> HIDE DEF d
    <3>3. MaxCell * d \in Nat /\ MaxCell * d <= MaxCell * Window
      BY <1>3, <3>1, Times
    <3> QED BY <1>3, <1>4, <1>5, <1>6, <3>2, <3>3
  <2> QED BY <1>2, <2>1, <2>2, <2>3
<1>8. Stream!EndsAgree
  <2>1. /\ snd.xoff_received <=> t[0] = "XOFF"
        /\ rcv.xoff_sent <=> t[Len(ctl)] = "XOFF"
        /\ snd.xoff_received \in BOOLEAN
    BY <1>1 DEF OnItsWay, Stream!TypeOK
  <2>2. /\ m > 0 => ctl[m] # "SENDME" /\ t[m] = ctl[m]
        /\ \A j \in m + 1 .. Len(ctl) : ctl[j] = "SENDME"
    BY <1>1 DEF OnItsWay, Told
  <2>3. CASE m = 0
    <3>1. Stream!XonsAndXoffs = {}
      BY <1>2, <2>2, <2>3 DEF Stream!XonsAndXoffs
    <3>2. rcv.xoff_sent = snd.xoff_received
      BY <1>2, <1>6, <2>1, <2>3
    <3> QED BY <3>1, <3>2 DEF Stream!EndsAgree
  <2>4. CASE m > 0
    <3>1. m \in Stream!XonsAndXoffs
      BY <1>2, <2>2, <2>4 DEF Stream!XonsAndXoffs
    <3>2. \A j \in Stream!XonsAndXoffs : j <= m
      BY <1>2, <2>2, <2>4 DEF Stream!XonsAndXoffs
    <3>3. rcv.xoff_sent = (ctl[m] = "XOFF")
      BY <1>2, <1>6, <2>1, <2>2, <2>4
    <3> QED BY <3>1, <3>2, <3>3 DEF Stream!EndsAgree
  <2> QED BY <1>2, <2>3, <2>4
<1> QED BY <1>1, <1>7, <1>8 DEF Stream!BufferIsBounded, Stream!StoppedWhileBuffering,
                                BufferFits, Full

(* The sender's steps.                                                      *)

(* A data cell is packaged.                                                *)
LEMMA SendsData ==
  ASSUME Stream!XonXoffAssumption, EndsInv, NEW len \in 1 .. MaxCell,
         Stream!connection_edge_package(len)
  PROVE  EndsInv'
<1>1. /\ Stream!TypeOK /\ Scaled
      /\ XmitScaleAt \in Nat \ {0} /\ MaxCell \in Nat /\ 2 * MaxCell <= XmitScaleAt
      /\ Window \in Nat /\ XoffScaleAt \in Nat /\ XonScaleAt \in Nat
  BY XonXoffNumbers DEF EndsInv
<1>2. /\ ~ snd.xoff_received /\ outstanding < Window
      /\ snd' = Stream!flow_control_note_sent_data(snd, len)
      /\ outstanding' = outstanding + 1
      /\ data' = Append(data, len)
      /\ UNCHANGED <<rcv, ctl, valid>>
  BY DEF Stream!connection_edge_package
<1>3. /\ snd' \in [total_bytes_xmit : 0 .. XmitScaleAt,
                   num_xoff_recv : 0 .. XoffScaleAt + 1,
                   num_xon_recv : 0 .. XonScaleAt + 1,
                   xoff_received : BOOLEAN]
      /\ Scaled' /\ snd'.xoff_received = snd.xoff_received
  <2> DEFINE b == IF snd.total_bytes_xmit >= XmitScaleAt - len
                  THEN snd.total_bytes_xmit \div 2 + len ELSE snd.total_bytes_xmit + len
             f == IF snd.total_bytes_xmit >= XmitScaleAt - len
                  THEN snd.num_xoff_recv \div 2 ELSE snd.num_xoff_recv
             n == IF snd.total_bytes_xmit >= XmitScaleAt - len
                  THEN snd.num_xon_recv \div 2 ELSE snd.num_xon_recv
  <2>1. /\ snd.total_bytes_xmit \in 0 .. XmitScaleAt /\ snd.num_xoff_recv \in 0 .. XoffScaleAt
        /\ snd.num_xon_recv \in 0 .. XonScaleAt /\ snd.xoff_received \in BOOLEAN
    BY <1>1 DEF Stream!TypeOK, Scaled
  <2>2. b \in 0 .. XmitScaleAt /\ f \in 0 .. XoffScaleAt /\ n \in 0 .. XonScaleAt
    BY <1>1, <2>1
  <2>3. snd' = [total_bytes_xmit |-> b, num_xoff_recv |-> f, num_xon_recv |-> n,
                xoff_received |-> snd.xoff_received]
    BY <1>1, <1>2 DEF Stream!flow_control_note_sent_data, Stream!ScaledDown,
                      Stream!TypeOK
  <2> HIDE DEF b, f, n
  <2>4. f \in 0 .. XoffScaleAt + 1 /\ n \in 0 .. XonScaleAt + 1
        /\ f <= XoffScaleAt /\ n <= XonScaleAt
    BY <1>1, <2>2
  <2> QED BY <2>1, <2>2, <2>3, <2>4 DEF Scaled
<1>4. Stream!TypeOK'
  <2>1. outstanding + 1 \in 0 .. Window
    BY <1>1, <1>2, SMTT(30) DEF Stream!TypeOK
  <2>2. Append(data, len) \in Seq(1 .. MaxCell)
    BY <1>1 DEF Stream!TypeOK
  <2> QED BY <1>1, <1>2, <1>3, <2>1, <2>2 DEF Stream!TypeOK
<1>5. Book'
  <2>1. PICK s, t, m : OnItsWay(s, t, m) /\ BufferFits(s, m)
    BY DEF EndsInv, Book
  <2>2. /\ Len(data) \in Nat /\ Len(data') = Len(data) + 1 /\ outstanding \in Nat
        /\ s[0] \in Nat /\ s[Len(ctl)] \in Nat
    <3>1. data \in Seq(1 .. MaxCell) /\ outstanding \in Nat
      BY <1>1 DEF Stream!TypeOK
    <3> QED BY <1>1, <1>2, <2>1, <3>1, Way
  <2>3. OnItsWay(s, t, m)'
    <3>1. outstanding' + s[0] = Len(data') + s[Len(ctl)]
      <4>1. outstanding + s[0] = Len(data) + s[Len(ctl)]
        BY <2>1 DEF OnItsWay
      <4>2. outstanding' = outstanding + 1
        BY <1>2
      <4>3. (outstanding + 1) + s[0] = (Len(data) + 1) + s[Len(ctl)]
        <5>1. PICK a \in Nat, b \in Nat, c \in Nat, d \in Nat :
                a = outstanding /\ b = s[0] /\ c = Len(data) /\ d = s[Len(ctl)]
          BY <2>2, Zenon
        <5>2. a + b = c + d
          BY <4>1, <5>1, Zenon
        <5>3. (a + 1) + b = (c + 1) + d
          BY ONLY <5>2, Balance
        <5> QED BY <5>1, <5>3, Zenon
      <4>4. Len(data') = Len(data) + 1
        BY <2>2
      <4> QED BY ONLY <4>2, <4>3, <4>4, Zenon
    <3> QED BY <1>2, <1>3, <2>1, <3>1 DEF OnItsWay
  <2>4. ~(rcv.xoff_sent /\ m = 0)
    <3>1. t[0] # "XOFF" /\ (m = 0 => t[Len(ctl)] = t[0])
      BY <1>1, <1>2, <2>1, Way DEF OnItsWay
    <3> QED BY <2>1, <3>1 DEF OnItsWay
  <2>5. BufferFits(s, m)'
    BY <1>2, <2>1, <2>4 DEF BufferFits
  <2> QED BY <2>3, <2>5 DEF Book
<1> QED BY <1>3, <1>4, <1>5 DEF EndsInv

(* A cell is taken from the way back.                                       *)
LEMMA Takes ==
  ASSUME Stream!XonXoffAssumption, EndsInv, ctl # <<>>, ctl' = Tail(ctl), rcv' = rcv,
         data' = data,
         Head(ctl) = "SENDME" => outstanding' = outstanding - 1 /\ snd' = snd,
         Head(ctl) # "SENDME" => outstanding' = outstanding
           /\ snd'.xoff_received = (Head(ctl) = "XOFF")
  PROVE  Book' /\ ctl' \in Seq(Cells) /\ outstanding' \in 0 .. Window
<1>1. Stream!TypeOK /\ Window \in Nat /\ MaxCell \in Nat /\ XoffBytes \in Nat
  BY XonXoffNumbers DEF EndsInv
<1>2. PICK s, t, m : OnItsWay(s, t, m) /\ BufferFits(s, m)
  BY DEF EndsInv, Book
<1>3. /\ ctl \in Seq(Cells) /\ Len(ctl) \in Nat /\ Len(data) \in Nat
      /\ m \in 0 .. Len(ctl) /\ outstanding \in 0 .. Window
      /\ s \in [0 .. Len(ctl) -> Nat]
      /\ s[0] \in Nat /\ s[m] \in Nat /\ s[Len(ctl)] \in Nat
      /\ s[0] <= s[m] /\ s[m] <= s[Len(ctl)]
      /\ Len(data) + (s[Len(ctl)] - s[m]) <= Window
      /\ outstanding + s[0] = Len(data) + s[Len(ctl)]
  BY <1>1, <1>2, Way DEF OnItsWay
<1>4. /\ Tail(ctl) \in Seq(Cells) /\ Len(Tail(ctl)) = Len(ctl) - 1
      /\ Len(ctl) \in Nat \ {0} /\ Len(ctl) - 1 \in Nat /\ Head(ctl) \in Cells
  BY <1>3, Taken
<1>a. PICK g : g = Shifted(s, Len(ctl))
  OBVIOUS
<1>b. PICK u : u = Shifted(t, Len(ctl))
  OBVIOUS
<1>c. PICK l : l = IF m = 0 THEN 0 ELSE m - 1
  OBVIOUS
<1>d. PICK w : w = OneFor("SENDME")
  OBVIOUS
<1>5. /\ Sums(Tail(ctl), w, g)
      /\ s[1] = s[0] + w[Head(ctl)]
      /\ \A j \in 0 .. Len(ctl) - 1 : g[j] = s[j + 1]
  <2>1. Sums(ctl, w, s)
    BY <1>2, <1>d DEF OnItsWay
  <2>2. ctl \in Seq(Cells) /\ ctl # <<>>
    BY <1>3
  <2> QED BY ONLY <1>a, <2>1, <2>2, SumsTake
<1>6. /\ Told(Tail(ctl), u, l)
      /\ u[0] = t[1] /\ u[Len(ctl) - 1] = t[Len(ctl)]
      /\ t[1] = (IF Head(ctl) = "SENDME" THEN t[0] ELSE Head(ctl))
      /\ Head(ctl) # "SENDME" => m > 0
      /\ m = 1 => Head(ctl) # "SENDME" /\ t[Len(ctl)] = t[1]
  <2>1. Told(ctl, t, m)
    BY <1>2 DEF OnItsWay
  <2> QED BY <1>3, <1>b, <1>c, <2>1, ToldTake
<1>7. w[Head(ctl)] = (IF Head(ctl) = "SENDME" THEN 1 ELSE 0)
  BY <1>4, <1>d DEF OneFor
<1>8. /\ g[0] = s[1] /\ g[Len(ctl) - 1] = s[Len(ctl)]
      /\ m > 0 => l = m - 1 /\ g[l] = s[m]
      /\ m = 0 => l = 0
      /\ s[1] \in Nat /\ s[1] <= s[Len(ctl)]
  <2>1. s[1] <= s[Len(ctl)] /\ s[1] \in Nat
    <3>1. \A i, j \in 0 .. Len(ctl) : i <= j => s[i] <= s[j]
      BY <1>2 DEF OnItsWay, Sums
    <3>2. Len(ctl) \in Nat /\ 1 <= Len(ctl)
      BY <1>4
    <3>3. 1 \in 0 .. Len(ctl) /\ Len(ctl) \in 0 .. Len(ctl)
      BY <3>2
    <3>4. s[1] <= s[Len(ctl)]
      BY <3>1, <3>2, <3>3
    <3>5. s[1] \in Nat
      BY <1>3, <3>3
    <3> QED BY <3>4, <3>5
  <2>2. m > 0 => l \in 0 .. Len(ctl) - 1 /\ l + 1 = m /\ l = m - 1
    BY <1>3, <1>4, <1>c
  <2>3. m = 0 => l = 0
    BY <1>c
  <2>4. /\ 0 \in 0 .. Len(ctl) - 1 /\ Len(ctl) - 1 \in 0 .. Len(ctl) - 1
        /\ (Len(ctl) - 1) + 1 = Len(ctl)
    BY <1>4
  <2>5. g[0] = s[1] /\ g[Len(ctl) - 1] = s[Len(ctl)]
    BY <1>5, <2>4
  <2> QED BY <1>5, <2>1, <2>2, <2>3, <2>5
<1>9. OnItsWay(g, u, l)'
  <2>1. Sums(ctl, OneFor("SENDME"), g)' /\ Told(ctl, u, l)'
    BY <1>5, <1>6, <1>d
  <2>2. (snd.xoff_received <=> u[0] = "XOFF")'
    BY <1>2, <1>4, <1>6 DEF OnItsWay, Cells
  <2>3. (rcv.xoff_sent <=> u[Len(ctl)] = "XOFF")'
    BY <1>2, <1>4, <1>6 DEF OnItsWay
  <2>4. (outstanding + g[0] = Len(data) + g[Len(ctl)])'
    <3>1. outstanding \in Nat /\ s[0] \in Nat /\ s[Len(ctl)] \in Nat
      BY <1>1, <1>3
    <3>2. outstanding + s[0] = Len(data) + s[Len(ctl)] /\ Len(data) \in Nat
      BY <1>3
    <3>3. data' = data /\ g[Len(ctl')] = s[Len(ctl)] /\ g[0] = s[1]
      BY <1>4, <1>8
    <3>4. CASE Head(ctl) = "SENDME"
      <4>1. outstanding' = outstanding - 1 /\ s[1] = s[0] + 1
        BY <1>5, <1>7, <3>4
      <4>2. (outstanding - 1) + (s[0] + 1) = Len(data) + s[Len(ctl)]
        BY ONLY <3>1, <3>2, Balance
      <4> QED BY ONLY <3>3, <4>1, <4>2, Zenon
    <3>5. CASE Head(ctl) # "SENDME"
      <4>1. outstanding' = outstanding /\ s[1] = s[0]
        BY <1>5, <1>7, <3>1, <3>5
      <4> QED BY <3>1, <3>2, <3>3, <4>1
    <3> QED BY <3>4, <3>5
  <2> QED BY <2>1, <2>2, <2>3, <2>4 DEF OnItsWay
<1>10. outstanding' \in 0 .. Window
  <2>1. /\ s[0] \in Nat /\ s[Len(ctl)] \in Nat /\ outstanding \in 0 .. Window
        /\ outstanding + s[0] = Len(data) + s[Len(ctl)] /\ Len(data) \in Nat
        /\ s[1] \in Nat /\ s[1] <= s[Len(ctl)]
    BY <1>3, <1>8
  <2>2. CASE Head(ctl) = "SENDME"
    <3>1. outstanding' = outstanding - 1 /\ s[1] = s[0] + 1
      BY <1>5, <1>7, <2>2
    <3> QED BY <1>1, <2>1, <3>1
  <2>3. CASE Head(ctl) # "SENDME"
    BY <2>1, <2>3
  <2> QED BY <2>2, <2>3
<1>11. BufferFits(g, l)'
  <2>0. Len(ctl') = Len(ctl) - 1
    BY <1>4
  <2>1. /\ rcv'.xoff_sent => rcv'.outbuf > 0
        /\ ~rcv'.xoff_sent => rcv'.outbuf <= XoffBytes + MaxCell
    BY <1>2 DEF BufferFits
  <2>2. ASSUME rcv'.xoff_sent, l = 0
        PROVE  rcv'.outbuf <= XoffBytes + 2 * MaxCell + MaxCell * (Window - Len(data'))
    <3>1. CASE m = 0
      BY <1>2, <2>2, <3>1 DEF BufferFits
    <3>2. CASE m # 0
      <4>1. m = 1
        BY <1>3, <1>8, <2>2, <3>2
      <4>2. Head(ctl) # "SENDME" /\ s[m] = s[0]
        BY <1>3, <1>5, <1>6, <1>7, <4>1
      <4> DEFINE d == s[Len(ctl)] - s[m]
                 e == Window - Len(data)
      <4>3. d \in Nat /\ e \in Nat /\ d <= e
        BY <1>1, <1>3, <4>2
      <4>4. rcv.outbuf <= XoffBytes + 2 * MaxCell + MaxCell * d
        BY <1>2, <2>2, <4>1 DEF BufferFits
      <4>5. MaxCell * d \in Nat /\ MaxCell * e \in Nat /\ MaxCell * d <= MaxCell * e
        <5> HIDE DEF d, e
        <5> QED BY <1>1, <4>3, Times
      <4>6. rcv.outbuf \in Nat
        BY <1>1 DEF Stream!TypeOK, Stream!Receiver
      <4>7. rcv.outbuf <= XoffBytes + 2 * MaxCell + MaxCell * e
        <5> HIDE DEF d, e
        <5> QED BY <1>1, <4>4, <4>5, <4>6
      <4> QED BY <4>7
    <3> QED BY <3>1, <3>2
  <2>3. ASSUME rcv'.xoff_sent, l > 0
        PROVE  rcv'.outbuf <= XoffBytes + 2 * MaxCell + MaxCell * (g[Len(ctl')] - g[l])
    <3>1. m > 0 /\ g[l] = s[m] /\ g[Len(ctl')] = s[Len(ctl)]
      BY <1>3, <1>8, <2>0, <2>3
    <3> QED BY <1>2, <2>3, <3>1 DEF BufferFits
  <2> QED BY <2>1, <2>2, <2>3 DEF BufferFits
<1>12. Book'
  BY <1>9, <1>11 DEF Book
<1> QED BY <1>4, <1>10, <1>12

(* The sender handles a cell from the way back.                            *)
LEMMA SenderTakes ==
  ASSUME Stream!XonXoffAssumption, EndsInv,
         Stream!ProcessSendme \/ Stream!ProcessXoff \/ Stream!ProcessXon
  PROVE  EndsInv'
<1>1. /\ Stream!TypeOK /\ Scaled
      /\ XmitScaleAt \in Nat /\ XoffScaleAt \in Nat \ {0} /\ XonScaleAt \in Nat \ {0}
  BY XonXoffNumbers DEF EndsInv
<1>2. /\ snd.total_bytes_xmit \in 0 .. XmitScaleAt /\ snd.num_xoff_recv \in 0 .. XoffScaleAt
      /\ snd.num_xon_recv \in 0 .. XonScaleAt /\ snd.xoff_received \in BOOLEAN
  BY <1>1 DEF Stream!TypeOK, Scaled
<1> DEFINE Fine == /\ snd' \in [total_bytes_xmit : 0 .. XmitScaleAt,
                              num_xoff_recv : 0 .. XoffScaleAt + 1,
                              num_xon_recv : 0 .. XonScaleAt + 1,
                              xoff_received : BOOLEAN]
                   /\ Scaled' /\ valid' \in BOOLEAN
<1>3. ASSUME Book', ctl' \in Seq(Cells), outstanding' \in 0 .. Window, Fine,
             rcv' = rcv, data' = data
      PROVE  EndsInv'
  BY <1>1, <1>3 DEF EndsInv, Stream!TypeOK, Cells
<1>4. CASE Stream!ProcessSendme
  <2>1. Fine
    BY <1>1, <1>4 DEF Stream!ProcessSendme, Stream!TypeOK, Scaled
  <2>2. Book' /\ ctl' \in Seq(Cells) /\ outstanding' \in 0 .. Window
    BY <1>4, Takes DEF Stream!ProcessSendme
  <2> QED BY <1>3, <1>4, <2>1, <2>2 DEF Stream!ProcessSendme
<1>5. CASE Stream!ProcessXoff
  <2> DEFINE b == IF snd.num_xoff_recv = XoffScaleAt
                  THEN snd.total_bytes_xmit \div 2 ELSE snd.total_bytes_xmit
             f == IF snd.num_xoff_recv = XoffScaleAt
                  THEN snd.num_xoff_recv \div 2 + 1 ELSE snd.num_xoff_recv + 1
             n == IF snd.num_xoff_recv = XoffScaleAt
                  THEN snd.num_xon_recv \div 2 ELSE snd.num_xon_recv
             z == [total_bytes_xmit |-> b, num_xoff_recv |-> f, num_xon_recv |-> n,
                   xoff_received |-> TRUE]
  <2>1. b \in 0 .. XmitScaleAt /\ f \in 0 .. XoffScaleAt /\ n \in 0 .. XonScaleAt
    BY <1>1, <1>2
  <2>2. /\ snd' = Stream!circuit_process_stream_xoff(snd).edge
        /\ valid' = Stream!circuit_process_stream_xoff(snd).ok
        /\ ctl # <<>> /\ Head(ctl) = "XOFF" /\ ctl' = Tail(ctl)
        /\ outstanding' = outstanding /\ data' = data /\ rcv' = rcv
    BY <1>5 DEF Stream!ProcessXoff
  <2>3. CASE snd.xoff_received
    <3>1. snd' = snd /\ valid' = FALSE
      BY <2>2, <2>3 DEF Stream!circuit_process_stream_xoff
    <3>2. Fine /\ snd'.xoff_received
      BY <1>1, <2>3, <3>1 DEF Stream!TypeOK, Scaled
    <3>3. Book' /\ ctl' \in Seq(Cells) /\ outstanding' \in 0 .. Window
      <4>1. snd'.xoff_received = (Head(ctl) = "XOFF")
        BY <1>2, <2>2, <3>1, <3>2
      <4> QED BY <2>2, <4>1, Takes
    <3> QED BY <1>3, <2>2, <3>2, <3>3
  <2>4. CASE ~snd.xoff_received
    <3>1. snd' = z
      BY <1>1, <2>2, <2>4 DEF Stream!circuit_process_stream_xoff, Stream!ScaledDown,
                              Stream!TypeOK
    <3>2. valid' = (z.total_bytes_xmit >= XoffBytes * z.num_xoff_recv)
      <4>1. valid' = (Stream!circuit_process_stream_xoff(snd).edge.total_bytes_xmit
                        >= XoffBytes * Stream!circuit_process_stream_xoff(snd).edge.num_xoff_recv)
        BY <2>2, <2>4 DEF Stream!circuit_process_stream_xoff
      <4> HIDE DEF z
      <4> QED BY <2>2, <3>1, <4>1
    <3>3. valid' \in BOOLEAN
      BY <3>2
    <3> HIDE DEF b, f, n
    <3>4. /\ f \in 0 .. XoffScaleAt + 1 /\ n \in 0 .. XonScaleAt + 1
          /\ f <= XoffScaleAt /\ n <= XonScaleAt
      BY <1>1, <2>1
    <3>5. snd'.num_xoff_recv = f /\ snd'.num_xon_recv = n /\ snd'.xoff_received = TRUE
      BY <3>1
    <3>6. Fine
      BY <2>1, <3>1, <3>3, <3>4, <3>5 DEF Scaled
    <3>7. Book' /\ ctl' \in Seq(Cells) /\ outstanding' \in 0 .. Window
      <4>1. snd'.xoff_received = (Head(ctl) = "XOFF")
        BY <2>2, <3>5
      <4> QED BY <2>2, <4>1, Takes
    <3> QED BY <1>3, <2>2, <3>6, <3>7
  <2> QED BY <1>2, <2>3, <2>4
<1>6. CASE Stream!ProcessXon
  <2> DEFINE b == IF snd.num_xon_recv = XonScaleAt
                  THEN snd.total_bytes_xmit \div 2 ELSE snd.total_bytes_xmit
             f == IF snd.num_xon_recv = XonScaleAt
                  THEN snd.num_xoff_recv \div 2 ELSE snd.num_xoff_recv
             n == IF snd.num_xon_recv = XonScaleAt
                  THEN snd.num_xon_recv \div 2 + 1 ELSE snd.num_xon_recv + 1
             z == [total_bytes_xmit |-> b, num_xoff_recv |-> f, num_xon_recv |-> n,
                   xoff_received |-> FALSE]
  <2>1. b \in 0 .. XmitScaleAt /\ f \in 0 .. XoffScaleAt /\ n \in 0 .. XonScaleAt
    BY <1>1, <1>2
  <2>2. /\ snd' = Stream!circuit_process_stream_xon(snd).edge
        /\ valid' = Stream!circuit_process_stream_xon(snd).ok
        /\ ctl # <<>> /\ Head(ctl) = "XON" /\ ctl' = Tail(ctl)
        /\ outstanding' = outstanding /\ data' = data /\ rcv' = rcv
    BY <1>6 DEF Stream!ProcessXon
  <2>4. snd' = z
    BY <1>1, <2>2 DEF Stream!circuit_process_stream_xon, Stream!ScaledDown,
                      Stream!TypeOK
  <2>5. valid' = (z.total_bytes_xmit >= XonBytes * z.num_xon_recv)
    <3>1. valid' = (Stream!circuit_process_stream_xon(snd).edge.total_bytes_xmit
                      >= XonBytes * Stream!circuit_process_stream_xon(snd).edge.num_xon_recv)
      BY <2>2 DEF Stream!circuit_process_stream_xon, XonBytes
    <3> HIDE DEF z
    <3> QED BY <2>2, <2>4, <3>1
  <2>6. valid' \in BOOLEAN
    BY <2>5
  <2> HIDE DEF b, f, n
  <2>7. /\ f \in 0 .. XoffScaleAt + 1 /\ n \in 0 .. XonScaleAt + 1
        /\ f <= XoffScaleAt /\ n <= XonScaleAt
    BY <1>1, <2>1
  <2>8. snd'.num_xoff_recv = f /\ snd'.num_xon_recv = n /\ snd'.xoff_received = FALSE
    BY <2>4
  <2>9. Fine
    BY <2>1, <2>4, <2>6, <2>7, <2>8 DEF Scaled
  <2>10. Book' /\ ctl' \in Seq(Cells) /\ outstanding' \in 0 .. Window
    <3>1. snd'.xoff_received = (Head(ctl) = "XOFF")
      BY <2>2, <2>8
    <3> QED BY <2>2, <3>1, Takes
  <2> QED BY <1>3, <2>2, <2>9, <2>10
<1> QED BY <1>4, <1>5, <1>6

(* The receiver's steps.                                                    *)

(* Concatenating a cell or two is appending them.                           *)
LEMMA Concatenated ==
  ASSUME NEW q \in Seq(Cells), NEW c \in Cells, NEW d \in Cells
  PROVE  /\ q \o <<>> = q /\ q \o Append(<<>>, c) = Append(q, c)
         /\ q \o <<c>> = Append(q, c)
         /\ q \o Append(<<c>>, d) = Append(Append(q, c), d)
<1>1. q \o <<>> = q
  OBVIOUS
<1>2. Append(<<>>, c) = <<c>> /\ q \o <<c>> = Append(q, c)
  OBVIOUS
<1>3. q \o Append(<<c>>, d) = Append(q \o <<c>>, d)
  <2>1. <<c>> \in Seq(Cells)
    OBVIOUS
  <2> QED BY <2>1
<1> QED BY <1>1, <1>2, <1>3

(* What an arriving data cell does.                                         *)
LEMMA Arrived ==
  ASSUME Stream!XonXoffAssumption, Stream!TypeOK, Stream!DataArrives
  PROVE  LET h == Head(data)
             c == Append(ctl, "SENDME")
         IN  /\ data # <<>> /\ h \in 1 .. MaxCell /\ data' = Tail(data)
             /\ UNCHANGED <<snd, outstanding, valid>>
             /\ rcv' \in Stream!Receiver /\ rcv'.sent = <<>> /\ rcv'.outbuf = rcv.outbuf + h
             /\ \/ /\ rcv'.xoff_sent = rcv.xoff_sent /\ ctl' = c
                   /\ rcv.xoff_sent \/ rcv.outbuf <= XoffBytes
                   /\ \A v, u \in Nat : Pays(rcv, v, u) => Pays(rcv', v + h, u)
                \/ /\ ~rcv.xoff_sent /\ rcv'.xoff_sent /\ ctl' = Append(c, "XOFF")
                   /\ rcv.outbuf > XoffBytes
                   /\ \A v, u \in Nat : Pays(rcv, v, u) => Pays(rcv', v + h, u)
                \/ /\ ~rcv'.xoff_sent /\ ctl' = Append(c, "XON")
                   /\ rcv.xoff_sent => rcv.outbuf = 0
                   /\ rcv.outbuf <= XoffBytes
                   /\ \A v, u \in Nat : Pays(rcv, v, u) => Pays(rcv', v + h, u + XonBytes)
<1> DEFINE h == Head(data)
           c == Append(ctl, "SENDME")
<1>0. /\ rcv \in Stream!Receiver /\ rcv.sent = <<>>
      /\ ctl \in Seq(Cells) /\ data \in Seq(1 .. MaxCell)
  BY DEF Stream!TypeOK, Cells
<1>1. PICK reliable \in BOOLEAN, rate \in Rates :
        LET r == Stream!flow_control_decide_xoff([rcv EXCEPT !.sent = <<"SENDME">>], reliable, rate)
        IN Stream!Commit([r EXCEPT !.outbuf = @ + Head(data)])
  BY DEF Stream!DataArrives
<1> DEFINE p == [rcv EXCEPT !.sent = <<"SENDME">>]
<1>2. PICK r : r = Stream!flow_control_decide_xoff(p, reliable, rate)
  OBVIOUS
<1>3. Stream!Commit([r EXCEPT !.outbuf = @ + h])
  BY <1>1, <1>2
<1>4. data # <<>> /\ data' = Tail(data) /\ UNCHANGED <<snd, outstanding, valid>>
  BY DEF Stream!DataArrives
<1>5. h \in 1 .. MaxCell
  BY <1>0, <1>4, Taken
<1>6. /\ p \in Stream!Receiver /\ p.outbuf = rcv.outbuf /\ p.xoff_sent = rcv.xoff_sent
      /\ p.drained_bytes = rcv.drained_bytes /\ p.draining = rcv.draining
      /\ p.ewma_drain_rate = rcv.ewma_drain_rate
      /\ p.ewma_rate_last_sent = rcv.ewma_rate_last_sent /\ p.sent = <<"SENDME">>
  <2>1. PICK q : q = <<"SENDME">>
    OBVIOUS
  <2>2. q \in Seq({"SENDME", "XOFF", "XON"})
    BY <2>1
  <2>3. p = [rcv EXCEPT !.sent = q]
    BY <2>1
  <2> HIDE DEF p
  <2> QED BY <1>0, <2>1, <2>2, <2>3 DEF Stream!Receiver
<1>7. \A v, u \in Nat : Pays(rcv, v, u) => Pays(p, v, u)
  BY <1>6 DEF Pays, Counted
<1> HIDE DEF p
<1>8. /\ r \in Stream!Receiver /\ r.outbuf = rcv.outbuf
      /\ \/ /\ r.xoff_sent = rcv.xoff_sent /\ r.sent = <<"SENDME">>
            /\ r.xoff_sent \/ r.outbuf <= XoffBytes
            /\ \A v, u \in Nat : Pays(p, v, u) => Pays(r, v, u)
         \/ /\ ~rcv.xoff_sent /\ r.xoff_sent /\ r.sent = Append(<<"SENDME">>, "XOFF")
            /\ rcv.outbuf > XoffBytes
            /\ \A v, u \in Nat : Pays(p, v, u) => Pays(r, v, u)
         \/ /\ ~r.xoff_sent /\ r.sent = Append(<<"SENDME">>, "XON")
            /\ rcv.xoff_sent => r.outbuf = 0
            /\ r.outbuf <= XoffBytes
            /\ \A v, u \in Nat : Pays(p, v, u) => Pays(r, v, u + XonBytes)
  <2>1. p \in Stream!Receiver /\ r = Stream!flow_control_decide_xoff(p, reliable, rate)
    BY <1>2, <1>6
  <2>2. /\ r \in Stream!Receiver /\ r.outbuf = p.outbuf
        /\ \/ /\ r.xoff_sent = p.xoff_sent /\ r.sent = p.sent
              /\ r.xoff_sent \/ r.outbuf <= XoffBytes
              /\ \A v, u \in Nat : Pays(p, v, u) => Pays(r, v, u)
           \/ /\ ~p.xoff_sent /\ r.xoff_sent /\ r.sent = Append(p.sent, "XOFF")
              /\ p.outbuf > XoffBytes
              /\ \A v, u \in Nat : Pays(p, v, u) => Pays(r, v, u)
           \/ /\ ~r.xoff_sent /\ r.sent = Append(p.sent, "XON")
              /\ p.xoff_sent => r.outbuf = 0
              /\ r.outbuf <= XoffBytes
              /\ \A v, u \in Nat : Pays(p, v, u) => Pays(r, v, u + XonBytes)
    BY ONLY Stream!XonXoffAssumption, reliable \in BOOLEAN, rate \in Rates, <2>1, XoffDecided
  <2>3. /\ p.outbuf = rcv.outbuf /\ p.xoff_sent = rcv.xoff_sent /\ p.sent = <<"SENDME">>
    BY <1>6
  <2> QED BY ONLY <2>2, <2>3, Zenon
<1> DEFINE z == [r EXCEPT !.outbuf = @ + h]
<1>9. rcv' = [z EXCEPT !.sent = <<>>] /\ ctl' = ctl \o r.sent
  BY <1>3 DEF Stream!Commit
<1>10. /\ rcv' \in Stream!Receiver /\ rcv'.sent = <<>> /\ rcv'.outbuf = rcv.outbuf + h
       /\ rcv'.xoff_sent = r.xoff_sent
       /\ rcv'.drained_bytes = r.drained_bytes /\ rcv'.draining = r.draining
       /\ rcv'.ewma_drain_rate = r.ewma_drain_rate
       /\ rcv'.ewma_rate_last_sent = r.ewma_rate_last_sent
  <2>1. r.outbuf + h \in Nat
    BY <1>5, <1>8 DEF Stream!Receiver
  <2>2. rcv' = [outbuf |-> r.outbuf + h, xoff_sent |-> r.xoff_sent,
                drained_bytes |-> r.drained_bytes, draining |-> r.draining,
                ewma_drain_rate |-> r.ewma_drain_rate,
                ewma_rate_last_sent |-> r.ewma_rate_last_sent, sent |-> <<>>]
    BY <1>8, <1>9 DEF Stream!Receiver
  <2> QED BY <1>8, <2>1, <2>2 DEF Stream!Receiver
<1>r. r \in Stream!Receiver /\ r.outbuf = rcv.outbuf
  BY <1>8
<1>11. /\ h \in Nat /\ r.outbuf \in Nat /\ Counted(r) \in Nat /\ Counted(rcv') = Counted(r)
       /\ XonBytes \in Nat
  <2>1. h \in Nat /\ XonBytes \in Nat /\ DrainedMax \in Nat
    BY <1>5, XonXoffNumbers
  <2> HIDE DEF h
  <2> QED BY <1>r, <1>10, <2>1 DEF Stream!Receiver, Counted
<1>12. \A v, u \in Nat : Pays(r, v, u) => Pays(rcv', v + h, u)
  <2> HIDE DEF h, z
  <2> QED BY <1>r, <1>10, <1>11, SMTT(30) DEF Pays
<1>13. \A v, u \in Nat : u + XonBytes \in Nat
  BY <1>11
<1>14. ctl \o <<"SENDME">> = c /\ ctl \o Append(<<"SENDME">>, "XOFF") = Append(c, "XOFF")
       /\ ctl \o Append(<<"SENDME">>, "XON") = Append(c, "XON")
  BY <1>0, Concatenated DEF Cells
<1> HIDE DEF h, c, z
<1>15. CASE /\ r.xoff_sent = rcv.xoff_sent /\ r.sent = <<"SENDME">>
            /\ r.xoff_sent \/ r.outbuf <= XoffBytes
            /\ \A v, u \in Nat : Pays(p, v, u) => Pays(r, v, u)
  <2>1. \A v, u \in Nat : Pays(rcv, v, u) => Pays(rcv', v + h, u)
    BY <1>7, <1>12, <1>15
  <2> QED BY <1>4, <1>5, <1>8, <1>9, <1>10, <1>14, <1>15, <2>1 DEF h, c
<1>16. CASE /\ ~rcv.xoff_sent /\ r.xoff_sent /\ r.sent = Append(<<"SENDME">>, "XOFF")
            /\ rcv.outbuf > XoffBytes
            /\ \A v, u \in Nat : Pays(p, v, u) => Pays(r, v, u)
  <2>1. \A v, u \in Nat : Pays(rcv, v, u) => Pays(rcv', v + h, u)
    BY <1>7, <1>12, <1>16
  <2> QED BY <1>4, <1>5, <1>8, <1>9, <1>10, <1>14, <1>16, <2>1 DEF h, c
<1>17. CASE /\ ~r.xoff_sent /\ r.sent = Append(<<"SENDME">>, "XON")
            /\ rcv.xoff_sent => r.outbuf = 0
            /\ r.outbuf <= XoffBytes
            /\ \A v, u \in Nat : Pays(p, v, u) => Pays(r, v, u + XonBytes)
  <2>1. \A v, u \in Nat : Pays(rcv, v, u) => Pays(rcv', v + h, u + XonBytes)
    BY <1>7, <1>12, <1>13, <1>17
  <2> QED BY <1>4, <1>5, <1>8, <1>9, <1>10, <1>14, <1>17, <2>1 DEF h, c
<1> QED BY <1>8, <1>15, <1>16, <1>17

(* What a write to the socket does.                                         *)
LEMMA Wrote ==
  ASSUME Stream!XonXoffAssumption, Stream!TypeOK, rcv.outbuf <= Full,
         NEW n \in 0 .. rcv.outbuf, rcv.outbuf > 0, Stream!connection_handle_write(n)
  PROVE  /\ UNCHANGED <<snd, outstanding, data, valid>>
         /\ rcv' \in Stream!Receiver /\ rcv'.sent = <<>> /\ rcv'.outbuf = rcv.outbuf - n
         /\ \/ /\ rcv'.xoff_sent = rcv.xoff_sent /\ ctl' = ctl
               /\ ~(rcv'.xoff_sent /\ rcv'.outbuf = 0)
               /\ \A v, u \in Nat : Pays(rcv, v, u) => Pays(rcv', v, u)
            \/ /\ ~rcv'.xoff_sent /\ ctl' = Append(ctl, "XON")
               /\ rcv.xoff_sent => rcv'.outbuf = 0
               /\ \A v, u \in Nat : Pays(rcv, v, u) => Pays(rcv', v, u + XonBytes)
<1>0. /\ rcv \in Stream!Receiver /\ rcv.sent = <<>>
      /\ ctl \in Seq(Cells) /\ rcv.outbuf \in Nat
      /\ Full \in Nat
  BY XonXoffNumbers DEF Stream!TypeOK, Cells, Stream!Receiver
<1> DEFINE p == [rcv EXCEPT !.outbuf = @ - n]
<1>1. PICK reliable \in BOOLEAN, rate \in Rates :
        Stream!Commit(Stream!flow_control_decide_xon(p, n, reliable, rate))
  BY DEF Stream!connection_handle_write
<1>2. PICK r : r = Stream!flow_control_decide_xon(p, n, reliable, rate)
  OBVIOUS
<1>3. rcv' = [r EXCEPT !.sent = <<>>] /\ ctl' = ctl \o r.sent
  BY <1>1, <1>2 DEF Stream!Commit
<1>4. UNCHANGED <<snd, outstanding, data, valid>>
  BY DEF Stream!connection_handle_write
<1>5. n \in Nat /\ n <= Full /\ rcv.outbuf - n \in Nat
  BY <1>0
<1>6. /\ p \in Stream!Receiver /\ p.outbuf = rcv.outbuf - n /\ p.xoff_sent = rcv.xoff_sent
      /\ p.drained_bytes = rcv.drained_bytes /\ p.draining = rcv.draining
      /\ p.ewma_drain_rate = rcv.ewma_drain_rate
      /\ p.ewma_rate_last_sent = rcv.ewma_rate_last_sent /\ p.sent = rcv.sent
  BY <1>0, <1>5 DEF Stream!Receiver
<1> HIDE DEF p
<1>8. /\ r \in Stream!Receiver /\ r.outbuf = rcv.outbuf - n
      /\ \/ /\ r.xoff_sent = rcv.xoff_sent /\ r.sent = rcv.sent
            /\ ~(r.xoff_sent /\ r.outbuf = 0)
            /\ \A v, u \in Nat : Pays(rcv, v, u) => Pays(r, v, u)
         \/ /\ ~r.xoff_sent /\ r.sent = Append(rcv.sent, "XON")
            /\ rcv.xoff_sent => r.outbuf = 0
            /\ \A v, u \in Nat : Pays(rcv, v, u) => Pays(r, v, u + XonBytes)
  BY ONLY Stream!XonXoffAssumption, <1>0, <1>2, <1>5, <1>6, reliable \in BOOLEAN, rate \in Rates,
          n \in 0 .. rcv.outbuf, XonDecided
<1>10. /\ rcv' \in Stream!Receiver /\ rcv'.sent = <<>> /\ rcv'.outbuf = r.outbuf
       /\ rcv'.xoff_sent = r.xoff_sent
       /\ rcv'.drained_bytes = r.drained_bytes /\ rcv'.draining = r.draining
       /\ rcv'.ewma_drain_rate = r.ewma_drain_rate
       /\ rcv'.ewma_rate_last_sent = r.ewma_rate_last_sent
  <2>1. r \in Stream!Receiver
    BY <1>8
  <2>2. rcv' = [outbuf |-> r.outbuf, xoff_sent |-> r.xoff_sent,
                drained_bytes |-> r.drained_bytes, draining |-> r.draining,
                ewma_drain_rate |-> r.ewma_drain_rate,
                ewma_rate_last_sent |-> r.ewma_rate_last_sent, sent |-> <<>>]
    BY <1>3, <2>1 DEF Stream!Receiver
  <2> QED BY <2>1, <2>2 DEF Stream!Receiver
<1>11. /\ r.outbuf \in Nat /\ Counted(r) \in Nat /\ Counted(rcv') = Counted(r)
       /\ XonBytes \in Nat
  <2>1. r \in Stream!Receiver /\ DrainedMax \in Nat /\ XonBytes \in Nat
    BY <1>8, XonXoffNumbers
  <2> QED BY <1>10, <2>1 DEF Stream!Receiver, Counted
<1>12. \A v, u \in Nat : Pays(r, v, u) => Pays(rcv', v, u)
  BY <1>8, <1>10, <1>11 DEF Pays
<1>13. \A u \in Nat : u + XonBytes \in Nat
  BY <1>11
<1>14. ctl \o <<>> = ctl /\ ctl \o Append(<<>>, "XON") = Append(ctl, "XON")
  BY <1>0, Concatenated DEF Cells
<1>15. CASE /\ r.xoff_sent = rcv.xoff_sent /\ r.sent = rcv.sent
            /\ ~(r.xoff_sent /\ r.outbuf = 0)
            /\ \A v, u \in Nat : Pays(rcv, v, u) => Pays(r, v, u)
  <2>1. \A v, u \in Nat : Pays(rcv, v, u) => Pays(rcv', v, u)
    BY <1>12, <1>15
  <2> QED BY <1>0, <1>3, <1>4, <1>8, <1>10, <1>14, <1>15, <2>1
<1>16. CASE /\ ~r.xoff_sent /\ r.sent = Append(rcv.sent, "XON")
            /\ rcv.xoff_sent => r.outbuf = 0
            /\ \A v, u \in Nat : Pays(rcv, v, u) => Pays(r, v, u + XonBytes)
  <2>1. \A v, u \in Nat : Pays(rcv, v, u) => Pays(rcv', v, u + XonBytes)
    BY <1>12, <1>13, <1>16
  <2> QED BY <1>0, <1>3, <1>4, <1>8, <1>10, <1>14, <1>16, <2>1
<1> QED BY <1>8, <1>15, <1>16

(* A data cell arrives.                                                    *)
LEMMA Arrives ==
  ASSUME Stream!XonXoffAssumption, EndsInv, Stream!DataArrives
  PROVE  EndsInv'
<1>1. /\ Stream!TypeOK /\ Scaled /\ Window \in Nat /\ MaxCell \in Nat \ {0} /\ XoffBytes \in Nat
  BY XonXoffNumbers DEF EndsInv
<1> DEFINE h == Head(data)
           c == Append(ctl, "SENDME")
<1>w. PICK w : w = OneFor("SENDME")
  OBVIOUS
<1>2. /\ data # <<>> /\ h \in 1 .. MaxCell /\ data' = Tail(data)
      /\ UNCHANGED <<snd, outstanding, valid>>
      /\ rcv' \in Stream!Receiver /\ rcv'.sent = <<>> /\ rcv'.outbuf = rcv.outbuf + h
      /\ \/ /\ rcv'.xoff_sent = rcv.xoff_sent /\ ctl' = c
            /\ rcv.xoff_sent \/ rcv.outbuf <= XoffBytes
         \/ /\ ~rcv.xoff_sent /\ rcv'.xoff_sent /\ ctl' = Append(c, "XOFF")
         \/ /\ ~rcv'.xoff_sent /\ ctl' = Append(c, "XON")
            /\ rcv.outbuf <= XoffBytes
  BY <1>1, Arrived
<1>3. PICK s, t, m : OnItsWay(s, t, m) /\ BufferFits(s, m)
  BY DEF EndsInv, Book
<1>4. /\ ctl \in Seq(Cells) /\ Len(ctl) \in Nat /\ Len(data) \in Nat
      /\ m \in 0 .. Len(ctl) /\ outstanding \in 0 .. Window
      /\ s \in [0 .. Len(ctl) -> Nat]
      /\ s[0] \in Nat /\ s[m] \in Nat /\ s[Len(ctl)] \in Nat
      /\ s[0] <= s[m] /\ s[m] <= s[Len(ctl)]
      /\ outstanding + s[0] = Len(data) + s[Len(ctl)] /\ Len(data) <= Window
      /\ t \in [0 .. Len(ctl) -> {"XOFF", "XON"}]
      /\ snd.xoff_received <=> t[0] = "XOFF"
      /\ rcv.xoff_sent <=> t[Len(ctl)] = "XOFF"
  BY <1>1, <1>3, Way DEF OnItsWay
<1>5. /\ data \in Seq(1 .. MaxCell) /\ data' \in Seq(1 .. MaxCell) /\ Len(data') = Len(data) - 1
      /\ Len(data) \in Nat \ {0}
  BY <1>1, <1>2, Taken DEF Stream!TypeOK
<1>6. "SENDME" \in Cells /\ "XOFF" \in Cells /\ "XON" \in Cells
  BY DEF Cells
<1>7. w["SENDME"] = 1 /\ w["XOFF"] = 0 /\ w["XON"] = 0
  BY <1>w DEF OneFor, Cells
<1>n. PICK n : n = Len(ctl)
  OBVIOUS
<1>g. PICK g : g = Longer(s, n, s[n] + w["SENDME"])
  OBVIOUS
<1>u. PICK u : u = Longer(t, n, t[n])
  OBVIOUS
<1>8. /\ c \in Seq(Cells) /\ Len(c) = n + 1
      /\ Sums(c, w, g) /\ g[n + 1] = s[n] + 1 /\ \A j \in 0 .. n : g[j] = s[j]
  <2>1. Sums(ctl, w, s) /\ w["SENDME"] \in Nat
    BY <1>3, <1>7, <1>w DEF OnItsWay
  <2>2. /\ Sums(c, w, g) /\ g[n + 1] = s[n] + w["SENDME"]
        /\ \A j \in 0 .. n : g[j] = s[j]
    <3>1. ctl \in Seq(Cells)
      BY <1>4
    <3> QED BY ONLY <1>6, <1>n, <1>g, <2>1, <3>1, SumsAppend
  <2> QED BY <1>4, <1>6, <1>7, <1>n, <2>2, Appended
<1>9. Told(c, u, m) /\ u[n + 1] = t[n] /\ u[0] = t[0]
  <2>1. Told(ctl, t, m)
    BY <1>3 DEF OnItsWay
  <2> QED BY <1>4, <1>6, <1>n, <1>u, <2>1, ToldAppend
<1> HIDE DEF c, h
<1>k. /\ n \in Nat /\ m \in 0 .. n /\ s \in [0 .. n -> Nat] /\ s[n] \in Nat /\ s[m] \in Nat
      /\ s[m] <= s[n] /\ outstanding + s[0] = Len(data) + s[n]
      /\ rcv.xoff_sent <=> t[n] = "XOFF"
      /\ t \in [0 .. n -> {"XOFF", "XON"}]
  BY <1>4, <1>n
<1>10. rcv.outbuf \in Nat /\ h \in Nat /\ 1 <= h /\ h <= MaxCell
       /\ rcv.xoff_sent \in BOOLEAN /\ rcv'.xoff_sent \in BOOLEAN
  BY <1>1, <1>2 DEF Stream!TypeOK, Stream!Receiver
<1>11. g[0] = s[0] /\ g[m] = s[m]
  BY <1>4, <1>k, <1>8
<1>12. CASE rcv'.xoff_sent = rcv.xoff_sent /\ ctl' = c
            /\ (rcv.xoff_sent \/ rcv.outbuf <= XoffBytes)
  <2>1. OnItsWay(g, u, m)'
    <3>1. Sums(ctl, OneFor("SENDME"), g)' /\ Told(ctl, u, m)'
      BY <1>8, <1>9, <1>12, <1>w
    <3>2. Len(ctl') = n + 1
      BY <1>8, <1>12
    <3>3. (outstanding + g[0] = Len(data) + g[Len(ctl)])'
      BY <1>2, <1>4, <1>k, <1>5, <1>8, <1>11, <3>2
    <3>4. (snd.xoff_received <=> u[0] = "XOFF")' /\ (rcv.xoff_sent <=> u[Len(ctl)] = "XOFF")'
      BY <1>2, <1>4, <1>k, <1>9, <1>12, <3>2
    <3> QED BY <3>1, <3>3, <3>4 DEF OnItsWay
  <2>2. BufferFits(g, m)'
    <3>1. Len(ctl') = n + 1
      BY <1>8, <1>12
    <3>2. (rcv'.xoff_sent => rcv'.outbuf > 0)
          /\ (~rcv'.xoff_sent => rcv'.outbuf <= XoffBytes + MaxCell)
      BY <1>1, <1>2, <1>10, <1>12
    <3>3. ASSUME rcv'.xoff_sent, m = 0
          PROVE  rcv'.outbuf <= XoffBytes + 2 * MaxCell + MaxCell * (Window - Len(data'))
      <4> DEFINE e == Window - Len(data)
      <4>1. rcv.outbuf <= XoffBytes + 2 * MaxCell + MaxCell * e
        BY <1>3, <1>12, <3>3 DEF BufferFits
      <4>2. Window - Len(data') = e + 1 /\ e \in Int
        BY <1>1, <1>5
      <4> HIDE DEF e
      <4>3. MaxCell * (e + 1) = MaxCell * e + MaxCell /\ MaxCell * e \in Int
        BY <1>1, <4>2, TimesNext
      <4>4. rcv'.outbuf = rcv.outbuf + h
        BY <1>2
      <4> QED BY <1>1, <1>10, <4>1, <4>2, <4>3, <4>4
    <3>4. ASSUME rcv'.xoff_sent, m > 0
          PROVE  rcv'.outbuf <= XoffBytes + 2 * MaxCell + MaxCell * (g[Len(ctl')] - g[m])
      <4> DEFINE e == s[n] - s[m]
      <4>1. rcv.outbuf <= XoffBytes + 2 * MaxCell + MaxCell * e
        BY <1>3, <1>12, <1>n, <3>4 DEF BufferFits
      <4>2. g[Len(ctl')] - g[m] = e + 1 /\ e \in Int
        BY <1>4, <1>k, <1>8, <1>11, <3>1
      <4> HIDE DEF e
      <4>3. MaxCell * (e + 1) = MaxCell * e + MaxCell /\ MaxCell * e \in Int
        BY <1>1, <4>2, TimesNext
      <4>4. rcv'.outbuf = rcv.outbuf + h
        BY <1>2
      <4> QED BY <1>1, <1>10, <4>1, <4>2, <4>3, <4>4
    <3> QED BY <3>2, <3>3, <3>4 DEF BufferFits
  <2>3. ctl' \in Seq(Cells)
    BY <1>8, <1>12
  <2> QED BY <1>1, <1>2, <1>5, <2>1, <2>2, <2>3
     DEF EndsInv, Book, Stream!TypeOK, Scaled, Cells
<1>13. ASSUME NEW x \in {"XOFF", "XON"}, ctl' = Append(c, x), rcv'.xoff_sent <=> x = "XOFF",
              x = "XOFF" => ~rcv.xoff_sent, x = "XON" => rcv.outbuf <= XoffBytes
       PROVE  EndsInv'
  <2>g. PICK gg : gg = Longer(g, n + 1, g[n + 1] + w[x])
    OBVIOUS
  <2>u. PICK uu : uu = Longer(u, n + 1, x)
    OBVIOUS
  <2>1. x \in Cells /\ w[x] = 0 /\ x # "SENDME"
    BY <1>6, <1>7
  <2>2. /\ ctl' \in Seq(Cells) /\ Len(ctl') = n + 2
        /\ Sums(ctl', w, gg) /\ gg[n + 2] = s[n] + 1 /\ gg[0] = s[0]
    <3>1. w[x] \in Nat
      BY <2>1
    <3>2. /\ Sums(Append(c, x), w, gg) /\ gg[(n + 1) + 1] = g[n + 1] + w[x]
          /\ \A j \in 0 .. n + 1 : gg[j] = g[j]
      BY <1>8, <2>1, <2>g, <3>1, SumsAppend
    <3>3. Append(c, x) \in Seq(Cells) /\ Len(Append(c, x)) = (n + 1) + 1
      BY <1>8, <2>1, Appended
    <3>4. (n + 1) + 1 = n + 2 /\ 0 \in 0 .. n + 1
      BY <1>k
    <3> QED BY <1>4, <1>k, <1>8, <1>11, <1>13, <2>1, <3>2, <3>3, <3>4
  <2>3. Told(ctl', uu, n + 2) /\ uu[n + 2] = x /\ uu[0] = t[0]
    <3>1. x = "XOFF" => u[Len(c)] = "XON"
      BY <1>4, <1>k, <1>8, <1>9, <1>13
    <3>2. /\ Told(Append(c, x), Longer(u, Len(c), x), Len(c) + 1)
          /\ Longer(u, Len(c), x)[Len(c) + 1] = x
          /\ Longer(u, Len(c), x)[0] = u[0]
      BY <1>8, <1>9, <2>1, <3>1, ToldAppend
    <3>3. (n + 1) + 1 = n + 2
      BY <1>k
    <3> QED BY <1>8, <1>9, <1>13, <2>u, <3>2, <3>3
  <2>4. OnItsWay(gg, uu, n + 2)'
    <3>1. Sums(ctl, OneFor("SENDME"), gg)' /\ Told(ctl, uu, n + 2)'
      BY <2>2, <2>3, <1>w
    <3>3. (outstanding + gg[0] = Len(data) + gg[Len(ctl)])'
      BY <1>2, <1>4, <1>k, <1>5, <2>2
    <3>4. (snd.xoff_received <=> uu[0] = "XOFF")' /\ (rcv.xoff_sent <=> uu[Len(ctl)] = "XOFF")'
      BY <1>2, <1>4, <1>k, <1>13, <2>2, <2>3
    <3> QED BY <3>1, <3>3, <3>4 DEF OnItsWay
  <2>5. BufferFits(gg, n + 2)'
    <3>1. (rcv'.xoff_sent => rcv'.outbuf > 0) /\ n + 2 > 0 /\ n + 2 # 0
      BY <1>2, <1>4, <1>k, <1>10
    <3>2. ~rcv'.xoff_sent => rcv'.outbuf <= XoffBytes + MaxCell
      BY <1>1, <1>2, <1>10, <1>13
    <3>3. ASSUME rcv'.xoff_sent
          PROVE  rcv'.outbuf <= XoffBytes + 2 * MaxCell + MaxCell * (gg[Len(ctl')] - gg[n + 2])
      <4>1. gg[Len(ctl')] - gg[n + 2] = 0 /\ MaxCell * 0 = 0
        BY <1>1, <1>4, <1>k, <2>2
      <4>2. rcv.outbuf <= XoffBytes + MaxCell
        BY <1>3, <1>10, <1>13, <3>3 DEF BufferFits
      <4> QED BY <1>1, <1>2, <1>10, <4>1, <4>2
    <3> QED BY <3>1, <3>2, <3>3 DEF BufferFits
  <2> QED BY <1>1, <1>2, <1>5, <2>2, <2>4, <2>5
     DEF EndsInv, Book, Stream!TypeOK, Scaled, Cells
<1>14. CASE ~rcv.xoff_sent /\ rcv'.xoff_sent /\ ctl' = Append(c, "XOFF")
  BY <1>13, <1>14
<1>15. CASE ~rcv'.xoff_sent /\ ctl' = Append(c, "XON") /\ rcv.outbuf <= XoffBytes
  BY <1>13, <1>15
<1> QED BY <1>2, <1>12, <1>14, <1>15 DEF c

(* The receiver writes to its socket.                                      *)
LEMMA Writes ==
  ASSUME Stream!XonXoffAssumption, EndsInv, NEW n \in 0 .. rcv.outbuf, rcv.outbuf > 0,
         Stream!connection_handle_write(n)
  PROVE  EndsInv'
<1>1. /\ Stream!TypeOK /\ Scaled /\ Window \in Nat /\ MaxCell \in Nat \ {0} /\ XoffBytes \in Nat
      /\ rcv.outbuf <= Full
  BY XonXoffNumbers, Bounded DEF EndsInv
<1>2. /\ UNCHANGED <<snd, outstanding, data, valid>>
      /\ rcv' \in Stream!Receiver /\ rcv'.sent = <<>> /\ rcv'.outbuf = rcv.outbuf - n
      /\ \/ /\ rcv'.xoff_sent = rcv.xoff_sent /\ ctl' = ctl
            /\ ~(rcv'.xoff_sent /\ rcv'.outbuf = 0)
         \/ /\ ~rcv'.xoff_sent /\ ctl' = Append(ctl, "XON")
            /\ rcv.xoff_sent => rcv'.outbuf = 0
  BY <1>1, Wrote
<1>3. PICK s, t, m : OnItsWay(s, t, m) /\ BufferFits(s, m)
  BY DEF EndsInv, Book
<1>4. /\ ctl \in Seq(Cells) /\ Len(ctl) \in Nat /\ Len(data) \in Nat
      /\ m \in 0 .. Len(ctl) /\ outstanding \in 0 .. Window
      /\ s \in [0 .. Len(ctl) -> Nat]
      /\ s[0] \in Nat /\ s[m] \in Nat /\ s[Len(ctl)] \in Nat
      /\ s[m] <= s[Len(ctl)]
      /\ outstanding + s[0] = Len(data) + s[Len(ctl)]
      /\ Len(data) <= Window
      /\ t \in [0 .. Len(ctl) -> {"XOFF", "XON"}]
      /\ snd.xoff_received <=> t[0] = "XOFF"
      /\ rcv.xoff_sent <=> t[Len(ctl)] = "XOFF"
  BY <1>1, <1>3, Way DEF OnItsWay
<1>5. rcv.outbuf \in Nat /\ rcv'.outbuf \in Nat /\ rcv'.outbuf <= rcv.outbuf
      /\ rcv.xoff_sent \in BOOLEAN /\ rcv'.xoff_sent \in BOOLEAN
  BY <1>1, <1>2 DEF Stream!TypeOK, Stream!Receiver
<1>6. CASE /\ rcv'.xoff_sent = rcv.xoff_sent /\ ctl' = ctl
           /\ ~(rcv'.xoff_sent /\ rcv'.outbuf = 0)
  <2>1. OnItsWay(s, t, m)'
    BY <1>2, <1>3, <1>6 DEF OnItsWay
  <2>2. BufferFits(s, m)'
    <3> DEFINE d == Window - Len(data)
               e == s[Len(ctl)] - s[m]
    <3>1. d \in Nat /\ e \in Nat
      BY <1>1, <1>4
    <3>2. /\ ~rcv.xoff_sent => rcv.outbuf <= XoffBytes + MaxCell
          /\ rcv.xoff_sent /\ m = 0 =>
               rcv.outbuf <= XoffBytes + 2 * MaxCell + MaxCell * d
          /\ rcv.xoff_sent /\ m > 0 =>
               rcv.outbuf <= XoffBytes + 2 * MaxCell + MaxCell * e
      BY <1>3 DEF BufferFits
    <3> HIDE DEF d, e
    <3>3. MaxCell * d \in Nat /\ MaxCell * e \in Nat
      BY <1>1, <3>1
    <3>4. /\ rcv'.xoff_sent => rcv'.outbuf > 0
          /\ ~rcv'.xoff_sent => rcv'.outbuf <= XoffBytes + MaxCell
          /\ rcv'.xoff_sent /\ m = 0 =>
               rcv'.outbuf <= XoffBytes + 2 * MaxCell + MaxCell * d
          /\ rcv'.xoff_sent /\ m > 0 =>
               rcv'.outbuf <= XoffBytes + 2 * MaxCell + MaxCell * e
      BY <1>1, <1>5, <1>6, <3>2, <3>3
    <3> QED BY <1>2, <1>6, <3>4 DEF BufferFits, d, e
  <2> QED BY <1>1, <1>2, <1>4, <1>6, <2>1, <2>2
     DEF EndsInv, Book, Stream!TypeOK, Scaled, Cells
<1>7. CASE /\ ~rcv'.xoff_sent /\ ctl' = Append(ctl, "XON")
           /\ rcv.xoff_sent => rcv'.outbuf = 0
  <2>w. PICK w : w = OneFor("SENDME")
    OBVIOUS
  <2>l. PICK l : l = Len(ctl)
    OBVIOUS
  <2>g. PICK g : g = Longer(s, l, s[l] + w["XON"])
    OBVIOUS
  <2>u. PICK u : u = Longer(t, l, "XON")
    OBVIOUS
  <2>1. "XON" \in Cells /\ w["XON"] = 0 /\ l \in Nat /\ s[l] \in Nat
    BY <1>4, <2>w, <2>l DEF Cells, OneFor
  <2>2. /\ ctl' \in Seq(Cells) /\ Len(ctl') = l + 1
        /\ Sums(ctl', w, g) /\ g[l + 1] = s[l] /\ g[0] = s[0]
    <3>1. Sums(ctl, w, s) /\ w["XON"] \in Nat
      BY <1>3, <2>1, <2>w DEF OnItsWay
    <3>2. /\ Sums(Append(ctl, "XON"), w, g) /\ g[l + 1] = s[l] + w["XON"]
          /\ \A j \in 0 .. l : g[j] = s[j]
      <4>1. ctl \in Seq(Cells)
        BY <1>4
      <4> QED BY ONLY <2>1, <2>g, <2>l, <3>1, <4>1, SumsAppend
    <3>3. Append(ctl, "XON") \in Seq(Cells) /\ Len(Append(ctl, "XON")) = l + 1
      BY <1>4, <2>1, <2>l, Appended
    <3> QED BY <1>4, <1>7, <2>1, <3>2, <3>3
  <2>3. Told(ctl', u, l + 1) /\ u[l + 1] = "XON" /\ u[0] = t[0]
    <3>1. Told(ctl, t, m)
      BY <1>3 DEF OnItsWay
    <3>2. /\ Told(Append(ctl, "XON"), u, l + 1) /\ u[l + 1] = "XON" /\ u[0] = t[0]
      <4>1. ctl \in Seq(Cells)
        BY <1>4
      <4> QED BY ONLY <2>1, <2>l, <2>u, <3>1, <4>1, ToldAppend
    <3> QED BY <1>7, <3>2
  <2>4. OnItsWay(g, u, l + 1)'
    <3>1. Sums(ctl, OneFor("SENDME"), g)' /\ Told(ctl, u, l + 1)'
      BY <2>2, <2>3, <2>w
    <3>2. (outstanding + g[0] = Len(data) + g[Len(ctl)])'
      BY <1>2, <1>4, <2>2, <2>l
    <3>3. (snd.xoff_received <=> u[0] = "XOFF")' /\ (rcv.xoff_sent <=> u[Len(ctl)] = "XOFF")'
      BY <1>2, <1>4, <1>7, <2>2, <2>3
    <3> QED BY <3>1, <3>2, <3>3 DEF OnItsWay
  <2>5. BufferFits(g, l + 1)'
    <3>1. rcv'.outbuf <= XoffBytes + MaxCell
      BY <1>1, <1>3, <1>5, <1>7 DEF BufferFits
    <3>2. l + 1 > 0 /\ l + 1 # 0
      BY <2>1
    <3> QED BY <1>7, <3>1, <3>2 DEF BufferFits
  <2> QED BY <1>1, <1>2, <2>2, <2>4, <2>5 DEF EndsInv, Book, Stream!TypeOK, Scaled,
                                              Cells
<1> QED BY <1>2, <1>6, <1>7

(* The invariant holds at the start.                                       *)
LEMMA EndsStart == ASSUME Stream!XonXoffAssumption, Stream!Init PROVE EndsInv
<1>1. Stream!XonXoffAssumption => /\ Window \in Nat /\ XoffBytes \in Nat /\ MaxCell \in Nat
                             /\ DrainedMax \in Nat /\ RateMax \in Nat
                             /\ XoffScaleAt \in Nat /\ XonScaleAt \in Nat /\ XmitScaleAt \in Nat
  BY XonXoffNumbers
<1>2. 0 \in 0 .. DrainedMax /\ 0 \in 0 .. RateMax /\ 0 \in 0 .. Window
      /\ 0 \in 0 .. XoffScaleAt + 1 /\ 0 \in 0 .. XonScaleAt + 1 /\ 0 \in 0 .. XmitScaleAt
  BY <1>1
<1>3. rcv \in Stream!Receiver /\ rcv.sent = <<>> /\ ~rcv.xoff_sent /\ rcv.outbuf = 0
  BY <1>2 DEF Stream!Init, Stream!Receiver
<1>4. Stream!TypeOK /\ Scaled
  BY <1>1, <1>2, <1>3 DEF Stream!Init, Stream!TypeOK, Scaled
<1>5. Book
  <2> DEFINE s == [j \in {0} |-> 0]
             t == [j \in {0} |-> "XON"]
  <2>1. Len(ctl) = 0 /\ Len(data) = 0 /\ outstanding = 0 /\ snd.xoff_received = FALSE
    BY DEF Stream!Init
  <2>2. Sums(ctl, OneFor("SENDME"), s)
    BY <2>1 DEF Sums
  <2>3. Told(ctl, t, 0)
    BY <2>1 DEF Told
  <2>4. OnItsWay(s, t, 0)
    BY <1>3, <2>1, <2>2, <2>3 DEF OnItsWay
  <2>5. BufferFits(s, 0)
    BY <1>1, <1>3 DEF BufferFits
  <2> HIDE DEF s, t
  <2> QED BY <2>4, <2>5 DEF Book
<1> QED BY <1>4, <1>5 DEF EndsInv

(* Every step keeps the invariant.                                         *)
LEMMA EndsStep ==
  ASSUME Stream!XonXoffAssumption, EndsInv, [Stream!Next]_Stream!vars
  PROVE  EndsInv'
<1>1. CASE UNCHANGED Stream!vars
  BY <1>1 DEF Stream!vars, EndsInv, Stream!TypeOK, Scaled, Book, OnItsWay, BufferFits
<1>2. CASE Stream!Next
  BY <1>2, SendsData, SenderTakes, Arrives, Writes DEF Stream!Next
<1> QED BY <1>1, <1>2

-----------------------------------------------------------------------------
(* What the sender checks.                                                  *)

(* No more is sent than the counters can say without being scaled down.     *)
CountersUnscaled ==
  /\ MaxBytes < XoffBytes * XoffScaleAt
  /\ MaxBytes < XonBytes * XonScaleAt
  /\ MaxBytes < XmitScaleAt

Size == [d \in 1 .. MaxCell |-> d]

(* b sums the bytes on their way, from those that arrived to those sent; x  *)
(* and y count XONs and XOFFs, from those received to those sent.           *)
Accounted(b, x, y) ==
  /\ Sums(data, Size, b) /\ Sums(ctl, OneFor("XON"), x) /\ Sums(ctl, OneFor("XOFF"), y)
  /\ b[Len(data)] = snd.total_bytes_xmit
  /\ x[0] = snd.num_xon_recv /\ y[0] = snd.num_xoff_recv
  /\ Pays(rcv, b[0], XonBytes * x[Len(ctl)])
  /\ b[0] >= XoffBytes * y[Len(ctl)] + (IF rcv.xoff_sent THEN 0 ELSE rcv.outbuf)

ValidInv ==
  /\ EndsInv /\ valid /\ snd.total_bytes_xmit <= MaxBytes
  /\ \E b, x, y : Accounted(b, x, y)

(* Totals grow.                                                            *)
LEMMA SumsOrder ==
  ASSUME NEW S, NEW q \in Seq(S), NEW w, NEW f, Sums(q, w, f)
  PROVE  /\ f[0] \in Nat /\ f[Len(q)] \in Nat /\ f[0] <= f[Len(q)]
         /\ q # <<>> => f[1] \in Nat /\ f[1] <= f[Len(q)]
<1> DEFINE n == Len(q)
<1>1. n \in Nat /\ (q # <<>> => 1 <= n)
  OBVIOUS
<1>2. f \in [0 .. n -> Nat] /\ \A i, j \in 0 .. n : i <= j => f[i] <= f[j]
  BY DEF Sums
<1> HIDE DEF n
<1>3. f[0] \in Nat /\ f[n] \in Nat /\ f[0] <= f[n]
  BY <1>1, <1>2
<1>4. q # <<>> => f[1] \in Nat /\ f[1] <= f[n]
  BY <1>1, <1>2
<1> QED BY <1>3, <1>4 DEF n

(* One cell more is counted, or not.                                       *)
LEMMA CountAppend ==
  ASSUME NEW q \in Seq(Cells), NEW c \in Cells, NEW d \in Cells, NEW f,
         Sums(q, OneFor(d), f)
  PROVE  \E g : /\ Sums(Append(q, c), OneFor(d), g) /\ g[0] = f[0]
                /\ g[Len(Append(q, c))] = f[Len(q)] + (IF c = d THEN 1 ELSE 0)
<1>1. PICK w : w = OneFor(d)
  OBVIOUS
<1>2. w[c] = (IF c = d THEN 1 ELSE 0) /\ w[c] \in Nat
  BY <1>1 DEF OneFor
<1>3. PICK g : g = Longer(f, Len(q), f[Len(q)] + w[c])
  OBVIOUS
<1>4. Sums(q, w, f)
  BY <1>1
<1>5. /\ Sums(Append(q, c), w, g) /\ g[Len(q) + 1] = f[Len(q)] + w[c]
      /\ \A j \in 0 .. Len(q) : g[j] = f[j]
  BY ONLY q \in Seq(Cells), c \in Cells, <1>2, <1>3, <1>4, SumsAppend
<1>6. Len(Append(q, c)) = Len(q) + 1 /\ 0 \in 0 .. Len(q)
  BY Appended
<1>7. /\ Sums(Append(q, c), OneFor(d), g) /\ g[0] = f[0]
      /\ g[Len(Append(q, c))] = f[Len(q)] + (IF c = d THEN 1 ELSE 0)
  BY <1>1, <1>2, <1>5, <1>6
<1> QED BY <1>7

(* One cell is taken from a count.                                         *)
LEMMA CountTake ==
  ASSUME NEW q \in Seq(Cells), q # <<>>, NEW d \in Cells, NEW f, Sums(q, OneFor(d), f)
  PROVE  /\ f[1] = f[0] + (IF Head(q) = d THEN 1 ELSE 0)
         /\ \E g : /\ Sums(Tail(q), OneFor(d), g) /\ g[0] = f[1]
                   /\ g[Len(Tail(q))] = f[Len(q)]
<1>1. PICK w : w = OneFor(d)
  OBVIOUS
<1>2. Head(q) \in Cells /\ Len(Tail(q)) = Len(q) - 1 /\ Len(q) \in Nat \ {0}
  BY Taken
<1>3. w[Head(q)] = (IF Head(q) = d THEN 1 ELSE 0)
  BY <1>1, <1>2 DEF OneFor
<1>4. PICK g : g = Shifted(f, Len(q))
  OBVIOUS
<1>5. Sums(q, w, f)
  BY <1>1
<1>6. /\ Sums(Tail(q), w, g) /\ f[1] = f[0] + w[Head(q)]
      /\ \A j \in 0 .. Len(q) - 1 : g[j] = f[j + 1]
  BY ONLY q \in Seq(Cells), q # <<>>, <1>4, <1>5, SumsTake
<1>7. g[0] = f[0 + 1] /\ g[Len(q) - 1] = f[(Len(q) - 1) + 1]
  BY <1>2, <1>6
<1>8. 0 + 1 = 1 /\ (Len(q) - 1) + 1 = Len(q)
  BY <1>2
<1>9. Sums(Tail(q), OneFor(d), g) /\ g[0] = f[1] /\ g[Len(Tail(q))] = f[Len(q)]
  BY <1>1, <1>2, <1>6, <1>7, <1>8
<1> QED BY <1>3, <1>6, <1>9

(* No more XONs and XOFFs are sent than the bytes that arrived pay for.     *)
LEMMA Paid ==
  ASSUME Stream!XonXoffAssumption, CountersUnscaled, ValidInv, NEW b, NEW x, NEW y,
         Accounted(b, x, y)
  PROVE  /\ b[0] \in Nat /\ b[0] <= snd.total_bytes_xmit /\ snd.total_bytes_xmit \in Nat
         /\ x[0] \in Nat /\ x[Len(ctl)] \in Nat /\ x[0] <= x[Len(ctl)]
         /\ y[0] \in Nat /\ y[Len(ctl)] \in Nat /\ y[0] <= y[Len(ctl)]
         /\ XonBytes * x[Len(ctl)] \in Nat /\ XonBytes * x[Len(ctl)] <= b[0]
         /\ XoffBytes * y[Len(ctl)] \in Nat /\ XoffBytes * y[Len(ctl)] <= b[0]
         /\ x[Len(ctl)] < XonScaleAt /\ y[Len(ctl)] < XoffScaleAt
<1>1. /\ XonBytes \in Nat /\ XoffBytes \in Nat /\ XonScaleAt \in Nat /\ XoffScaleAt \in Nat
      /\ MaxBytes \in Nat /\ XmitScaleAt \in Nat
  BY XonXoffNumbers
<1>2. /\ ctl \in Seq(Cells) /\ data \in Seq(1 .. MaxCell) /\ rcv \in Stream!Receiver
      /\ snd.total_bytes_xmit \in Nat /\ snd.total_bytes_xmit <= MaxBytes
  BY <1>1 DEF ValidInv, EndsInv, Stream!TypeOK, Cells
<1>3. b[0] \in Nat /\ b[0] <= snd.total_bytes_xmit
  BY <1>2, SumsOrder DEF Accounted
<1>4. /\ x[0] \in Nat /\ x[Len(ctl)] \in Nat /\ x[0] <= x[Len(ctl)]
      /\ y[0] \in Nat /\ y[Len(ctl)] \in Nat /\ y[0] <= y[Len(ctl)]
  BY <1>2, SumsOrder DEF Accounted
<1>5. PICK P \in Nat : P = x[Len(ctl)]
  BY <1>4
<1>6. PICK Q \in Nat : Q = y[Len(ctl)]
  BY <1>4
<1>7. XonBytes * P \in Nat /\ XoffBytes * Q \in Nat
  BY <1>1
<1>8. XonBytes * P <= b[0]
  <2>1. Pays(rcv, b[0], XonBytes * P)
    BY <1>5 DEF Accounted
  <2>2. Counted(rcv) \in Nat /\ rcv.outbuf \in Nat
    BY <1>2 DEF Counted, Stream!Receiver
  <2> DEFINE u == XonBytes * P
  <2>3. u \in Nat /\ Pays(rcv, b[0], u)
    BY <1>7, <2>1
  <2> HIDE DEF u
  <2>4. u <= b[0]
    BY <1>1, <1>3, <2>2, <2>3 DEF Pays
  <2> QED BY <2>4 DEF u
<1>9. XoffBytes * Q <= b[0]
  <2> DEFINE u == XoffBytes * Q
             o == IF rcv.xoff_sent THEN 0 ELSE rcv.outbuf
  <2>1. o \in Nat
    BY <1>2 DEF Stream!Receiver
  <2>2. b[0] >= u + o /\ u \in Nat
    BY <1>6, <1>7 DEF Accounted
  <2> HIDE DEF u, o
  <2>3. u <= b[0]
    BY <1>3, <2>1, <2>2
  <2> QED BY <2>3 DEF u
<1>10. P < XonScaleAt
  <2> SUFFICES ASSUME XonScaleAt <= P PROVE FALSE
    BY <1>1
  <2>1. XonBytes * XonScaleAt \in Nat /\ XonBytes * XonScaleAt <= XonBytes * P
    BY <1>1, Times
  <2> QED BY <1>1, <1>2, <1>3, <1>7, <1>8, <2>1 DEF CountersUnscaled
<1>11. Q < XoffScaleAt
  <2> SUFFICES ASSUME XoffScaleAt <= Q PROVE FALSE
    BY <1>1
  <2>1. XoffBytes * XoffScaleAt \in Nat /\ XoffBytes * XoffScaleAt <= XoffBytes * Q
    BY <1>1, Times
  <2> QED BY <1>1, <1>2, <1>3, <1>7, <1>9, <2>1 DEF CountersUnscaled
<1> QED BY <1>2, <1>3, <1>4, <1>5, <1>6, <1>7, <1>8, <1>9, <1>10, <1>11

(* A data cell is packaged, and counted.                                   *)
LEMMA ValidSends ==
  ASSUME Stream!XonXoffAssumption, CountersUnscaled, ValidInv, NEW len \in 1 .. MaxCell,
         Stream!connection_edge_package(len)
  PROVE  ValidInv'
<1>1. EndsInv'
  BY SendsData DEF ValidInv
<1>2. PICK b, x, y : Accounted(b, x, y)
  BY DEF ValidInv
<1>3. /\ snd' = Stream!flow_control_note_sent_data(snd, len)
      /\ snd.total_bytes_xmit + len <= MaxBytes
      /\ data' = Append(data, len) /\ rcv' = rcv /\ ctl' = ctl /\ valid' = valid
  BY DEF Stream!connection_edge_package
<1>4. /\ len \in Nat /\ snd.total_bytes_xmit \in Nat /\ XmitScaleAt \in Nat /\ MaxBytes \in Nat
      /\ data \in Seq(1 .. MaxCell) /\ Len(data) \in Nat
      /\ b[0] \in Nat /\ b[Len(data)] \in Nat
  <2>1. XmitScaleAt \in Nat /\ MaxBytes \in Nat /\ MaxCell \in Nat
    BY XonXoffNumbers
  <2>2. data \in Seq(1 .. MaxCell) /\ snd.total_bytes_xmit \in Nat
    BY <2>1 DEF ValidInv, EndsInv, Stream!TypeOK
  <2>3. b[0] \in Nat /\ b[Len(data)] \in Nat
    BY <1>2, <2>2, SumsOrder DEF Accounted
  <2> QED BY <2>1, <2>2, <2>3
<1>5. /\ snd'.total_bytes_xmit = snd.total_bytes_xmit + len
      /\ snd'.num_xoff_recv = snd.num_xoff_recv /\ snd'.num_xon_recv = snd.num_xon_recv
  <2>1. ~(snd.total_bytes_xmit >= XmitScaleAt - len)
    BY <1>3, <1>4 DEF CountersUnscaled
  <2>2. snd' = [snd EXCEPT !.total_bytes_xmit = @ + len]
    BY <1>3, <2>1 DEF Stream!flow_control_note_sent_data
  <2>3. snd \in [total_bytes_xmit : 0 .. XmitScaleAt,
                num_xoff_recv : 0 .. XoffScaleAt + 1,
                num_xon_recv : 0 .. XonScaleAt + 1,
                xoff_received : BOOLEAN]
    BY DEF ValidInv, EndsInv, Stream!TypeOK
  <2> QED BY <2>2, <2>3
<1>6. PICK w : w = Size
  OBVIOUS
<1>7. PICK g : g = Longer(b, Len(data), b[Len(data)] + w[len])
  OBVIOUS
<1>8. w[len] = len
  BY <1>6 DEF Size
<1>9. /\ Sums(Append(data, len), w, g) /\ g[Len(data) + 1] = b[Len(data)] + w[len]
      /\ \A j \in 0 .. Len(data) : g[j] = b[j]
  <2>1. Sums(data, w, b) /\ w[len] \in Nat
    BY <1>2, <1>4, <1>6, <1>8 DEF Accounted
  <2>2. PICK S : S = 1 .. MaxCell
    OBVIOUS
  <2>3. data \in Seq(S) /\ len \in S
    BY <1>4, <2>2
  <2> QED BY ONLY <1>7, <2>1, <2>3, SumsAppend
<1>10. g[0] = b[0] /\ g[Len(data')] = b[Len(data)] + len
  <2>1. 0 \in 0 .. Len(data) /\ Len(data') = Len(data) + 1
    BY <1>3, <1>4, Appended
  <2> QED BY <1>8, <1>9, <2>1
<1>11. Accounted(g, x, y)'
  BY <1>2, <1>3, <1>5, <1>6, <1>9, <1>10 DEF Accounted
<1>12. snd'.total_bytes_xmit <= MaxBytes /\ valid'
  BY <1>3, <1>5 DEF ValidInv
<1> QED BY <1>1, <1>11, <1>12 DEF ValidInv

(* A SENDME says nothing of the bytes.                                     *)
LEMMA ValidSendme ==
  ASSUME Stream!XonXoffAssumption, CountersUnscaled, ValidInv, Stream!ProcessSendme
  PROVE  ValidInv'
<1>1. EndsInv'
  BY SenderTakes DEF ValidInv
<1>2. PICK b, x, y : Accounted(b, x, y)
  BY DEF ValidInv
<1>3. /\ ctl # <<>> /\ Head(ctl) = "SENDME" /\ ctl' = Tail(ctl)
      /\ snd' = snd /\ data' = data /\ rcv' = rcv /\ valid' = valid
  BY DEF Stream!ProcessSendme
<1>4. ctl \in Seq(Cells)
  BY DEF ValidInv, EndsInv, Stream!TypeOK, Cells
<1>5. "XON" \in Cells /\ "XOFF" \in Cells
  BY DEF Cells
<1>6. x[0] \in Nat /\ y[0] \in Nat
  BY <1>2, Paid
<1>7. PICK g : /\ Sums(ctl', OneFor("XON"), g) /\ g[0] = x[0] /\ g[Len(ctl')] = x[Len(ctl)]
  BY <1>2, <1>3, <1>4, <1>5, <1>6, CountTake DEF Accounted
<1>8. PICK h : /\ Sums(ctl', OneFor("XOFF"), h) /\ h[0] = y[0] /\ h[Len(ctl')] = y[Len(ctl)]
  BY <1>2, <1>3, <1>4, <1>5, <1>6, CountTake DEF Accounted
<1>9. Accounted(b, g, h)'
  BY <1>2, <1>3, <1>7, <1>8 DEF Accounted
<1> QED BY <1>1, <1>3, <1>9 DEF ValidInv

(* An XOFF is the only one since the last XON, and paid for.                *)
LEMMA ValidXoff ==
  ASSUME Stream!XonXoffAssumption, CountersUnscaled, ValidInv, Stream!ProcessXoff
  PROVE  ValidInv'
<1>1. EndsInv'
  BY SenderTakes DEF ValidInv
<1>2. PICK b, x, y : Accounted(b, x, y)
  BY DEF ValidInv
<1>3. /\ ctl # <<>> /\ Head(ctl) = "XOFF" /\ ctl' = Tail(ctl)
      /\ snd' = Stream!circuit_process_stream_xoff(snd).edge
      /\ valid' = Stream!circuit_process_stream_xoff(snd).ok
      /\ data' = data /\ rcv' = rcv
  BY DEF Stream!ProcessXoff
<1>4. /\ ctl \in Seq(Cells)
      /\ snd \in [total_bytes_xmit : 0 .. XmitScaleAt,
                num_xoff_recv : 0 .. XoffScaleAt + 1,
                num_xon_recv : 0 .. XonScaleAt + 1,
                xoff_received : BOOLEAN]
  BY DEF ValidInv, EndsInv, Stream!TypeOK, Cells
<1>5. "XON" \in Cells /\ "XOFF" \in Cells
  BY DEF Cells
<1>6. /\ x[0] \in Nat /\ y[0] \in Nat /\ y[Len(ctl)] \in Nat
      /\ XoffBytes * y[Len(ctl)] \in Nat /\ XoffBytes * y[Len(ctl)] <= b[0]
      /\ b[0] \in Nat /\ b[0] <= snd.total_bytes_xmit
      /\ y[Len(ctl)] < XoffScaleAt
  BY <1>2, Paid
<1>7. PICK g : /\ Sums(ctl', OneFor("XON"), g) /\ g[0] = x[0] /\ g[Len(ctl')] = x[Len(ctl)]
  BY <1>2, <1>3, <1>4, <1>5, <1>6, CountTake, SMTT(30) DEF Accounted
<1>8. y[1] = y[0] + 1 /\ y[1] <= y[Len(ctl)]
  BY <1>2, <1>3, <1>4, <1>5, CountTake, SumsOrder DEF Accounted
<1>9. PICK h : /\ Sums(ctl', OneFor("XOFF"), h) /\ h[0] = y[0] + 1 /\ h[Len(ctl')] = y[Len(ctl)]
  BY <1>2, <1>3, <1>4, <1>5, <1>8, CountTake DEF Accounted
<1>10. ~snd.xoff_received
  <2>1. PICK s, t, m : OnItsWay(s, t, m)
    BY DEF ValidInv, EndsInv, Book
  <2>2. Told(ctl, t, m) /\ (snd.xoff_received <=> t[0] = "XOFF")
    BY <2>1 DEF OnItsWay
  <2>3. t[0] = "XON"
    BY <1>3, <1>4, <2>2, ToldTake
  <2> QED BY <2>2, <2>3
<1>11. snd.num_xoff_recv # XoffScaleAt
  <2>1. snd.num_xoff_recv = y[0] /\ XoffScaleAt \in Nat
    BY <1>2, XonXoffNumbers DEF Accounted
  <2> QED BY <1>6, <1>8, <2>1
<1>12. /\ snd' = [snd EXCEPT !.num_xoff_recv = @ + 1, !.xoff_received = TRUE]
       /\ valid' = (snd'.total_bytes_xmit >= XoffBytes * snd'.num_xoff_recv)
  BY <1>3, <1>10, <1>11 DEF Stream!circuit_process_stream_xoff
<1>13. /\ snd'.total_bytes_xmit = snd.total_bytes_xmit
       /\ snd'.num_xoff_recv = snd.num_xoff_recv + 1 /\ snd'.num_xon_recv = snd.num_xon_recv
  BY <1>4, <1>12
<1>14. valid'
  <2>1. PICK k \in Nat : k = y[1]
    BY <1>6, <1>8
  <2>2. PICK q \in Nat : q = y[Len(ctl)]
    BY <1>6
  <2>3. k <= q /\ snd'.num_xoff_recv = k /\ XoffBytes \in Nat
    BY <1>2, <1>8, <1>13, <2>1, <2>2, XonXoffNumbers DEF Accounted
  <2>4. XoffBytes * k \in Nat /\ XoffBytes * q \in Nat /\ XoffBytes * k <= XoffBytes * q
    BY <2>3, Times
  <2>5. XoffBytes * q <= b[0]
    BY <1>6, <2>2
  <2>6. snd.total_bytes_xmit \in Nat
    BY <1>2, Paid
  <2>7. snd.total_bytes_xmit >= XoffBytes * k
    BY <1>6, <2>4, <2>5, <2>6
  <2> QED BY <1>12, <1>13, <2>3, <2>7
<1>15. Accounted(b, g, h)'
  BY <1>2, <1>3, <1>7, <1>9, <1>13 DEF Accounted
<1>16. snd'.total_bytes_xmit <= MaxBytes
  BY <1>13 DEF ValidInv
<1> QED BY <1>1, <1>14, <1>15, <1>16 DEF ValidInv

(* An XON is paid for.                                                     *)
LEMMA ValidXon ==
  ASSUME Stream!XonXoffAssumption, CountersUnscaled, ValidInv, Stream!ProcessXon
  PROVE  ValidInv'
<1>1. EndsInv'
  BY SenderTakes DEF ValidInv
<1>2. PICK b, x, y : Accounted(b, x, y)
  BY DEF ValidInv
<1>3. /\ ctl # <<>> /\ Head(ctl) = "XON" /\ ctl' = Tail(ctl)
      /\ snd' = Stream!circuit_process_stream_xon(snd).edge
      /\ valid' = Stream!circuit_process_stream_xon(snd).ok
      /\ data' = data /\ rcv' = rcv
  BY DEF Stream!ProcessXon
<1>4. /\ ctl \in Seq(Cells)
      /\ snd \in [total_bytes_xmit : 0 .. XmitScaleAt,
                num_xoff_recv : 0 .. XoffScaleAt + 1,
                num_xon_recv : 0 .. XonScaleAt + 1,
                xoff_received : BOOLEAN]
  BY DEF ValidInv, EndsInv, Stream!TypeOK, Cells
<1>5. "XON" \in Cells /\ "XOFF" \in Cells
  BY DEF Cells
<1>6. /\ x[0] \in Nat /\ y[0] \in Nat /\ x[Len(ctl)] \in Nat
      /\ XonBytes * x[Len(ctl)] \in Nat /\ XonBytes * x[Len(ctl)] <= b[0]
      /\ b[0] \in Nat /\ b[0] <= snd.total_bytes_xmit
      /\ x[Len(ctl)] < XonScaleAt
  BY <1>2, Paid
<1>7. PICK h : /\ Sums(ctl', OneFor("XOFF"), h) /\ h[0] = y[0] /\ h[Len(ctl')] = y[Len(ctl)]
  <2>1. Sums(ctl, OneFor("XOFF"), y) /\ Head(ctl) # "XOFF"
    BY <1>2, <1>3 DEF Accounted
  <2>2. y[1] = y[0]
    BY <1>3, <1>4, <1>5, <1>6, <2>1, CountTake
  <2> QED BY <1>3, <1>4, <1>5, <2>1, <2>2, CountTake
<1>8. x[1] = x[0] + 1 /\ x[1] <= x[Len(ctl)]
  BY <1>2, <1>3, <1>4, <1>5, CountTake, SumsOrder DEF Accounted
<1>9. PICK g : /\ Sums(ctl', OneFor("XON"), g) /\ g[0] = x[0] + 1 /\ g[Len(ctl')] = x[Len(ctl)]
  BY <1>2, <1>3, <1>4, <1>5, <1>8, CountTake DEF Accounted
<1>11. snd.num_xon_recv # XonScaleAt
  <2>1. snd.num_xon_recv = x[0] /\ XonScaleAt \in Nat
    BY <1>2, XonXoffNumbers DEF Accounted
  <2> QED BY <1>6, <1>8, <2>1
<1>12. /\ snd' = [snd EXCEPT !.num_xon_recv = @ + 1, !.xoff_received = FALSE]
       /\ valid' = (snd'.total_bytes_xmit >= XonBytes * snd'.num_xon_recv)
  BY <1>3, <1>11 DEF Stream!circuit_process_stream_xon, XonBytes
<1>13. /\ snd'.total_bytes_xmit = snd.total_bytes_xmit
       /\ snd'.num_xon_recv = snd.num_xon_recv + 1 /\ snd'.num_xoff_recv = snd.num_xoff_recv
  BY <1>4, <1>12
<1>14. valid'
  <2>1. PICK k \in Nat : k = x[1]
    BY <1>6, <1>8
  <2>2. PICK q \in Nat : q = x[Len(ctl)]
    BY <1>6
  <2>3. k <= q /\ snd'.num_xon_recv = k /\ XonBytes \in Nat
    BY <1>2, <1>8, <1>13, <2>1, <2>2, XonXoffNumbers DEF Accounted
  <2>4. XonBytes * k \in Nat /\ XonBytes * q \in Nat /\ XonBytes * k <= XonBytes * q
    BY <2>3, Times
  <2>5. XonBytes * q <= b[0]
    BY <1>6, <2>2
  <2>6. snd.total_bytes_xmit \in Nat
    BY <1>2, Paid
  <2>7. snd.total_bytes_xmit >= XonBytes * k
    BY <1>6, <2>4, <2>5, <2>6
  <2> QED BY <1>12, <1>13, <2>3, <2>7
<1>15. Accounted(b, g, h)'
  BY <1>2, <1>3, <1>7, <1>9, <1>13 DEF Accounted
<1>16. snd'.total_bytes_xmit <= MaxBytes
  BY <1>13 DEF ValidInv
<1> QED BY <1>1, <1>14, <1>15, <1>16 DEF ValidInv

(* A data cell arrives and may be answered by an XOFF or an XON.           *)
LEMMA ValidArrives ==
  ASSUME Stream!XonXoffAssumption, CountersUnscaled, ValidInv, Stream!DataArrives
  PROVE  ValidInv'
<1>1. EndsInv'
  BY Arrives DEF ValidInv
<1>2. PICK b, x, y : Accounted(b, x, y)
  BY DEF ValidInv
<1>3. /\ ctl \in Seq(Cells) /\ data \in Seq(1 .. MaxCell) /\ Stream!TypeOK /\ EndsInv
      /\ rcv.outbuf \in Nat /\ rcv.xoff_sent \in BOOLEAN
      /\ XoffBytes \in Nat /\ XonBytes \in Nat
  BY XonXoffNumbers DEF ValidInv, EndsInv, Stream!TypeOK, Stream!Receiver, Cells
<1> DEFINE h == Head(data)
           c == Append(ctl, "SENDME")
<1>4. /\ data # <<>> /\ h \in 1 .. MaxCell /\ data' = Tail(data)
      /\ snd' = snd /\ valid' = valid
      /\ rcv' \in Stream!Receiver /\ rcv'.outbuf = rcv.outbuf + h
      /\ \/ /\ rcv'.xoff_sent = rcv.xoff_sent /\ ctl' = c
            /\ \A v, u \in Nat : Pays(rcv, v, u) => Pays(rcv', v + h, u)
         \/ /\ ~rcv.xoff_sent /\ rcv'.xoff_sent /\ ctl' = Append(c, "XOFF")
            /\ rcv.outbuf > XoffBytes
            /\ \A v, u \in Nat : Pays(rcv, v, u) => Pays(rcv', v + h, u)
         \/ /\ ~rcv'.xoff_sent /\ ctl' = Append(c, "XON")
            /\ rcv.xoff_sent => rcv.outbuf = 0
            /\ \A v, u \in Nat : Pays(rcv, v, u) => Pays(rcv', v + h, u + XonBytes)
  BY <1>3, Arrived
<1>5. /\ b[0] \in Nat
      /\ x[0] \in Nat /\ x[Len(ctl)] \in Nat /\ y[0] \in Nat /\ y[Len(ctl)] \in Nat
      /\ XonBytes * x[Len(ctl)] \in Nat /\ XoffBytes * y[Len(ctl)] \in Nat
  BY <1>2, Paid
<1>6. /\ Sums(ctl, OneFor("XON"), x) /\ Sums(ctl, OneFor("XOFF"), y)
      /\ b[Len(data)] = snd.total_bytes_xmit
      /\ x[0] = snd.num_xon_recv /\ y[0] = snd.num_xoff_recv
      /\ Pays(rcv, b[0], XonBytes * x[Len(ctl)])
      /\ b[0] >= XoffBytes * y[Len(ctl)] + (IF rcv.xoff_sent THEN 0 ELSE rcv.outbuf)
  BY <1>2 DEF Accounted
<1>7. "XON" \in Cells /\ "XOFF" \in Cells /\ "SENDME" \in Cells
  BY DEF Cells
<1>8. PICK v : Sums(data', Size, v) /\ v[0] = b[0] + h /\ v[Len(data')] = b[Len(data)]
  <2>1. PICK w : w = Size
    OBVIOUS
  <2>2. PICK v : v = Shifted(b, Len(data))
    OBVIOUS
  <2>3. Sums(data, w, b)
    BY <1>2, <2>1 DEF Accounted
  <2>4. /\ Sums(Tail(data), w, v) /\ b[1] = b[0] + w[Head(data)]
        /\ \A j \in 0 .. Len(data) - 1 : v[j] = b[j + 1]
    BY <1>3, <1>4, <2>2, <2>3, SumsTake
  <2>5. w[Head(data)] = h
    BY <1>4, <2>1 DEF Size
  <2>6. Len(data') = Len(data) - 1 /\ Len(data) \in Nat \ {0}
    BY <1>3, <1>4, Taken
  <2>7. v[0] = b[0 + 1] /\ v[Len(data) - 1] = b[(Len(data) - 1) + 1]
    BY <2>4, <2>6
  <2>8. 0 + 1 = 1 /\ (Len(data) - 1) + 1 = Len(data)
    BY <2>6
  <2> QED BY <1>4, <2>1, <2>4, <2>5, <2>6, <2>7, <2>8
<1>9. PICK p : Sums(c, OneFor("XON"), p) /\ p[0] = x[0] /\ p[Len(c)] = x[Len(ctl)]
  <2>1. PICK p : /\ Sums(c, OneFor("XON"), p) /\ p[0] = x[0]
                 /\ p[Len(c)] = x[Len(ctl)] + (IF "SENDME" = "XON" THEN 1 ELSE 0)
    BY <1>3, <1>6, <1>7, CountAppend
  <2>2. p[Len(c)] = x[Len(ctl)]
    BY <1>5, <2>1
  <2> QED BY <2>1, <2>2
<1>10. PICK q : Sums(c, OneFor("XOFF"), q) /\ q[0] = y[0] /\ q[Len(c)] = y[Len(ctl)]
  <2>1. PICK q : /\ Sums(c, OneFor("XOFF"), q) /\ q[0] = y[0]
                 /\ q[Len(c)] = y[Len(ctl)] + (IF "SENDME" = "XOFF" THEN 1 ELSE 0)
    BY <1>3, <1>6, <1>7, CountAppend
  <2>2. q[Len(c)] = y[Len(ctl)]
    BY <1>5, <2>1
  <2> QED BY <2>1, <2>2
<1>11. c \in Seq(Cells) /\ h \in Nat /\ b[0] + h \in Nat
  <2>1. c \in Seq(Cells)
    BY <1>3, <1>7, Appended
  <2>2. h \in Nat
    BY <1>4, XonXoffNumbers, SMTT(30)
  <2> HIDE DEF h, c
  <2>3. b[0] + h \in Nat
    BY <1>5, <2>2
  <2> QED BY <2>1, <2>2, <2>3
<1>12. PICK P \in Nat : P = x[Len(ctl)]
  BY <1>5
<1>13. PICK Q \in Nat : Q = y[Len(ctl)]
  BY <1>5
<1>14. /\ XonBytes * P \in Nat /\ XonBytes * (P + 1) = XonBytes * P + XonBytes
       /\ XoffBytes * Q \in Nat /\ XoffBytes * (Q + 1) = XoffBytes * Q + XoffBytes
  BY <1>3, TimesNext
<1> HIDE DEF c, h
<1>15. ASSUME NEW g, Sums(ctl', OneFor("XON"), g), g[0] = x[0],
              NEW k, Sums(ctl', OneFor("XOFF"), k), k[0] = y[0],
              Pays(rcv', b[0] + h, XonBytes * g[Len(ctl')]),
              b[0] + h >= XoffBytes * k[Len(ctl')] + (IF rcv'.xoff_sent THEN 0 ELSE rcv'.outbuf)
       PROVE  ValidInv'
  <2>1. Accounted(v, g, k)'
    BY <1>4, <1>6, <1>8, <1>15 DEF Accounted
  <2>2. valid' /\ snd'.total_bytes_xmit <= MaxBytes
    BY <1>4 DEF ValidInv
  <2> QED BY <1>1, <2>1, <2>2 DEF ValidInv
<1> DEFINE l == XoffBytes * Q
           o == IF rcv.xoff_sent THEN 0 ELSE rcv.outbuf
<1>16. b[0] >= l + o /\ l \in Nat /\ o \in Nat
  BY <1>3, <1>6, <1>13, <1>14
<1>17. CASE /\ rcv'.xoff_sent = rcv.xoff_sent /\ ctl' = c
            /\ \A e, u \in Nat : Pays(rcv, e, u) => Pays(rcv', e + h, u)
  <2>1. Pays(rcv', b[0] + h, XonBytes * p[Len(ctl')])
    BY <1>5, <1>6, <1>9, <1>17
  <2>2. b[0] + h >= XoffBytes * q[Len(ctl')] + (IF rcv'.xoff_sent THEN 0 ELSE rcv'.outbuf)
    <3>1. XoffBytes * q[Len(ctl')] = l
      BY <1>10, <1>13, <1>17
    <3>2. (IF rcv'.xoff_sent THEN 0 ELSE rcv'.outbuf) <= o + h
      BY <1>3, <1>4, <1>11, <1>17
    <3>3. (IF rcv'.xoff_sent THEN 0 ELSE rcv'.outbuf) \in Nat
      BY <1>3, <1>4, <1>11
    <3> DEFINE oo == IF rcv'.xoff_sent THEN 0 ELSE rcv'.outbuf
    <3> HIDE DEF l, o, oo
    <3>4. oo \in Nat /\ oo <= o + h
      BY <3>2, <3>3 DEF oo
    <3>5. b[0] + h >= l + oo
      BY <1>5, <1>11, <1>16, <3>4
    <3> QED BY <3>1, <3>5 DEF oo
  <2> QED BY <1>9, <1>10, <1>15, <1>17, <2>1, <2>2
<1>18. CASE /\ ~rcv.xoff_sent /\ rcv'.xoff_sent /\ ctl' = Append(c, "XOFF")
            /\ rcv.outbuf > XoffBytes
            /\ \A e, u \in Nat : Pays(rcv, e, u) => Pays(rcv', e + h, u)
  <2>1. PICK g : /\ Sums(ctl', OneFor("XON"), g) /\ g[0] = x[0]
                 /\ g[Len(ctl')] = p[Len(c)] + (IF "XOFF" = "XON" THEN 1 ELSE 0)
    BY <1>7, <1>9, <1>11, <1>18, CountAppend
  <2>2. PICK k : /\ Sums(ctl', OneFor("XOFF"), k) /\ k[0] = y[0]
                 /\ k[Len(ctl')] = q[Len(c)] + (IF "XOFF" = "XOFF" THEN 1 ELSE 0)
    BY <1>7, <1>10, <1>11, <1>18, CountAppend
  <2>3. g[Len(ctl')] = P /\ k[Len(ctl')] = Q + 1
    BY <1>9, <1>10, <1>12, <1>13, <2>1, <2>2
  <2>4. Pays(rcv', b[0] + h, XonBytes * g[Len(ctl')])
    BY <1>5, <1>6, <1>12, <1>14, <1>18, <2>3
  <2>5. b[0] + h >= XoffBytes * k[Len(ctl')] + (IF rcv'.xoff_sent THEN 0 ELSE rcv'.outbuf)
    <3>1. XoffBytes * k[Len(ctl')] = l + XoffBytes
      BY <1>14, <2>3
    <3> DEFINE oo == IF rcv'.xoff_sent THEN 0 ELSE rcv'.outbuf
    <3>2. o > XoffBytes /\ oo = 0
      BY <1>18
    <3> HIDE DEF l, o, oo
    <3>3. b[0] + h >= (l + XoffBytes) + oo
      BY <1>3, <1>5, <1>11, <1>16, <3>2
    <3> QED BY <3>1, <3>3 DEF oo
  <2> QED BY <1>15, <2>1, <2>2, <2>4, <2>5
<1>19. CASE /\ ~rcv'.xoff_sent /\ ctl' = Append(c, "XON")
            /\ rcv.xoff_sent => rcv.outbuf = 0
            /\ \A e, u \in Nat : Pays(rcv, e, u) => Pays(rcv', e + h, u + XonBytes)
  <2>1. PICK g : /\ Sums(ctl', OneFor("XON"), g) /\ g[0] = x[0]
                 /\ g[Len(ctl')] = p[Len(c)] + (IF "XON" = "XON" THEN 1 ELSE 0)
    BY <1>7, <1>9, <1>11, <1>19, CountAppend
  <2>2. PICK k : /\ Sums(ctl', OneFor("XOFF"), k) /\ k[0] = y[0]
                 /\ k[Len(ctl')] = q[Len(c)] + (IF "XON" = "XOFF" THEN 1 ELSE 0)
    BY <1>7, <1>10, <1>11, <1>19, CountAppend
  <2>3. g[Len(ctl')] = P + 1 /\ k[Len(ctl')] = Q
    BY <1>9, <1>10, <1>12, <1>13, <2>1, <2>2
  <2>4. Pays(rcv', b[0] + h, XonBytes * g[Len(ctl')])
    <3>1. Pays(rcv, b[0], XonBytes * P)
      BY <1>6, <1>12
    <3>2. Pays(rcv', b[0] + h, XonBytes * P + XonBytes)
      BY <1>5, <1>14, <1>19, <3>1
    <3> QED BY <1>14, <2>3, <3>2
  <2>5. b[0] + h >= XoffBytes * k[Len(ctl')] + (IF rcv'.xoff_sent THEN 0 ELSE rcv'.outbuf)
    <3>1. XoffBytes * k[Len(ctl')] = l
      BY <2>3
    <3>2. (IF rcv'.xoff_sent THEN 0 ELSE rcv'.outbuf) = o + h
      BY <1>3, <1>4, <1>11, <1>19
    <3> HIDE DEF l, o
    <3> QED BY <1>3, <1>5, <1>11, <1>16, <3>1, <3>2, SMTT(30)
  <2> QED BY <1>15, <2>1, <2>2, <2>4, <2>5
<1>20. \/ /\ rcv'.xoff_sent = rcv.xoff_sent /\ ctl' = c
          /\ \A e, u \in Nat : Pays(rcv, e, u) => Pays(rcv', e + h, u)
       \/ /\ ~rcv.xoff_sent /\ rcv'.xoff_sent /\ ctl' = Append(c, "XOFF")
          /\ rcv.outbuf > XoffBytes
          /\ \A e, u \in Nat : Pays(rcv, e, u) => Pays(rcv', e + h, u)
       \/ /\ ~rcv'.xoff_sent /\ ctl' = Append(c, "XON")
          /\ rcv.xoff_sent => rcv.outbuf = 0
          /\ \A e, u \in Nat : Pays(rcv, e, u) => Pays(rcv', e + h, u + XonBytes)
  BY <1>4
<1> QED BY <1>17, <1>18, <1>19, <1>20

(* A write may be answered by an XON.                                      *)
LEMMA ValidWrites ==
  ASSUME Stream!XonXoffAssumption, CountersUnscaled, ValidInv,
         NEW n \in 0 .. rcv.outbuf,
         rcv.outbuf > 0, Stream!connection_handle_write(n)
  PROVE  ValidInv'
<1>1. EndsInv'
  BY Writes DEF ValidInv
<1>2. PICK b, x, y : Accounted(b, x, y)
  BY DEF ValidInv
<1>3. /\ ctl \in Seq(Cells) /\ Stream!TypeOK /\ EndsInv /\ rcv.outbuf <= Full
      /\ rcv.outbuf \in Nat /\ rcv.xoff_sent \in BOOLEAN
      /\ XoffBytes \in Nat /\ XonBytes \in Nat
  BY XonXoffNumbers, Bounded DEF ValidInv, EndsInv, Stream!TypeOK, Stream!Receiver,
                                 Cells
<1>4. /\ snd' = snd /\ data' = data /\ valid' = valid
      /\ rcv' \in Stream!Receiver /\ rcv'.outbuf = rcv.outbuf - n
      /\ \/ /\ rcv'.xoff_sent = rcv.xoff_sent /\ ctl' = ctl
            /\ \A v, u \in Nat : Pays(rcv, v, u) => Pays(rcv', v, u)
         \/ /\ ~rcv'.xoff_sent /\ ctl' = Append(ctl, "XON")
            /\ rcv.xoff_sent => rcv'.outbuf = 0
            /\ \A v, u \in Nat : Pays(rcv, v, u) => Pays(rcv', v, u + XonBytes)
  BY <1>3, Wrote
<1>5. /\ b[0] \in Nat
      /\ x[0] \in Nat /\ x[Len(ctl)] \in Nat /\ y[0] \in Nat /\ y[Len(ctl)] \in Nat
  BY <1>2, Paid
<1>6. /\ Sums(data, Size, b) /\ Sums(ctl, OneFor("XON"), x) /\ Sums(ctl, OneFor("XOFF"), y)
      /\ b[Len(data)] = snd.total_bytes_xmit
      /\ x[0] = snd.num_xon_recv /\ y[0] = snd.num_xoff_recv
      /\ Pays(rcv, b[0], XonBytes * x[Len(ctl)])
      /\ b[0] >= XoffBytes * y[Len(ctl)] + (IF rcv.xoff_sent THEN 0 ELSE rcv.outbuf)
  BY <1>2 DEF Accounted
<1>7. "XON" \in Cells /\ "XOFF" \in Cells
  BY DEF Cells
<1>8. rcv'.outbuf \in Nat /\ rcv'.outbuf <= rcv.outbuf /\ rcv'.xoff_sent \in BOOLEAN
  BY <1>3, <1>4 DEF Stream!Receiver
<1>12. PICK P \in Nat : P = x[Len(ctl)]
  BY <1>5
<1>13. PICK Q \in Nat : Q = y[Len(ctl)]
  BY <1>5
<1>14. /\ XonBytes * P \in Nat /\ XonBytes * (P + 1) = XonBytes * P + XonBytes
       /\ XoffBytes * Q \in Nat
  BY <1>3, TimesNext
<1> DEFINE l == XoffBytes * Q
           o == IF rcv.xoff_sent THEN 0 ELSE rcv.outbuf
           oo == IF rcv'.xoff_sent THEN 0 ELSE rcv'.outbuf
<1>15. ASSUME NEW g, Sums(ctl', OneFor("XON"), g), g[0] = x[0],
              NEW k, Sums(ctl', OneFor("XOFF"), k), k[0] = y[0],
              Pays(rcv', b[0], XonBytes * g[Len(ctl')]), k[Len(ctl')] = Q, oo <= o
       PROVE  ValidInv'
  <2>1. b[0] >= l + o /\ l \in Nat /\ o \in Nat /\ oo \in Nat
    BY <1>3, <1>6, <1>8, <1>13, <1>14
  <2>2. b[0] >= l + oo
    <3>1. oo <= o
      BY <1>15
    <3> HIDE DEF l, o, oo
    <3> QED BY <1>5, <2>1, <3>1
  <2>3. Accounted(b, g, k)'
    BY <1>4, <1>6, <1>15, <2>2 DEF Accounted
  <2>4. valid' /\ snd'.total_bytes_xmit <= MaxBytes
    BY <1>4 DEF ValidInv
  <2> QED BY <1>1, <2>3, <2>4 DEF ValidInv
<1>16. CASE /\ rcv'.xoff_sent = rcv.xoff_sent /\ ctl' = ctl
            /\ \A v, u \in Nat : Pays(rcv, v, u) => Pays(rcv', v, u)
  <2>1. oo <= o
    BY <1>3, <1>8, <1>16
  <2>2. Pays(rcv', b[0], XonBytes * x[Len(ctl')])
    BY <1>5, <1>6, <1>12, <1>14, <1>16
  <2> QED BY <1>6, <1>13, <1>15, <1>16, <2>1, <2>2
<1>17. CASE /\ ~rcv'.xoff_sent /\ ctl' = Append(ctl, "XON")
            /\ rcv.xoff_sent => rcv'.outbuf = 0
            /\ \A v, u \in Nat : Pays(rcv, v, u) => Pays(rcv', v, u + XonBytes)
  <2>0. oo <= o
    BY <1>3, <1>8, <1>17
  <2>1. PICK g : /\ Sums(ctl', OneFor("XON"), g) /\ g[0] = x[0]
                 /\ g[Len(ctl')] = x[Len(ctl)] + (IF "XON" = "XON" THEN 1 ELSE 0)
    BY <1>3, <1>6, <1>7, <1>17, CountAppend
  <2>2. PICK k : /\ Sums(ctl', OneFor("XOFF"), k) /\ k[0] = y[0]
                 /\ k[Len(ctl')] = y[Len(ctl)] + (IF "XON" = "XOFF" THEN 1 ELSE 0)
    BY <1>3, <1>6, <1>7, <1>17, CountAppend
  <2>3. g[Len(ctl')] = P + 1 /\ k[Len(ctl')] = Q
    BY <1>12, <1>13, <2>1, <2>2
  <2>4. Pays(rcv', b[0], XonBytes * g[Len(ctl')])
    <3>1. Pays(rcv, b[0], XonBytes * P)
      BY <1>6, <1>12
    <3>2. Pays(rcv', b[0], XonBytes * P + XonBytes)
      BY <1>5, <1>14, <1>17, <3>1
    <3> QED BY <1>14, <2>3, <3>2
  <2> HIDE DEF o, oo
  <2> QED BY <1>15, <2>0, <2>1, <2>2, <2>3, <2>4
<1> QED BY <1>4, <1>16, <1>17

(* The counts agree at the start.                                          *)
LEMMA ValidStart == ASSUME Stream!XonXoffAssumption, Stream!Init PROVE ValidInv
<1>1. EndsInv
  BY EndsStart
<1>2. Accounted([j \in {0} |-> 0], [j \in {0} |-> 0], [j \in {0} |-> 0])
  <2> DEFINE z == [j \in {0} |-> 0]
  <2>1. Len(ctl) = 0 /\ Len(data) = 0 /\ z[0] = 0
    BY DEF Stream!Init
  <2>2. Sums(data, Size, z) /\ Sums(ctl, OneFor("XON"), z) /\ Sums(ctl, OneFor("XOFF"), z)
    BY <2>1 DEF Sums
  <2>3. /\ snd.total_bytes_xmit = 0 /\ snd.num_xon_recv = 0 /\ snd.num_xoff_recv = 0
        /\ rcv.outbuf = 0 /\ rcv.xoff_sent = FALSE /\ rcv.drained_bytes = 0
        /\ rcv.ewma_drain_rate = 0 /\ rcv.ewma_rate_last_sent = 0
    BY DEF Stream!Init
  <2>4. XonBytes * 0 = 0 /\ XoffBytes * 0 = 0
    BY XonXoffNumbers
  <2>5. Pays(rcv, 0, 0)
    BY <2>3 DEF Pays, Counted
  <2> HIDE DEF z
  <2> QED BY <2>1, <2>2, <2>3, <2>4, <2>5 DEF Accounted, z
<1>3. valid /\ snd.total_bytes_xmit <= MaxBytes
  <2>1. MaxBytes \in Nat
    BY XonXoffNumbers
  <2> QED BY <2>1 DEF Stream!Init
<1> QED BY <1>1, <1>2, <1>3 DEF ValidInv

(* Every step keeps the counts.                                            *)
LEMMA ValidStep ==
  ASSUME Stream!XonXoffAssumption, CountersUnscaled, ValidInv, [Stream!Next]_Stream!vars
  PROVE  ValidInv'
<1>1. CASE UNCHANGED Stream!vars
  BY <1>1 DEF Stream!vars, ValidInv, EndsInv, Stream!TypeOK, Scaled, Book, OnItsWay,
              BufferFits, Accounted
<1>2. CASE Stream!Next
  BY <1>2, ValidSends, ValidSendme, ValidXoff, ValidXon, ValidArrives, ValidWrites
     DEF Stream!Next
<1> QED BY <1>1, <1>2

-----------------------------------------------------------------------------
(* Reading at the edge (EdgeReading).  First sums over queues.             *)

(* A set of numbers has a least one.                                       *)
LEMMA NatLeast ==
  ASSUME NEW T, T \subseteq Nat, T # {}
  PROVE  \E m \in T : \A n \in T : m <= n
<1> DEFINE R == OpToRel(<, Nat)
<1>1. IsWellFoundedOn(R, Nat)
  BY NatLessThanWellFounded
<1>2. \A x, y \in Nat : <<y, x>> \in R <=> y < x
  BY DEF OpToRel
<1> HIDE DEF R
<1>3. PICK x \in T : \A y \in T : ~(<<y, x>> \in R)
  BY <1>1, WFMin
<1>4. ASSUME NEW n \in T PROVE x <= n
  <2>1. x \in Nat /\ n \in Nat
    OBVIOUS
  <2>2. ~(n < x)
    BY <2>1, <1>2, <1>3
  <2> QED BY <2>1, <2>2
<1> QED BY <1>4

(* The cells of q weigh m together.                                        *)
Tally(q, w, m) == \E f : Sums(q, w, f) /\ f[0] = 0 /\ f[Len(q)] = m

(* A weight is a natural number.                                           *)
LEMMA TallyNat ==
  ASSUME NEW S, NEW q \in Seq(S), NEW w, NEW m, Tally(q, w, m)
  PROVE  m \in Nat
  BY DEF Tally, Sums

(* No cells weigh nothing.                                                 *)
LEMMA TallyEmpty == ASSUME NEW w PROVE Tally(<<>>, w, 0)
<1> DEFINE z == [j \in {0} |-> 0]
<1>1. Len(<<>>) = 0 /\ z[0] = 0
  OBVIOUS
<1>2. Sums(<<>>, w, z)
  BY <1>1 DEF Sums
<1> HIDE DEF z
<1> QED BY <1>1, <1>2 DEF Tally

(* A cell that is added adds its weight.                                   *)
LEMMA TallyAppend ==
  ASSUME NEW S, NEW q \in Seq(S), NEW c \in S, NEW w, w[c] \in Nat, NEW m, Tally(q, w, m)
  PROVE  Tally(Append(q, c), w, m + w[c])
<1>1. PICK f : Sums(q, w, f) /\ f[0] = 0 /\ f[Len(q)] = m
  BY DEF Tally
<1>2. PICK g : g = Longer(f, Len(q), f[Len(q)] + w[c])
  OBVIOUS
<1>3. /\ Sums(Append(q, c), w, g)
      /\ g[Len(q) + 1] = f[Len(q)] + w[c]
      /\ \A j \in 0 .. Len(q) : g[j] = f[j]
  BY <1>1, <1>2, SumsAppend
<1>4. Len(Append(q, c)) = Len(q) + 1 /\ Len(q) \in Nat
  BY Appended
<1> QED BY <1>1, <1>3, <1>4 DEF Tally

(* A cell that is taken off the front takes its weight with it.            *)
LEMMA TallyTake ==
  ASSUME NEW S, NEW q \in Seq(S), q # <<>>, NEW w, \A c \in S : w[c] \in Nat,
         NEW m, Tally(q, w, m)
  PROVE  m >= w[Head(q)] /\ Tally(Tail(q), w, m - w[Head(q)])
<1>1. PICK f : Sums(q, w, f) /\ f[0] = 0 /\ f[Len(q)] = m
  BY DEF Tally
<1>2. PICK g : g = Shifted(f, Len(q))
  OBVIOUS
<1>3. /\ Sums(Tail(q), w, g) /\ f[1] = f[0] + w[Head(q)]
      /\ \A j \in 0 .. Len(q) - 1 : g[j] = f[j + 1]
  BY <1>1, <1>2, SumsTake
<1>4. /\ Len(Tail(q)) = Len(q) - 1 /\ Len(q) \in Nat \ {0} /\ Tail(q) \in Seq(S)
      /\ Len(q) - 1 \in Nat /\ Head(q) \in S
  BY Taken, SMTT(30)
<1>5. PICK l \in Nat : l = Len(q) - 1
  BY <1>4
<1>6. PICK a \in Nat : a = w[Head(q)]
  BY <1>4
<1> DEFINE h == [j \in 0 .. l |-> g[j] - a]
<1>7. g \in [0 .. l -> Nat] /\ g[0] = a /\ g[l] = m
  BY <1>1, <1>3, <1>4, <1>5, <1>6 DEF Sums
<1>8. \A i, j \in 0 .. l : i <= j => g[i] <= g[j]
  BY <1>3, <1>4, <1>5 DEF Sums
<1>9. \A j \in 1 .. l : g[j] = g[j - 1] + w[Tail(q)[j]]
  BY <1>3, <1>4, <1>5 DEF Sums
<1>10. h \in [0 .. l -> Nat]
  <2> SUFFICES ASSUME NEW j \in 0 .. l PROVE g[j] - a \in Nat
    OBVIOUS
  <2>1. g[0] <= g[j]
    BY <1>8
  <2> QED BY <1>7, <2>1
<1>11. \A j \in 1 .. l : h[j] = h[j - 1] + w[Tail(q)[j]]
  <2> SUFFICES ASSUME NEW j \in 1 .. l PROVE h[j] = h[j - 1] + w[Tail(q)[j]]
    OBVIOUS
  <2>1. j - 1 \in 0 .. l /\ j \in 0 .. l
    OBVIOUS
  <2>2. g[j] = g[j - 1] + w[Tail(q)[j]] /\ g[j] \in Nat /\ g[j - 1] \in Nat
    BY <1>7, <1>9, <2>1
  <2>3. h[j] = g[j] - a /\ h[j - 1] = g[j - 1] - a
    BY <2>1
  <2>4. Tail(q)[j] \in S
    BY <1>4, <1>5
  <2>5. PICK b \in Nat : b = w[Tail(q)[j]]
    BY <2>4
  <2>6. PICK x \in Nat, y \in Nat : x = g[j] /\ y = g[j - 1]
    BY <2>2
  <2> HIDE DEF h
  <2>7. x = y + b /\ h[j] = x - a /\ h[j - 1] = y - a
    BY <2>2, <2>3, <2>5, <2>6
  <2>8. x - a = (y - a) + b
    <3>1. x = y + b
      BY <2>7
    <3> QED BY <3>1
  <2> QED BY <2>5, <2>7, <2>8
<1>12. \A i, j \in 0 .. l : i <= j => h[i] <= h[j]
  BY <1>7, <1>8
<1>13. Sums(Tail(q), w, h)
  BY <1>4, <1>5, <1>10, <1>11, <1>12 DEF Sums
<1>14. h[0] = 0 /\ h[l] = m - a /\ m >= a
  BY <1>7, <1>8
<1> HIDE DEF h
<1> QED BY <1>4, <1>5, <1>6, <1>13, <1>14 DEF Tally

(* q with n cells c more.                                                  *)
More(q, c, n) == q \o [i \in 1 .. n |-> c]

(* The cells of two queues, one behind the other.                          *)
LEMMA Joined ==
  ASSUME NEW S, NEW q \in Seq(S), NEW v \in Seq(S)
  PROVE  /\ q \o v \in Seq(S) /\ Len(q \o v) = Len(q) + Len(v) /\ Len(q) \in Nat
         /\ \A j \in 1 .. Len(q) : (q \o v)[j] = q[j]
         /\ \A j \in 1 .. Len(v) : (q \o v)[Len(q) + j] = v[j]
  OBVIOUS

(* The cells of a queue that n more of one kind were added to.             *)
LEMMA AppendMany ==
  ASSUME NEW S, NEW q \in Seq(S), NEW c \in S, NEW n \in Nat
  PROVE  /\ More(q, c, n) \in Seq(S) /\ Len(More(q, c, n)) = Len(q) + n /\ Len(q) \in Nat
         /\ \A j \in 1 .. Len(q) : More(q, c, n)[j] = q[j]
         /\ \A j \in Len(q) + 1 .. Len(q) + n : More(q, c, n)[j] = c
<1> DEFINE y == [i \in 1 .. n |-> c]
<1>0. PICK z : z = More(q, c, n) /\ z = q \o y
  BY DEF More
<1>1. y \in Seq(S) /\ Len(y) = n
  OBVIOUS
<1>2. /\ z \in Seq(S) /\ Len(z) = Len(q) + Len(y) /\ Len(q) \in Nat
      /\ \A j \in 1 .. Len(q) : z[j] = q[j]
      /\ \A j \in 1 .. Len(y) : z[Len(q) + j] = y[j]
  <2>1. PICK v : v = y
    OBVIOUS
  <2>2. v \in Seq(S) /\ Len(v) = n /\ z = q \o v
    BY <1>0, <1>1, <2>1
  <2>3. /\ z \in Seq(S) /\ Len(z) = Len(q) + Len(v) /\ Len(q) \in Nat
        /\ \A j \in 1 .. Len(q) : z[j] = q[j]
        /\ \A j \in 1 .. Len(v) : z[Len(q) + j] = v[j]
    <3>1. v \in Seq(S)
      BY <2>2
    <3>2. q \o v \in Seq(S) /\ Len(q \o v) = Len(q) + Len(v) /\ Len(q) \in Nat
      BY <3>1, Joined
    <3>3. \A j \in 1 .. Len(q) : (q \o v)[j] = q[j]
      BY <3>1, Joined
    <3>4. \A j \in 1 .. Len(v) : (q \o v)[Len(q) + j] = v[j]
      BY <3>1, Joined
    <3> QED BY <2>2, <3>2, <3>3, <3>4
  <2> QED BY <2>1, <2>3
<1>3. ASSUME NEW j \in Len(q) + 1 .. Len(q) + n PROVE z[j] = c
  <2>1. j - Len(q) \in 1 .. n /\ Len(q) + (j - Len(q)) = j
    BY <1>2
  <2> QED BY <1>1, <1>2, <2>1
<1> QED BY <1>0, <1>1, <1>2, <1>3

(* n times the same cell is n times its weight; the weights are 0 and 1.   *)
LEMMA TallyMany ==
  ASSUME NEW S, NEW q \in Seq(S), NEW c \in S, NEW n \in Nat, NEW w, w[c] \in {0, 1},
         NEW m, Tally(q, w, m)
  PROVE  Tally(More(q, c, n), w, IF w[c] = 1 THEN m + n ELSE m)
<1>0. PICK z : z = More(q, c, n)
  OBVIOUS
<1>1. PICK f : Sums(q, w, f) /\ f[0] = 0 /\ f[Len(q)] = m
  BY DEF Tally
<1>2. /\ z \in Seq(S) /\ Len(z) = Len(q) + n /\ Len(q) \in Nat
      /\ \A j \in 1 .. Len(q) : z[j] = q[j]
      /\ \A j \in Len(q) + 1 .. Len(q) + n : z[j] = c
  <2>1. More(q, c, n) \in Seq(S) /\ Len(More(q, c, n)) = Len(q) + n /\ Len(q) \in Nat
    <3>1. More(q, c, n) \in Seq(S)
      BY AppendMany
    <3>2. Len(More(q, c, n)) = Len(q) + n
      <4>1. PICK y : y = [i \in 1 .. n |-> c]
        OBVIOUS
      <4>2. y \in Seq(S) /\ Len(y) = n
        BY <4>1
      <4>3. Len(q \o y) = Len(q) + Len(y)
        BY <4>2, Joined
      <4> QED BY <4>1, <4>2, <4>3 DEF More
    <3>3. Len(q) \in Nat
      OBVIOUS
    <3> QED BY <3>1, <3>2, <3>3
  <2>2. \A j \in 1 .. Len(q) : More(q, c, n)[j] = q[j]
    BY AppendMany
  <2>3. \A j \in Len(q) + 1 .. Len(q) + n : More(q, c, n)[j] = c
    BY AppendMany
  <2> QED BY <1>0, <2>1, <2>2, <2>3
<1>3. PICK l \in Nat : l = Len(q)
  BY <1>2
<1>4. /\ f \in [0 .. l -> Nat] /\ f[0] = 0 /\ f[l] = m /\ m \in Nat
      /\ \A j \in 1 .. l : f[j] = f[j - 1] + w[q[j]]
      /\ \A i, j \in 0 .. l : i <= j => f[i] <= f[j]
  BY <1>1, <1>3 DEF Sums
<1> DEFINE g == [j \in 0 .. l + n |-> IF j <= l THEN f[j] ELSE IF w[c] = 1 THEN m + (j - l) ELSE m]
<1>5. g \in [0 .. l + n -> Nat]
  BY <1>4
<1>6. ASSUME NEW j \in 1 .. l + n PROVE g[j] = g[j - 1] + w[z[j]]
  <2>1. CASE j <= l
    <3>1. g[j] = f[j] /\ g[j - 1] = f[j - 1] /\ z[j] = q[j] /\ j \in 1 .. l
      BY <1>2, <1>3, <2>1
    <3> QED BY <1>4, <3>1
  <2>2. CASE j = l + 1
    <3>1. g[j - 1] = m /\ z[j] = c
      BY <1>2, <1>3, <1>4, <2>2
    <3>2. g[j] = IF w[c] = 1 THEN m + 1 ELSE m
      BY <1>4, <2>2
    <3> HIDE DEF g
    <3>3. m + 0 = m
      BY <1>4
    <3> QED BY <3>1, <3>2, <3>3
  <2>3. CASE j > l + 1
    <3>1. g[j] = (IF w[c] = 1 THEN m + (j - l) ELSE m) /\ z[j] = c
      BY <1>2, <1>3, <2>3
    <3>2. g[j - 1] = (IF w[c] = 1 THEN m + ((j - 1) - l) ELSE m)
      BY <2>3
    <3> HIDE DEF g
    <3>3. m + 0 = m /\ m + (j - l) = m + ((j - 1) - l) + 1
      BY <1>3, <1>4
    <3> QED BY <3>1, <3>2, <3>3
  <2>4. j <= l \/ j = l + 1 \/ j > l + 1
    OBVIOUS
  <2> HIDE DEF g
  <2> QED BY <2>1, <2>2, <2>3, <2>4
<1>7. ASSUME NEW i \in 0 .. l + n, NEW j \in 0 .. l + n, i <= j PROVE g[i] <= g[j]
  <2>1. CASE j <= l
    BY <1>4, <1>7, <2>1
  <2>2. CASE i <= l /\ j > l
    <3>1. f[i] <= f[l] /\ f[i] \in Nat
      BY <1>4, <2>2
    <3> QED BY <1>4, <2>2, <3>1
  <2>3. CASE i > l /\ j > l
    BY <1>4, <1>7, <2>3
  <2> QED BY <1>7, <2>1, <2>2, <2>3
<1>8. g[0] = 0 /\ g[l + n] = IF w[c] = 1 THEN m + n ELSE m
  BY <1>4
<1> HIDE DEF g
<1>9. Sums(z, w, g)
  BY <1>2, <1>3, <1>5, <1>6, <1>7 DEF Sums
<1>10. Tally(z, w, IF w[c] = 1 THEN m + n ELSE m)
  BY <1>2, <1>3, <1>8, <1>9 DEF Tally
<1> QED BY <1>0, <1>10

-----------------------------------------------------------------------------
(* The cells that travel to the sender, and what they tell it.             *)

(* The cells that travel to the sender.                                    *)
EdgeCells == {<<"SENDME">>} \cup {<<c, s>> : c \in {"XOFF", "XON"}, s \in Streams}

(* A SENDME, an XOFF and an XON are different cells, and so are those of   *)
(* different streams.                                                      *)
LEMMA CellsDiffer ==
  ASSUME NEW s \in Streams, NEW u \in Streams
  PROVE  /\ <<"SENDME">> \in EdgeCells /\ <<"XOFF", s>> \in EdgeCells /\ <<"XON", s>> \in EdgeCells
         /\ <<"SENDME">> # <<"XOFF", s>> /\ <<"SENDME">> # <<"XON", s>>
         /\ <<"XOFF", s>> # <<"XON", u>>
         /\ <<"XOFF", s>> = <<"XOFF", u>> => s = u
         /\ <<"XON", s>> = <<"XON", u>> => s = u
<1>1. Len(<<"SENDME">>) = 1 /\ Len(<<"XOFF", s>>) = 2 /\ Len(<<"XON", s>>) = 2
  OBVIOUS
<1>2. /\ <<"SENDME">> \in EdgeCells /\ <<"XOFF", s>> \in EdgeCells /\ <<"XON", s>> \in EdgeCells
  BY DEF EdgeCells
<1>3. /\ <<"XOFF", s>> # <<"XON", u>>
      /\ <<"XOFF", s>> = <<"XOFF", u>> => s = u
      /\ <<"XON", s>> = <<"XON", u>> => s = u
  OBVIOUS
<1> QED BY <1>1, <1>2, <1>3

(* Those of the streams.                                                   *)
Xoff(s) == <<"XOFF", s>>
Xon(s) == <<"XON", s>>

(* What a cell tells the sender that was told b.                            *)
Tells(c, s, b) ==
  IF c = Xoff(s) THEN "XOFF" ELSE IF c = Xon(s) THEN "XON" ELSE b

(* Of the streams' cells in q: a sender that was last told a for stream s   *)
(* will have been told b when it has handled them, and no XOFF comes to a   *)
(* stream that is stopped.                                                  *)
ToldAlong(q, s, t) ==
  /\ t \in [0 .. Len(q) -> {"XOFF", "XON"}]
  /\ \A j \in 1 .. Len(q) : /\ t[j] = Tells(q[j], s, t[j - 1])
                            /\ q[j] = Xoff(s) => t[j - 1] = "XON"

(* Of what is on its way to a sender that was told a for stream s, the     *)
(* last word for it is b.                                                  *)
Says(q, s, a, b) == \E t : ToldAlong(q, s, t) /\ t[0] = a /\ t[Len(q)] = b

(* A cell that is added to what travels to the sender says the last word.  *)
LEMMA SaysAppend ==
  ASSUME NEW q \in Seq(EdgeCells), NEW c \in EdgeCells, NEW s \in Streams, NEW a, NEW b,
         Says(q, s, a, b), c = Xoff(s) => b = "XON"
  PROVE  Says(Append(q, c), s, a, Tells(c, s, b))
<1>0. PICK t : ToldAlong(q, s, t) /\ t[0] = a /\ t[Len(q)] = b
  BY DEF Says
<1>1. /\ t \in [0 .. Len(q) -> {"XOFF", "XON"}]
      /\ t[0] = a /\ t[Len(q)] = b
  BY <1>0 DEF ToldAlong
<1>11. ASSUME NEW j \in 1 .. Len(q)
       PROVE  /\ t[j] = Tells(q[j], s, t[j - 1])
              /\ q[j] = Xoff(s) => t[j - 1] = "XON"
  <2>1. \A k \in 1 .. Len(q) : /\ t[k] = Tells(q[k], s, t[k - 1])
                               /\ q[k] = Xoff(s) => t[k - 1] = "XON"
    BY <1>0, Zenon DEF ToldAlong
  <2> QED BY ONLY <2>1, Zenon
<1>2. /\ Append(q, c) \in Seq(EdgeCells) /\ Len(Append(q, c)) = Len(q) + 1 /\ Len(q) \in Nat
      /\ \A j \in 1 .. Len(q) : Append(q, c)[j] = q[j]
      /\ Append(q, c)[Len(q) + 1] = c
  BY Appended
<1>3. PICK l \in Nat : l = Len(q)
  BY <1>2
<1>4. PICK d : d = Tells(c, s, b)
  OBVIOUS
<1>5. d \in {"XOFF", "XON"} /\ b \in {"XOFF", "XON"}
  BY <1>1, <1>3, <1>4 DEF Tells
<1> DEFINE u == [j \in 0 .. l + 1 |-> IF j <= l THEN t[j] ELSE d]
<1>6. u \in [0 .. l + 1 -> {"XOFF", "XON"}] /\ u[0] = a /\ u[l] = b /\ u[l + 1] = d
  BY <1>1, <1>3, <1>5
<1>7. ASSUME NEW j \in 1 .. l + 1
      PROVE  /\ u[j] = Tells(Append(q, c)[j], s, u[j - 1])
             /\ Append(q, c)[j] = Xoff(s) => u[j - 1] = "XON"
  <2>1. CASE j <= l
    <3>1. u[j] = t[j] /\ u[j - 1] = t[j - 1] /\ Append(q, c)[j] = q[j] /\ j \in 1 .. Len(q)
      BY <1>2, <1>3, <2>1
    <3> HIDE DEF u
    <3> QED BY <1>11, <3>1
  <2>2. CASE j = l + 1
    <3>1. u[j] = d /\ u[j - 1] = b /\ Append(q, c)[j] = c
      BY <1>1, <1>2, <1>3, <2>2
    <3> HIDE DEF u
    <3>2. c = Xoff(s) => b = "XON"
      OBVIOUS
    <3> QED BY <1>4, <3>1, <3>2
  <2> QED BY <1>3, <1>7, <2>1, <2>2
<1> HIDE DEF u
<1>8. PICK z, v : z = Append(q, c) /\ v = u
  OBVIOUS
<1>9. /\ Len(z) = l + 1 /\ v \in [0 .. Len(z) -> {"XOFF", "XON"}]
      /\ v[0] = a /\ v[Len(z)] = d
      /\ \A j \in 1 .. Len(z) : /\ v[j] = Tells(z[j], s, v[j - 1])
                                /\ z[j] = Xoff(s) => v[j - 1] = "XON"
  BY <1>2, <1>3, <1>6, <1>7, <1>8
<1>10. Says(z, s, a, d)
  <2>1. ToldAlong(z, s, v)
    BY <1>9 DEF ToldAlong
  <2> QED BY <1>9, <2>1 DEF Says
<1> QED BY <1>4, <1>8, <1>10

(* The cell that arrives is what the sender is told next.                  *)
LEMMA SaysTake ==
  ASSUME NEW q \in Seq(EdgeCells), q # <<>>, NEW s \in Streams, NEW a, NEW b, Says(q, s, a, b)
  PROVE  /\ Says(Tail(q), s, Tells(Head(q), s, a), b)
         /\ Head(q) = Xoff(s) => a = "XON"
<1>0. PICK t : ToldAlong(q, s, t) /\ t[0] = a /\ t[Len(q)] = b
  BY DEF Says
<1>1. /\ t \in [0 .. Len(q) -> {"XOFF", "XON"}]
      /\ t[0] = a /\ t[Len(q)] = b
  BY <1>0 DEF ToldAlong
<1>11. ASSUME NEW j \in 1 .. Len(q)
       PROVE  /\ t[j] = Tells(q[j], s, t[j - 1])
              /\ q[j] = Xoff(s) => t[j - 1] = "XON"
  <2>1. \A k \in 1 .. Len(q) : /\ t[k] = Tells(q[k], s, t[k - 1])
                               /\ q[k] = Xoff(s) => t[k - 1] = "XON"
    BY <1>0, Zenon DEF ToldAlong
  <2> QED BY ONLY <2>1, Zenon
<1>2. /\ Tail(q) \in Seq(EdgeCells) /\ Len(Tail(q)) = Len(q) - 1 /\ Len(q) \in Nat \ {0}
      /\ Len(q) - 1 \in Nat /\ \A j \in 1 .. Len(q) - 1 : Tail(q)[j] = q[j + 1]
      /\ Head(q) = q[1]
  BY Taken
<1>3. PICK l \in Nat : l = Len(q) - 1 /\ Len(q) = l + 1
  <2>1. Len(q) - 1 \in Nat /\ Len(q) = (Len(q) - 1) + 1
    BY <1>2
  <2> QED BY <2>1
<1> DEFINE u == [j \in 0 .. l |-> t[j + 1]]
<1>4. u \in [0 .. l -> {"XOFF", "XON"}] /\ u[0] = t[1] /\ u[l] = b
  BY <1>1, <1>3
<1>5. t[1] = Tells(Head(q), s, a) /\ (Head(q) = Xoff(s) => a = "XON")
  <2>1. 1 \in 1 .. Len(q) /\ 1 - 1 = 0
    BY <1>3
  <2> QED BY <1>1, <1>2, <1>11, <2>1
<1>6. ASSUME NEW j \in 1 .. l
      PROVE  /\ u[j] = Tells(Tail(q)[j], s, u[j - 1])
             /\ Tail(q)[j] = Xoff(s) => u[j - 1] = "XON"
  <2>1. /\ u[j] = t[j + 1] /\ u[j - 1] = t[(j + 1) - 1] /\ Tail(q)[j] = q[j + 1]
        /\ j + 1 \in 1 .. Len(q)
    BY <1>2, <1>3
  <2> HIDE DEF u
  <2> QED BY <1>11, <2>1
<1> HIDE DEF u
<1>8. PICK z, v : z = Tail(q) /\ v = u
  OBVIOUS
<1>9. /\ Len(z) = l /\ v \in [0 .. Len(z) -> {"XOFF", "XON"}]
      /\ v[0] = Tells(Head(q), s, a) /\ v[Len(z)] = b
      /\ \A j \in 1 .. Len(z) : /\ v[j] = Tells(z[j], s, v[j - 1])
                                /\ z[j] = Xoff(s) => v[j - 1] = "XON"
  BY <1>2, <1>3, <1>4, <1>5, <1>6, <1>8
<1>10. Says(z, s, Tells(Head(q), s, a), b)
  <2>1. PICK x : x = Tells(Head(q), s, a)
    OBVIOUS
  <2>2. Says(z, s, x, b)
    <3>1. v[0] = x
      BY <1>9, <2>1
    <3>2. ToldAlong(z, s, v)
      BY <1>9 DEF ToldAlong
    <3> QED BY <1>9, <3>1, <3>2 DEF Says
  <2> QED BY <2>1, <2>2
<1> QED BY <1>5, <1>8, <1>10

-----------------------------------------------------------------------------
(* Packaging and starting.                                                 *)

(* A cell of stream s counts one, any other nothing.                       *)
OneOf(s) == [t \in Streams |-> IF t = s THEN 1 ELSE 0]

(* What holds whatever else is packaged or started: the queue or the        *)
(* window stops every stream.                                               *)
Waits(e) == e.blocked \/ e.window = 0
(* A stream that is read has nothing in its input buffer.                  *)
Tidy(e) == \A s \in Streams : e.reading[s] => e.inbuf[s] = 0
(* The queue's mark is set when it is high and cleared when it is low.     *)
Marked(e) ==
  /\ Low < High /\ Len(e.queue) >= High => e.blocked
  /\ e.blocked => Len(e.queue) > Smaller(Low, High - 1)

(* Stream s is read, or waits for the queue or the window; so has nothing  *)
(* left in its input buffer, or waits.                                     *)
Awake(e, s) == e.reading[s] \/ Waits(e)
Clean(e, s) == e.inbuf[s] = 0 \/ Waits(e)

(* The parameters of EdgeReading are natural numbers.                      *)
LEMMA Constants ==
  /\ NumStreams \in Nat \ {0} /\ Cwnd \in Nat \ {0} /\ Inc \in Nat \ {0}
  /\ High \in Nat \ {0} /\ Low \in Nat \ {0} /\ Data \in Nat /\ XoffLimit \in Nat
  /\ Inc <= Cwnd
  BY FlowAssumption

(* The smaller of two numbers is one of them and at most the other.        *)
LEMMA Smallest ==
  ASSUME NEW a \in Nat, NEW b \in Nat
  PROVE  /\ Smaller(a, b) \in Nat /\ Smaller(a, b) <= a /\ Smaller(a, b) <= b
         /\ Smaller(a, b) = a \/ Smaller(a, b) = b
  BY DEF Smaller

(* The fields of the sending end.                                           *)
LEMMA EdgeFields ==
  ASSUME NEW e \in EdgeType
  PROVE  /\ e.queue \in Seq(Streams) /\ Len(e.queue) \in Nat
         /\ e.window \in Nat /\ e.window <= Cwnd
         /\ e.blocked \in BOOLEAN /\ e.reading \in [Streams -> BOOLEAN]
         /\ e.inbuf \in [Streams -> 0 .. Data]
         /\ \A s \in Streams : e.inbuf[s] \in Nat /\ e.inbuf[s] <= Data
<1>1. /\ e.queue \in Seq(Streams)
      /\ e.window \in 0 .. Cwnd
      /\ e.blocked \in BOOLEAN /\ e.reading \in [Streams -> BOOLEAN]
      /\ e.inbuf \in [Streams -> 0 .. Data]
  BY DEF EdgeType
<1>2. Len(e.queue) \in Nat
  BY <1>1
<1>3. e.window \in Nat /\ e.window <= Cwnd
  BY <1>1, Constants
<1>4. \A s \in Streams : e.inbuf[s] \in Nat /\ e.inbuf[s] <= Data
  BY <1>1, Constants
<1> QED BY <1>1, <1>2, <1>3, <1>4

(* Stream t was read and is not stopped by the packaging of stream s.      *)
StillRead(e, f, s, n, t, xoff) ==
  /\ e.reading[t] /\ f.window # 0
  /\ t \in xoff \/ ~f.blocked \/ (e.blocked /\ ~(n > 0 /\ t = s))

(* f is e after n cells' worth of stream s were packaged.                   *)
Packed(e, f, s, n, xoff) ==
  /\ n <= e.inbuf[s] /\ n <= e.window
  /\ f.queue = More(e.queue, s, n)
  /\ f.window = e.window - n
  /\ f.blocked = (e.blocked \/ Len(e.queue) + n >= High)
  /\ f.inbuf = [e.inbuf EXCEPT ![s] = @ - n]
  /\ \A t \in Streams : f.reading[t] <=> StillRead(e, f, s, n, t, xoff)

(* What packaging leaves.                                                   *)
LEMMA Packaged ==
  ASSUME NEW e \in EdgeType, NEW s \in Streams, NEW max \in Nat, NEW xoff
  PROVE  LET f == connection_edge_package_raw_inbuf(e, s, max, xoff)
         IN  /\ f \in EdgeType
             /\ \E n \in Nat : /\ n <= max /\ (n = max \/ n = e.inbuf[s] \/ n = e.window)
                               /\ Packed(e, f, s, n, xoff)
<1>0. PICK f, n : /\ f = connection_edge_package_raw_inbuf(e, s, max, xoff)
                  /\ n = Smaller(max, Smaller(e.inbuf[s], e.window))
  OBVIOUS
<1>1. /\ e.queue \in Seq(Streams) /\ Len(e.queue) \in Nat
      /\ e.window \in Nat /\ e.window <= Cwnd
      /\ e.blocked \in BOOLEAN /\ e.reading \in [Streams -> BOOLEAN]
      /\ e.inbuf \in [Streams -> 0 .. Data]
      /\ e.inbuf[s] \in Nat /\ e.inbuf[s] <= Data
  BY EdgeFields
<1>2. /\ n \in Nat /\ n <= max /\ n <= e.inbuf[s] /\ n <= e.window
      /\ n = max \/ n = e.inbuf[s] \/ n = e.window
  <2>1. PICK m : m = Smaller(e.inbuf[s], e.window)
    OBVIOUS
  <2>2. /\ m \in Nat /\ m <= e.inbuf[s] /\ m <= e.window
        /\ m = e.inbuf[s] \/ m = e.window
    BY <1>1, <2>1, Smallest
  <2>3. n \in Nat /\ n <= max /\ n <= m /\ (n = max \/ n = m)
    BY <1>0, <2>1, <2>2, Smallest
  <2> QED BY <1>1, <2>2, <2>3
<1>3. PICK q, w, b, ib : /\ q = e.queue \o [i \in 1 .. n |-> s] /\ w = e.window - n
                         /\ b = (e.blocked \/ (~e.blocked /\ Len(e.queue) + n >= High))
                         /\ ib = [e.inbuf EXCEPT ![s] = @ - n]
  OBVIOUS
<1>4. PICK stop : stop = {t \in Streams \ xoff : \/ ~e.blocked /\ Len(e.queue) + n >= High
                                                 \/ e.blocked /\ n > 0 /\ t = s}
  OBVIOUS
<1>5. PICK rd : rd = [t \in Streams |-> e.reading[t] /\ t \notin stop]
  OBVIOUS
<1>6. e = [queue |-> e.queue, window |-> e.window, blocked |-> e.blocked,
           reading |-> e.reading, inbuf |-> e.inbuf]
  BY DEF EdgeType
<1>7. PICK e1 : e1 = [queue |-> e.queue, window |-> w, blocked |-> e.blocked,
                      reading |-> e.reading, inbuf |-> ib]
  OBVIOUS
<1>8. [e EXCEPT !.inbuf[s] = @ - n, !.window = @ - n] = e1
  <2>1. PICK q0, w0, b0, r0, i0 :
          /\ e.queue = q0 /\ e.window = w0 /\ e.blocked = b0 /\ e.reading = r0 /\ e.inbuf = i0
          /\ e = [queue |-> q0, window |-> w0, blocked |-> b0, reading |-> r0, inbuf |-> i0]
    BY <1>6
  <2>2. [e EXCEPT !.inbuf[s] = @ - n]
          = [queue |-> q0, window |-> w0, blocked |-> b0, reading |-> r0, inbuf |-> ib]
    BY <1>3, <2>1
  <2>3. [e EXCEPT !.inbuf[s] = @ - n, !.window = @ - n]
          = [queue |-> q0, window |-> w0 - n, blocked |-> b0, reading |-> r0, inbuf |-> ib]
    <3>1. PICK x : x = [e EXCEPT !.inbuf[s] = @ - n]
      OBVIOUS
    <3>2. [e EXCEPT !.inbuf[s] = @ - n, !.window = @ - n] = [x EXCEPT !.window = @ - n]
      BY <3>1
    <3>3. PICK d : d = w0 - n
      OBVIOUS
    <3>4. x.window = w0
      BY <2>2, <3>1
    <3>5. [x EXCEPT !.window = @ - n] = [x EXCEPT !.window = d]
      BY <3>3, <3>4
    <3>6. [x EXCEPT !.window = d]
            = [queue |-> q0, window |-> d, blocked |-> b0, reading |-> r0, inbuf |-> ib]
      <4>1. x = [queue |-> q0, window |-> w0, blocked |-> b0, reading |-> r0, inbuf |-> ib]
        BY <2>2, <3>1
      <4> QED BY ONLY <4>1
    <3> QED BY <3>2, <3>3, <3>5, <3>6
  <2> QED BY <1>3, <1>7, <2>1, <2>3
<1>9. PICK e2 : e2 = [queue |-> q, window |-> w, blocked |-> b, reading |-> rd, inbuf |-> ib]
  OBVIOUS
<1>10. append_cell_to_circuit_queue(e1, s, n, xoff) = e2
  <2>1. e1.queue = e.queue /\ e1.blocked = e.blocked /\ e1.reading = e.reading
    BY <1>7
  <2>2. [e1 EXCEPT !.queue = q, !.blocked = b, !.reading = rd] = e2
    <3>1. PICK q0, b0, r0 : q0 = e.queue /\ b0 = e.blocked /\ r0 = e.reading
      OBVIOUS
    <3>2. e1 = [queue |-> q0, window |-> w, blocked |-> b0, reading |-> r0, inbuf |-> ib]
      BY <1>7, <3>1
    <3>3. PICK x : x = [e1 EXCEPT !.queue = q]
      OBVIOUS
    <3>4. x = [queue |-> q, window |-> w, blocked |-> b0, reading |-> r0, inbuf |-> ib]
      BY <3>2, <3>3
    <3>5. PICK y : y = [x EXCEPT !.blocked = b]
      OBVIOUS
    <3>6. y = [queue |-> q, window |-> w, blocked |-> b, reading |-> r0, inbuf |-> ib]
      BY <3>4, <3>5
    <3>7. [y EXCEPT !.reading = rd] = e2
      BY <1>9, <3>6
    <3>8. [e1 EXCEPT !.queue = q, !.blocked = b, !.reading = rd] = [y EXCEPT !.reading = rd]
      BY <3>3, <3>5
    <3> QED BY <3>7, <3>8
  <2>3. append_cell_to_circuit_queue(e1, s, n, xoff)
          = [e1 EXCEPT !.queue = e1.queue \o [i \in 1 .. n |-> s],
                       !.blocked = e1.blocked \/ (~e1.blocked /\ Len(e1.queue) + n >= High),
                       !.reading = [t \in Streams |-> e1.reading[t] /\ t \notin
                          {u \in Streams \ xoff :
                             (~e1.blocked /\ Len(e1.queue) + n >= High)
                               \/ (e1.blocked /\ n > 0 /\ u = s)}]]
    BY DEF append_cell_to_circuit_queue
  <2> QED BY <1>3, <1>4, <1>5, <2>1, <2>2, <2>3
<1>11. f = circuit_consider_stop_edge_reading(e2)
  BY <1>0, <1>8, <1>10 DEF connection_edge_package_raw_inbuf
<1>12. f = [queue |-> q, window |-> w, blocked |-> b, inbuf |-> ib,
            reading |-> IF w = 0 THEN [t \in Streams |-> FALSE] ELSE rd]
  BY <1>9, <1>11 DEF circuit_consider_stop_edge_reading
<1>13. f.queue = q /\ f.window = w /\ f.blocked = b /\ f.inbuf = ib
       /\ f.reading = IF w = 0 THEN [t \in Streams |-> FALSE] ELSE rd
  BY <1>12
<1>14. b \in BOOLEAN /\ b = (e.blocked \/ Len(e.queue) + n >= High)
  BY <1>1, <1>3
<1>15. ASSUME NEW t \in Streams
       PROVE  f.reading[t] <=> /\ e.reading[t] /\ w # 0
                               /\ t \in xoff \/ ~b \/ (e.blocked /\ ~(n > 0 /\ t = s))
  <2>1. rd[t] <=> e.reading[t] /\ t \notin stop
    BY <1>5
  <2> DEFINE P(u) == \/ ~e.blocked /\ Len(e.queue) + n >= High
                     \/ e.blocked /\ n > 0 /\ u = s
  <2>2. t \in stop <=> t \notin xoff /\ P(t)
    <3>1. stop = {u \in Streams \ xoff : P(u)}
      BY <1>4
    <3> HIDE DEF P
    <3> QED BY <3>1
  <2>3. CASE w = 0
    BY <1>13, <2>3
  <2>4. CASE w # 0
    <3>1. f.reading[t] <=> rd[t]
      BY <1>13, <2>4
    <3>2. P(t) <=> b /\ (e.blocked => n > 0 /\ t = s)
      BY <1>1, <1>14
    <3> HIDE DEF P
    <3> QED BY <1>14, <2>1, <2>2, <2>4, <3>1, <3>2
  <2> QED BY <2>3, <2>4
<1>16. q \in Seq(Streams)
  <2>1. [i \in 1 .. n |-> s] \in Seq(Streams)
    BY <1>2
  <2> QED BY <1>1, <1>3, <2>1
<1>17. w \in 0 .. Cwnd
  BY <1>1, <1>2, <1>3, Constants
<1>18. ib \in [Streams -> 0 .. Data]
  BY <1>1, <1>2, <1>3, Constants, SMTT(30)
<1>19. rd \in [Streams -> BOOLEAN]
  BY <1>1, <1>5
<1>20. f \in EdgeType
  BY <1>12, <1>14, <1>16, <1>17, <1>18, <1>19 DEF EdgeType
<1>21. ASSUME NEW t \in Streams PROVE f.reading[t] <=> StillRead(e, f, s, n, t, xoff)
  BY <1>13, <1>15 DEF StillRead
<1>22. f.queue = More(e.queue, s, n)
  BY <1>3, <1>13 DEF More
<1>23. Packed(e, f, s, n, xoff)
  BY <1>2, <1>3, <1>13, <1>14, <1>21, <1>22 DEF Packed
<1> QED BY <1>0, <1>2, <1>20, <1>23
(* f is e after some packaging and starting, with the streams in xoff told  *)
(* to stop.                                                                 *)
Packs(e, f, xoff) ==
  /\ f \in EdgeType
  /\ f.window <= e.window /\ Len(f.queue) + f.window = Len(e.queue) + e.window
  /\ e.blocked => f.blocked
  /\ Marked(e) => Marked(f)
  /\ Tidy(e) => Tidy(f)
  /\ \A s \in Streams : f.inbuf[s] <= e.inbuf[s]
  /\ \A s \in Streams : \A m :
       Tally(e.queue, OneOf(s), m) => Tally(f.queue, OneOf(s), m + (e.inbuf[s] - f.inbuf[s]))
  /\ \A s \in Streams \cap xoff : f.reading[s] => e.reading[s]
  /\ \A s \in Streams : e.reading[s] => Awake(f, s)

(* Nothing packaged and nothing started is a case of it.                   *)
LEMMA PacksSelf ==
  ASSUME NEW e \in EdgeType, NEW xoff
  PROVE  Packs(e, e, xoff)
<1>1. ASSUME NEW s \in Streams, NEW m, Tally(e.queue, OneOf(s), m)
      PROVE  Tally(e.queue, OneOf(s), m + (e.inbuf[s] - e.inbuf[s]))
  <2>1. m \in Nat /\ e.inbuf[s] \in Nat
    BY <1>1, EdgeFields, TallyNat
  <2>2. m + (e.inbuf[s] - e.inbuf[s]) = m
    BY <2>1
  <2> QED BY <1>1, <2>2
<1>2. e.window \in Nat /\ \A s \in Streams : e.inbuf[s] \in Nat
  BY EdgeFields
<1>3. e.window <= e.window /\ \A s \in Streams : e.inbuf[s] <= e.inbuf[s]
  BY <1>2
<1> QED BY <1>1, <1>3 DEF Packs, Awake

(* Packaging and starting after packaging and starting is again that.      *)
LEMMA PacksThen ==
  ASSUME NEW xoff, NEW e \in EdgeType, NEW f, NEW g, Packs(e, f, xoff), Packs(f, g, xoff)
  PROVE  Packs(e, g, xoff)
<1>1. f \in EdgeType /\ g \in EdgeType
  BY DEF Packs
<1>2. ASSUME NEW s \in Streams PROVE g.inbuf[s] <= e.inbuf[s]
  <2>1. e.inbuf[s] \in Nat /\ f.inbuf[s] \in Nat /\ g.inbuf[s] \in Nat
    BY <1>1, EdgeFields
  <2>2. g.inbuf[s] <= f.inbuf[s] /\ f.inbuf[s] <= e.inbuf[s]
    BY DEF Packs
  <2> QED BY <2>1, <2>2
<1>3. g.window <= e.window /\ Len(g.queue) + g.window = Len(e.queue) + e.window
  <2>1. e.window \in Nat /\ f.window \in Nat /\ g.window \in Nat
    BY <1>1, EdgeFields
  <2>2. /\ g.window <= f.window /\ f.window <= e.window
        /\ Len(f.queue) + f.window = Len(e.queue) + e.window
        /\ Len(g.queue) + g.window = Len(f.queue) + f.window
    BY DEF Packs
  <2>3. g.window <= e.window
    BY <2>1, <2>2
  <2> QED BY <2>2, <2>3
<1>4. ASSUME NEW s \in Streams, NEW m, Tally(e.queue, OneOf(s), m)
      PROVE  Tally(g.queue, OneOf(s), m + (e.inbuf[s] - g.inbuf[s]))
  <2>1. /\ m \in Nat /\ e.inbuf[s] \in Nat /\ f.inbuf[s] \in Nat /\ g.inbuf[s] \in Nat
    BY <1>1, <1>4, EdgeFields, TallyNat
  <2>2. Tally(f.queue, OneOf(s), m + (e.inbuf[s] - f.inbuf[s]))
    BY <1>4 DEF Packs
  <2>3. Tally(g.queue, OneOf(s), (m + (e.inbuf[s] - f.inbuf[s])) + (f.inbuf[s] - g.inbuf[s]))
    BY <2>2 DEF Packs
  <2>4. (m + (e.inbuf[s] - f.inbuf[s])) + (f.inbuf[s] - g.inbuf[s]) = m + (e.inbuf[s] - g.inbuf[s])
    BY <2>1
  <2> QED BY <2>3, <2>4
<1>5. ASSUME NEW s \in Streams, e.reading[s] PROVE Awake(g, s)
  <2>1. Awake(f, s)
    BY <1>5 DEF Packs
  <2>2. f.window \in Nat /\ g.window \in Nat /\ g.window <= f.window
    BY <1>1, EdgeFields DEF Packs
  <2>3. Waits(f) => Waits(g)
    BY <2>2 DEF Packs, Waits
  <2> QED BY <2>1, <2>3 DEF Packs, Awake
<1>6. /\ e.blocked => g.blocked
      /\ Marked(e) => Marked(g)
      /\ Tidy(e) => Tidy(g)
      /\ \A s \in Streams \cap xoff : g.reading[s] => e.reading[s]
  BY DEF Packs
<1> QED BY <1>1, <1>2, <1>3, <1>4, <1>5, <1>6 DEF Packs

(* A stream that is read or stopped for a reason stays so, and so does one  *)
(* with nothing left in its input buffer.                                   *)
LEMMA PacksSettled ==
  ASSUME NEW xoff, NEW e \in EdgeType, NEW f, Packs(e, f, xoff), NEW s \in Streams
  PROVE  /\ Waits(e) => Waits(f)
         /\ Awake(e, s) => Awake(f, s)
         /\ Clean(e, s) => Clean(f, s)
<1>1. f \in EdgeType
  BY DEF Packs
<1>2. e.window \in Nat /\ f.window \in Nat /\ f.window <= e.window
  BY <1>1, EdgeFields DEF Packs
<1>3. Waits(e) => Waits(f)
  BY <1>2 DEF Packs, Waits
<1>4. Awake(e, s) => Awake(f, s)
  BY <1>3 DEF Packs, Awake
<1>5. e.inbuf[s] \in Nat /\ f.inbuf[s] \in Nat /\ f.inbuf[s] <= e.inbuf[s]
  BY <1>1, EdgeFields DEF Packs
<1>6. Clean(e, s) => Clean(f, s)
  BY <1>3, <1>5 DEF Clean
<1> QED BY <1>3, <1>4, <1>6

(* Cells packaged from one stream keep the marks of the queue and stop     *)
(* the reading of every stream that has to wait for it                     *)
(* (connection_edge_package_raw_inbuf).                                    *)
LEMMA PackedKeeps ==
  ASSUME NEW e \in EdgeType, NEW f \in EdgeType, NEW s \in Streams, NEW n \in Nat, NEW xoff,
         Packed(e, f, s, n, xoff)
  PROVE  /\ Packs(e, f, xoff)
         /\ n = e.inbuf[s] \/ n = e.window => f.inbuf[s] = 0 \/ f.window = 0
         /\ f.window = 0 => \A t \in Streams : ~f.reading[t]
         /\ \A t \in Streams : f.reading[t] => e.reading[t]
         /\ \A t \in Streams \ {s} : f.inbuf[t] = e.inbuf[t]
<1>2. /\ n <= e.inbuf[s] /\ n <= e.window
      /\ f.queue = More(e.queue, s, n)
      /\ f.window = e.window - n
      /\ f.blocked = (e.blocked \/ Len(e.queue) + n >= High)
      /\ f.inbuf = [e.inbuf EXCEPT ![s] = @ - n]
  BY DEF Packed
<1>3. ASSUME NEW t \in Streams
      PROVE  f.reading[t] <=>
               /\ e.reading[t] /\ f.window # 0
               /\ t \in xoff \/ ~f.blocked \/ (e.blocked /\ ~(n > 0 /\ t = s))
  BY DEF Packed, StillRead
<1>4. /\ e.queue \in Seq(Streams) /\ Len(e.queue) \in Nat
      /\ e.window \in Nat /\ e.blocked \in BOOLEAN /\ e.inbuf \in [Streams -> 0 .. Data]
      /\ \A t \in Streams : e.inbuf[t] \in Nat
      /\ f.window \in Nat /\ f.blocked \in BOOLEAN
      /\ \A t \in Streams : f.inbuf[t] \in Nat
  BY <1>2, EdgeFields
<1>5. Len(f.queue) = Len(e.queue) + n
  <2>1. n \in Nat /\ e.queue \in Seq(Streams)
    BY <1>2, <1>4
  <2>2. Len(More(e.queue, s, n)) = Len(e.queue) + n
    BY <2>1, AppendMany
  <2> QED BY <1>2, <2>2
<1>6. f.window <= e.window /\ Len(f.queue) + f.window = Len(e.queue) + e.window
  <2>1. PICK a \in Nat, b \in Nat : a = Len(e.queue) /\ b = e.window
    BY <1>4
  <2>2. n \in Nat /\ f.window = b - n /\ Len(f.queue) = a + n
    BY <1>2, <1>5, <2>1
  <2>3. b - n <= b /\ (a + n) + (b - n) = a + b
    BY <2>1, <2>2, SMTT(30)
  <2> QED BY <2>1, <2>2, <2>3
<1>7. f.inbuf[s] = e.inbuf[s] - n /\ \A t \in Streams \ {s} : f.inbuf[t] = e.inbuf[t]
  BY <1>2, <1>4
<1>8. \A t \in Streams : f.inbuf[t] <= e.inbuf[t]
  BY <1>2, <1>4, <1>7
<1>9. Marked(e) => Marked(f)
  <2>1. PICK a \in Nat : a = Len(e.queue)
    BY <1>4
  <2>2. High - 1 \in Nat /\ High \in Nat /\ Low \in Nat
    BY Constants
  <2>3. Smaller(Low, High - 1) \in Nat /\ Smaller(Low, High - 1) <= High - 1
    BY <2>2, Smallest
  <2>4. f.blocked <=> e.blocked \/ a + n >= High
    BY <1>2, <2>1
  <2>5. Len(f.queue) = a + n
    BY <1>5, <2>1
  <2>6. ASSUME Marked(e), f.blocked PROVE a + n > Smaller(Low, High - 1)
    <3>1. CASE e.blocked
      <4>1. a > Smaller(Low, High - 1)
        BY <2>1, <2>6, <3>1 DEF Marked
      <4> QED BY <1>2, <2>3, <4>1
    <3>2. CASE ~e.blocked
      BY <1>2, <2>2, <2>3, <2>4, <2>6, <3>2
    <3> QED BY <3>1, <3>2
  <2>7. a + n >= High => f.blocked
    BY <2>4
  <2> QED BY <2>5, <2>6, <2>7 DEF Marked
<1>10. \A t \in Streams : f.reading[t] => e.reading[t]
  BY <1>3
<1>11. Tidy(e) => Tidy(f)
  BY <1>4, <1>8, <1>10 DEF Tidy
<1>12. ASSUME NEW t \in Streams, NEW m, Tally(e.queue, OneOf(t), m)
       PROVE  Tally(f.queue, OneOf(t), m + (e.inbuf[t] - f.inbuf[t]))
  <2>1. PICK w : w = OneOf(t)
    OBVIOUS
  <2>2. w[s] = (IF s = t THEN 1 ELSE 0)
    BY <2>1 DEF OneOf
  <2>3. m \in Nat
    BY <1>4, <1>12, TallyNat
  <2>4. Tally(f.queue, w, IF w[s] = 1 THEN m + n ELSE m)
    <3>1. Tally(e.queue, w, m) /\ w[s] \in {0, 1}
      BY <1>12, <2>1, <2>2
    <3>2. Tally(More(e.queue, s, n), w, IF w[s] = 1 THEN m + n ELSE m)
      BY <1>2, <1>4, <3>1, TallyMany
    <3> QED BY <1>2, <3>2
  <2>5. CASE s = t
    <3>1. m + (e.inbuf[t] - f.inbuf[t]) = m + n
      BY <1>2, <1>4, <1>7, <2>3, <2>5
    <3> QED BY <2>1, <2>2, <2>4, <2>5, <3>1
  <2>6. CASE s # t
    <3>1. m + (e.inbuf[t] - f.inbuf[t]) = m
      BY <1>4, <1>7, <2>3, <2>6
    <3> QED BY <2>1, <2>2, <2>4, <2>6, <3>1
  <2> QED BY <2>5, <2>6
<1>13. \A t \in Streams : e.reading[t] => Awake(f, t)
  BY <1>3, <1>2 DEF Awake, Waits
<1>14. e.blocked => f.blocked
  BY <1>2
<1>15. Packs(e, f, xoff)
  BY <1>2, <1>6, <1>8, <1>9, <1>10, <1>11, <1>12, <1>13, <1>14 DEF Packs
<1>16. n = e.inbuf[s] \/ n = e.window => f.inbuf[s] = 0 \/ f.window = 0
  BY <1>2, <1>4, <1>7
<1>17. f.window = 0 => \A t \in Streams : ~f.reading[t]
  BY <1>3
<1> QED BY <1>7, <1>10, <1>15, <1>16, <1>17

(* connection_edge_package_raw_inbuf, whatever the most it may package.    *)
LEMMA PackageKeeps ==
  ASSUME NEW e \in EdgeType, NEW s \in Streams, NEW max \in Nat, NEW xoff, NEW f,
         f = connection_edge_package_raw_inbuf(e, s, max, xoff)
  PROVE  /\ Packs(e, f, xoff)
         /\ max >= e.inbuf[s] => f.inbuf[s] = 0 \/ f.window = 0
         /\ f.window = 0 => \A t \in Streams : ~f.reading[t]
         /\ \A t \in Streams : f.reading[t] => e.reading[t]
         /\ \A t \in Streams \ {s} : f.inbuf[t] = e.inbuf[t]
<1>1. f \in EdgeType
  BY Packaged
<1>2. PICK n \in Nat : /\ n <= max /\ (n = max \/ n = e.inbuf[s] \/ n = e.window)
                       /\ Packed(e, f, s, n, xoff)
  BY Packaged
<1>3. /\ Packs(e, f, xoff)
      /\ n = e.inbuf[s] \/ n = e.window => f.inbuf[s] = 0 \/ f.window = 0
      /\ f.window = 0 => \A t \in Streams : ~f.reading[t]
      /\ \A t \in Streams : f.reading[t] => e.reading[t]
      /\ \A t \in Streams \ {s} : f.inbuf[t] = e.inbuf[t]
  BY <1>1, <1>2, PackedKeeps
<1>4. n <= e.inbuf[s] /\ e.inbuf[s] \in Nat
  BY <1>2, EdgeFields DEF Packed
<1>5. max >= e.inbuf[s] => n = e.inbuf[s] \/ n = e.window
  BY <1>2, <1>4
<1> QED BY <1>3, <1>5
(* r is e with stream s read.                                               *)
Started(e, r, s) ==
  /\ r.queue = e.queue /\ r.window = e.window /\ r.blocked = e.blocked /\ r.inbuf = e.inbuf
  /\ \A t \in Streams : r.reading[t] <=> e.reading[t] \/ t = s

(* The sending end with a stream read.                                     *)
LEMMA SetReading ==
  ASSUME NEW e \in EdgeType, NEW s \in Streams
  PROVE  LET r == [e EXCEPT !.reading[s] = TRUE]
         IN  r \in EdgeType /\ Started(e, r, s)
<1>1. PICK q, w, b, rd, ib :
        /\ e.queue = q /\ e.window = w /\ e.blocked = b /\ e.reading = rd /\ e.inbuf = ib
        /\ e = [queue |-> q, window |-> w, blocked |-> b, reading |-> rd, inbuf |-> ib]
  BY DEF EdgeType
<1>2. /\ q \in Seq(Streams) /\ w \in 0 .. Cwnd /\ b \in BOOLEAN
      /\ rd \in [Streams -> BOOLEAN] /\ ib \in [Streams -> 0 .. Data]
  BY <1>1 DEF EdgeType
<1>3. PICK r2 : r2 = [rd EXCEPT ![s] = TRUE]
  OBVIOUS
<1>4. r2 \in [Streams -> BOOLEAN] /\ \A t \in Streams : r2[t] <=> rd[t] \/ t = s
  BY <1>2, <1>3
<1>5. PICK r : r = [e EXCEPT !.reading[s] = TRUE]
  OBVIOUS
<1>6. r = [queue |-> q, window |-> w, blocked |-> b, reading |-> r2, inbuf |-> ib]
  BY <1>1, <1>3, <1>5
<1>7. r \in EdgeType
  BY <1>2, <1>4, <1>6 DEF EdgeType
<1>8. r.queue = q /\ r.window = w /\ r.blocked = b /\ r.reading = r2 /\ r.inbuf = ib
  BY <1>6
<1>9. Started(e, r, s)
  BY <1>1, <1>4, <1>8 DEF Started
<1> QED BY <1>5, <1>7, <1>9

(* A stream that is started, and was not told to stop, packages what it    *)
(* has; then it is read with nothing left, or stopped by the queue or the  *)
(* window (connection_start_reading).                                      *)
LEMMA StartKeeps ==
  ASSUME NEW e \in EdgeType, NEW s \in Streams, NEW xoff, NEW f,
         f = connection_start_reading(e, s, xoff)
  PROVE  /\ Packs(e, f, xoff)
         /\ s \notin xoff => Awake(f, s) /\ Clean(f, s)
<1>1. CASE s \in xoff
  <2>1. f = e
    BY <1>1 DEF connection_start_reading
  <2> QED BY <1>1, <2>1, PacksSelf
<1>2. CASE s \notin xoff
  <2>1. PICK r : r = [e EXCEPT !.reading[s] = TRUE]
    OBVIOUS
  <2>2. r \in EdgeType /\ Started(e, r, s)
    BY <2>1, SetReading
  <2>3. /\ r.queue = e.queue /\ r.window = e.window /\ r.blocked = e.blocked
        /\ r.inbuf = e.inbuf
        /\ \A t \in Streams : r.reading[t] <=> e.reading[t] \/ t = s
    BY <2>2 DEF Started
  <2>4. f = IF e.inbuf[s] > 0
            THEN connection_edge_package_raw_inbuf(r, s, e.inbuf[s], xoff) ELSE r
    BY <1>2, <2>1 DEF connection_start_reading
  <2>5. e.inbuf[s] \in Nat
    BY EdgeFields
  <2>6. /\ Packs(r, f, xoff)
        /\ f.inbuf[s] = 0 \/ f.window = 0
        /\ f.window = 0 => f = r \/ \A t \in Streams : ~f.reading[t]
        /\ f # r => f.inbuf[s] = 0 \/ \A t \in Streams : ~f.reading[t]
        /\ f = r => r.inbuf[s] = 0
        /\ \A t \in Streams : f.reading[t] => r.reading[t]
        /\ \A t \in Streams \ {s} : f.inbuf[t] = r.inbuf[t]
    <3>1. CASE e.inbuf[s] > 0
      <4>1. f = connection_edge_package_raw_inbuf(r, s, e.inbuf[s], xoff)
        BY <2>4, <3>1
      <4>2. e.inbuf[s] >= r.inbuf[s]
        BY <2>3, <2>5
      <4>3. /\ Packs(r, f, xoff)
            /\ f.inbuf[s] = 0 \/ f.window = 0
            /\ f.window = 0 => \A t \in Streams : ~f.reading[t]
            /\ \A t \in Streams : f.reading[t] => r.reading[t]
            /\ \A t \in Streams \ {s} : f.inbuf[t] = r.inbuf[t]
        BY <2>2, <2>5, <4>1, <4>2, PackageKeeps
      <4>4. f = r => r.inbuf[s] = 0
        <5>1. r.reading[s]
          BY <2>3
        <5> QED BY <4>3, <5>1
      <4> QED BY <4>3, <4>4
    <3>2. CASE ~(e.inbuf[s] > 0)
      <4>1. f = r /\ r.inbuf[s] = 0
        BY <2>3, <2>4, <2>5, <3>2
      <4> QED BY <2>2, <4>1, PacksSelf
    <3> QED BY <3>1, <3>2
  <2>7. Awake(f, s)
    BY <2>3, <2>6 DEF Packs
  <2>8. Clean(f, s)
    BY <2>6 DEF Clean, Waits
  <2>9. ASSUME NEW t \in Streams, e.reading[t] PROVE Awake(f, t)
    BY <2>3, <2>6, <2>9 DEF Packs
  <2>10. ASSUME NEW t \in Streams \cap xoff, f.reading[t] PROVE e.reading[t]
    BY <1>2, <2>3, <2>6, <2>10
  <2>11. ASSUME Tidy(e), NEW t \in Streams, f.reading[t] PROVE f.inbuf[t] = 0
    <3>1. CASE t = s
      BY <2>6, <2>11, <3>1
    <3>2. CASE t # s
      BY <2>3, <2>6, <2>11, <3>2 DEF Tidy
    <3> QED BY <3>1, <3>2
  <2>12. Marked(e) => Marked(f)
    BY <2>3, <2>6 DEF Packs, Marked
  <2>13. ASSUME NEW t \in Streams, NEW m, Tally(e.queue, OneOf(t), m)
         PROVE  Tally(f.queue, OneOf(t), m + (e.inbuf[t] - f.inbuf[t]))
    <3>1. Tally(r.queue, OneOf(t), m)
      BY <2>3, <2>13
    <3>2. Tally(f.queue, OneOf(t), m + (r.inbuf[t] - f.inbuf[t]))
      BY <2>6, <3>1 DEF Packs
    <3> QED BY <2>3, <3>2
  <2>14. /\ f \in EdgeType
         /\ f.window <= e.window /\ Len(f.queue) + f.window = Len(e.queue) + e.window
         /\ e.blocked => f.blocked
         /\ \A t \in Streams : f.inbuf[t] <= e.inbuf[t]
    BY <2>3, <2>6 DEF Packs
  <2>15. Packs(e, f, xoff)
    BY <2>9, <2>10, <2>11, <2>12, <2>13, <2>14 DEF Packs, Tidy
  <2> QED BY <2>7, <2>8, <2>15
<1> QED BY <1>1, <1>2
(* The equation that defines the loop of StartAll.                          *)
IsStartRun(r, e, order, streams, even, xoff, m) ==
  r = [i \in 0 .. m |-> IF i = 0 THEN {e} ELSE {IF order[i] \in streams /\ (even \/ ~f.reading[order[i]])
              THEN connection_start_reading(f, order[i], xoff)
              ELSE f : f \in r[i - 1]}]

(* The equation has a solution.                                             *)
LEMMA StartRunExists ==
  ASSUME NEW e, NEW order, NEW streams, NEW even, NEW xoff, NEW l \in Nat
  PROVE  \E r : IsStartRun(r, e, order, streams, even, xoff, l)
<1> DEFINE Step(r, i) == {IF order[i] \in streams /\ (even \/ ~f.reading[order[i]])
              THEN connection_start_reading(f, order[i], xoff)
              ELSE f : f \in r[i - 1]}
           Bad == {m \in Nat : ~ \E r : IsStartRun(r, e, order, streams, even, xoff, m)}
<1>1. ASSUME Bad # {} PROVE FALSE
  <2>0. Bad \subseteq Nat
    OBVIOUS
  <2>1. PICK m \in Nat : m \in Bad /\ \A n \in Bad : m <= n
    <3> HIDE DEF Bad
    <3> QED BY <1>1, <2>0, NatLeast
  <2>3. CASE m = 0
    <3>1. IsStartRun([n \in 0 .. 0 |-> {e}], e, order, streams, even, xoff, 0)
      BY DEF IsStartRun
    <3> QED BY <2>1, <2>3, <3>1
  <2>4. CASE m # 0
    <3>1. m - 1 \in Nat /\ ~(m <= m - 1)
      BY <2>1, <2>4
    <3>2. m - 1 \notin Bad
      <4> HIDE DEF Bad
      <4> QED BY <2>1, <3>1
    <3>3. PICK r : IsStartRun(r, e, order, streams, even, xoff, m - 1)
      BY <3>1, <3>2
    <3> DEFINE g == [n \in 0 .. m |-> IF n = m THEN Step(r, m) ELSE r[n]]
    <3>4. ASSUME NEW n \in 0 .. m
          PROVE  g[n] = IF n = 0 THEN {e} ELSE Step(g, n)
      <4>1. CASE n = 0
        <5>1. n \in 0 .. m - 1 /\ n # m
          BY <2>1, <2>4, <3>1, <4>1
        <5>2. g[n] = r[n]
          <6> HIDE DEF Step
          <6> QED BY <5>1
        <5>3. r[n] = {e}
          <6> DEFINE V(k) == IF k = 0 THEN {e} ELSE Step(r, k)
          <6>1. r = [k \in 0 .. m - 1 |-> V(k)]
            BY <3>3 DEF IsStartRun
          <6>2. r[n] = V(n)
            <7> HIDE DEF V
            <7> QED BY <5>1, <6>1
          <6> HIDE DEF Step
          <6> QED BY <4>1, <6>2
        <5> HIDE DEF g, Step
        <5> QED BY <4>1, <5>2, <5>3
      <4>2. CASE n # 0 /\ n # m
        <5>1. n \in 0 .. m - 1 /\ n - 1 \in 0 .. m /\ n - 1 # m
          BY <2>1, <4>2
        <5>2. g[n] = r[n] /\ g[n - 1] = r[n - 1]
          <6> HIDE DEF Step
          <6> QED BY <4>2, <5>1
        <5>3. r[n] = Step(r, n)
          <6> DEFINE V(k) == IF k = 0 THEN {e} ELSE Step(r, k)
          <6>1. r = [k \in 0 .. m - 1 |-> V(k)]
            BY <3>3 DEF IsStartRun
          <6>2. r[n] = V(n)
            <7> HIDE DEF V
            <7> QED BY <5>1, <6>1
          <6> HIDE DEF Step
          <6> QED BY <4>2, <6>2
        <5>4. Step(g, n) = Step(r, n)
          <6> HIDE DEF g
          <6> QED BY <5>2
        <5> HIDE DEF g, Step
        <5> QED BY <4>2, <5>2, <5>3, <5>4
      <4>3. CASE n # 0 /\ n = m
        <5>1. m - 1 \in 0 .. m /\ m - 1 # m
          BY <2>1, <3>1
        <5>2. g[n] = Step(r, m) /\ g[m - 1] = r[m - 1]
          <6> HIDE DEF Step
          <6> QED BY <4>3, <5>1
        <5>3. Step(g, m) = Step(r, m)
          <6> HIDE DEF g
          <6> QED BY <5>2
        <5> HIDE DEF g, Step
        <5> QED BY <4>3, <5>2, <5>3
      <4> QED BY <4>1, <4>2, <4>3
    <3>5. IsStartRun(g, e, order, streams, even, xoff, m)
      <4>1. g = [n \in 0 .. m |-> g[n]]
        <5> HIDE DEF Step
        <5> QED OBVIOUS
      <4>2. [n \in 0 .. m |-> g[n]] = [n \in 0 .. m |-> IF n = 0 THEN {e} ELSE Step(g, n)]
        <5> HIDE DEF g, Step
        <5> QED BY <3>4
      <4> HIDE DEF g
      <4> QED BY <4>1, <4>2 DEF IsStartRun
    <3> HIDE DEF g
    <3> QED BY <2>1, <3>5
  <2> QED BY <2>3, <2>4
<1> QED BY <1>1

(* Stream s needs nobody to start it.                                      *)
Settled(f, s) == Awake(f, s) /\ Clean(f, s)

(* A place before the i-th.                                                *)
LEMMA Before ==
  ASSUME NEW n \in Nat, NEW i \in 1 .. n, NEW j \in 1 .. i, j # i
  PROVE  j \in 1 .. i - 1 /\ j \in 1 .. n
  OBVIOUS

(* One turn of the loop.                                                    *)
LEMMA StartTurn ==
  ASSUME NEW e \in EdgeType, NEW f, NEW xoff, Packs(e, f, xoff), NEW s \in Streams,
         NEW streams, NEW even \in BOOLEAN, even \/ Tidy(e), NEW g,
         g = IF s \in streams /\ (even \/ ~f.reading[s])
             THEN connection_start_reading(f, s, xoff) ELSE f
  PROVE  /\ Packs(e, g, xoff) /\ Packs(f, g, xoff)
         /\ s \in streams /\ s \notin xoff => Settled(g, s)
<1>1. f \in EdgeType /\ (Tidy(e) => Tidy(f))
  BY DEF Packs
<1>2. CASE s \in streams /\ (even \/ ~f.reading[s])
  <2>1. g = connection_start_reading(f, s, xoff)
    BY <1>2
  <2>2. /\ Packs(f, g, xoff)
        /\ s \notin xoff => Awake(g, s) /\ Clean(g, s)
    BY <1>1, <2>1, StartKeeps
  <2>3. Packs(e, g, xoff)
    BY <2>2, PacksThen
  <2> QED BY <2>2, <2>3 DEF Settled
<1>3. CASE ~(s \in streams /\ (even \/ ~f.reading[s]))
  <2>1. g = f
    BY <1>3
  <2>2. Packs(f, g, xoff) /\ Packs(e, g, xoff)
    BY <1>1, <2>1, PacksSelf
  <2>3. s \in streams => Settled(g, s)
    BY <1>1, <1>3, <2>1 DEF Settled, Awake, Clean, Tidy
  <2> QED BY <2>2, <2>3
<1> QED BY <1>2, <1>3

(* After the loop over a list every stream of it that was to be started,   *)
(* and was not told to stop, is settled: by least counterexample on the    *)
(* turns.                                                                  *)
LEMMA StartAllKeeps ==
  ASSUME NEW e \in EdgeType, NEW order \in [Streams -> Streams], Len(order) = NumStreams,
         NEW streams, NEW even \in BOOLEAN, even \/ Tidy(e),
         NEW h \in StartAll(e, order, streams, even)
  PROVE  /\ Packs(e, h, xoff_received)
         /\ \A j \in Streams : order[j] \in streams /\ order[j] \notin xoff_received
                                 => Settled(h, order[j])
<1> DEFINE run == CHOOSE r : IsStartRun(r, e, order, streams, even, xoff_received, NumStreams)
           Good(i) == \A f \in run[i] :
                        /\ Packs(e, f, xoff_received)
                        /\ \A j \in 1 .. i :
                             order[j] \in streams /\ order[j] \notin xoff_received
                               => Settled(f, order[j])
           Bad == {i \in 0 .. NumStreams : ~Good(i)}
           Turn(i, f) == IF order[i] \in streams /\ (even \/ ~f.reading[order[i]])
                         THEN connection_start_reading(f, order[i], xoff_received) ELSE f
<1>0. NumStreams \in Nat /\ Streams = 1 .. NumStreams
  BY Constants DEF Streams
<1>1. IsStartRun(run, e, order, streams, even, xoff_received, NumStreams)
  <2>1. \E r : IsStartRun(r, e, order, streams, even, xoff_received, NumStreams)
    BY <1>0, StartRunExists
  <2> QED BY <2>1
<1>2. StartAll(e, order, streams, even) = run[NumStreams]
  BY DEF StartAll, IsStartRun
<1> HIDE DEF run
<1> DEFINE V(i) == IF i = 0 THEN {e} ELSE {Turn(i, f) : f \in run[i - 1]}
<1>3. run = [i \in 0 .. NumStreams |-> V(i)]
  BY <1>1 DEF IsStartRun
<1>4. run[0] = {e}
  <2>1. 0 \in 0 .. NumStreams
    BY <1>0
  <2>2. run[0] = V(0)
    <3> HIDE DEF V
    <3> QED BY <1>3, <2>1
  <2> QED BY <2>2
<1>5. ASSUME NEW i \in 1 .. NumStreams PROVE run[i] = {Turn(i, f) : f \in run[i - 1]}
  <2>1. i \in 0 .. NumStreams /\ i # 0
    BY <1>0
  <2>2. run[i] = V(i)
    <3> HIDE DEF V
    <3> QED BY <1>3, <2>1
  <2> HIDE DEF Turn
  <2> QED BY <2>1, <2>2
<1> HIDE DEF V
<1>6. Good(0)
  <2>1. 1 .. 0 = {}
    OBVIOUS
  <2> QED BY <1>4, <2>1, PacksSelf
<1>7. ASSUME NEW i \in 1 .. NumStreams, Good(i - 1) PROVE Good(i)
  <2> SUFFICES ASSUME NEW g \in run[i]
               PROVE  /\ Packs(e, g, xoff_received)
                      /\ \A j \in 1 .. i :
                           order[j] \in streams /\ order[j] \notin xoff_received
                             => Settled(g, order[j])
    OBVIOUS
  <2>1. PICK f \in run[i - 1] : g = Turn(i, f)
    <3> HIDE DEF Turn
    <3> QED BY <1>5
  <2>2. /\ Packs(e, f, xoff_received)
        /\ \A j \in 1 .. i - 1 : order[j] \in streams /\ order[j] \notin xoff_received
                                   => Settled(f, order[j])
    BY <1>7
  <2>3. PICK s \in Streams : s = order[i]
    BY <1>0
  <2>4. g = IF s \in streams /\ (even \/ ~f.reading[s])
            THEN connection_start_reading(f, s, xoff_received) ELSE f
    BY <2>1, <2>3
  <2>5. /\ Packs(e, g, xoff_received) /\ Packs(f, g, xoff_received)
        /\ s \in streams /\ s \notin xoff_received => Settled(g, s)
    BY <2>2, <2>4, StartTurn
  <2>6. f \in EdgeType
    BY <2>2 DEF Packs
  <2>7. ASSUME NEW j \in 1 .. i, order[j] \in streams /\ order[j] \notin xoff_received
        PROVE  Settled(g, order[j])
    <3>1. CASE j = i
      BY <2>3, <2>5, <2>7, <3>1
    <3>2. CASE j # i
      <4>3. j \in 1 .. i - 1 /\ j \in 1 .. NumStreams
        BY ONLY <1>0, <3>2, i \in 1 .. NumStreams, j \in 1 .. i, Before
      <4>4. j \in Streams
        BY <1>0, <4>3, Zenon
      <4>1. j \in 1 .. i - 1 /\ order[j] \in Streams
        BY <4>3, <4>4, Zenon
      <4>2. Settled(f, order[j])
        BY <2>2, <2>7, <4>1
      <4> QED BY <2>5, <2>6, <4>1, <4>2, PacksSettled DEF Settled
    <3> QED BY <3>1, <3>2
  <2> QED BY <2>5, <2>7
<1>8. ASSUME Bad # {} PROVE FALSE
  <2> HIDE DEF Good
  <2>1. Bad \subseteq Nat /\ Bad \subseteq 0 .. NumStreams
    BY <1>0
  <2>2. PICK m \in 0 .. NumStreams : m \in Bad /\ \A n \in Bad : m <= n
    <3> HIDE DEF Bad
    <3> QED BY <1>8, <2>1, NatLeast
  <2>3. m # 0
    BY <1>6, <2>2
  <2>4. m \in 1 .. NumStreams /\ m - 1 \in 0 .. NumStreams /\ ~(m <= m - 1)
    BY <1>0, <2>2, <2>3
  <2>5. Good(m - 1)
    <3>1. m - 1 \notin Bad
      <4> HIDE DEF Bad
      <4> QED BY <2>2, <2>4
    <3> QED BY <2>4, <3>1
  <2> QED BY <1>7, <2>2, <2>4, <2>5
<1>9. Good(NumStreams)
  <2> HIDE DEF Good
  <2> QED BY <1>0, <1>8
<1> QED BY <1>0, <1>2, <1>9
(* The equation that defines the loop of PackageShares.                     *)
IsShareRun(r, e, p, xoff, m) ==
  r = [i \in 0 .. m |-> IF i = 0 THEN {e} ELSE {connection_edge_package_raw_inbuf(f, i, p[i], xoff) : f \in r[i - 1]}]

(* The equation has a solution.                                             *)
LEMMA ShareRunExists ==
  ASSUME NEW e, NEW p, NEW xoff, NEW l \in Nat
  PROVE  \E r : IsShareRun(r, e, p, xoff, l)
<1> DEFINE Step(r, i) == {connection_edge_package_raw_inbuf(f, i, p[i], xoff) : f \in r[i - 1]}
           Bad == {m \in Nat : ~ \E r : IsShareRun(r, e, p, xoff, m)}
<1>1. ASSUME Bad # {} PROVE FALSE
  <2>0. Bad \subseteq Nat
    OBVIOUS
  <2>1. PICK m \in Nat : m \in Bad /\ \A n \in Bad : m <= n
    <3> HIDE DEF Bad
    <3> QED BY <1>1, <2>0, NatLeast
  <2>3. CASE m = 0
    <3>1. IsShareRun([n \in 0 .. 0 |-> {e}], e, p, xoff, 0)
      BY DEF IsShareRun
    <3> QED BY <2>1, <2>3, <3>1
  <2>4. CASE m # 0
    <3>1. m - 1 \in Nat /\ ~(m <= m - 1)
      BY <2>1, <2>4
    <3>2. m - 1 \notin Bad
      <4> HIDE DEF Bad
      <4> QED BY <2>1, <3>1
    <3>3. PICK r : IsShareRun(r, e, p, xoff, m - 1)
      BY <3>1, <3>2
    <3> DEFINE g == [n \in 0 .. m |-> IF n = m THEN Step(r, m) ELSE r[n]]
    <3>4. ASSUME NEW n \in 0 .. m
          PROVE  g[n] = IF n = 0 THEN {e} ELSE Step(g, n)
      <4>1. CASE n = 0
        <5>1. n \in 0 .. m - 1 /\ n # m
          BY <2>1, <2>4, <3>1, <4>1
        <5>2. g[n] = r[n]
          <6> HIDE DEF Step
          <6> QED BY <5>1
        <5>3. r[n] = {e}
          <6> DEFINE V(k) == IF k = 0 THEN {e} ELSE Step(r, k)
          <6>1. r = [k \in 0 .. m - 1 |-> V(k)]
            BY <3>3 DEF IsShareRun
          <6>2. r[n] = V(n)
            <7> HIDE DEF V
            <7> QED BY <5>1, <6>1
          <6> HIDE DEF Step
          <6> QED BY <4>1, <6>2
        <5> HIDE DEF g, Step
        <5> QED BY <4>1, <5>2, <5>3
      <4>2. CASE n # 0 /\ n # m
        <5>1. n \in 0 .. m - 1 /\ n - 1 \in 0 .. m /\ n - 1 # m
          BY <2>1, <4>2
        <5>2. g[n] = r[n] /\ g[n - 1] = r[n - 1]
          <6> HIDE DEF Step
          <6> QED BY <4>2, <5>1
        <5>3. r[n] = Step(r, n)
          <6> DEFINE V(k) == IF k = 0 THEN {e} ELSE Step(r, k)
          <6>1. r = [k \in 0 .. m - 1 |-> V(k)]
            BY <3>3 DEF IsShareRun
          <6>2. r[n] = V(n)
            <7> HIDE DEF V
            <7> QED BY <5>1, <6>1
          <6> HIDE DEF Step
          <6> QED BY <4>2, <6>2
        <5>4. Step(g, n) = Step(r, n)
          <6> HIDE DEF g
          <6> QED BY <5>2
        <5> HIDE DEF g, Step
        <5> QED BY <4>2, <5>2, <5>3, <5>4
      <4>3. CASE n # 0 /\ n = m
        <5>1. m - 1 \in 0 .. m /\ m - 1 # m
          BY <2>1, <3>1
        <5>2. g[n] = Step(r, m) /\ g[m - 1] = r[m - 1]
          <6> HIDE DEF Step
          <6> QED BY <4>3, <5>1
        <5>3. Step(g, m) = Step(r, m)
          <6> HIDE DEF g
          <6> QED BY <5>2
        <5> HIDE DEF g, Step
        <5> QED BY <4>3, <5>2, <5>3
      <4> QED BY <4>1, <4>2, <4>3
    <3>5. IsShareRun(g, e, p, xoff, m)
      <4>1. g = [n \in 0 .. m |-> g[n]]
        <5> HIDE DEF Step
        <5> QED OBVIOUS
      <4>2. [n \in 0 .. m |-> g[n]] = [n \in 0 .. m |-> IF n = 0 THEN {e} ELSE Step(g, n)]
        <5> HIDE DEF g, Step
        <5> QED BY <3>4
      <4> HIDE DEF g
      <4> QED BY <4>1, <4>2 DEF IsShareRun
    <3> HIDE DEF g
    <3> QED BY <2>1, <3>5
  <2> QED BY <2>3, <2>4
<1> QED BY <1>1

(* The loop that packages every stream's share, however large the shares   *)
(* are: by least counterexample on the turns.                              *)
LEMMA PackageSharesKeeps ==
  ASSUME NEW e \in EdgeType, NEW p \in [Streams -> 0 .. Data], NEW h \in PackageShares(e, p)
  PROVE  Packs(e, h, xoff_received)
<1> DEFINE run == CHOOSE r : IsShareRun(r, e, p, xoff_received, NumStreams)
           Good(i) == \A f \in run[i] : Packs(e, f, xoff_received)
           Bad == {i \in 0 .. NumStreams : ~Good(i)}
           Turn(i, f) == connection_edge_package_raw_inbuf(f, i, p[i], xoff_received)
<1>0. NumStreams \in Nat /\ Streams = 1 .. NumStreams /\ Data \in Nat
  BY Constants DEF Streams
<1>1. IsShareRun(run, e, p, xoff_received, NumStreams)
  <2>1. \E r : IsShareRun(r, e, p, xoff_received, NumStreams)
    BY <1>0, ShareRunExists
  <2> QED BY <2>1
<1>2. PackageShares(e, p) = run[NumStreams]
  BY DEF PackageShares, IsShareRun
<1> HIDE DEF run
<1> DEFINE V(i) == IF i = 0 THEN {e} ELSE {Turn(i, f) : f \in run[i - 1]}
<1>3. run = [i \in 0 .. NumStreams |-> V(i)]
  BY <1>1 DEF IsShareRun
<1>4. run[0] = {e}
  <2>1. 0 \in 0 .. NumStreams
    BY <1>0
  <2>2. run[0] = V(0)
    <3> HIDE DEF V
    <3> QED BY <1>3, <2>1
  <2> QED BY <2>2
<1>5. ASSUME NEW i \in 1 .. NumStreams PROVE run[i] = {Turn(i, f) : f \in run[i - 1]}
  <2>1. i \in 0 .. NumStreams /\ i # 0
    BY <1>0
  <2>2. run[i] = V(i)
    <3> HIDE DEF V
    <3> QED BY <1>3, <2>1
  <2> HIDE DEF Turn
  <2> QED BY <2>1, <2>2
<1> HIDE DEF V
<1>6. Good(0)
  BY <1>4, PacksSelf
<1>7. ASSUME NEW i \in 1 .. NumStreams, Good(i - 1) PROVE Good(i)
  <2> SUFFICES ASSUME NEW g \in run[i] PROVE Packs(e, g, xoff_received)
    OBVIOUS
  <2>1. PICK f \in run[i - 1] : g = Turn(i, f)
    <3> HIDE DEF Turn
    <3> QED BY <1>5
  <2>2. Packs(e, f, xoff_received)
    BY <1>7
  <2>3. f \in EdgeType
    BY <2>2 DEF Packs
  <2>4. i \in Streams /\ p[i] \in Nat
    BY <1>0
  <2>5. Packs(f, g, xoff_received)
    BY <2>1, <2>3, <2>4, PackageKeeps
  <2> QED BY <2>2, <2>5, PacksThen
<1>8. ASSUME Bad # {} PROVE FALSE
  <2> HIDE DEF Good
  <2>1. Bad \subseteq Nat /\ Bad \subseteq 0 .. NumStreams
    BY <1>0
  <2>2. PICK m \in 0 .. NumStreams : m \in Bad /\ \A n \in Bad : m <= n
    <3> HIDE DEF Bad
    <3> QED BY <1>8, <2>1, NatLeast
  <2>3. m # 0
    BY <1>6, <2>2
  <2>4. m \in 1 .. NumStreams /\ m - 1 \in 0 .. NumStreams /\ ~(m <= m - 1)
    BY <1>0, <2>2, <2>3
  <2>5. Good(m - 1)
    <3>1. m - 1 \notin Bad
      <4> HIDE DEF Bad
      <4> QED BY <2>2, <2>4
    <3> QED BY <2>4, <3>1
  <2> QED BY <1>7, <2>2, <2>4, <2>5
<1>9. Good(NumStreams)
  <2> HIDE DEF Good
  <2> QED BY <1>0, <1>8
<1> QED BY <1>2, <1>9

(* The orders in which the loops start the streams name every stream.       *)
LEMMA Orders ==
  /\ ListOrder \in [Streams -> Streams] /\ Len(ListOrder) = NumStreams
  /\ \A s \in Streams : ListOrder[s] = s
  /\ \A c \in Streams : /\ From(c) \in [Streams -> Streams] /\ Len(From(c)) = NumStreams
                        /\ \A s \in Streams : \E j \in Streams : From(c)[j] = s
<1>0. NumStreams \in Nat /\ Streams = 1 .. NumStreams
  BY Constants DEF Streams
<1>1. /\ ListOrder \in [Streams -> Streams] /\ Len(ListOrder) = NumStreams
      /\ \A s \in Streams : ListOrder[s] = s
  BY <1>0 DEF ListOrder
<1>2. ASSUME NEW c \in Streams
      PROVE  /\ From(c) \in [Streams -> Streams] /\ Len(From(c)) = NumStreams
             /\ \A s \in Streams : \E j \in Streams : From(c)[j] = s
  <2> DEFINE F(i) == IF i <= NumStreams - c + 1 THEN c + i - 1 ELSE c + i - 1 - NumStreams
  <2>1. From(c) = [i \in Streams |-> F(i)]
    BY DEF From
  <2>2. \A i \in Streams : F(i) \in Streams
    BY <1>0
  <2>3. ASSUME NEW s \in Streams PROVE \E j \in Streams : F(j) = s
    <3>1. CASE s >= c
      <4>1. s - c + 1 \in Streams /\ F(s - c + 1) = s
        BY <1>0, <3>1
      <4> QED BY <4>1
    <3>2. CASE s < c
      <4>1. s - c + 1 + NumStreams \in Streams /\ F(s - c + 1 + NumStreams) = s
        BY <1>0, <3>2
      <4> QED BY <4>1
    <3> QED BY <1>0, <3>1, <3>2
  <2> HIDE DEF F
  <2>4. From(c) \in [Streams -> Streams] /\ \A j \in Streams : From(c)[j] = F(j)
    BY <2>1, <2>2
  <2>5. Len(From(c)) = NumStreams
    BY <1>0, <2>1
  <2> QED BY <2>3, <2>4, <2>5
<1> QED BY <1>1, <1>2

(* circuit_resume_edge_reading leaves every stream settled that was not    *)
(* told to stop, wherever in the list it begins.                           *)
LEMMA ResumeKeeps ==
  ASSUME NEW e \in EdgeType, NEW f \in circuit_resume_edge_reading(e)
  PROVE  /\ Packs(e, f, xoff_received)
         /\ \A s \in Streams : s \notin xoff_received => Settled(f, s)
<1>1. CASE e.blocked
  <2>1. f = e
    BY <1>1 DEF circuit_resume_edge_reading
  <2>2. \A s \in Streams : Settled(e, s)
    BY <1>1 DEF Settled, Awake, Clean, Waits
  <2> QED BY <2>1, <2>2, PacksSelf
<1>2. CASE ~e.blocked
  <2> DEFINE started == UNION {StartAll(e, From(c), Streams, TRUE) : c \in Streams}
  <2>1. f \in UNION {UNION {PackageShares(g, p) : p \in Shares(g)} : g \in started}
    BY <1>2 DEF circuit_resume_edge_reading
  <2> HIDE DEF started
  <2>2. PICK g \in started : f \in UNION {PackageShares(g, p) : p \in Shares(g)}
    BY <2>1
  <2>3. PICK p \in Shares(g) : f \in PackageShares(g, p)
    BY <2>2
  <2>4. p \in [Streams -> 0 .. Data]
    BY DEF Shares
  <2>5. PICK c \in Streams : g \in StartAll(e, From(c), Streams, TRUE)
    BY DEF started
  <2>6. /\ From(c) \in [Streams -> Streams] /\ Len(From(c)) = NumStreams
        /\ \A s \in Streams : \E j \in Streams : From(c)[j] = s
    BY Orders
  <2>7. /\ Packs(e, g, xoff_received)
        /\ \A j \in Streams : From(c)[j] \in Streams /\ From(c)[j] \notin xoff_received
                                => Settled(g, From(c)[j])
    BY <2>5, <2>6, StartAllKeeps
  <2>8. g \in EdgeType
    BY <2>7 DEF Packs
  <2>9. Packs(g, f, xoff_received)
    BY <2>3, <2>4, <2>8, PackageSharesKeeps
  <2>10. Packs(e, f, xoff_received)
    BY <2>7, <2>9, PacksThen
  <2>11. ASSUME NEW s \in Streams, s \notin xoff_received PROVE Settled(f, s)
    <3>1. Settled(g, s)
      BY <2>6, <2>7, <2>11
    <3> QED BY <2>8, <2>9, <3>1, PacksSettled DEF Settled
  <2> QED BY <2>10, <2>11
<1> QED BY <1>1, <1>2

-----------------------------------------------------------------------------
(* The invariant.  e is the sending end, src the applications' data, wire   *)
(* the cells that travel to the receiver, out its buffers, back the cells   *)
(* that travel to the sender, un what the receiver has not acknowledged.    *)
Acks == [c \in EdgeCells |-> IF c = <<"SENDME">> THEN Inc ELSE 0]

(* No stream has more than Data under way.                                  *)
CellsCounted(e, src, wire, out) ==
  \A s \in Streams : \E a, b :
    /\ Tally(e.queue, OneOf(s), a) /\ Tally(wire, OneOf(s), b)
    /\ src[s] + e.inbuf[s] + a + b + out[s] <= Data

(* The window and what it counts make the congestion window.                *)
Balanced(e, wire, un, back) ==
  \E c : /\ Tally(back, Acks, c)
         /\ e.window + Len(e.queue) + Len(wire) + un + c = Cwnd

(* What a stream was told.                                                 *)
Word(b) == IF b THEN "XOFF" ELSE "XON"
(* What is on its way turns what the sender was told into what the         *)
(* receiver said last, for every stream.                                   *)
AllTold(back, rcvd, sent) ==
  \A s \in Streams : Says(back, s, Word(s \in rcvd), Word(s \in sent))

(* A stream told to stop is not read; any other is read, or waits for the  *)
(* queue, the window or its bandwidth, and has nothing in its input        *)
(* buffer unless it waits for the queue or the window.                     *)
Fine(e, rcvd, bw) ==
  /\ Tidy(e) /\ Marked(e)
  /\ \A s \in Streams : s \in rcvd => ~e.reading[s]
  /\ \A s \in Streams : /\ Awake(e, s) \/ s \in rcvd \/ s \in bw
                        /\ Clean(e, s) \/ s \in rcvd

(* The inductive invariant.                                                *)
EdgeInv ==
  /\ TypeOK
  /\ toEdge \in Seq(EdgeCells)
  /\ CellsCounted(edge, source, toExit, outbuf)
  /\ Balanced(edge, toExit, unacked, toEdge)
  /\ AllTold(toEdge, xoff_received, xoff_sent)
  /\ Fine(edge, xoff_received, read_blocked_on_bw)

(* Packaging and starting keep the reading right.                          *)
LEMMA FinePacks ==
  ASSUME NEW e \in EdgeType, NEW f, NEW rcvd, NEW bw, Packs(e, f, rcvd), Fine(e, rcvd, bw)
  PROVE  Fine(f, rcvd, bw)
<1>1. Tidy(f) /\ Marked(f)
  BY DEF Packs, Fine
<1>2. ASSUME NEW s \in Streams
      PROVE  /\ s \in rcvd => ~f.reading[s]
             /\ Awake(f, s) \/ s \in rcvd \/ s \in bw
             /\ Clean(f, s) \/ s \in rcvd
  <2>1. s \in rcvd => ~f.reading[s]
    BY DEF Packs, Fine
  <2>2. /\ Awake(e, s) => Awake(f, s)
        /\ Clean(e, s) => Clean(f, s)
    BY PacksSettled
  <2>3. /\ Awake(e, s) \/ s \in rcvd \/ s \in bw
        /\ Clean(e, s) \/ s \in rcvd
    BY DEF Fine
  <2> QED BY <2>1, <2>2, <2>3
<1> QED BY <1>1, <1>2 DEF Fine

(* The reading is right once every stream is settled that was not told to  *)
(* stop.                                                                   *)
LEMMA FineSettled ==
  ASSUME NEW e \in EdgeType, NEW f, NEW rcvd, NEW bw, Packs(e, f, rcvd),
         Tidy(e), Marked(e), \A s \in Streams : s \in rcvd => ~e.reading[s],
         \A s \in Streams : s \notin rcvd => Settled(f, s)
  PROVE  Fine(f, rcvd, bw)
  BY DEF Packs, Fine, Settled

(* No data is made or lost by packaging.                                   *)
LEMMA CountedPacks ==
  ASSUME NEW e \in EdgeType, NEW f, NEW rcvd, Packs(e, f, rcvd),
         NEW src \in [Streams -> Nat], NEW wire \in Seq(Streams), NEW out \in [Streams -> Nat],
         CellsCounted(e, src, wire, out)
  PROVE  CellsCounted(f, src, wire, out)
<1> SUFFICES ASSUME NEW s \in Streams
             PROVE  \E a, b : /\ Tally(f.queue, OneOf(s), a) /\ Tally(wire, OneOf(s), b)
                              /\ src[s] + f.inbuf[s] + a + b + out[s] <= Data
  BY DEF CellsCounted
<1>1. PICK a, b : /\ Tally(e.queue, OneOf(s), a) /\ Tally(wire, OneOf(s), b)
                  /\ src[s] + e.inbuf[s] + a + b + out[s] <= Data
  BY DEF CellsCounted
<1>2. f \in EdgeType
  BY DEF Packs
<1>3. PICK x \in Nat, y \in Nat : x = e.inbuf[s] /\ y = f.inbuf[s]
  BY <1>2, EdgeFields
<1>4. a \in Nat /\ b \in Nat
  BY <1>1, EdgeFields, TallyNat
<1>10. PICK j \in Nat, k \in Nat : j = a /\ k = b
  BY <1>4
<1>5. PICK c : c = a + (x - y)
  OBVIOUS
<1>6. Tally(f.queue, OneOf(s), c)
  BY <1>1, <1>3, <1>5 DEF Packs
<1>7. PICK u \in Nat, v \in Nat : u = src[s] /\ v = out[s]
  OBVIOUS
<1>8. u + x + a + b + v <= Data
  BY <1>1, <1>3, <1>7
<1>9. u + y + c + b + v <= Data
  <2>1. c = j + (x - y)
    BY <1>5, <1>10
  <2>2. u + y + (j + (x - y)) + k + v = u + x + j + k + v
    OBVIOUS
  <2> QED BY <1>8, <1>10, <2>1, <2>2
<1> QED BY <1>1, <1>3, <1>6, <1>7, <1>9

(* What is packaged leaves the window for the queue.                       *)
LEMMA BalancedPacks ==
  ASSUME NEW e \in EdgeType, NEW f, NEW rcvd, Packs(e, f, rcvd),
         NEW wire \in Seq(Streams), NEW un \in Nat, NEW back, Balanced(e, wire, un, back)
  PROVE  Balanced(f, wire, un, back)
<1>1. PICK c : /\ Tally(back, Acks, c)
               /\ e.window + Len(e.queue) + Len(wire) + un + c = Cwnd
  BY DEF Balanced
<1>2. f \in EdgeType /\ Len(f.queue) + f.window = Len(e.queue) + e.window
  BY DEF Packs
<1>3. PICK w \in Nat, l \in Nat, x \in Nat, y \in Nat :
        w = e.window /\ l = Len(e.queue) /\ x = f.window /\ y = Len(f.queue)
  BY <1>2, EdgeFields
<1>4. x + y = w + l
  BY <1>2, <1>3
<1>5. f.window + Len(f.queue) = e.window + Len(e.queue)
  BY <1>3, <1>4
<1> QED BY <1>1, <1>5 DEF Balanced

(* The sending end with another queue.                                     *)
LEMMA SetQueue ==
  ASSUME NEW e \in EdgeType, NEW x \in Seq(Streams)
  PROVE  LET r == [e EXCEPT !.queue = x]
         IN  /\ r \in EdgeType
             /\ r.queue = x /\ r.window = e.window /\ r.blocked = e.blocked /\ r.reading = e.reading /\ r.inbuf = e.inbuf
<1>1. PICK q, w, b, rd, ib :
        /\ e.queue = q /\ e.window = w /\ e.blocked = b /\ e.reading = rd /\ e.inbuf = ib
        /\ e = [queue |-> q, window |-> w, blocked |-> b, reading |-> rd, inbuf |-> ib]
  BY DEF EdgeType
<1>2. /\ q \in Seq(Streams) /\ w \in 0 .. Cwnd /\ b \in BOOLEAN
      /\ rd \in [Streams -> BOOLEAN] /\ ib \in [Streams -> 0 .. Data]
  BY <1>1 DEF EdgeType
<1>3. PICK r : r = [e EXCEPT !.queue = x]
  OBVIOUS
<1>4. r = [queue |-> x, window |-> w, blocked |-> b, reading |-> rd, inbuf |-> ib]
  BY <1>1, <1>3
<1>5. r \in EdgeType
  BY <1>2, <1>4 DEF EdgeType
<1>6. r.queue = x /\ r.window = w /\ r.blocked = b /\ r.reading = rd /\ r.inbuf = ib
  BY <1>4
<1> QED BY <1>1, <1>3, <1>5, <1>6

(* The sending end with another window.                                    *)
LEMMA SetWindow ==
  ASSUME NEW e \in EdgeType, NEW x \in 0 .. Cwnd
  PROVE  LET r == [e EXCEPT !.window = x]
         IN  /\ r \in EdgeType
             /\ r.queue = e.queue /\ r.window = x /\ r.blocked = e.blocked /\ r.reading = e.reading /\ r.inbuf = e.inbuf
<1>1. PICK q, w, b, rd, ib :
        /\ e.queue = q /\ e.window = w /\ e.blocked = b /\ e.reading = rd /\ e.inbuf = ib
        /\ e = [queue |-> q, window |-> w, blocked |-> b, reading |-> rd, inbuf |-> ib]
  BY DEF EdgeType
<1>2. /\ q \in Seq(Streams) /\ w \in 0 .. Cwnd /\ b \in BOOLEAN
      /\ rd \in [Streams -> BOOLEAN] /\ ib \in [Streams -> 0 .. Data]
  BY <1>1 DEF EdgeType
<1>3. PICK r : r = [e EXCEPT !.window = x]
  OBVIOUS
<1>4. r = [queue |-> q, window |-> x, blocked |-> b, reading |-> rd, inbuf |-> ib]
  BY <1>1, <1>3
<1>5. r \in EdgeType
  BY <1>2, <1>4 DEF EdgeType
<1>6. r.queue = q /\ r.window = x /\ r.blocked = b /\ r.reading = rd /\ r.inbuf = ib
  BY <1>4
<1> QED BY <1>1, <1>3, <1>5, <1>6

(* The sending end with the queue's mark set or cleared.                   *)
LEMMA SetBlocked ==
  ASSUME NEW e \in EdgeType, NEW x \in BOOLEAN
  PROVE  LET r == [e EXCEPT !.blocked = x]
         IN  /\ r \in EdgeType
             /\ r.queue = e.queue /\ r.window = e.window /\ r.blocked = x /\ r.reading = e.reading /\ r.inbuf = e.inbuf
<1>1. PICK q, w, b, rd, ib :
        /\ e.queue = q /\ e.window = w /\ e.blocked = b /\ e.reading = rd /\ e.inbuf = ib
        /\ e = [queue |-> q, window |-> w, blocked |-> b, reading |-> rd, inbuf |-> ib]
  BY DEF EdgeType
<1>2. /\ q \in Seq(Streams) /\ w \in 0 .. Cwnd /\ b \in BOOLEAN
      /\ rd \in [Streams -> BOOLEAN] /\ ib \in [Streams -> 0 .. Data]
  BY <1>1 DEF EdgeType
<1>3. PICK r : r = [e EXCEPT !.blocked = x]
  OBVIOUS
<1>4. r = [queue |-> q, window |-> w, blocked |-> x, reading |-> rd, inbuf |-> ib]
  BY <1>1, <1>3
<1>5. r \in EdgeType
  BY <1>2, <1>4 DEF EdgeType
<1>6. r.queue = q /\ r.window = w /\ r.blocked = x /\ r.reading = rd /\ r.inbuf = ib
  BY <1>4
<1> QED BY <1>1, <1>3, <1>5, <1>6

(* The sending end with other streams read.                                *)
LEMMA SetReads ==
  ASSUME NEW e \in EdgeType, NEW x \in [Streams -> BOOLEAN]
  PROVE  LET r == [e EXCEPT !.reading = x]
         IN  /\ r \in EdgeType
             /\ r.queue = e.queue /\ r.window = e.window /\ r.blocked = e.blocked /\ r.reading = x /\ r.inbuf = e.inbuf
<1>1. PICK q, w, b, rd, ib :
        /\ e.queue = q /\ e.window = w /\ e.blocked = b /\ e.reading = rd /\ e.inbuf = ib
        /\ e = [queue |-> q, window |-> w, blocked |-> b, reading |-> rd, inbuf |-> ib]
  BY DEF EdgeType
<1>2. /\ q \in Seq(Streams) /\ w \in 0 .. Cwnd /\ b \in BOOLEAN
      /\ rd \in [Streams -> BOOLEAN] /\ ib \in [Streams -> 0 .. Data]
  BY <1>1 DEF EdgeType
<1>3. PICK r : r = [e EXCEPT !.reading = x]
  OBVIOUS
<1>4. r = [queue |-> q, window |-> w, blocked |-> b, reading |-> x, inbuf |-> ib]
  BY <1>1, <1>3
<1>5. r \in EdgeType
  BY <1>2, <1>4 DEF EdgeType
<1>6. r.queue = q /\ r.window = w /\ r.blocked = b /\ r.reading = x /\ r.inbuf = ib
  BY <1>4
<1> QED BY <1>1, <1>3, <1>5, <1>6

(* The sending end with other input buffers.                               *)
LEMMA SetInbuf ==
  ASSUME NEW e \in EdgeType, NEW x \in [Streams -> 0 .. Data]
  PROVE  LET r == [e EXCEPT !.inbuf = x]
         IN  /\ r \in EdgeType
             /\ r.queue = e.queue /\ r.window = e.window /\ r.blocked = e.blocked /\ r.reading = e.reading /\ r.inbuf = x
<1>1. PICK q, w, b, rd, ib :
        /\ e.queue = q /\ e.window = w /\ e.blocked = b /\ e.reading = rd /\ e.inbuf = ib
        /\ e = [queue |-> q, window |-> w, blocked |-> b, reading |-> rd, inbuf |-> ib]
  BY DEF EdgeType
<1>2. /\ q \in Seq(Streams) /\ w \in 0 .. Cwnd /\ b \in BOOLEAN
      /\ rd \in [Streams -> BOOLEAN] /\ ib \in [Streams -> 0 .. Data]
  BY <1>1 DEF EdgeType
<1>3. PICK r : r = [e EXCEPT !.inbuf = x]
  OBVIOUS
<1>4. r = [queue |-> q, window |-> w, blocked |-> b, reading |-> rd, inbuf |-> x]
  BY <1>1, <1>3
<1>5. r \in EdgeType
  BY <1>2, <1>4 DEF EdgeType
<1>6. r.queue = q /\ r.window = w /\ r.blocked = b /\ r.reading = rd /\ r.inbuf = x
  BY <1>4
<1> QED BY <1>1, <1>3, <1>5, <1>6

(* With nothing on its way the sender was told what the receiver said      *)
(* last.                                                                   *)
LEMMA SaysEmpty ==
  ASSUME NEW s, NEW a \in {"XOFF", "XON"} PROVE Says(<<>>, s, a, a)
<1>1. PICK t : t = [j \in {0} |-> a]
  OBVIOUS
<1>2. Len(<<>>) = 0 /\ t \in [0 .. 0 -> {"XOFF", "XON"}] /\ t[0] = a
  BY <1>1
<1>3. ToldAlong(<<>>, s, t)
  BY <1>2 DEF ToldAlong
<1> QED BY <1>2, <1>3 DEF Says

(* The invariant holds in the initial states.                              *)
LEMMA EdgeInit == ASSUME Init PROVE EdgeInv
<1>0. /\ NumStreams \in Nat \ {0} /\ Cwnd \in Nat \ {0} /\ Inc \in Nat \ {0}
      /\ High \in Nat \ {0} /\ Low \in Nat \ {0} /\ Data \in Nat
  BY Constants
<1>1. /\ source = [s \in Streams |-> Data]
      /\ edge = [queue |-> <<>>, window |-> Cwnd, blocked |-> FALSE,
                 reading |-> [s \in Streams |-> TRUE],
                 inbuf |-> [s \in Streams |-> 0]]
      /\ xoff_received = {} /\ read_blocked_on_bw = {}
      /\ toExit = <<>> /\ toEdge = <<>>
      /\ outbuf = [s \in Streams |-> 0]
      /\ xoff_sent = {} /\ unacked = 0
  BY DEF Init
<1>2. /\ edge.queue = <<>> /\ edge.window = Cwnd /\ edge.blocked = FALSE
      /\ edge.reading = [s \in Streams |-> TRUE] /\ edge.inbuf = [s \in Streams |-> 0]
  BY <1>1
<1>3. edge \in EdgeType
  BY <1>0, <1>1 DEF EdgeType
<1>4. TypeOK
  BY <1>0, <1>1, <1>3 DEF TypeOK
<1>5. toEdge \in Seq(EdgeCells)
  BY <1>1
<1>6. CellsCounted(edge, source, toExit, outbuf)
  <2> SUFFICES ASSUME NEW s \in Streams
               PROVE  \E a, b : /\ Tally(edge.queue, OneOf(s), a) /\ Tally(toExit, OneOf(s), b)
                                /\ source[s] + edge.inbuf[s] + a + b + outbuf[s] <= Data
    BY DEF CellsCounted
  <2>1. Tally(edge.queue, OneOf(s), 0) /\ Tally(toExit, OneOf(s), 0)
    BY <1>1, <1>2, TallyEmpty
  <2>2. source[s] = Data /\ edge.inbuf[s] = 0 /\ outbuf[s] = 0
    BY <1>1, <1>2
  <2>3. Data + 0 + 0 + 0 + 0 <= Data
    BY <1>0
  <2> QED BY <2>1, <2>2, <2>3
<1>7. Balanced(edge, toExit, unacked, toEdge)
  <2>1. Tally(toEdge, Acks, 0)
    BY <1>1, TallyEmpty
  <2>2. Len(edge.queue) = 0 /\ Len(toExit) = 0
    BY <1>1, <1>2
  <2>3. Cwnd + 0 + 0 + 0 + 0 = Cwnd
    BY <1>0
  <2> QED BY <1>1, <1>2, <2>1, <2>2, <2>3 DEF Balanced
<1>8. AllTold(toEdge, xoff_received, xoff_sent)
  BY <1>1, SaysEmpty DEF AllTold, Word
<1>9. Fine(edge, xoff_received, read_blocked_on_bw)
  <2>1. Tidy(edge)
    BY <1>2 DEF Tidy
  <2>2. Len(edge.queue) = 0
    BY <1>2
  <2>3. Marked(edge)
    BY <1>0, <1>2, <2>2 DEF Marked
  <2> QED BY <1>1, <1>2, <2>1, <2>3 DEF Fine, Awake, Clean
<1> QED BY <1>4, <1>5, <1>6, <1>7, <1>8, <1>9 DEF EdgeInv

(* The types of the variables, as the steps use them.                      *)
LEMMA EdgeTypes ==
  ASSUME TypeOK
  PROVE  /\ edge \in EdgeType
         /\ source \in [Streams -> Nat] /\ outbuf \in [Streams -> Nat]
         /\ source \in [Streams -> 0 .. Data] /\ outbuf \in [Streams -> 0 .. Data]
         /\ toExit \in Seq(Streams) /\ Len(toExit) \in Nat
         /\ unacked \in Nat /\ unacked <= Inc - 1
         /\ xoff_received \subseteq Streams /\ read_blocked_on_bw \subseteq Streams
         /\ xoff_sent \subseteq Streams
<1>1. /\ edge \in EdgeType
      /\ source \in [Streams -> 0 .. Data] /\ outbuf \in [Streams -> 0 .. Data]
      /\ toExit \in Seq(Streams) /\ unacked \in 0 .. Inc - 1
      /\ xoff_received \subseteq Streams /\ read_blocked_on_bw \subseteq Streams
      /\ xoff_sent \subseteq Streams
  BY DEF TypeOK
<1>2. source \in [Streams -> Nat] /\ outbuf \in [Streams -> Nat]
  BY <1>1, Constants
<1>3. unacked \in Nat /\ unacked <= Inc - 1
  BY <1>1, Constants
<1>4. Len(toExit) \in Nat
  BY <1>1
<1> QED BY <1>1, <1>2, <1>3, <1>4

(* The state's parts, unfolded.                                             *)
LEMMA Unfolded ==
  ASSUME EdgeInv
  PROVE  /\ TypeOK
         /\ toEdge \in Seq(EdgeCells)
         /\ CellsCounted(edge, source, toExit, outbuf)
         /\ Balanced(edge, toExit, unacked, toEdge)
         /\ AllTold(toEdge, xoff_received, xoff_sent)
         /\ Fine(edge, xoff_received, read_blocked_on_bw)
  BY DEF EdgeInv

(* The invariant in the next state, from its parts.                        *)
LEMMA Folded ==
  ASSUME TypeOK', toEdge' \in Seq(EdgeCells),
         CellsCounted(edge', source', toExit', outbuf'),
         Balanced(edge', toExit', unacked', toEdge'),
         AllTold(toEdge', xoff_received', xoff_sent'),
         Fine(edge', xoff_received', read_blocked_on_bw')
  PROVE  EdgeInv'
  BY DEF EdgeInv

(* A stream is read, and what was read is packaged                         *)
(* (connection_handle_read).                                               *)
LEMMA ReadKeeps ==
  ASSUME EdgeInv, NEW s \in Streams, connection_handle_read(s)
  PROVE  EdgeInv'
<1>0. /\ TypeOK
      /\ toEdge \in Seq(EdgeCells)
      /\ CellsCounted(edge, source, toExit, outbuf)
      /\ Balanced(edge, toExit, unacked, toEdge)
      /\ AllTold(toEdge, xoff_received, xoff_sent)
      /\ Fine(edge, xoff_received, read_blocked_on_bw)
  BY Unfolded
<1>1. /\ edge \in EdgeType
      /\ source \in [Streams -> Nat] /\ outbuf \in [Streams -> Nat]
      /\ source \in [Streams -> 0 .. Data] /\ outbuf \in [Streams -> 0 .. Data]
      /\ toExit \in Seq(Streams)
  BY <1>0, EdgeTypes
<1>2. PICK n \in 1 .. source[s] :
        /\ source' = [source EXCEPT ![s] = @ - n]
        /\ edge' = connection_edge_package_raw_inbuf(
                      [edge EXCEPT !.inbuf[s] = @ + n], s, edge.inbuf[s] + n, xoff_received)
  BY DEF connection_handle_read
<1>3. /\ edge.reading[s]
      /\ UNCHANGED <<xoff_received, read_blocked_on_bw, toExit, toEdge, outbuf, xoff_sent,
                     unacked>>
  BY DEF connection_handle_read
<1>4. PICK x : x = [edge.inbuf EXCEPT ![s] = @ + n]
  OBVIOUS
<1>5. edge.inbuf \in [Streams -> 0 .. Data] /\ \A t \in Streams : edge.inbuf[t] \in Nat
  BY <1>1, EdgeFields
<1>6. n \in Nat /\ n <= source[s] /\ source[s] \in Nat /\ source[s] <= Data
  BY <1>1, Constants
<1>7. edge.inbuf[s] = 0
  BY <1>0, <1>3 DEF Fine, Tidy
<1>8. x \in [Streams -> 0 .. Data] /\ x[s] = n /\ \A t \in Streams \ {s} : x[t] = edge.inbuf[t]
  <2>1. n \in 0 .. Data
    BY <1>6, Constants
  <2>2. x = [edge.inbuf EXCEPT ![s] = n]
    BY <1>4, <1>6, <1>7
  <2> QED BY <1>5, <2>1, <2>2
<1>9. PICK e : e = [edge EXCEPT !.inbuf = x]
  OBVIOUS
<1>10. [edge EXCEPT !.inbuf[s] = @ + n] = e
  BY <1>4, <1>9
<1>11. /\ e \in EdgeType
       /\ e.queue = edge.queue /\ e.window = edge.window /\ e.blocked = edge.blocked
       /\ e.reading = edge.reading /\ e.inbuf = x
  BY <1>1, <1>8, <1>9, SetInbuf
<1>12. PICK f : f = edge'
  OBVIOUS
<1>13. f = connection_edge_package_raw_inbuf(e, s, n, xoff_received)
  BY <1>2, <1>6, <1>7, <1>10, <1>12
<1>14. n >= e.inbuf[s]
  BY <1>6, <1>8, <1>11
<1>15. /\ Packs(e, f, xoff_received)
       /\ f.inbuf[s] = 0 \/ f.window = 0
       /\ f.window = 0 => \A t \in Streams : ~f.reading[t]
       /\ \A t \in Streams : f.reading[t] => e.reading[t]
       /\ \A t \in Streams \ {s} : f.inbuf[t] = e.inbuf[t]
  BY <1>6, <1>11, <1>13, <1>14, PackageKeeps
<1>16. f \in EdgeType
  BY <1>15 DEF Packs
<1>17. source' \in [Streams -> 0 .. Data] /\ source'[s] = source[s] - n
       /\ \A t \in Streams \ {s} : source'[t] = source[t]
  <2>1. source[s] - n \in 0 .. Data
    BY <1>6, Constants
  <2> QED BY <1>1, <1>2, <2>1
<1>18. TypeOK'
  BY <1>0, <1>3, <1>12, <1>16, <1>17 DEF TypeOK
<1>19. CellsCounted(e, source', toExit, outbuf)
  <2> SUFFICES ASSUME NEW t \in Streams
               PROVE  \E a, b : /\ Tally(e.queue, OneOf(t), a) /\ Tally(toExit, OneOf(t), b)
                                /\ source'[t] + e.inbuf[t] + a + b + outbuf[t] <= Data
    BY DEF CellsCounted
  <2>1. PICK a, b : /\ Tally(edge.queue, OneOf(t), a) /\ Tally(toExit, OneOf(t), b)
                    /\ source[t] + edge.inbuf[t] + a + b + outbuf[t] <= Data
    BY <1>0 DEF CellsCounted
  <2>2. source'[t] + e.inbuf[t] = source[t] + edge.inbuf[t]
    <3>1. CASE t = s
      BY <1>6, <1>7, <1>8, <1>11, <1>17, <3>1
    <3>2. CASE t # s
      BY <1>8, <1>11, <1>17, <3>2
    <3> QED BY <3>1, <3>2
  <2> QED BY <1>11, <2>1, <2>2
<1>20. CellsCounted(f, source', toExit, outbuf)
  <2>1. source' \in [Streams -> Nat]
    BY <1>17, Constants
  <2>2. PICK src : src = source'
    OBVIOUS
  <2> QED BY <1>1, <1>11, <1>15, <1>19, <2>1, <2>2, CountedPacks
<1>21. Balanced(e, toExit, unacked, toEdge)
  BY <1>0, <1>11 DEF Balanced
<1>22. Balanced(f, toExit, unacked, toEdge)
  <2>1. unacked \in Nat
    BY <1>0, EdgeTypes
  <2> QED BY <1>1, <1>11, <1>15, <1>21, <2>1, BalancedPacks
<1>23. Fine(f, xoff_received, read_blocked_on_bw)
  <2>1. Marked(e)
    BY <1>0, <1>11 DEF Fine, Marked
  <2>2. Marked(f)
    BY <1>15, <2>1 DEF Packs
  <2>3. Tidy(f)
    <3> SUFFICES ASSUME NEW t \in Streams, f.reading[t] PROVE f.inbuf[t] = 0
      BY DEF Tidy
    <3>1. CASE t = s
      BY <1>15, <3>1
    <3>2. CASE t # s
      BY <1>0, <1>8, <1>11, <1>15, <3>2 DEF Fine, Tidy
    <3> QED BY <3>1, <3>2
  <2>4. ASSUME NEW t \in Streams, t \in xoff_received PROVE ~f.reading[t]
    BY <1>0, <1>11, <1>15, <2>4 DEF Fine
  <2>5. ASSUME NEW t \in Streams
        PROVE  /\ Awake(f, t) \/ t \in xoff_received \/ t \in read_blocked_on_bw
               /\ Clean(f, t) \/ t \in xoff_received
    <3>1. /\ Waits(e) => Waits(f)
          /\ Awake(e, t) => Awake(f, t)
          /\ Clean(e, t) => Clean(f, t)
      BY <1>11, <1>15, PacksSettled
    <3>2. /\ Awake(edge, t) \/ t \in xoff_received \/ t \in read_blocked_on_bw
          /\ Clean(edge, t) \/ t \in xoff_received
      BY <1>0 DEF Fine
    <3>3. Awake(edge, t) => Awake(e, t)
      BY <1>11 DEF Awake, Waits
    <3>4. CASE t = s
      <4>1. Clean(f, t)
        BY <1>15, <3>4 DEF Clean, Waits
      <4> QED BY <3>1, <3>2, <3>3, <4>1
    <3>5. CASE t # s
      <4>1. Clean(edge, t) => Clean(e, t)
        BY <1>8, <1>11, <3>5 DEF Clean, Waits
      <4> QED BY <3>1, <3>2, <3>3, <4>1
    <3> QED BY <3>4, <3>5
  <2> QED BY <2>2, <2>3, <2>4, <2>5 DEF Fine
<1> QED BY <1>0, <1>3, <1>12, <1>18, <1>20, <1>22, <1>23, Folded

(* A stream stops being read for want of bandwidth                         *)
(* (connection_read_bw_exhausted).                                         *)
LEMMA BandwidthKeeps ==
  ASSUME EdgeInv, NEW s \in Streams, connection_read_bw_exhausted(s)
  PROVE  EdgeInv'
<1>0. /\ TypeOK
      /\ toEdge \in Seq(EdgeCells)
      /\ CellsCounted(edge, source, toExit, outbuf)
      /\ Balanced(edge, toExit, unacked, toEdge)
      /\ AllTold(toEdge, xoff_received, xoff_sent)
      /\ Fine(edge, xoff_received, read_blocked_on_bw)
  BY Unfolded
<1>1. /\ edge \in EdgeType
      /\ source \in [Streams -> Nat] /\ outbuf \in [Streams -> Nat]
      /\ source \in [Streams -> 0 .. Data] /\ outbuf \in [Streams -> 0 .. Data]
      /\ toExit \in Seq(Streams) /\ Len(toExit) \in Nat
      /\ unacked \in Nat /\ unacked <= Inc - 1
      /\ xoff_received \subseteq Streams /\ read_blocked_on_bw \subseteq Streams
      /\ xoff_sent \subseteq Streams
  BY <1>0, EdgeTypes
<1>2. /\ read_blocked_on_bw' = read_blocked_on_bw \cup {s}
      /\ edge' = [edge EXCEPT !.reading[s] = FALSE]
      /\ UNCHANGED <<source, xoff_received, toExit, toEdge, outbuf, xoff_sent, unacked>>
  BY DEF connection_read_bw_exhausted
<1>3. PICK x : x = [edge.reading EXCEPT ![s] = FALSE]
  OBVIOUS
<1>4. edge.reading \in [Streams -> BOOLEAN]
  BY <1>1, EdgeFields
<1>5. x \in [Streams -> BOOLEAN] /\ \A t \in Streams : x[t] <=> edge.reading[t] /\ t # s
  BY <1>3, <1>4
<1>6. PICK f : f = edge'
  OBVIOUS
<1>7. f = [edge EXCEPT !.reading = x]
  BY <1>2, <1>3, <1>6
<1>8. /\ f \in EdgeType
      /\ f.queue = edge.queue /\ f.window = edge.window /\ f.blocked = edge.blocked
      /\ f.reading = x /\ f.inbuf = edge.inbuf
  BY <1>1, <1>5, <1>7, SetReads
<1>9. TypeOK'
  BY <1>0, <1>2, <1>6, <1>8 DEF TypeOK
<1>10. CellsCounted(f, source, toExit, outbuf) /\ Balanced(f, toExit, unacked, toEdge)
  BY <1>0, <1>8 DEF CellsCounted, Balanced
<1>11. Fine(f, xoff_received, read_blocked_on_bw \cup {s})
  <2>1. Tidy(f) /\ Marked(f)
    BY <1>0, <1>5, <1>8 DEF Fine, Tidy, Marked
  <2>2. ASSUME NEW t \in Streams
        PROVE  /\ t \in xoff_received => ~f.reading[t]
               /\ Awake(f, t) \/ t \in xoff_received \/ t \in read_blocked_on_bw \cup {s}
               /\ Clean(f, t) \/ t \in xoff_received
    BY <1>0, <1>5, <1>8 DEF Fine, Awake, Clean, Waits
  <2> QED BY <2>1, <2>2 DEF Fine
<1> QED BY <1>0, <1>2, <1>6, <1>9, <1>10, <1>11, Folded

(* The sending end changes by packaging and starting only.                  *)
LEMMA EdgeMoves ==
  ASSUME EdgeInv, NEW f, f = edge', NEW e \in EdgeType, Packs(e, f, xoff_received'),
         source' = source, outbuf' = outbuf, xoff_sent' = xoff_sent, unacked' = unacked,
         toExit' \in Seq(Streams), xoff_received' \subseteq Streams,
         read_blocked_on_bw' \subseteq Streams, toEdge' \in Seq(EdgeCells),
         CellsCounted(e, source, toExit', outbuf), Balanced(e, toExit', unacked, toEdge'),
         AllTold(toEdge', xoff_received', xoff_sent),
         Fine(f, xoff_received', read_blocked_on_bw')
  PROVE  EdgeInv'
<1>0. /\ TypeOK
      /\ toEdge \in Seq(EdgeCells)
      /\ CellsCounted(edge, source, toExit, outbuf)
      /\ Balanced(edge, toExit, unacked, toEdge)
      /\ AllTold(toEdge, xoff_received, xoff_sent)
      /\ Fine(edge, xoff_received, read_blocked_on_bw)
  BY Unfolded
<1>1. /\ edge \in EdgeType
      /\ source \in [Streams -> Nat] /\ outbuf \in [Streams -> Nat]
      /\ source \in [Streams -> 0 .. Data] /\ outbuf \in [Streams -> 0 .. Data]
      /\ toExit \in Seq(Streams) /\ Len(toExit) \in Nat
      /\ unacked \in Nat /\ unacked <= Inc - 1
      /\ xoff_received \subseteq Streams /\ read_blocked_on_bw \subseteq Streams
      /\ xoff_sent \subseteq Streams
  BY <1>0, EdgeTypes
<1>2. f \in EdgeType
  BY DEF Packs
<1>3. TypeOK'
  BY <1>0, <1>2 DEF TypeOK
<1>4. PICK wire, rcvd : wire = toExit' /\ rcvd = xoff_received'
  OBVIOUS
<1>5. CellsCounted(f, source, wire, outbuf)
  BY <1>1, <1>4, CountedPacks
<1>6. PICK back : back = toEdge'
  OBVIOUS
<1>7. Balanced(f, wire, unacked, back)
  BY <1>1, <1>4, <1>6, BalancedPacks
<1> QED BY <1>3, <1>4, <1>5, <1>6, <1>7, Folded

(* The token buckets are refilled: the streams that waited are started     *)
(* (reenable_blocked_connections_cb).                                      *)
LEMMA RefillKeeps ==
  ASSUME EdgeInv, reenable_blocked_connections_cb
  PROVE  EdgeInv'
<1>0. /\ TypeOK
      /\ toEdge \in Seq(EdgeCells)
      /\ CellsCounted(edge, source, toExit, outbuf)
      /\ Balanced(edge, toExit, unacked, toEdge)
      /\ AllTold(toEdge, xoff_received, xoff_sent)
      /\ Fine(edge, xoff_received, read_blocked_on_bw)
  BY Unfolded
<1>1. /\ edge \in EdgeType
      /\ source \in [Streams -> Nat] /\ outbuf \in [Streams -> Nat]
      /\ source \in [Streams -> 0 .. Data] /\ outbuf \in [Streams -> 0 .. Data]
      /\ toExit \in Seq(Streams) /\ Len(toExit) \in Nat
      /\ unacked \in Nat /\ unacked <= Inc - 1
      /\ xoff_received \subseteq Streams /\ read_blocked_on_bw \subseteq Streams
      /\ xoff_sent \subseteq Streams
  BY <1>0, EdgeTypes
<1>2. /\ edge' \in StartAll(edge, ListOrder, read_blocked_on_bw \ xoff_received, TRUE)
      /\ read_blocked_on_bw' = {}
      /\ UNCHANGED <<source, xoff_received, toExit, toEdge, outbuf, xoff_sent, unacked>>
  BY DEF reenable_blocked_connections_cb
<1>3. PICK f : f = edge'
  OBVIOUS
<1>4. PICK bw : bw = read_blocked_on_bw \ xoff_received
  OBVIOUS
<1>5. f \in StartAll(edge, ListOrder, bw, TRUE)
  BY <1>2, <1>3, <1>4
<1>6. /\ ListOrder \in [Streams -> Streams] /\ Len(ListOrder) = NumStreams
      /\ \A s \in Streams : ListOrder[s] = s
  BY Orders
<1>7. /\ Packs(edge, f, xoff_received)
      /\ \A j \in Streams : ListOrder[j] \in bw /\ ListOrder[j] \notin xoff_received
                              => Settled(f, ListOrder[j])
  BY <1>1, <1>5, <1>6, StartAllKeeps
<1>8. Fine(f, xoff_received, read_blocked_on_bw)
  BY <1>0, <1>1, <1>7, FinePacks
<1>9. Fine(f, xoff_received, {})
  <2>1. ASSUME NEW s \in Streams PROVE Awake(f, s) \/ s \in xoff_received
    <3>1. Awake(f, s) \/ s \in xoff_received \/ s \in bw
      BY <1>4, <1>8 DEF Fine
    <3>2. s \in bw /\ s \notin xoff_received => Settled(f, s)
      BY <1>6, <1>7
    <3> QED BY <3>1, <3>2 DEF Settled
  <2> QED BY <1>8, <2>1 DEF Fine
<1>10. read_blocked_on_bw' \subseteq Streams
  BY <1>2
<1> QED BY <1>0, <1>1, <1>2, <1>3, <1>7, <1>9, <1>10, EdgeMoves

(* A cell leaves the queue; at the low mark the streams are started again  *)
(* (channel_flush_from_first_active_circuit).                              *)
LEMMA FlushKeeps ==
  ASSUME EdgeInv, channel_flush_from_first_active_circuit
  PROVE  EdgeInv'
<1>0. /\ TypeOK
      /\ toEdge \in Seq(EdgeCells)
      /\ CellsCounted(edge, source, toExit, outbuf)
      /\ Balanced(edge, toExit, unacked, toEdge)
      /\ AllTold(toEdge, xoff_received, xoff_sent)
      /\ Fine(edge, xoff_received, read_blocked_on_bw)
  BY Unfolded
<1>1. /\ edge \in EdgeType
      /\ source \in [Streams -> Nat] /\ outbuf \in [Streams -> Nat]
      /\ source \in [Streams -> 0 .. Data] /\ outbuf \in [Streams -> 0 .. Data]
      /\ toExit \in Seq(Streams) /\ Len(toExit) \in Nat
      /\ unacked \in Nat /\ unacked <= Inc - 1
      /\ xoff_received \subseteq Streams /\ read_blocked_on_bw \subseteq Streams
      /\ xoff_sent \subseteq Streams
  BY <1>0, EdgeTypes
<1>2. PICK e : e = [edge EXCEPT !.queue = Tail(@)]
  OBVIOUS
<1>3. PICK f : f = edge'
  OBVIOUS
<1>4. /\ edge.queue # <<>>
      /\ toExit' = Append(toExit, Head(edge.queue))
      /\ f \in IF e.blocked /\ Len(e.queue) <= Low THEN Unblock(e) ELSE {e}
      /\ UNCHANGED <<source, xoff_received, read_blocked_on_bw, toEdge, outbuf,
                     xoff_sent, unacked>>
  BY <1>2, <1>3 DEF channel_flush_from_first_active_circuit
<1>5. PICK q : q = edge.queue
  OBVIOUS
<1>6. q \in Seq(Streams) /\ q # <<>> /\ edge.window \in Nat
  BY <1>1, <1>4, <1>5, EdgeFields
<1>7. /\ Tail(q) \in Seq(Streams) /\ Len(Tail(q)) = Len(q) - 1 /\ Len(q) \in Nat \ {0}
      /\ Head(q) \in Streams
  BY <1>6, Taken
<1>8. e = [edge EXCEPT !.queue = Tail(q)]
  BY <1>2, <1>5
<1>9. /\ e \in EdgeType
      /\ e.queue = Tail(q) /\ e.window = edge.window /\ e.blocked = edge.blocked
      /\ e.reading = edge.reading /\ e.inbuf = edge.inbuf
  BY <1>1, <1>7, <1>8, SetQueue
<1>10. PICK c \in Streams : c = Head(q)
  BY <1>7
<1>11. PICK wire : wire = toExit'
  OBVIOUS
<1>12. wire = Append(toExit, c) /\ wire \in Seq(Streams) /\ Len(wire) = Len(toExit) + 1
  BY <1>1, <1>4, <1>5, <1>10, <1>11
<1>13. CellsCounted(e, source, wire, outbuf)
  <2> SUFFICES ASSUME NEW s \in Streams
               PROVE  \E a, b : /\ Tally(e.queue, OneOf(s), a) /\ Tally(wire, OneOf(s), b)
                                /\ source[s] + e.inbuf[s] + a + b + outbuf[s] <= Data
    BY DEF CellsCounted
  <2>1. PICK a, b : /\ Tally(q, OneOf(s), a) /\ Tally(toExit, OneOf(s), b)
                    /\ source[s] + edge.inbuf[s] + a + b + outbuf[s] <= Data
    BY <1>0, <1>5 DEF CellsCounted
  <2>2. PICK w : w = OneOf(s)
    OBVIOUS
  <2>3. \A t \in Streams : w[t] \in Nat
    BY <2>2 DEF OneOf
  <2>4. PICK k \in Nat : k = w[c]
    BY <2>3
  <2>5. a >= k /\ Tally(Tail(q), w, a - k)
    BY <1>6, <1>10, <2>1, <2>2, <2>3, <2>4, TallyTake
  <2>6. Tally(wire, w, b + k)
    BY <1>1, <1>12, <2>1, <2>2, <2>4, TallyAppend
  <2>7. a \in Nat /\ b \in Nat
    BY <1>1, <1>6, <2>1, TallyNat
  <2>8. PICK x \in Nat, y \in Nat, z \in Nat : x = source[s] /\ y = edge.inbuf[s] /\ z = outbuf[s]
    BY <1>1, EdgeFields
  <2>9. x + y + (a - k) + (b + k) + z = x + y + a + b + z
    <3>1. PICK i \in Nat, j \in Nat : i = a /\ j = b
      BY <2>7
    <3>2. x + y + (i - k) + (j + k) + z = x + y + i + j + z
      OBVIOUS
    <3> QED BY <3>1, <3>2
  <2>10. source[s] + e.inbuf[s] + (a - k) + (b + k) + outbuf[s] <= Data
    BY <1>9, <2>1, <2>8, <2>9
  <2> QED BY <1>9, <2>2, <2>5, <2>6, <2>10
<1>14. Balanced(e, wire, unacked, toEdge)
  <2>1. PICK d : /\ Tally(toEdge, Acks, d)
                 /\ edge.window + Len(q) + Len(toExit) + unacked + d = Cwnd
    BY <1>0, <1>5, SMTT(30) DEF Balanced
  <2>2. PICK x \in Nat, y \in Nat, z \in Nat : x = edge.window /\ y = Len(q) /\ z = Len(toExit)
    BY <1>1, <1>6, <1>7
  <2>3. x + (y - 1) + (z + 1) = x + y + z
    OBVIOUS
  <2>4. e.window + Len(e.queue) + Len(wire) = edge.window + Len(q) + Len(toExit)
    BY <1>7, <1>9, <1>12, <2>2, <2>3
  <2> QED BY <2>1, <2>4 DEF Balanced
<1>15. CASE ~(e.blocked /\ Len(e.queue) <= Low)
  <2>1. f = e
    BY <1>4, <1>15
  <2>2. Packs(e, f, xoff_received)
    BY <1>9, <2>1, PacksSelf
  <2>3. Marked(e)
    <3>1. PICK y \in Nat : y = Len(q)
      BY <1>7
    <3>2. Len(e.queue) = y - 1 /\ y - 1 \in Nat
      BY <1>7, <1>9, <3>1
    <3>3. High - 1 \in Nat /\ High \in Nat /\ Low \in Nat
      BY Constants
    <3>4. Smaller(Low, High - 1) \in Nat /\ Smaller(Low, High - 1) <= Low
      BY <3>3, Smallest
    <3>5. Low < High /\ y - 1 >= High => e.blocked
      <4>1. y - 1 >= High => y >= High
        BY <3>3
      <4> QED BY <1>0, <1>5, <1>9, <3>1, <4>1 DEF Fine, Marked
    <3>6. e.blocked => y - 1 > Smaller(Low, High - 1)
      <4>1. e.blocked => ~(y - 1 <= Low)
        BY <1>15, <3>2
      <4> QED BY <3>2, <3>3, <3>4, <4>1
    <3> QED BY <3>2, <3>5, <3>6, SMTT(30) DEF Marked
  <2>4. Fine(e, xoff_received, read_blocked_on_bw)
    <3>1. Tidy(e)
      BY <1>0, <1>9 DEF Fine, Tidy
    <3>2. ASSUME NEW t \in Streams
          PROVE  /\ t \in xoff_received => ~e.reading[t]
                 /\ Awake(e, t) \/ t \in xoff_received \/ t \in read_blocked_on_bw
                 /\ Clean(e, t) \/ t \in xoff_received
      BY <1>0, <1>9 DEF Fine, Awake, Clean, Waits
    <3> QED BY <2>3, <3>1, <3>2 DEF Fine
  <2> QED BY <1>0, <1>1, <1>3, <1>4, <1>9, <1>11, <1>12, <1>13, <1>14, <2>1, <2>2, <2>4, EdgeMoves
<1>16. CASE e.blocked /\ Len(e.queue) <= Low
  <2>1. PICK g : g = [e EXCEPT !.blocked = FALSE]
    OBVIOUS
  <2>2. /\ g \in EdgeType
        /\ g.queue = e.queue /\ g.window = e.window /\ g.blocked = FALSE
        /\ g.reading = e.reading /\ g.inbuf = e.inbuf
    BY <1>9, <2>1, SetBlocked
  <2>3. f \in StartAll(g, ListOrder, Streams \ xoff_received, FALSE)
    BY <1>4, <1>16, <2>1 DEF Unblock
  <2>4. Tidy(g)
    BY <1>0, <1>9, <2>2 DEF Fine, Tidy
  <2>5. Marked(g)
    <3>1. PICK y \in Nat : y = Len(e.queue)
      BY <1>9, EdgeFields
    <3>2. y <= Low /\ Low \in Nat /\ High \in Nat
      BY <1>16, <3>1, Constants
    <3> QED BY <2>2, <3>1, <3>2 DEF Marked
  <2>6. PICK streams : streams = Streams \ xoff_received
    OBVIOUS
  <2>7. /\ ListOrder \in [Streams -> Streams] /\ Len(ListOrder) = NumStreams
        /\ \A s \in Streams : ListOrder[s] = s
    BY Orders
  <2>8. /\ Packs(g, f, xoff_received)
        /\ \A j \in Streams : ListOrder[j] \in streams /\ ListOrder[j] \notin xoff_received
                                => Settled(f, ListOrder[j])
    BY <2>2, <2>3, <2>4, <2>6, <2>7, StartAllKeeps
  <2>9. \A s \in Streams : s \notin xoff_received => Settled(f, s)
    BY <2>6, <2>7, <2>8
  <2>10. \A s \in Streams : s \in xoff_received => ~g.reading[s]
    BY <1>0, <1>9, <2>2 DEF Fine
  <2>11. Fine(f, xoff_received, read_blocked_on_bw)
    BY <2>2, <2>4, <2>5, <2>8, <2>9, <2>10, FineSettled
  <2>12. CellsCounted(g, source, wire, outbuf) /\ Balanced(g, wire, unacked, toEdge)
    BY <1>13, <1>14, <2>2 DEF CellsCounted, Balanced
  <2> QED BY <1>0, <1>1, <1>3, <1>4, <1>11, <1>12, <2>2, <2>8, <2>11, <2>12, EdgeMoves
<1> QED BY <1>15, <1>16

(* What the cells that travel to the sender acknowledge.                   *)
LEMMA AcksWeigh ==
  /\ \A c \in EdgeCells : Acks[c] \in Nat
  /\ <<"SENDME">> \in EdgeCells /\ Acks[<<"SENDME">>] = Inc
  /\ \A s \in Streams : /\ Xoff(s) \in EdgeCells /\ Acks[Xoff(s)] = 0
                        /\ Xon(s) \in EdgeCells /\ Acks[Xon(s)] = 0
<1>1. Inc \in Nat
  BY Constants
<1>2. <<"SENDME">> \in EdgeCells
  BY DEF EdgeCells
<1>3. ASSUME NEW s \in Streams
      PROVE  /\ Xoff(s) \in EdgeCells /\ Xoff(s) # <<"SENDME">>
             /\ Xon(s) \in EdgeCells /\ Xon(s) # <<"SENDME">>
  BY CellsDiffer DEF Xoff, Xon
<1>4. PICK m : m = <<"SENDME">>
  OBVIOUS
<1>5. \A c \in EdgeCells : Acks[c] = IF c = m THEN Inc ELSE 0
  BY <1>4 DEF Acks
<1>6. \A c \in EdgeCells : Acks[c] \in Nat
  BY <1>1, <1>5
<1>7. Acks[m] = Inc
  BY <1>2, <1>4, <1>5
<1>8. ASSUME NEW s \in Streams PROVE Acks[Xoff(s)] = 0 /\ Acks[Xon(s)] = 0
  BY <1>3, <1>4, <1>5
<1> QED BY <1>2, <1>3, <1>4, <1>6, <1>7, <1>8

(* What the streams' cells tell.                                            *)
LEMMA CellsTell ==
  ASSUME NEW s \in Streams, NEW b
  PROVE  /\ Tells(<<"SENDME">>, s, b) = b /\ <<"SENDME">> # Xoff(s)
         /\ \A t \in Streams :
              /\ Tells(Xoff(t), s, b) = (IF s = t THEN "XOFF" ELSE b)
              /\ Tells(Xon(t), s, b) = (IF s = t THEN "XON" ELSE b)
              /\ Xoff(t) = Xoff(s) => s = t
              /\ Xon(t) # Xoff(s)
<1>1. <<"SENDME">> # Xoff(s) /\ <<"SENDME">> # Xon(s)
  BY CellsDiffer DEF Xoff, Xon
<1>2. Tells(<<"SENDME">>, s, b) = b
  <2>1. PICK m : m = <<"SENDME">>
    OBVIOUS
  <2>2. m # Xoff(s) /\ m # Xon(s)
    BY <1>1, <2>1
  <2>3. Tells(m, s, b) = b
    BY <2>2 DEF Tells
  <2> QED BY <2>1, <2>3
<1>3. ASSUME NEW t \in Streams
      PROVE  /\ Tells(Xoff(t), s, b) = (IF s = t THEN "XOFF" ELSE b)
             /\ Tells(Xon(t), s, b) = (IF s = t THEN "XON" ELSE b)
             /\ Xoff(t) = Xoff(s) => s = t
             /\ Xon(t) # Xoff(s)
  <2>1. /\ Xoff(t) = Xoff(s) => s = t
        /\ Xon(t) = Xon(s) => s = t
        /\ Xon(t) # Xoff(s) /\ Xoff(t) # Xon(s)
    BY CellsDiffer DEF Xoff, Xon
  <2>2. Tells(Xoff(t), s, b) = (IF s = t THEN "XOFF" ELSE b)
    BY <2>1 DEF Tells
  <2>3. Tells(Xon(t), s, b) = (IF s = t THEN "XON" ELSE b)
    BY <2>1 DEF Tells
  <2> QED BY <2>1, <2>2, <2>3
<1> QED BY <1>1, <1>2, <1>3

(* What a cell of one stream tells another.                                *)
LEMMA StreamCellsTell ==
  ASSUME NEW s \in Streams, NEW t \in Streams, NEW b
  PROVE  /\ Tells(Xoff(s), t, b) = (IF t = s THEN "XOFF" ELSE b)
         /\ Tells(Xon(s), t, b) = (IF t = s THEN "XON" ELSE b)
<1>1. \A u \in Streams : /\ Tells(Xoff(u), t, b) = (IF t = u THEN "XOFF" ELSE b)
                         /\ Tells(Xon(u), t, b) = (IF t = u THEN "XON" ELSE b)
  BY CellsTell
<1> QED BY <1>1

(* The sender takes a cell off what travels to it: an XOFF comes to a      *)
(* stream that was not told to stop, and after it the sender has been      *)
(* told.                                                                   *)
LEMMA BackTake ==
  ASSUME NEW back \in Seq(EdgeCells), back # <<>>, NEW rcvd, NEW sent, AllTold(back, rcvd, sent)
  PROVE  /\ Tail(back) \in Seq(EdgeCells)
         /\ Head(back) = <<"SENDME">> => AllTold(Tail(back), rcvd, sent)
         /\ \A s \in Streams :
              /\ Head(back) = Xoff(s) =>
                   s \notin rcvd /\ AllTold(Tail(back), rcvd \cup {s}, sent)
              /\ Head(back) = Xon(s) => AllTold(Tail(back), rcvd \ {s}, sent)
<1>1. PICK c, q : c = Head(back) /\ q = Tail(back)
  OBVIOUS
<1>2. q \in Seq(EdgeCells) /\ c \in EdgeCells
  BY <1>1, Taken
<1>3. ASSUME NEW t \in Streams
      PROVE  /\ Says(q, t, Tells(c, t, Word(t \in rcvd)), Word(t \in sent))
             /\ c = Xoff(t) => Word(t \in rcvd) = "XON"
  <2>1. Says(back, t, Word(t \in rcvd), Word(t \in sent))
    BY DEF AllTold
  <2>2. PICK a, b : a = Word(t \in rcvd) /\ b = Word(t \in sent)
    OBVIOUS
  <2>3. Says(back, t, a, b)
    BY <2>1, <2>2
  <2>4. Says(Tail(back), t, Tells(Head(back), t, a), b) /\ (Head(back) = Xoff(t) => a = "XON")
    BY <2>3, SaysTake
  <2> QED BY <1>1, <2>2, <2>4
<1>4. ASSUME c = <<"SENDME">> PROVE AllTold(q, rcvd, sent)
  <2>1. ASSUME NEW t \in Streams PROVE Says(q, t, Word(t \in rcvd), Word(t \in sent))
    <3>1. Tells(c, t, Word(t \in rcvd)) = Word(t \in rcvd)
      BY <1>4, CellsTell
    <3> QED BY <1>3, <3>1
  <2> QED BY <2>1 DEF AllTold
<1>5. ASSUME NEW s \in Streams, c = Xoff(s) PROVE s \notin rcvd /\ AllTold(q, rcvd \cup {s}, sent)
  <2>1. s \notin rcvd
    <3>1. Word(s \in rcvd) = "XON"
      BY <1>3, <1>5
    <3> QED BY <3>1 DEF Word
  <2>2. ASSUME NEW t \in Streams PROVE Says(q, t, Word(t \in rcvd \cup {s}), Word(t \in sent))
    <3>1. Tells(c, t, Word(t \in rcvd)) = Word(t \in rcvd \cup {s})
      <4>1. Tells(c, t, Word(t \in rcvd)) = IF t = s THEN "XOFF" ELSE Word(t \in rcvd)
        <5>1. PICK b : b = Word(t \in rcvd)
          OBVIOUS
        <5>2. Tells(Xoff(s), t, b) = IF t = s THEN "XOFF" ELSE b
          BY StreamCellsTell
        <5> QED BY <1>5, <5>1, <5>2
      <4> QED BY <4>1 DEF Word
    <3> QED BY <1>3, <3>1
  <2> QED BY <2>1, <2>2 DEF AllTold
<1>6. ASSUME NEW s \in Streams, c = Xon(s) PROVE AllTold(q, rcvd \ {s}, sent)
  <2>2. ASSUME NEW t \in Streams PROVE Says(q, t, Word(t \in rcvd \ {s}), Word(t \in sent))
    <3>1. Tells(c, t, Word(t \in rcvd)) = Word(t \in rcvd \ {s})
      <4>1. Tells(c, t, Word(t \in rcvd)) = IF t = s THEN "XON" ELSE Word(t \in rcvd)
        <5>1. PICK b : b = Word(t \in rcvd)
          OBVIOUS
        <5>2. Tells(Xon(s), t, b) = IF t = s THEN "XON" ELSE b
          BY StreamCellsTell
        <5> QED BY <1>6, <5>1, <5>2
      <4> QED BY <4>1 DEF Word
    <3> QED BY <1>3, <3>1
  <2> QED BY <2>2 DEF AllTold
<1> QED BY <1>1, <1>2, <1>4, <1>5, <1>6

(* The receiver sends a cell: a SENDME tells no stream anything, an XOFF   *)
(* is sent for a stream that was told nothing, and an XON for any.         *)
LEMMA BackAppend ==
  ASSUME NEW back \in Seq(EdgeCells), NEW rcvd, NEW sent, AllTold(back, rcvd, sent)
  PROVE  /\ AllTold(Append(back, <<"SENDME">>), rcvd, sent)
         /\ \A s \in Streams :
              /\ s \notin sent => AllTold(Append(back, Xoff(s)), rcvd, sent \cup {s})
              /\ AllTold(Append(back, Xon(s)), rcvd, sent \ {s})
<1>1. ASSUME NEW c \in EdgeCells, NEW t \in Streams, c = Xoff(t) => t \notin sent
      PROVE  Says(Append(back, c), t, Word(t \in rcvd), Tells(c, t, Word(t \in sent)))
  <2>1. Says(back, t, Word(t \in rcvd), Word(t \in sent))
    BY DEF AllTold
  <2>2. PICK a, b : a = Word(t \in rcvd) /\ b = Word(t \in sent)
    OBVIOUS
  <2>3. Says(back, t, a, b)
    BY <2>1, <2>2
  <2>4. c = Xoff(t) => b = "XON"
    BY <1>1, <2>2 DEF Word
  <2>5. Says(Append(back, c), t, a, Tells(c, t, b))
    BY <2>3, <2>4, SaysAppend
  <2> QED BY <2>2, <2>5
<1>2. AllTold(Append(back, <<"SENDME">>), rcvd, sent)
  <2>1. PICK m : m = <<"SENDME">>
    OBVIOUS
  <2>2. ASSUME NEW t \in Streams
        PROVE  Says(Append(back, m), t, Word(t \in rcvd), Word(t \in sent))
    <3>1. m \in EdgeCells /\ m # Xoff(t) /\ Tells(m, t, Word(t \in sent)) = Word(t \in sent)
      BY <2>1, AcksWeigh, CellsTell
    <3>2. Says(Append(back, m), t, Word(t \in rcvd), Tells(m, t, Word(t \in sent)))
      BY <1>1, <3>1
    <3> QED BY <3>1, <3>2
  <2>3. AllTold(Append(back, m), rcvd, sent)
    BY <2>2 DEF AllTold
  <2> QED BY <2>1, <2>3
<1>3. ASSUME NEW s \in Streams, s \notin sent
      PROVE  AllTold(Append(back, Xoff(s)), rcvd, sent \cup {s})
  <2>2. ASSUME NEW t \in Streams
        PROVE  Says(Append(back, Xoff(s)), t, Word(t \in rcvd), Word(t \in sent \cup {s}))
    <3>1. Xoff(s) \in EdgeCells /\ (Xoff(s) = Xoff(t) => t \notin sent)
      BY <1>3, AcksWeigh, CellsTell
    <3>2. Tells(Xoff(s), t, Word(t \in sent)) = Word(t \in sent \cup {s})
      <4>1. Tells(Xoff(s), t, Word(t \in sent)) = IF t = s THEN "XOFF" ELSE Word(t \in sent)
        <5>1. PICK b : b = Word(t \in sent)
          OBVIOUS
        <5>2. Tells(Xoff(s), t, b) = IF t = s THEN "XOFF" ELSE b
          BY StreamCellsTell
        <5> QED BY <5>1, <5>2
      <4> QED BY <4>1 DEF Word
    <3>3. Says(Append(back, Xoff(s)), t, Word(t \in rcvd), Tells(Xoff(s), t, Word(t \in sent)))
      BY <1>1, <3>1
    <3> QED BY <3>2, <3>3
  <2> QED BY <2>2 DEF AllTold
<1>4. ASSUME NEW s \in Streams PROVE AllTold(Append(back, Xon(s)), rcvd, sent \ {s})
  <2>2. ASSUME NEW t \in Streams
        PROVE  Says(Append(back, Xon(s)), t, Word(t \in rcvd), Word(t \in sent \ {s}))
    <3>1. Xon(s) \in EdgeCells /\ Xon(s) # Xoff(t)
      BY AcksWeigh, CellsTell
    <3>2. Tells(Xon(s), t, Word(t \in sent)) = Word(t \in sent \ {s})
      <4>1. Tells(Xon(s), t, Word(t \in sent)) = IF t = s THEN "XON" ELSE Word(t \in sent)
        BY CellsTell
      <4> QED BY <4>1 DEF Word
    <3>3. Says(Append(back, Xon(s)), t, Word(t \in rcvd), Tells(Xon(s), t, Word(t \in sent)))
      BY <1>1, <3>1
    <3> QED BY <3>2, <3>3
  <2> QED BY <2>2 DEF AllTold
<1> QED BY <1>2, <1>3, <1>4

(* An XON or an XOFF gives nothing back to the window.                     *)
LEMMA BalancedTake ==
  ASSUME NEW e, NEW wire, NEW un, NEW back \in Seq(EdgeCells), back # <<>>,
         NEW s \in Streams, Head(back) \in {Xoff(s), Xon(s)}, Balanced(e, wire, un, back)
  PROVE  Balanced(e, wire, un, Tail(back))
<1>1. PICK d : Tally(back, Acks, d) /\ e.window + Len(e.queue) + Len(wire) + un + d = Cwnd
  BY DEF Balanced
<1>2. Acks[Head(back)] = 0
  BY AcksWeigh
<1>3. PICK w : w = Acks
  OBVIOUS
<1>4. \A c \in EdgeCells : w[c] \in Nat
  BY <1>3, AcksWeigh
<1>5. Tally(back, w, d) /\ w[Head(back)] = 0
  BY <1>1, <1>2, <1>3
<1>6. Tally(Tail(back), w, d - w[Head(back)]) /\ d \in Nat
  BY <1>4, <1>5, TallyTake, TallyNat
<1>7. d - w[Head(back)] = d
  BY <1>5, <1>6
<1>8. Tally(Tail(back), Acks, d)
  BY <1>3, <1>6, <1>7
<1> QED BY <1>1, <1>8 DEF Balanced

(* A SENDME gives the window an increment and starts the streams           *)
(* (process_sendme_cell).                                                  *)
LEMMA SendmeKeeps ==
  ASSUME EdgeInv, process_sendme_cell
  PROVE  EdgeInv'
<1>0. /\ TypeOK
      /\ toEdge \in Seq(EdgeCells)
      /\ CellsCounted(edge, source, toExit, outbuf)
      /\ Balanced(edge, toExit, unacked, toEdge)
      /\ AllTold(toEdge, xoff_received, xoff_sent)
      /\ Fine(edge, xoff_received, read_blocked_on_bw)
  BY Unfolded
<1>1. /\ edge \in EdgeType
      /\ source \in [Streams -> Nat] /\ outbuf \in [Streams -> Nat]
      /\ source \in [Streams -> 0 .. Data] /\ outbuf \in [Streams -> 0 .. Data]
      /\ toExit \in Seq(Streams) /\ Len(toExit) \in Nat
      /\ unacked \in Nat /\ unacked <= Inc - 1
      /\ xoff_received \subseteq Streams /\ read_blocked_on_bw \subseteq Streams
      /\ xoff_sent \subseteq Streams
  BY <1>0, EdgeTypes
<1>2. PICK e : e = [edge EXCEPT !.window = @ + Inc]
  OBVIOUS
<1>3. PICK f, back : f = edge' /\ back = toEdge'
  OBVIOUS
<1>4. /\ toEdge # <<>> /\ Head(toEdge) = <<"SENDME">>
      /\ f \in circuit_resume_edge_reading(e)
      /\ back = Tail(toEdge)
      /\ UNCHANGED <<source, xoff_received, read_blocked_on_bw, toExit, outbuf, xoff_sent,
                     unacked>>
  BY <1>2, <1>3 DEF process_sendme_cell
<1>5. PICK d : /\ Tally(toEdge, Acks, d)
               /\ edge.window + Len(edge.queue) + Len(toExit) + unacked + d = Cwnd
  BY <1>0 DEF Balanced
<1>6. PICK w : w = Acks
  OBVIOUS
<1>7. (\A c \in EdgeCells : w[c] \in Nat) /\ w[Head(toEdge)] = Inc /\ Inc \in Nat
  BY <1>4, <1>6, AcksWeigh, Constants
<1>8. d >= w[Head(toEdge)] /\ Tally(Tail(toEdge), w, d - w[Head(toEdge)]) /\ d \in Nat
  BY <1>0, <1>4, <1>5, <1>6, <1>7, TallyTake, TallyNat
<1>9. PICK x \in Nat, y \in Nat, z \in Nat, u \in Nat, k \in Nat :
        /\ x = edge.window /\ y = Len(edge.queue) /\ z = Len(toExit) /\ u = unacked /\ k = d
  BY <1>1, <1>8, EdgeFields
<1>10. x + y + z + u + k = Cwnd /\ k >= Inc /\ Tally(Tail(toEdge), Acks, k - Inc)
  BY <1>5, <1>6, <1>7, <1>8, <1>9
<1>11. PICK v : v = x + Inc
  OBVIOUS
<1>12. v \in 0 .. Cwnd /\ v + y + z + u + (k - Inc) = Cwnd
  <2>1. Inc \in Nat /\ Cwnd \in Nat
    BY Constants
  <2> QED BY <1>10, <1>11, <2>1
<1>13. e = [edge EXCEPT !.window = v]
  BY <1>2, <1>9, <1>11
<1>14. /\ e \in EdgeType
       /\ e.queue = edge.queue /\ e.window = v /\ e.blocked = edge.blocked
       /\ e.reading = edge.reading /\ e.inbuf = edge.inbuf
  BY <1>1, <1>12, <1>13, SetWindow
<1>15. /\ Packs(e, f, xoff_received)
       /\ \A s \in Streams : s \notin xoff_received => Settled(f, s)
  BY <1>4, <1>14, ResumeKeeps
<1>16. Balanced(e, toExit, unacked, back)
  <2>1. e.window + Len(e.queue) + Len(toExit) + unacked + (k - Inc) = Cwnd
    BY <1>9, <1>12, <1>14
  <2> QED BY <1>4, <1>10, <2>1 DEF Balanced
<1>17. CellsCounted(e, source, toExit, outbuf)
  BY <1>0, <1>14 DEF CellsCounted
<1>18. AllTold(back, xoff_received, xoff_sent) /\ back \in Seq(EdgeCells)
  BY <1>0, <1>4, BackTake
<1>19. Tidy(e) /\ Marked(e) /\ \A s \in Streams : s \in xoff_received => ~e.reading[s]
  BY <1>0, <1>14 DEF Fine, Tidy, Marked
<1>20. Fine(f, xoff_received, read_blocked_on_bw)
  BY <1>14, <1>15, <1>19, FineSettled
<1> QED BY <1>0, <1>1, <1>3, <1>4, <1>14, <1>15, <1>16, <1>17, <1>18, <1>20, EdgeMoves

(* An XOFF stops the stream (circuit_process_stream_xoff).                 *)
LEMMA XoffKeeps ==
  ASSUME EdgeInv, NEW s \in Streams, circuit_process_stream_xoff(s)
  PROVE  EdgeInv'
<1>0. /\ TypeOK
      /\ toEdge \in Seq(EdgeCells)
      /\ CellsCounted(edge, source, toExit, outbuf)
      /\ Balanced(edge, toExit, unacked, toEdge)
      /\ AllTold(toEdge, xoff_received, xoff_sent)
      /\ Fine(edge, xoff_received, read_blocked_on_bw)
  BY Unfolded
<1>1. /\ edge \in EdgeType
      /\ source \in [Streams -> Nat] /\ outbuf \in [Streams -> Nat]
      /\ source \in [Streams -> 0 .. Data] /\ outbuf \in [Streams -> 0 .. Data]
      /\ toExit \in Seq(Streams) /\ Len(toExit) \in Nat
      /\ unacked \in Nat /\ unacked <= Inc - 1
      /\ xoff_received \subseteq Streams /\ read_blocked_on_bw \subseteq Streams
      /\ xoff_sent \subseteq Streams
  BY <1>0, EdgeTypes
<1>2. PICK f, back, rcvd : f = edge' /\ back = toEdge' /\ rcvd = xoff_received'
  OBVIOUS
<1>3. /\ toEdge # <<>> /\ Head(toEdge) = Xoff(s)
      /\ IF s \in xoff_received THEN UNCHANGED <<edge, xoff_received>>
         ELSE /\ edge' = [edge EXCEPT !.reading[s] = FALSE]
              /\ xoff_received' = xoff_received \cup {s}
      /\ toEdge' = Tail(toEdge)
      /\ UNCHANGED <<source, read_blocked_on_bw, toExit, outbuf, xoff_sent, unacked>>
  BY DEF circuit_process_stream_xoff, Xoff
<1>4. back = Tail(toEdge)
  BY <1>2, <1>3
<1>5. s \notin xoff_received /\ AllTold(back, xoff_received \cup {s}, xoff_sent)
      /\ back \in Seq(EdgeCells)
  BY <1>0, <1>3, <1>4, BackTake
<1>6. f = [edge EXCEPT !.reading[s] = FALSE] /\ rcvd = xoff_received \cup {s}
  BY <1>2, <1>3, <1>5
<1>7. PICK x : x = [edge.reading EXCEPT ![s] = FALSE]
  OBVIOUS
<1>8. edge.reading \in [Streams -> BOOLEAN]
  BY <1>1, EdgeFields
<1>9. x \in [Streams -> BOOLEAN] /\ \A t \in Streams : x[t] <=> edge.reading[t] /\ t # s
  BY <1>7, <1>8
<1>10. f = [edge EXCEPT !.reading = x]
  BY <1>6, <1>7
<1>11. /\ f \in EdgeType
       /\ f.queue = edge.queue /\ f.window = edge.window /\ f.blocked = edge.blocked
       /\ f.reading = x /\ f.inbuf = edge.inbuf
  BY <1>1, <1>9, <1>10, SetReads
<1>12. Packs(f, f, rcvd)
  BY <1>11, PacksSelf
<1>13. CellsCounted(f, source, toExit, outbuf)
  BY <1>0, <1>11 DEF CellsCounted
<1>14. Balanced(f, toExit, unacked, back)
  <2>1. Balanced(edge, toExit, unacked, back)
    BY <1>0, <1>3, <1>4, BalancedTake
  <2> QED BY <1>11, <2>1 DEF Balanced
<1>15. Fine(f, rcvd, read_blocked_on_bw)
  <2>1. Tidy(f) /\ Marked(f)
    BY <1>0, <1>9, <1>11 DEF Fine, Tidy, Marked
  <2>2. ASSUME NEW t \in Streams
        PROVE  /\ t \in rcvd => ~f.reading[t]
               /\ Awake(f, t) \/ t \in rcvd \/ t \in read_blocked_on_bw
               /\ Clean(f, t) \/ t \in rcvd
    BY <1>0, <1>6, <1>9, <1>11 DEF Fine, Awake, Clean, Waits
  <2> QED BY <2>1, <2>2 DEF Fine
<1>16. rcvd \subseteq Streams
  BY <1>1, <1>6
<1>17. AllTold(back, rcvd, xoff_sent)
  BY <1>5, <1>6
<1> QED BY <1>1, <1>2, <1>3, <1>5, <1>11, <1>12, <1>13, <1>14, <1>15, <1>16, <1>17, EdgeMoves

(* An XON starts the stream, and packages what it has                      *)
(* (circuit_process_stream_xon).                                           *)
LEMMA XonKeeps ==
  ASSUME EdgeInv, NEW s \in Streams, circuit_process_stream_xon(s)
  PROVE  EdgeInv'
<1>0. /\ TypeOK
      /\ toEdge \in Seq(EdgeCells)
      /\ CellsCounted(edge, source, toExit, outbuf)
      /\ Balanced(edge, toExit, unacked, toEdge)
      /\ AllTold(toEdge, xoff_received, xoff_sent)
      /\ Fine(edge, xoff_received, read_blocked_on_bw)
  BY Unfolded
<1>1. /\ edge \in EdgeType
      /\ source \in [Streams -> Nat] /\ outbuf \in [Streams -> Nat]
      /\ source \in [Streams -> 0 .. Data] /\ outbuf \in [Streams -> 0 .. Data]
      /\ toExit \in Seq(Streams) /\ Len(toExit) \in Nat
      /\ unacked \in Nat /\ unacked <= Inc - 1
      /\ xoff_received \subseteq Streams /\ read_blocked_on_bw \subseteq Streams
      /\ xoff_sent \subseteq Streams
  BY <1>0, EdgeTypes
<1>2. PICK f, back, rcvd : f = edge' /\ back = toEdge' /\ rcvd = xoff_received'
  OBVIOUS
<1>3. /\ toEdge # <<>> /\ Head(toEdge) = Xon(s)
      /\ rcvd = xoff_received \ {s}
      /\ f = IF s \in xoff_received THEN connection_start_reading(edge, s, rcvd) ELSE edge
      /\ back = Tail(toEdge)
      /\ UNCHANGED <<source, read_blocked_on_bw, toExit, outbuf, xoff_sent, unacked>>
  BY <1>2 DEF circuit_process_stream_xon, Xon
<1>4. AllTold(back, rcvd, xoff_sent) /\ back \in Seq(EdgeCells)
  BY <1>0, <1>3, BackTake
<1>5. /\ Packs(edge, f, rcvd)
      /\ s \in xoff_received => Settled(f, s)
  <2>1. CASE s \in xoff_received
    <3>1. f = connection_start_reading(edge, s, rcvd) /\ s \notin rcvd
      BY <1>3, <2>1
    <3> QED BY <1>1, <3>1, StartKeeps DEF Settled
  <2>2. CASE s \notin xoff_received
    BY <1>1, <1>3, <2>2, PacksSelf
  <2> QED BY <2>1, <2>2
<1>6. Balanced(edge, toExit, unacked, back)
  BY <1>0, <1>3, BalancedTake
<1>7. Fine(f, rcvd, read_blocked_on_bw)
  <2>1. Tidy(f) /\ Marked(f)
    BY <1>0, <1>5 DEF Fine, Packs
  <2>2. ASSUME NEW t \in Streams
        PROVE  /\ t \in rcvd => ~f.reading[t]
               /\ Awake(f, t) \/ t \in rcvd \/ t \in read_blocked_on_bw
               /\ Clean(f, t) \/ t \in rcvd
    <3>1. t \in rcvd => ~f.reading[t]
      BY <1>0, <1>3, <1>5 DEF Fine, Packs
    <3>2. /\ Awake(edge, t) => Awake(f, t)
          /\ Clean(edge, t) => Clean(f, t)
      BY <1>1, <1>5, PacksSettled
    <3>3. /\ Awake(edge, t) \/ t \in xoff_received \/ t \in read_blocked_on_bw
          /\ Clean(edge, t) \/ t \in xoff_received
      BY <1>0 DEF Fine
    <3> QED BY <1>3, <1>5, <3>1, <3>2, <3>3 DEF Settled
  <2> QED BY <2>1, <2>2 DEF Fine
<1>8. rcvd \subseteq Streams
  BY <1>1, <1>3
<1> QED BY <1>0, <1>1, <1>2, <1>3, <1>4, <1>5, <1>6, <1>7, <1>8, EdgeMoves

(* A data cell arrives: the receiver may send an XOFF for its stream, and  *)
(* owes a SENDME when a whole increment has arrived (DataArrives).         *)
LEMMA ArrivesKeeps ==
  ASSUME EdgeInv, DataArrives
  PROVE  EdgeInv'
<1>0. /\ TypeOK
      /\ toEdge \in Seq(EdgeCells)
      /\ CellsCounted(edge, source, toExit, outbuf)
      /\ Balanced(edge, toExit, unacked, toEdge)
      /\ AllTold(toEdge, xoff_received, xoff_sent)
      /\ Fine(edge, xoff_received, read_blocked_on_bw)
  BY Unfolded
<1>1. /\ edge \in EdgeType
      /\ source \in [Streams -> Nat] /\ outbuf \in [Streams -> Nat]
      /\ source \in [Streams -> 0 .. Data] /\ outbuf \in [Streams -> 0 .. Data]
      /\ toExit \in Seq(Streams) /\ Len(toExit) \in Nat
      /\ unacked \in Nat /\ unacked <= Inc - 1
      /\ xoff_received \subseteq Streams /\ read_blocked_on_bw \subseteq Streams
      /\ xoff_sent \subseteq Streams
  BY <1>0, EdgeTypes
<1>2. PICK s : s = Head(toExit)
  OBVIOUS
<1>3. PICK ack, xoff : /\ ack = IF unacked + 1 = Inc THEN <<<<"SENDME">>>> ELSE <<>>
                       /\ xoff = flow_control_decide_xoff(s, outbuf[s])
  OBVIOUS
<1>4. /\ toExit # <<>>
      /\ toExit' = Tail(toExit)
      /\ outbuf' = [outbuf EXCEPT ![s] = @ + 1]
      /\ unacked' = (IF unacked + 1 = Inc THEN 0 ELSE unacked + 1)
      /\ xoff_sent' = (IF xoff = <<>> THEN xoff_sent ELSE xoff_sent \cup {s})
      /\ toEdge' = toEdge \o ack \o xoff
      /\ UNCHANGED <<source, edge, xoff_received, read_blocked_on_bw>>
  BY <1>2, <1>3 DEF DataArrives
<1>5. /\ Tail(toExit) \in Seq(Streams) /\ Len(Tail(toExit)) = Len(toExit) - 1
      /\ Len(toExit) \in Nat \ {0} /\ s \in Streams
  BY <1>1, <1>2, <1>4, Taken
<1>6. PICK wire, out, un, back, sent :
        wire = toExit' /\ out = outbuf' /\ un = unacked' /\ back = toEdge' /\ sent = xoff_sent'
  OBVIOUS
(* The receiver's buffer. *)
<1>7. out \in [Streams -> Nat] /\ out[s] = outbuf[s] + 1
      /\ \A t \in Streams \ {s} : out[t] = outbuf[t]
  BY <1>1, <1>4, <1>5, <1>6, SMTT(30)
<1>8. ASSUME NEW t \in Streams
      PROVE  /\ \E a, b : /\ Tally(edge.queue, OneOf(t), a) /\ Tally(wire, OneOf(t), b)
                          /\ source[t] + edge.inbuf[t] + a + b + out[t] <= Data
             /\ out[t] <= Data
  <2>1. PICK a, b : /\ Tally(edge.queue, OneOf(t), a) /\ Tally(toExit, OneOf(t), b)
                    /\ source[t] + edge.inbuf[t] + a + b + outbuf[t] <= Data
    BY <1>0 DEF CellsCounted
  <2>2. PICK w : w = OneOf(t)
    OBVIOUS
  <2>3. w[s] = (IF s = t THEN 1 ELSE 0) /\ \A c \in Streams : w[c] \in Nat
    BY <1>5, <2>2 DEF OneOf
  <2>4. PICK k \in Nat : k = w[s]
    BY <1>5, <2>3
  <2>5. b >= k /\ Tally(Tail(toExit), w, b - k)
    BY <1>1, <1>2, <1>4, <2>1, <2>2, <2>3, <2>4, TallyTake
  <2>6. a \in Nat /\ b \in Nat
    BY <1>1, <2>1, TallyNat, EdgeFields
  <2>7. out[t] = outbuf[t] + k
    <3>1. CASE t = s
      BY <1>7, <2>3, <2>4, <3>1
    <3>2. CASE t # s
      <4>1. k = 0 /\ out[t] = outbuf[t] /\ outbuf[t] \in Nat
        BY <1>1, <1>7, <2>3, <2>4, <3>2
      <4> QED BY <4>1
    <3> QED BY <3>1, <3>2
  <2>8. PICK x \in Nat, y \in Nat, z \in Nat, i \in Nat, j \in Nat :
          x = source[t] /\ y = edge.inbuf[t] /\ z = outbuf[t] /\ i = a /\ j = b
    BY <1>1, <2>6, EdgeFields
  <2>9. x + y + i + j + z <= Data /\ Data \in Nat /\ j >= k
    BY <2>1, <2>5, <2>8, Constants
  <2>10. x + y + i + (j - k) + (z + k) <= Data /\ z + k <= Data
    BY <2>9
  <2>11. source[t] + edge.inbuf[t] + a + (b - k) + out[t] <= Data /\ out[t] <= Data
    BY <2>7, <2>8, <2>10
  <2> QED BY <1>4, <1>6, <2>1, <2>2, <2>5, <2>11
<1>9. CellsCounted(edge, source, wire, out)
  BY <1>8 DEF CellsCounted
<1>10. out \in [Streams -> 0 .. Data]
  <2>1. \A t \in Streams : out[t] \in 0 .. Data
    BY <1>7, <1>8, Constants
  <2> QED BY <1>7, <2>1
(* The cells that go back. *)
<1>11. PICK q : q = IF unacked + 1 = Inc THEN Append(toEdge, <<"SENDME">>) ELSE toEdge
  OBVIOUS
<1>12. toEdge \o ack = q
  <2>1. CASE unacked + 1 = Inc
    <3>1. PICK m : m = <<"SENDME">>
      OBVIOUS
    <3>2. m \in EdgeCells
      BY <3>1, AcksWeigh
    <3>3. ack = <<m>> /\ q = Append(toEdge, m)
      BY <1>3, <1>11, <2>1, <3>1
    <3>4. toEdge \o <<m>> = Append(toEdge, m)
      BY <1>0, <3>2
    <3> QED BY <3>3, <3>4
  <2>2. CASE unacked + 1 # Inc
    <3>1. ack = <<>> /\ q = toEdge
      BY <1>3, <1>11, <2>2
    <3>2. toEdge \o <<>> = toEdge
      BY <1>0
    <3> QED BY <3>1, <3>2
  <2> QED BY <2>1, <2>2
<1>13. /\ q \in Seq(EdgeCells) /\ AllTold(q, xoff_received, xoff_sent)
       /\ \E d : /\ Tally(q, Acks, d) /\ un \in Nat /\ un <= Inc - 1
                 /\ edge.window + Len(edge.queue) + Len(wire) + un + d = Cwnd
  <2>1. PICK d : /\ Tally(toEdge, Acks, d)
                 /\ edge.window + Len(edge.queue) + Len(toExit) + unacked + d = Cwnd
    BY <1>0 DEF Balanced
  <2>2. d \in Nat
    BY <1>0, <2>1, TallyNat
  <2>3. PICK x \in Nat, y \in Nat, z \in Nat, u \in Nat, k \in Nat :
          /\ x = edge.window /\ y = Len(edge.queue) /\ z = Len(toExit) /\ u = unacked /\ k = d
    BY <1>1, <2>2, EdgeFields
  <2>4. Len(wire) = z - 1 /\ x + y + z + u + k = Cwnd /\ Inc \in Nat /\ u <= Inc - 1
    BY <1>1, <1>4, <1>5, <1>6, <2>1, <2>3, Constants
  <2>5. CASE u + 1 = Inc
    <3>1. q = Append(toEdge, <<"SENDME">>) /\ un = 0
      BY <1>4, <1>6, <1>11, <2>3, <2>5
    <3>2. AllTold(q, xoff_received, xoff_sent)
      BY <1>0, <3>1, BackAppend
    <3>3. q \in Seq(EdgeCells)
      BY <1>0, <3>1, AcksWeigh, Appended
    <3>4. Tally(q, Acks, k + Inc)
      <4>1. PICK w, m : w = Acks /\ m = <<"SENDME">>
        OBVIOUS
      <4>2. m \in EdgeCells /\ w[m] = Inc /\ w[m] \in Nat
        BY <4>1, AcksWeigh
      <4>3. Tally(Append(toEdge, m), w, k + w[m])
        BY <1>0, <2>1, <2>3, <4>1, <4>2, TallyAppend
      <4> QED BY <3>1, <4>1, <4>2, <4>3
    <3>5. x + y + (z - 1) + 0 + (k + Inc) = Cwnd /\ 0 <= Inc - 1
      BY <2>4, <2>5
    <3> QED BY <2>3, <2>4, <3>1, <3>2, <3>3, <3>4, <3>5
  <2>6. CASE u + 1 # Inc
    <3>1. q = toEdge /\ un = u + 1
      BY <1>4, <1>6, <1>11, <2>3, <2>6
    <3>2. x + y + (z - 1) + (u + 1) + k = Cwnd /\ u + 1 <= Inc - 1
      BY <2>4, <2>6
    <3>3. Tally(q, Acks, k)
      BY <2>1, <2>3, <3>1
    <3> QED BY <1>0, <2>3, <2>4, <3>1, <3>2, <3>3
  <2> QED BY <2>5, <2>6
<1>14. un \in 0 .. Inc - 1
  BY <1>13, Constants
<1>15. /\ back \in Seq(EdgeCells) /\ AllTold(back, xoff_received, sent)
       /\ Balanced(edge, wire, un, back) /\ sent \subseteq Streams
  <2>1. back = q \o xoff
    BY <1>4, <1>6, <1>12
  <2>2. CASE outbuf[s] > XoffLimit /\ s \notin xoff_sent
    <3>1. PICK m : m = Xoff(s)
      OBVIOUS
    <3>2. xoff = <<m>>
      BY <1>3, <2>2, <3>1 DEF flow_control_decide_xoff, Xoff
    <3>3. m \in EdgeCells /\ Acks[m] = 0
      BY <1>5, <3>1, AcksWeigh
    <3>4. back = Append(q, m)
      BY <1>13, <2>1, <3>2, <3>3
    <3>5. sent = xoff_sent \cup {s}
      <4>1. xoff # <<>>
        BY <3>2
      <4> QED BY <1>4, <1>6, <4>1
    <3>6. AllTold(back, xoff_received, sent)
      BY <1>5, <1>13, <2>2, <3>1, <3>4, <3>5, BackAppend
    <3>7. back \in Seq(EdgeCells)
      BY <1>13, <3>3, <3>4, Appended
    <3>8. PICK d : /\ Tally(q, Acks, d)
                   /\ edge.window + Len(edge.queue) + Len(wire) + un + d = Cwnd
      BY <1>13
    <3>9. Tally(back, Acks, d)
      <4>1. PICK w : w = Acks
        OBVIOUS
      <4>2. Tally(Append(q, m), w, d + w[m]) /\ d \in Nat
        <5>1. w[m] \in Nat /\ Tally(q, w, d)
          BY <3>3, <3>8, <4>1
        <5> QED BY <1>13, <3>3, <5>1, TallyAppend, TallyNat
      <4>3. d + w[m] = d
        BY <3>3, <4>1, <4>2
      <4> QED BY <3>4, <4>1, <4>2, <4>3
    <3> QED BY <1>1, <1>5, <3>5, <3>6, <3>7, <3>8, <3>9 DEF Balanced
  <2>3. CASE ~(outbuf[s] > XoffLimit /\ s \notin xoff_sent)
    <3>1. xoff = <<>>
      BY <1>3, <2>3 DEF flow_control_decide_xoff
    <3>2. back = q
      BY <1>13, <2>1, <3>1
    <3>3. sent = xoff_sent
      BY <1>4, <1>6, <3>1
    <3> QED BY <1>1, <1>13, <3>2, <3>3 DEF Balanced
  <2> QED BY <2>2, <2>3
<1>16. TypeOK'
  <2>1. wire \in Seq(Streams)
    BY <1>4, <1>5, <1>6
  <2> QED BY <1>0, <1>4, <1>6, <1>10, <1>14, <1>15, <2>1 DEF TypeOK
<1> QED BY <1>0, <1>4, <1>6, <1>9, <1>15, <1>16, Folded

(* The receiver writes data out, and sends an XON once nothing is left of  *)
(* a stopped stream (flow_control_decide_xon).                             *)
LEMMA WriteKeeps ==
  ASSUME EdgeInv, NEW s \in Streams, flow_control_decide_xon(s)
  PROVE  EdgeInv'
<1>0. /\ TypeOK
      /\ toEdge \in Seq(EdgeCells)
      /\ CellsCounted(edge, source, toExit, outbuf)
      /\ Balanced(edge, toExit, unacked, toEdge)
      /\ AllTold(toEdge, xoff_received, xoff_sent)
      /\ Fine(edge, xoff_received, read_blocked_on_bw)
  BY Unfolded
<1>1. /\ edge \in EdgeType
      /\ source \in [Streams -> Nat] /\ outbuf \in [Streams -> Nat]
      /\ source \in [Streams -> 0 .. Data] /\ outbuf \in [Streams -> 0 .. Data]
      /\ toExit \in Seq(Streams) /\ Len(toExit) \in Nat
      /\ unacked \in Nat /\ unacked <= Inc - 1
      /\ xoff_received \subseteq Streams /\ read_blocked_on_bw \subseteq Streams
      /\ xoff_sent \subseteq Streams
  BY <1>0, EdgeTypes
<1>2. PICK n \in 1 .. outbuf[s] : outbuf' = [outbuf EXCEPT ![s] = @ - n]
  BY DEF flow_control_decide_xon
<1>3. PICK out, back, sent : out = outbuf' /\ back = toEdge' /\ sent = xoff_sent'
  OBVIOUS
<1>4. /\ \/ back = Append(toEdge, Xon(s)) /\ sent = xoff_sent \ {s}
         \/ back = toEdge /\ sent = xoff_sent
      /\ UNCHANGED <<source, edge, xoff_received, read_blocked_on_bw, toExit, unacked>>
  BY <1>3 DEF flow_control_decide_xon, Xon
<1>5. outbuf[s] \in Nat /\ n \in Nat /\ n <= outbuf[s] /\ outbuf[s] <= Data
  BY <1>1, Constants
<1>6. out \in [Streams -> 0 .. Data] /\ out[s] = outbuf[s] - n
      /\ \A t \in Streams \ {s} : out[t] = outbuf[t]
  <2>1. outbuf[s] - n \in 0 .. Data
    BY <1>5, Constants
  <2> QED BY <1>1, <1>2, <1>3, <2>1
<1>7. \A t \in Streams : out[t] <= outbuf[t] /\ out[t] \in Nat /\ outbuf[t] \in Nat
  <2>1. ASSUME NEW t \in Streams PROVE out[t] <= outbuf[t]
    <3>1. outbuf[t] \in Nat
      BY <1>1
    <3>2. CASE t = s
      BY <1>5, <1>6, <3>2
    <3>3. CASE t # s
      BY <1>6, <3>1, <3>3
    <3> QED BY <3>2, <3>3
  <2> QED BY <1>1, <1>6, <2>1, Constants
<1>8. CellsCounted(edge, source, toExit, out)
  <2> SUFFICES ASSUME NEW t \in Streams
               PROVE  \E a, b : /\ Tally(edge.queue, OneOf(t), a) /\ Tally(toExit, OneOf(t), b)
                                /\ source[t] + edge.inbuf[t] + a + b + out[t] <= Data
    BY DEF CellsCounted
  <2>1. PICK a, b : /\ Tally(edge.queue, OneOf(t), a) /\ Tally(toExit, OneOf(t), b)
                    /\ source[t] + edge.inbuf[t] + a + b + outbuf[t] <= Data
    BY <1>0 DEF CellsCounted
  <2>2. a \in Nat /\ b \in Nat
    BY <1>1, <2>1, TallyNat, EdgeFields
  <2>3. PICK x \in Nat, y \in Nat, z \in Nat, i \in Nat, j \in Nat, o \in Nat :
          /\ x = source[t] /\ y = edge.inbuf[t] /\ z = outbuf[t] /\ i = a /\ j = b
          /\ o = out[t]
    BY <1>1, <1>7, <2>2, EdgeFields
  <2>4. x + y + i + j + z <= Data /\ Data \in Nat /\ o <= z
    BY <1>7, <2>1, <2>3, Constants
  <2>5. x + y + i + j + o <= Data
    BY <2>4
  <2> QED BY <2>1, <2>3, <2>5
<1>9. /\ back \in Seq(EdgeCells) /\ AllTold(back, xoff_received, sent)
      /\ Balanced(edge, toExit, unacked, back) /\ sent \subseteq Streams
  <2>1. CASE back = Append(toEdge, Xon(s)) /\ sent = xoff_sent \ {s}
    <3>1. PICK m : m = Xon(s)
      OBVIOUS
    <3>2. m \in EdgeCells /\ Acks[m] = 0
      BY <3>1, AcksWeigh
    <3>3. back = Append(toEdge, m)
      BY <2>1, <3>1
    <3>4. back \in Seq(EdgeCells)
      BY <1>0, <3>2, <3>3, Appended
    <3>5. AllTold(back, xoff_received, sent)
      BY <1>0, <2>1, BackAppend
    <3>6. PICK d : /\ Tally(toEdge, Acks, d)
                   /\ edge.window + Len(edge.queue) + Len(toExit) + unacked + d = Cwnd
      BY <1>0 DEF Balanced
    <3>7. Tally(back, Acks, d)
      <4>1. PICK w : w = Acks
        OBVIOUS
      <4>2. Tally(Append(toEdge, m), w, d + w[m]) /\ d \in Nat
        <5>1. w[m] \in Nat /\ Tally(toEdge, w, d)
          BY <3>2, <3>6, <4>1
        <5> QED BY <1>0, <3>2, <5>1, TallyAppend, TallyNat
      <4>3. d + w[m] = d
        BY <3>2, <4>1, <4>2
      <4> QED BY <3>3, <4>1, <4>2, <4>3
    <3> QED BY <1>1, <2>1, <3>4, <3>5, <3>6, <3>7 DEF Balanced
  <2>2. CASE back = toEdge /\ sent = xoff_sent
    BY <1>0, <1>1, <2>2
  <2> QED BY <1>4, <2>1, <2>2
<1>10. TypeOK'
  BY <1>0, <1>3, <1>4, <1>6, <1>9 DEF TypeOK
<1> QED BY <1>0, <1>3, <1>4, <1>8, <1>9, <1>10, Folded

(* Every step keeps the invariant.                                         *)
LEMMA EdgeStep == ASSUME EdgeInv, [Next]_vars PROVE EdgeInv'
<1>1. CASE DataArrives
  BY <1>1, ArrivesKeeps
<1>2. ASSUME NEW s \in Streams, flow_control_decide_xon(s) PROVE EdgeInv'
  BY <1>2, WriteKeeps
<1>3. ASSUME NEW s \in Streams, circuit_process_stream_xoff(s) PROVE EdgeInv'
  BY <1>3, XoffKeeps
<1>4. ASSUME NEW s \in Streams, circuit_process_stream_xon(s) PROVE EdgeInv'
  BY <1>4, XonKeeps
<1>5. CASE channel_flush_from_first_active_circuit
  BY <1>5, FlushKeeps
<1>6. CASE process_sendme_cell
  BY <1>6, SendmeKeeps
<1>7. ASSUME NEW s \in Streams, connection_handle_read(s) PROVE EdgeInv'
  BY <1>7, ReadKeeps
<1>8. CASE reenable_blocked_connections_cb
  BY <1>8, RefillKeeps
<1>9. ASSUME NEW s \in Streams, connection_read_bw_exhausted(s) PROVE EdgeInv'
  BY <1>9, BandwidthKeeps
<1>10. CASE UNCHANGED vars
  BY <1>10 DEF EdgeInv, TypeOK, vars, CellsCounted, Balanced, AllTold, Fine, Tidy, Marked, Awake, Clean, Waits
<1> QED BY <1>1, <1>2, <1>3, <1>4, <1>5, <1>6, <1>7, <1>8, <1>9, <1>10 DEF Next, Progress

(* The invariant is strong enough.                                         *)
LEMMA EdgeGood == ASSUME EdgeInv PROVE NoStreamLeftBehind
<1>0. /\ TypeOK
      /\ toEdge \in Seq(EdgeCells)
      /\ AllTold(toEdge, xoff_received, xoff_sent)
      /\ Fine(edge, xoff_received, read_blocked_on_bw)
  BY Unfolded
<1>1. ASSUME NEW s \in Streams, toEdge # <<>>, Head(toEdge) = <<"XOFF", s>>
      PROVE  s \notin xoff_received
  <2>1. Head(toEdge) = Xoff(s)
    BY <1>1 DEF Xoff
  <2> QED BY <1>0, <1>1, <2>1, BackTake
<1>2. XoffIsObeyed
  BY <1>0, <1>1 DEF XoffIsObeyed, Fine
<1>3. StoppedForAReason
  BY <1>0 DEF StoppedForAReason, Fine, Awake, Waits
<1>4. NothingLingers
  <2>1. \A s \in Streams : edge.inbuf[s] \in Nat
    BY <1>0, EdgeTypes, EdgeFields
  <2> QED BY <1>0, <2>1 DEF NothingLingers, Fine, Clean, Waits
<1>5. BlockedByQueue
  BY <1>0 DEF BlockedByQueue, Fine, Marked
<1> QED BY <1>0, <1>2, <1>3, <1>4, <1>5 DEF NoStreamLeftBehind

-----------------------------------------------------------------------------
(* The parts of Streams.                                                   *)

(* A behaviour of Streams is one of each of its parts.                     *)
LEMMA EachPartKeepsItsSpec == StreamsSpec => Spec /\ Stream!Spec /\ Controller!Spec
<1>1. StreamsInit => Init /\ Stream!Init /\ Controller!Init
  BY DEF StreamsInit
<1>2. [StreamsNext]_allVars
        => [Next]_vars /\ [Stream!Next]_Stream!vars /\ [Controller!Next]_Controller!vars
  <2> SUFFICES ASSUME [StreamsNext]_allVars
               PROVE  /\ [Next]_vars /\ [Stream!Next]_Stream!vars
                      /\ [Controller!Next]_Controller!vars
    OBVIOUS
  <2>1. ASSUME UNCHANGED streamVars PROVE UNCHANGED Stream!vars
    BY <2>1 DEF streamVars, Stream!vars
  <2>2. ASSUME UNCHANGED controllerVars PROVE UNCHANGED Controller!vars
    BY <2>2 DEF controllerVars, Controller!vars
  <2>3. CASE EdgeSteps /\ Next
    BY <2>1, <2>2, <2>3 DEF EdgeSteps
  <2>4. CASE StreamSteps /\ Stream!Next
    BY <2>2, <2>4 DEF StreamSteps
  <2>5. CASE ControllerSteps /\ Controller!Next
    BY <2>1, <2>5 DEF ControllerSteps
  <2>6. CASE UNCHANGED allVars
    BY <2>1, <2>2, <2>6 DEF allVars
  <2> QED BY <2>3, <2>4, <2>5, <2>6 DEF StreamsNext
<1> QED BY <1>1, <1>2, PTL DEF StreamsSpec, Spec, Stream!Spec, Controller!Spec

(* Whatever round-trip times the SENDMEs of a circuit show, however often  *)
(* its channel blocks and whatever the clock does, the congestion window   *)
(* stays between its limits (congestion_control_vegas.c), and a sender     *)
(* without room in it has a whole increment out, for which the other end   *)
(* owes a SENDME.                                                          *)
THEOREM WindowAlwaysUsable == StreamsSpec => []WindowStaysUsable
<1>1. Controller!Init => Controller!TypeOK /\ Controller!CwndInBounds
  BY StreamsAssumption, WindowStart
<1>2. Controller!TypeOK /\ Controller!CwndInBounds /\ [Controller!Next]_Controller!vars
        => (Controller!TypeOK /\ Controller!CwndInBounds)'
  BY StreamsAssumption, WindowStep
<1>3. Controller!TypeOK /\ Controller!CwndInBounds => WindowStaysUsable
  BY StreamsAssumption, NotStarved DEF WindowStaysUsable
<1> QED BY <1>1, <1>2, <1>3, EachPartKeepsItsSpec, PTL DEF Controller!Spec

(* The two ends of a stream agree on whether it is stopped, for any        *)
(* number of XONs and XOFFs on their way and however often the counters    *)
(* are scaled down; a receiver that stopped the stream has data to write,  *)
(* and buffers at most the limit and a window (flow_control_decide_xoff,   *)
(* flow_control_decide_xon).                                               *)
THEOREM StreamStateAgrees ==
  StreamsSpec => [](/\ Stream!TypeOK /\ Stream!EndsAgree
                    /\ Stream!StoppedWhileBuffering /\ Stream!BufferIsBounded)
<1>1. Stream!Init => EndsInv
  BY StreamsAssumption, EndsStart
<1>2. EndsInv /\ [Stream!Next]_Stream!vars => EndsInv'
  BY StreamsAssumption, EndsStep
<1>3. EndsInv => /\ Stream!TypeOK /\ Stream!EndsAgree
                 /\ Stream!StoppedWhileBuffering /\ Stream!BufferIsBounded
  BY StreamsAssumption, Bounded DEF EndsInv
<1> QED BY <1>1, <1>2, <1>3, EachPartKeepsItsSpec, PTL DEF Stream!Spec

(* Up to the bytes at which the first counter is scaled down, the sender   *)
(* accepts in addition every XON and XOFF of a receiver that runs this     *)
(* code (circuit_process_stream_xoff, circuit_process_stream_xon).         *)
THEOREM StreamEndsAlwaysAgree ==
  ASSUME CountersUnscaled
  PROVE  StreamsSpec => []StreamEndsAgree
<1>1. Stream!Init => ValidInv
  BY StreamsAssumption, ValidStart
<1>2. ValidInv /\ [Stream!Next]_Stream!vars => ValidInv'
  BY StreamsAssumption, CountersUnscaled, ValidStep
<1>3. ValidInv => StreamEndsAgree
  BY StreamsAssumption, Bounded
     DEF ValidInv, EndsInv, StreamEndsAgree, Stream!HonestCellsAreValid
<1> QED BY <1>1, <1>2, <1>3, EachPartKeepsItsSpec, PTL DEF Stream!Spec

(* However the steps of the two ends interleave, for any number of         *)
(* streams and any limits: a stream that is not read waits for a reason    *)
(* that will end, and nothing stays in an input buffer that could be       *)
(* packaged (circuit_resume_edge_reading, connection_start_reading,        *)
(* connection_edge_package_raw_inbuf).                                     *)
THEOREM NoStreamIsLeftBehind == StreamsSpec => []NoStreamLeftBehind
<1>1. Init => EdgeInv
  BY EdgeInit
<1>2. EdgeInv /\ [Next]_vars => EdgeInv'
  BY EdgeStep
<1>3. EdgeInv => NoStreamLeftBehind
  BY EdgeGood
<1> QED BY <1>1, <1>2, <1>3, EachPartKeepsItsSpec, PTL DEF Spec
=============================================================================
