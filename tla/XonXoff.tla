------------------------------- MODULE XonXoff -------------------------------
(***************************************************************************)
(* Stream flow control of one stream in one direction, both of its ends    *)
(* (core/or/congestion_control_flow.c).  The receiver tells the sender to  *)
(* stop when its output buffer is too full, to go on when it has emptied,  *)
(* and sends further XONs when the rate at which the buffer drains has     *)
(* changed.  The sender counts what it sent and how many XOFFs and XONs    *)
(* came back, and complains of cells that the bytes cannot account for;    *)
(* the counters are halved together before they grow too large.            *)
(*                                                                         *)
(* Cells travel in order in each direction.  A rate is a small number, the *)
(* clock and the measured rate are arbitrary: what is kept is when a rate  *)
(* is recomputed, when it counts as changed and when it is forgotten.      *)
(* Every data cell is acknowledged by a SENDME of its own; batches are in  *)
(* CircuitSendme.tla.                                                      *)
(***************************************************************************)
EXTENDS Naturals, Sequences

CONSTANTS Window,           \* cells the congestion window lets out
          MaxCell,          \* bytes of a full cell
          XoffLimit,        \* xoff_client or xoff_exit, the same at both ends
          XonRate,          \* xon_rate_bytes
          Burst,            \* MAX_EXPECTED_CELL_BURST, in bytes
          XoffScaleAt,      \* XOFF_COUNT_SCALE_AT
          XonScaleAt,       \* XON_COUNT_SCALE_AT
          XmitScaleAt,      \* TOTAL_XMIT_SCALE_AT
          DrainedMax,       \* UINT32_MAX
          RateMax,          \* INT32_MAX
          Rates,            \* what compute_drain_rate() may return
          MaxBytes          \* bound on the model: no more is sent beyond it

XonChangePct == 25      \* xon_change_pct
XonEwmaCnt == 2         \* xon_ewma_cnt

Least(a, b) == IF a < b THEN a ELSE b

\* A cell fits the counter of sent bytes, a full output buffer the counter of
\* drained ones.
XonXoffAssumption ==
    /\ {Window, XoffLimit, XonRate, Burst, DrainedMax, RateMax, MaxBytes} \subseteq Nat
    /\ {MaxCell, XoffScaleAt, XonScaleAt, XmitScaleAt} \subseteq Nat \ {0}
    /\ Rates \subseteq 0 .. RateMax
    /\ 2 * MaxCell <= XmitScaleAt
    /\ 2 * (XoffLimit + MaxCell * (Window + 2)) <= DrainedMax

VARIABLES
    snd,      \* the sending edge: its counters and what it was told
    outstanding,  \* data cells whose SENDME has not come back
    data,     \* sizes of the data cells on their way
    rcv,      \* the receiving edge: see Receiver
    ctl,      \* cells on their way back: "SENDME", "XOFF", "XON"
    valid     \* what the last XON or XOFF handler returned

vars == <<snd, outstanding, data, rcv, ctl, valid>>

Receiver ==
    [outbuf : Nat, xoff_sent : BOOLEAN,
     drained_bytes : 0 .. DrainedMax,
     draining : BOOLEAN,                \* drain_start_usec # 0
     ewma_drain_rate : 0 .. RateMax,
     ewma_rate_last_sent : 0 .. RateMax,
     sent : Seq({"SENDME", "XOFF", "XON"})]   \* cells of the current call

Init ==
    /\ snd = [total_bytes_xmit |-> 0, num_xoff_recv |-> 0,
              num_xon_recv |-> 0, xoff_received |-> FALSE]
    /\ outstanding = 0 /\ data = <<>>
    /\ rcv = [outbuf |-> 0, xoff_sent |-> FALSE, drained_bytes |-> 0,
              draining |-> FALSE, ewma_drain_rate |-> 0,
              ewma_rate_last_sent |-> 0, sent |-> <<>>]
    /\ ctl = <<>> /\ valid = TRUE

-----------------------------------------------------------------------------
(* The sender.                                                             *)

ScaledDown(s) ==
    [s EXCEPT !.total_bytes_xmit = @ \div 2, !.num_xoff_recv = @ \div 2,
              !.num_xon_recv = @ \div 2]

flow_control_note_sent_data(s, len) ==
    LET c == IF s.total_bytes_xmit >= XmitScaleAt - len
             THEN ScaledDown(s) ELSE s
    IN [c EXCEPT !.total_bytes_xmit = @ + len]

\* A DATA cell is packaged: the window and the last XOFF allow it.
connection_edge_package(len) ==
    /\ ~ snd.xoff_received /\ outstanding < Window
    /\ snd.total_bytes_xmit + len <= MaxBytes
    /\ snd' = flow_control_note_sent_data(snd, len)
    /\ outstanding' = outstanding + 1
    /\ data' = Append(data, len)
    /\ UNCHANGED <<rcv, ctl, valid>>

circuit_process_stream_xoff(s) ==
    IF s.xoff_received THEN [ok |-> FALSE, edge |-> s]
    ELSE LET c == IF s.num_xoff_recv = XoffScaleAt THEN ScaledDown(s) ELSE s
             n == [c EXCEPT !.num_xoff_recv = @ + 1, !.xoff_received = TRUE]
         IN [ok |-> n.total_bytes_xmit >= XoffLimit * n.num_xoff_recv,
             edge |-> n]

circuit_process_stream_xon(s) ==
    LET c == IF s.num_xon_recv = XonScaleAt THEN ScaledDown(s) ELSE s
        n == [c EXCEPT !.num_xon_recv = @ + 1, !.xoff_received = FALSE]
    IN [ok |-> n.total_bytes_xmit >= Least(XoffLimit, XonRate) * n.num_xon_recv,
        edge |-> n]

ProcessSendme ==
    /\ ctl # <<>> /\ Head(ctl) = "SENDME"
    /\ outstanding' = outstanding - 1
    /\ ctl' = Tail(ctl)
    /\ UNCHANGED <<snd, data, rcv, valid>>

ProcessXoff ==
    /\ ctl # <<>> /\ Head(ctl) = "XOFF"
    /\ LET r == circuit_process_stream_xoff(snd)
       IN snd' = r.edge /\ valid' = r.ok
    /\ ctl' = Tail(ctl)
    /\ UNCHANGED <<outstanding, data, rcv>>

ProcessXon ==
    /\ ctl # <<>> /\ Head(ctl) = "XON"
    /\ LET r == circuit_process_stream_xon(snd)
       IN snd' = r.edge /\ valid' = r.ok
    /\ ctl' = Tail(ctl)
    /\ UNCHANGED <<outstanding, data, rcv>>

-----------------------------------------------------------------------------
(* The receiver.  `reliable' is is_monotime_clock_reliable(), `rate' what  *)
(* compute_drain_rate() returns if it is called.                           *)

circuit_send_stream_xoff(r) ==
    [r EXCEPT !.xoff_sent = TRUE, !.sent = Append(@, "XOFF")]

FaultySendXon(r) ==
    [r EXCEPT !.ewma_rate_last_sent = r.ewma_drain_rate,
              !.sent = Append(@, "XON")]

circuit_send_stream_xon(r) ==
    [r EXCEPT !.ewma_rate_last_sent = r.ewma_drain_rate,
              !.xoff_sent = FALSE, !.sent = Append(@, "XON")]

n_count_ewma(curr, prev) ==
    IF prev = 0 THEN curr
    ELSE (2 * curr + (XonEwmaCnt - 1) * prev) \div (XonEwmaCnt + 1)

stream_drain_rate_changed(r, reliable) ==
    /\ reliable
    /\ r.ewma_rate_last_sent # 0
    /\ \/ r.ewma_drain_rate >
              ((100 + XonChangePct) * r.ewma_rate_last_sent) \div 100
       \/ r.ewma_drain_rate <
              ((100 - XonChangePct) * r.ewma_rate_last_sent) \div 100

\* Count what was written, and note when buffering begins.
Accumulate(r, n_written, reliable) ==
    LET c == IF r.drained_bytes >= DrainedMax - n_written
             THEN r.drained_bytes \div 2 ELSE r.drained_bytes
    IN IF ~ reliable
       THEN [r EXCEPT !.draining = FALSE, !.drained_bytes = 0]
       ELSE IF ~ r.draining /\ r.outbuf > 0
       THEN [r EXCEPT !.draining = TRUE, !.drained_bytes = 0]
       ELSE [r EXCEPT !.drained_bytes = c + n_written]

\* A new rate after xon_rate_bytes, unless the clock gives none.
UpdateRate(r, rate) ==
    IF r.draining /\ r.drained_bytes > XonRate /\ rate # 0
    THEN [r EXCEPT !.ewma_drain_rate = n_count_ewma(rate, @),
                   !.drained_bytes = 0, !.draining = FALSE]
    ELSE r

ConsiderXon(r, reliable) ==
    IF IF r.xoff_sent THEN r.outbuf = 0
                      ELSE stream_drain_rate_changed(r, reliable)
    THEN circuit_send_stream_xon(r) ELSE r

\* An empty buffer ends the measurement; a rate that was kept up is doubled.
Emptied(r) ==
    IF r.outbuf # 0 THEN r
    ELSE IF r.drained_bytes >= XonRate /\ r.ewma_rate_last_sent # 0
    THEN [r EXCEPT !.draining = FALSE, !.drained_bytes = 0,
                   !.ewma_drain_rate = Least(RateMax, 2 * @)]
    ELSE [r EXCEPT !.draining = FALSE]

flow_control_decide_xon(r, n_written, reliable, rate) ==
    Emptied(ConsiderXon(
        UpdateRate(Accumulate(r, n_written, reliable), rate), reliable))

flow_control_decide_xoff(r, reliable, rate) ==
    LET x == IF r.outbuf > XoffLimit /\ ~ r.xoff_sent
             THEN [circuit_send_stream_xoff(r) EXCEPT !.ewma_drain_rate = 0]
             ELSE r
    IN IF r.outbuf > Burst THEN flow_control_decide_xon(x, 0, reliable, rate)
       ELSE x

\* The receiver's call is over: its cells are on their way.
Commit(r) ==
    /\ rcv' = [r EXCEPT !.sent = <<>>]
    /\ ctl' = ctl \o r.sent

\* The XOFF decision comes before the cell is added to the buffer.
DataArrives ==
    /\ data # <<>>
    /\ \E reliable \in BOOLEAN, rate \in Rates :
          LET r == flow_control_decide_xoff(
                       [rcv EXCEPT !.sent = <<"SENDME">>], reliable, rate)
          IN Commit([r EXCEPT !.outbuf = @ + Head(data)])
    /\ data' = Tail(data)
    /\ UNCHANGED <<snd, outstanding, valid>>

\* The socket takes n_written bytes of the output buffer, perhaps none.
connection_handle_write(n_written) ==
    /\ \E reliable \in BOOLEAN, rate \in Rates :
          Commit(flow_control_decide_xon([rcv EXCEPT !.outbuf = @ - n_written],
                                         n_written, reliable, rate))
    /\ UNCHANGED <<snd, outstanding, data, valid>>

Next ==
    \/ \E len \in 1 .. MaxCell : connection_edge_package(len)
    \/ ProcessSendme \/ ProcessXoff \/ ProcessXon
    \/ DataArrives
    \/ \E n \in 0 .. rcv.outbuf : rcv.outbuf > 0 /\ connection_handle_write(n)

Spec == Init /\ [][Next]_vars

-----------------------------------------------------------------------------
(* Properties.                                                             *)

\* The state of both ends stays in its types, the sender's counters below
\* the values at which they are scaled down.
TypeOK ==
    /\ snd \in [total_bytes_xmit : 0 .. XmitScaleAt,
                num_xoff_recv : 0 .. XoffScaleAt + 1,
                num_xon_recv : 0 .. XonScaleAt + 1,
                xoff_received : BOOLEAN]
    /\ outstanding \in 0 .. Window
    /\ data \in Seq(1 .. MaxCell)
    /\ rcv \in Receiver /\ rcv.sent = <<>>
    /\ ctl \in Seq({"SENDME", "XOFF", "XON"})
    /\ valid \in BOOLEAN

\* The cells on their way back that say whether the stream is stopped.
XonsAndXoffs == {j \in 1 .. Len(ctl) : ctl[j] # "SENDME"}

\* The two ends agree on whether the stream is stopped once what is on its
\* way has arrived, whatever advisory XONs are among it: an XOFF is never
\* undone by an older XON and no XOFF is left without its XON.
EndsAgree ==
    \/ XonsAndXoffs = {} /\ rcv.xoff_sent = snd.xoff_received
    \/ \E last \in XonsAndXoffs :
          /\ \A j \in XonsAndXoffs : j <= last
          /\ rcv.xoff_sent = (ctl[last] = "XOFF")

\* An honest receiver's cells pass the sender's checks: they are neither a
\* second XOFF nor more than the bytes sent account for, across advisory
\* XONs and changing rates, as long as the counters are not scaled down.
HonestCellsAreValid == valid

\* What the receiver has to buffer is bounded by the XOFF limit and by what
\* the sender could have sent before the XOFF reached it.
BufferIsBounded == rcv.outbuf <= XoffLimit + MaxCell * (Window + 2)

\* A receiver that stopped the sender has something left to write, so that
\* its next writes lead to an XON.
StoppedWhileBuffering == rcv.xoff_sent => rcv.outbuf > 0
=============================================================================
