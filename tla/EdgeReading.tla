----------------------------- MODULE EdgeReading -----------------------------
(***************************************************************************)
(* Back-pressure at the sending end of a circuit with congestion control   *)
(* (core/or/relay.c, congestion_control_flow.c, mainloop.c): streams are   *)
(* read, packaged into cells and queued for the channel.  Reading stops    *)
(* when the congestion window is used up, when the cell queue reaches its  *)
(* high mark, when the other end sends XOFF and when the bandwidth of the  *)
(* stream is exhausted; a SENDME, the flushed queue, an XON and the refill *)
(* event start it again.  Starting to read packages what is left in the    *)
(* input buffer, which may stop other streams in the middle of the loop    *)
(* that is starting them.                                                  *)
(*                                                                         *)
(* A unit of data is one cell's worth.  The window is fixed (how it grows  *)
(* is in Vegas.tla) and the circuit is not a conflux leg.                  *)
(***************************************************************************)
EXTENDS Naturals, Sequences, FiniteSets

CONSTANTS NumStreams,   \* streams of the circuit, in the order of its list
          Data,         \* cells' worth of data each application sends
          Cwnd, Inc,    \* congestion window and cells per SENDME
          High, Low,    \* cell_queue_highwatermark(), cell_queue_lowwatermark()
          XoffLimit     \* cells in the output buffer that are too many

ASSUME FlowAssumption ==
    /\ {NumStreams, Cwnd, Inc, High, Low} \subseteq Nat \ {0}
    /\ Inc <= Cwnd
    /\ {Data, XoffLimit} \subseteq Nat

Streams == 1 .. NumStreams

VARIABLES
    source,         \* source[s]: data the application has not written yet
    edge,           \* the circuit's sending end: see EdgeType
    xoff_received,  \* streams told to stop
    read_blocked_on_bw,
    toExit, toEdge, \* cells on the wire in either direction
    outbuf,         \* outbuf[s]: data the receiver has not written out yet
    xoff_sent,      \* streams the receiver has told to stop
    unacked         \* data cells since the receiver's last SENDME

vars == <<source, edge, xoff_received, read_blocked_on_bw, toExit, toEdge,
          outbuf, xoff_sent, unacked>>

EdgeType ==
    [queue : Seq(Streams),              \* n_chan_cells
     window : 0 .. Cwnd,                \* cwnd - inflight
     blocked : BOOLEAN,                 \* circuit_blocked_on_n_chan
     reading : [Streams -> BOOLEAN],
     inbuf : [Streams -> 0 .. Data]]

Init ==
    /\ source = [s \in Streams |-> Data]
    /\ edge = [queue |-> <<>>, window |-> Cwnd, blocked |-> FALSE,
               reading |-> [s \in Streams |-> TRUE],
               inbuf |-> [s \in Streams |-> 0]]
    /\ xoff_received = {} /\ read_blocked_on_bw = {}
    /\ toExit = <<>> /\ toEdge = <<>>
    /\ outbuf = [s \in Streams |-> 0]
    /\ xoff_sent = {} /\ unacked = 0

Smaller(a, b) == IF a < b THEN a ELSE b

-----------------------------------------------------------------------------
(***************************************************************************)
(* Packaging and starting to read.  e is the sending end, xoff the streams *)
(* that wait for an XON.                                                   *)
(***************************************************************************)
\* The package window is empty: every stream stops.
circuit_consider_stop_edge_reading(e) ==
    IF e.window = 0
    THEN [e EXCEPT !.reading = [s \in Streams |-> FALSE]] ELSE e

\* e after n cells of s are queued.  Reaching the high mark blocks every
\* stream; a stream that still packages on a blocked circuit blocks itself.
append_cell_to_circuit_queue(e, s, n, xoff) ==
    LET full == ~e.blocked /\ Len(e.queue) + n >= High
        stop == {t \in Streams \ xoff : full \/ (e.blocked /\ n > 0 /\ t = s)}
    IN [e EXCEPT !.queue = @ \o [i \in 1 .. n |-> s],
                 !.blocked = @ \/ full,
                 !.reading = [t \in Streams |-> @[t] /\ t \notin stop]]

\* At most max cells are packaged, and no more than the window allows.
connection_edge_package_raw_inbuf(e, s, max, xoff) ==
    LET n == Smaller(max, Smaller(e.inbuf[s], e.window))
    IN circuit_consider_stop_edge_reading(
          append_cell_to_circuit_queue(
             [e EXCEPT !.inbuf[s] = @ - n, !.window = @ - n], s, n, xoff))

FaultyStartReading(e, s, xoff) ==
    IF s \in xoff THEN e ELSE [e EXCEPT !.reading[s] = TRUE]
connection_start_reading(e, s, xoff) ==
    IF s \in xoff THEN e
    ELSE LET r == [e EXCEPT !.reading[s] = TRUE]
         IN IF e.inbuf[s] > 0
            THEN connection_edge_package_raw_inbuf(r, s, e.inbuf[s], xoff)
            ELSE r

\* The loops over the stream list start the given streams in some order, the
\* ones that are being read too or not; what one of them packages is seen by
\* the next.  The outcome is the set's only element.
StartAll(e, order, streams, evenReading) ==
    LET run[i \in 0 .. Len(order)] ==
          IF i = 0 THEN {e}
          ELSE {IF order[i] \in streams /\ (evenReading \/ ~f.reading[order[i]])
                THEN connection_start_reading(f, order[i], xoff_received)
                ELSE f : f \in run[i - 1]}
    IN run[Len(order)]

ListOrder == [i \in Streams |-> i]
\* The list from the chosen stream on, then from its front.
From(chosen) == [i \in Streams |->
                   IF i <= NumStreams - chosen + 1 THEN chosen + i - 1
                   ELSE chosen + i - 1 - NumStreams]

-----------------------------------------------------------------------------
(***************************************************************************)
(* Events at the sending end.                                              *)
(***************************************************************************)
\* The application's data is read, and packaged at once.
connection_handle_read(s) ==
    /\ edge.reading[s] /\ source[s] > 0
    /\ \E n \in 1 .. source[s] :
          /\ source' = [source EXCEPT ![s] = @ - n]
          /\ edge' = connection_edge_package_raw_inbuf(
                        [edge EXCEPT !.inbuf[s] = @ + n], s,
                        edge.inbuf[s] + n, xoff_received)
    /\ UNCHANGED <<xoff_received, read_blocked_on_bw, toExit, toEdge, outbuf,
                   xoff_sent, unacked>>

connection_read_bw_exhausted(s) ==
    /\ edge.reading[s] /\ s \notin read_blocked_on_bw
    /\ read_blocked_on_bw' = read_blocked_on_bw \cup {s}
    /\ edge' = [edge EXCEPT !.reading[s] = FALSE]
    /\ UNCHANGED <<source, xoff_received, toExit, toEdge, outbuf, xoff_sent,
                   unacked>>

reenable_blocked_connections_cb ==
    /\ read_blocked_on_bw # {}
    /\ edge' \in StartAll(edge, ListOrder, read_blocked_on_bw \ xoff_received, TRUE)
    /\ read_blocked_on_bw' = {}
    /\ UNCHANGED <<source, xoff_received, toExit, toEdge, outbuf, xoff_sent,
                   unacked>>

\* set_circuit_blocked_on_chan(circ, chan, 0): the mark is cleared first, and
\* set again when the streams that are started fill the queue.
Unblock(e) ==
    StartAll([e EXCEPT !.blocked = FALSE], ListOrder,
             Streams \ xoff_received, FALSE)

channel_flush_from_first_active_circuit ==
    /\ edge.queue # <<>>
    /\ toExit' = Append(toExit, Head(edge.queue))
    /\ LET e == [edge EXCEPT !.queue = Tail(@)]
       IN edge' \in IF e.blocked /\ Len(e.queue) <= Low THEN Unblock(e)
                    ELSE {e}
    /\ UNCHANGED <<source, xoff_received, read_blocked_on_bw, toEdge, outbuf,
                   xoff_sent, unacked>>

\* What the packaging rounds of circuit_resume_edge_reading_helper come to,
\* once the streams that may read have been started: the streams that still
\* hold data share the room that the window and the high mark leave, each
\* round rounds a stream's share up, and the rounds go on until the room or
\* the data is used up.
Shares(e) ==
    LET holding == {s \in Streams : e.inbuf[s] > 0}
        room == IF Len(e.queue) >= High THEN 0 ELSE High - Len(e.queue)
        total(p) == LET sum[i \in 0 .. NumStreams] ==
                           IF i = 0 THEN 0 ELSE sum[i - 1] + p[i]
                    IN sum[NumStreams]
    IN {p \in [Streams -> 0 .. Data] :
          /\ \A s \in Streams : p[s] <= e.inbuf[s]
          /\ total(p) <= e.window
          /\ total(p) <= IF room = 0 THEN 0
                         ELSE room + Cardinality(holding) - 1
          /\ \/ total(p) >= Smaller(e.window, room)
             \/ \A s \in Streams : p[s] = e.inbuf[s]}

PackageShares(e, p) ==
    LET run[i \in 0 .. NumStreams] ==
          IF i = 0 THEN {e}
          ELSE {connection_edge_package_raw_inbuf(f, i, p[i], xoff_received) :
                   f \in run[i - 1]}
    IN run[NumStreams]

\* A random stream is started first, the others in the order of the list.
FaultyResume(e) == {e}
circuit_resume_edge_reading(e) ==
    IF e.blocked THEN {e}
    ELSE LET started == UNION {StartAll(e, From(c), Streams, TRUE) :
                                  c \in Streams}
         IN UNION {UNION {PackageShares(f, p) : p \in Shares(f)} :
                      f \in started}

process_sendme_cell ==
    /\ toEdge # <<>> /\ Head(toEdge) = <<"SENDME">>
    /\ edge' \in circuit_resume_edge_reading([edge EXCEPT !.window = @ + Inc])
    /\ toEdge' = Tail(toEdge)
    /\ UNCHANGED <<source, xoff_received, read_blocked_on_bw, toExit, outbuf,
                   xoff_sent, unacked>>

circuit_process_stream_xoff(s) ==
    /\ toEdge # <<>> /\ Head(toEdge) = <<"XOFF", s>>
    /\ IF s \in xoff_received THEN UNCHANGED <<edge, xoff_received>>
       ELSE /\ edge' = [edge EXCEPT !.reading[s] = FALSE]
            /\ xoff_received' = xoff_received \cup {s}
    /\ toEdge' = Tail(toEdge)
    /\ UNCHANGED <<source, read_blocked_on_bw, toExit, outbuf, xoff_sent,
                   unacked>>

circuit_process_stream_xon(s) ==
    /\ toEdge # <<>> /\ Head(toEdge) = <<"XON", s>>
    /\ xoff_received' = xoff_received \ {s}
    /\ edge' = IF s \in xoff_received
               THEN connection_start_reading(edge, s, xoff_received')
               ELSE edge
    /\ toEdge' = Tail(toEdge)
    /\ UNCHANGED <<source, read_blocked_on_bw, toExit, outbuf, xoff_sent,
                   unacked>>

-----------------------------------------------------------------------------
(***************************************************************************)
(* The receiving end: data is acknowledged first, then buffered.           *)
(***************************************************************************)
flow_control_decide_xoff(s, buffered) ==
    IF buffered > XoffLimit /\ s \notin xoff_sent
    THEN <<<<"XOFF", s>>>> ELSE <<>>

\* The XOFF decision comes before the cell is added to the buffer.
DataArrives ==
    /\ toExit # <<>>
    /\ LET s == Head(toExit)
           ack == IF unacked + 1 = Inc THEN <<<<"SENDME">>>> ELSE <<>>
           xoff == flow_control_decide_xoff(s, outbuf[s])
       IN /\ toExit' = Tail(toExit)
          /\ outbuf' = [outbuf EXCEPT ![s] = @ + 1]
          /\ unacked' = IF unacked + 1 = Inc THEN 0 ELSE unacked + 1
          /\ xoff_sent' = IF xoff = <<>> THEN xoff_sent
                          ELSE xoff_sent \cup {s}
          /\ toEdge' = toEdge \o ack \o xoff
    /\ UNCHANGED <<source, edge, xoff_received, read_blocked_on_bw>>

\* The socket takes some of the data; the XON goes out when none is left.
flow_control_decide_xon(s) ==
    /\ outbuf[s] > 0
    /\ \E n \in 1 .. outbuf[s] : outbuf' = [outbuf EXCEPT ![s] = @ - n]
    /\ IF s \in xoff_sent /\ outbuf'[s] = 0
       THEN /\ toEdge' = Append(toEdge, <<"XON", s>>)
            /\ xoff_sent' = xoff_sent \ {s}
       ELSE UNCHANGED <<toEdge, xoff_sent>>
    /\ UNCHANGED <<source, edge, xoff_received, read_blocked_on_bw, toExit,
                   unacked>>

Progress ==
    \/ DataArrives
    \/ \E s \in Streams :
          \/ flow_control_decide_xon(s)
          \/ circuit_process_stream_xoff(s)
          \/ circuit_process_stream_xon(s)
    \/ channel_flush_from_first_active_circuit
    \/ process_sendme_cell
    \/ \E s \in Streams : connection_handle_read(s)

Next ==
    \/ Progress
    \/ reenable_blocked_connections_cb
    \/ \E s \in Streams : connection_read_bw_exhausted(s)

Spec == Init /\ [][Next]_vars

\* The main loop serves some ready socket, queue or cell, and the refill
\* event fires.  A stream may run out of bandwidth again and again, but not
\* so that nothing is ever read in between.
Fairness == SF_vars(Progress) /\ WF_vars(reenable_blocked_connections_cb)

FairSpec == Spec /\ Fairness

-----------------------------------------------------------------------------
TypeOK ==
    /\ source \in [Streams -> 0 .. Data]
    /\ edge \in EdgeType
    /\ xoff_received \subseteq Streams
    /\ read_blocked_on_bw \subseteq Streams
    /\ toExit \in Seq(Streams)
    /\ outbuf \in [Streams -> 0 .. Data]
    /\ xoff_sent \subseteq Streams
    /\ unacked \in 0 .. Inc - 1

\* A stream that waits for an XON is not read, whatever starts reading
\* meanwhile, and the receiver never sends XOFF twice without an XON between
\* ("Got multiple XOFF on connection" in circuit_process_stream_xoff).
XoffIsObeyed ==
    \A s \in Streams :
       /\ s \in xoff_received => ~edge.reading[s]
       /\ toEdge # <<>> /\ Head(toEdge) = <<"XOFF", s>> =>
             s \notin xoff_received

\* A stream that is not read has a reason that something will lift: the
\* queue, the window, an XOFF or its bandwidth.
StoppedForAReason ==
    \A s \in Streams : ~edge.reading[s] =>
       \/ edge.blocked \/ edge.window = 0
       \/ s \in xoff_received \/ s \in read_blocked_on_bw

\* Data left in an input buffer waits for the window, the queue or an XON
\* and is packaged when that comes: it does not linger until the application
\* writes again (the comment in connection_start_reading).
NothingLingers ==
    \A s \in Streams : edge.inbuf[s] > 0 =>
       edge.blocked \/ edge.window = 0 \/ s \in xoff_received

\* The queue blocks its streams exactly when it is over its marks: a queue
\* at the high mark has blocked them, and a blocked queue holds more than the
\* low mark, so that flushing it will unblock them.
BlockedByQueue ==
    /\ Low < High /\ Len(edge.queue) >= High => edge.blocked
    /\ edge.blocked => Len(edge.queue) > Smaller(Low, High - 1)

\* Whatever stops the reading of a stream has something that starts it again,
\* and packages what was left: no order of windows, queues, XOFFs and
\* bandwidth limits leaves a stream behind.
NoStreamLeftBehind ==
    TypeOK /\ XoffIsObeyed /\ StoppedForAReason /\ NothingLingers /\ BlockedByQueue

\* All that the applications send is written out at the other end.
AllDelivered ==
    <>(\A s \in Streams : /\ source[s] = 0 /\ edge.inbuf[s] = 0
                          /\ edge.queue = <<>> /\ toExit = <<>>
                          /\ outbuf[s] = 0)
=============================================================================
