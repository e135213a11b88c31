------------------------------- MODULE Conflux -------------------------------
(***************************************************************************)
(* A linked conflux set in use: two ends, client and exit, send the cells  *)
(* of their streams over several circuits (legs) at once.  A sender counts *)
(* the multiplexed cells it sends; when it moves to another leg it first   *)
(* sends a SWITCH on that leg with the difference between the count and    *)
(* what the leg had last been used for.  A receiver gives every cell its   *)
(* absolute number from the leg it came on, delivers the next one at once  *)
(* and keeps the others in an out-of-order queue.                          *)
(*                                                                         *)
(* Sources: core/or/conflux.c, core/or/conflux_pool.c, core/or/relay.c,    *)
(* core/or/sendme.c.                                                       *)
(*                                                                         *)
(* Every leg is a circuit of its own: reliable and in order, and as slow   *)
(* as it likes.  The set starts when the client has linked every leg; the  *)
(* LINKED_ACKs, from which the exit takes its first round-trip times, are  *)
(* still on their way.  cells_until_switch is only ever set to 0, so       *)
(* conflux_can_switch always holds and prev_leg is never read; both are    *)
(* left out.  A cell's id is its number in its direction: it is history,   *)
(* not part of the cell.                                                   *)
(***************************************************************************)
EXTENDS Integers, Sequences, FiniteSets

CONSTANTS
  Legs,        \* the circuits of the set, positive numbers
  Failures,    \* bound: the legs that may fail
  CanBlock,    \* bound: the legs whose channel may block at the sender
  Alg,         \* the scheduling algorithm of each end: "MINRTT" or "LOWRTT"
  RTTs,        \* round-trip times a leg may be measured to have
  Cwnds,       \* congestion windows a leg may have
  sendme_inc,  \* data cells per SENDME
  Commands,    \* what each end sends: "DATA", and "OTHER" for every other
               \* multiplexed command
  MaxSend      \* bound: multiplexed cells each end sends

Ends == {"client", "exit"}
Peer(e) == IF e = "client" THEN "exit" ELSE "client"
NoLeg == 0

ASSUME ConfluxConstants ==
  /\ Legs \subseteq Nat \ {0} /\ IsFiniteSet(Legs) /\ Legs # {}
  /\ Failures \subseteq Legs /\ CanBlock \subseteq Legs
  /\ Alg \in [Ends -> {"MINRTT", "LOWRTT"}]
  /\ RTTs \subseteq Nat \ {0} /\ RTTs # {}
  /\ Cwnds \subseteq Nat \ {0} /\ Cwnds # {}
  /\ sendme_inc \in Nat \ {0}
  /\ Commands \in [Ends -> SUBSET {"DATA", "OTHER"}]
  /\ MaxSend \in [Ends -> Nat]

VARIABLES
  legs,           \* cfx->legs: the legs each end still has
  in_full_teardown,
  curr_leg,       \* the leg each end sends on
  last_seq_sent, last_seq_recv,     \* per leg
  circ_rtts_usec,                   \* per leg; 0: not measured yet
  inflight, cwnd, blocked,          \* per leg: may it be sent on?
  unacked,        \* per leg: data cells received since the last SENDME
  ooo_q, last_seq_delivered,
  wire,           \* per leg: cells sent and not yet handled by the peer
  sent, delivered, \* history: cells sent, and cells handed to the streams
  data,           \* history: the cells sent that were DATA
  bug             \* has a cell with an old number been met?

schedule == <<circ_rtts_usec, inflight, cwnd, blocked>>
receiver == <<unacked, ooo_q, last_seq_delivered, delivered, bug>>
vars == <<legs, in_full_teardown, curr_leg, last_seq_sent, last_seq_recv,
          schedule, receiver, wire, sent, data>>

Cells == [cmd : {"DATA", "OTHER", "SWITCH", "SENDME", "LINKED_ACK"}, num : Int]

-----------------------------------------------------------------------------
(* Which leg to send on.                                                   *)

circuit_ready_to_send(e, l) == inflight[e][l] < cwnd[e][l] /\ ~blocked[e][l]

(* The legs of S with the lowest round-trip time that was measured.  Ties  *)
(* go to the first leg of the list; here to any of them.                   *)
LowestRTT(e, S) ==
  LET known == {l \in S : circ_rtts_usec[e][l] # 0}
  IN  {l \in known : \A k \in known : circ_rtts_usec[e][l] <= circ_rtts_usec[e][k]}

(* The only leg that may be used is the fastest.                           *)
conflux_decide_circ_minrtt(e) ==
  LET fastest == LowestRTT(e, legs[e])
  IN  IF fastest = {} THEN {NoLeg}
      ELSE {IF circuit_ready_to_send(e, l) THEN l ELSE NoLeg : l \in fastest}

(* The fastest of the legs that have room.                                 *)
conflux_decide_circ_lowrtt(e) ==
  LET fastest == LowestRTT(e, {l \in legs[e] : circuit_ready_to_send(e, l)})
  IN  IF fastest = {} THEN {NoLeg} ELSE fastest

(* The leg that the next cell goes to, NoLeg when none has room.           *)
conflux_decide_next_circ(e) ==
  IF in_full_teardown[e] THEN {NoLeg}
  ELSE IF Alg[e] = "MINRTT" THEN conflux_decide_circ_minrtt(e)
  ELSE conflux_decide_circ_lowrtt(e)

(* The first leg, when there is no current one yet.                        *)
conflux_pick_first_leg(e) ==
  IF LowestRTT(e, legs[e]) # {} THEN LowestRTT(e, legs[e]) ELSE legs[e]

CurrentLeg(e) ==
  IF curr_leg[e] = NoLeg THEN conflux_pick_first_leg(e) ELSE {curr_leg[e]}

(* The exit has a stream to send for once a cell has opened one.           *)
HasStream(e) == e = "client" \/ delivered[e] # <<>>

(* Asking whether there is room also picks the first leg.                  *)
conflux_can_send(e) ==
  /\ HasStream(e) /\ legs[e] # {} /\ ~in_full_teardown[e] /\ curr_leg[e] = NoLeg
  /\ \E l \in conflux_pick_first_leg(e) : curr_leg' = [curr_leg EXCEPT ![e] = l]
  /\ UNCHANGED <<legs, in_full_teardown, last_seq_sent, last_seq_recv, schedule,
                 receiver, wire, sent, data>>

-----------------------------------------------------------------------------
(* Sending.                                                                *)

Cell(cmd, num) == [cmd |-> cmd, num |-> num]

(* The SWITCH that moves e to another leg.                                 *)
conflux_send_switch_command(e, from, to) ==
  IF from = to THEN <<>>
  ELSE <<Cell("SWITCH", last_seq_sent[e][from] - last_seq_sent[e][to])>>

(* The counts after a cell went to leg to, from leg from: a switch takes   *)
(* the count over, and conflux_note_cell_sent adds the cell.               *)
conflux_note_cell_sent(e, from, to) ==
  [last_seq_sent EXCEPT ![e][to] = last_seq_sent[e][from] + 1]

(* relay_send_command_from_edge of a multiplexed cell.  Data is only       *)
(* packaged when a leg has room; any other cell goes to the current leg    *)
(* when none has.                                                          *)
conflux_decide_circ_for_send(e, cmd) ==
  /\ legs[e] # {} /\ ~in_full_teardown[e] /\ sent[e] < MaxSend[e]
  /\ HasStream(e)
  /\ \E from \in CurrentLeg(e), new \in conflux_decide_next_circ(e) :
       LET to == IF new = NoLeg THEN from ELSE new
       IN  /\ cmd = "DATA" => new # NoLeg
           /\ curr_leg' = [curr_leg EXCEPT ![e] = to]
           /\ wire' = [wire EXCEPT
                ![e][to] = @ \o conflux_send_switch_command(e, from, to)
                             \o <<Cell(cmd, sent[e] + 1)>>]
           /\ last_seq_sent' = conflux_note_cell_sent(e, from, to)
           /\ inflight' = [inflight EXCEPT
                ![e][to] = IF cmd = "DATA" THEN @ + 1 ELSE @]
  /\ sent' = [sent EXCEPT ![e] = @ + 1]
  /\ data' = [data EXCEPT ![e] = IF cmd = "DATA" THEN @ \cup {sent'[e]} ELSE @]
  /\ UNCHANGED <<legs, in_full_teardown, last_seq_recv, circ_rtts_usec, cwnd,
                 blocked, receiver>>

(* The channel's cell queue of a leg fills up, or drains.                  *)
set_circuit_blocked_on_chan(e, l) ==
  /\ l \in legs[e] \cap CanBlock
  /\ blocked' = [blocked EXCEPT ![e][l] = ~@]
  /\ UNCHANGED <<legs, in_full_teardown, curr_leg, last_seq_sent, last_seq_recv,
                 circ_rtts_usec, inflight, cwnd, receiver, wire, sent, data>>

-----------------------------------------------------------------------------
(* Closing a leg.                                                          *)

FaultyFullTeardown(e, l, recv) == curr_leg[e] = l  \* ignores data in flight

(* cfx_del_leg: must the whole set go when leg l is closed, with the       *)
(* received numbers recv?  Yes if a whole increment is in flight on it, if *)
(* it was used last in either direction, or if it is the current leg.      *)
cfx_del_leg(e, l, recv) ==
  LET rest == legs[e] \ {l}
  IN  \/ inflight[e][l] >= sendme_inc
      \/ /\ rest # {}
         /\ \/ \A k \in rest : last_seq_sent[e][k] < last_seq_sent[e][l]
            \/ \A k \in rest : recv[k] < recv[l]
      \/ curr_leg[e] = l

(* linked_circuit_closed: leg l leaves the set of e, and all others with   *)
(* it in a full teardown.  What is on its way to e on them, in w, is       *)
(* dropped.                                                                *)
linked_circuit_closed(e, l, recv, w) ==
  LET gone == IF cfx_del_leg(e, l, recv) THEN legs[e] ELSE {l}
  IN  /\ legs' = [legs EXCEPT ![e] = @ \ gone]
      /\ in_full_teardown' = [in_full_teardown EXCEPT ![e] = @ \/ gone # {l}]
      /\ curr_leg' = [curr_leg EXCEPT ![e] = IF @ \in gone THEN NoLeg ELSE @]
      /\ wire' = [w EXCEPT ![Peer(e)] =
                    [k \in Legs |-> IF k \in gone THEN <<>> ELSE @[k]]]

(* A leg fails at one end, or its DESTROY arrives from the other end.      *)
LegCloses(e, l) ==
  /\ l \in legs[e]
  /\ l \in Failures \/ l \notin legs[Peer(e)]
  /\ linked_circuit_closed(e, l, last_seq_recv[e], wire)
  /\ UNCHANGED <<last_seq_sent, last_seq_recv, schedule, receiver, sent, data>>

-----------------------------------------------------------------------------
(* Receiving.                                                              *)

CellReady(e, l, cmds) ==
  /\ l \in legs[e] /\ wire[Peer(e)][l] # <<>>
  /\ Head(wire[Peer(e)][l]).cmd \in cmds

FaultySwitchTo(e, l, num) == num  \* takes the relative number for absolute

(* The number of leg l after a SWITCH by num.                              *)
SwitchTo(e, l, num) == last_seq_recv[e][l] + num

conflux_process_switch_command(e, l) ==
  LET p == Peer(e)
  IN  /\ CellReady(e, l, {"SWITCH"})
      /\ last_seq_recv' = [last_seq_recv EXCEPT
           ![e][l] = SwitchTo(e, l, Head(wire[p][l]).num)]
      /\ wire' = [wire EXCEPT ![p][l] = Tail(@)]
      /\ UNCHANGED <<legs, in_full_teardown, curr_leg, last_seq_sent, schedule,
                     receiver, sent, data>>

QueuedSeqs(e) == {c.seq : c \in ooo_q[e]}
Queued(e, seq) == (CHOOSE c \in ooo_q[e] : c.seq = seq).id

FaultyDequeue(e, seq, n) == n = seq  \* the queue is not looked at

(* conflux_dequeue_cell, repeated: once cell seq is delivered, the queue   *)
(* supplies the cells up to n.                                             *)
conflux_dequeue_cell(e, seq, n) ==
  /\ \A k \in seq + 1 .. n : k \in QueuedSeqs(e)
  /\ n + 1 \notin QueuedSeqs(e)

(* A data cell is acknowledged when it is received, in order or not.       *)
Unacked(e, l, cmd) == unacked[e][l] + (IF cmd = "DATA" THEN 1 ELSE 0)

(* The wires once e has taken a cell from leg l and acknowledged it.       *)
sendme_circuit_consider_sending(e, l, cmd) ==
  [wire EXCEPT
     ![Peer(e)][l] = Tail(@),
     ![e][l] = IF Unacked(e, l, cmd) >= sendme_inc
               THEN Append(@, Cell("SENDME", 0)) ELSE @]

(* Cell seq is the next one: it is delivered, with what the queue holds    *)
(* after it.                                                               *)
DeliverInOrder(e, seq, num) ==
  \E n \in seq .. seq + Cardinality(ooo_q[e]) :
    /\ conflux_dequeue_cell(e, seq, n)
    /\ last_seq_delivered' = [last_seq_delivered EXCEPT ![e] = n]
    /\ delivered' = [delivered EXCEPT ![e] =
         Append(@, num) \o [i \in 1 .. n - seq |-> Queued(e, seq + i)]]
    /\ ooo_q' = [ooo_q EXCEPT ![e] = {c \in @ : c.seq > n}]

(* A multiplexed cell.  The next one is delivered, a later one is queued,  *)
(* and one with an old number closes the leg.                              *)
conflux_process_cell(e, l) ==
  LET cell == Head(wire[Peer(e)][l])
      seq  == last_seq_recv[e][l] + 1
      w    == sendme_circuit_consider_sending(e, l, cell.cmd)
      next == last_seq_delivered[e] + 1
  IN  /\ CellReady(e, l, {"DATA", "OTHER"})
      /\ unacked' = [unacked EXCEPT ![e][l] = Unacked(e, l, cell.cmd) % sendme_inc]
      /\ last_seq_recv' = [last_seq_recv EXCEPT ![e][l] = seq]
      /\ IF seq = next
         THEN DeliverInOrder(e, seq, cell.num)
         ELSE /\ ooo_q' = [ooo_q EXCEPT ![e] =
                   IF seq > next THEN @ \cup {[seq |-> seq, id |-> cell.num]} ELSE @]
              /\ UNCHANGED <<last_seq_delivered, delivered>>
      /\ bug' = [bug EXCEPT ![e] = @ \/ seq < next]
      /\ IF seq < next
         THEN linked_circuit_closed(e, l, last_seq_recv'[e], w)
         ELSE wire' = w /\ UNCHANGED <<legs, in_full_teardown, curr_leg>>
      /\ UNCHANGED <<last_seq_sent, schedule, sent, data>>

(* What a SENDME leaves in flight.                                         *)
AckedInflight(e, l) == inflight[e][l] - sendme_inc

(* The estimate of a circuit is copied to its leg.                         *)
conflux_update_rtt(e, l) ==
  \E r \in RTTs : circ_rtts_usec' = [circ_rtts_usec EXCEPT ![e][l] = r]

(* A SENDME for leg l: room on the leg, and a new estimate of it.          *)
ReceiveSendme(e, l) ==
  /\ CellReady(e, l, {"SENDME"})
  /\ wire' = [wire EXCEPT ![Peer(e)][l] = Tail(@)]
  /\ inflight' = [inflight EXCEPT ![e][l] = AckedInflight(e, l)]
  /\ conflux_update_rtt(e, l)
  /\ \E c \in Cwnds : cwnd' = [cwnd EXCEPT ![e][l] = c]
  /\ UNCHANGED <<legs, in_full_teardown, curr_leg, last_seq_sent, last_seq_recv,
                 blocked, receiver, sent, data>>

(* The exit measures the round trip of a leg when its LINKED is            *)
(* acknowledged.                                                           *)
conflux_process_linked_ack(e, l) ==
  /\ CellReady(e, l, {"LINKED_ACK"})
  /\ wire' = [wire EXCEPT ![Peer(e)][l] = Tail(@)]
  /\ \E r \in RTTs : circ_rtts_usec' = [circ_rtts_usec EXCEPT ![e][l] = r]
  /\ UNCHANGED <<legs, in_full_teardown, curr_leg, last_seq_sent, last_seq_recv,
                 inflight, cwnd, blocked, receiver, sent, data>>

-----------------------------------------------------------------------------
PerLeg(v) == [e \in Ends |-> [l \in Legs |-> v]]

Init ==
  /\ legs = [e \in Ends |-> Legs]
  /\ in_full_teardown = [e \in Ends |-> FALSE]
  /\ curr_leg = [e \in Ends |-> NoLeg]
  /\ last_seq_sent = PerLeg(0) /\ last_seq_recv = PerLeg(0)
  /\ \E f \in [Legs -> RTTs] :
       circ_rtts_usec = [e \in Ends |-> IF e = "client" THEN f
                                        ELSE [l \in Legs |-> 0]]
  /\ inflight = PerLeg(0) /\ blocked = PerLeg(FALSE)
  /\ \E c \in Cwnds : cwnd = PerLeg(c)
  /\ unacked = PerLeg(0)
  /\ ooo_q = [e \in Ends |-> {}]
  /\ last_seq_delivered = [e \in Ends |-> 0]
  /\ wire = [e \in Ends |-> [l \in Legs |->
               IF e = "client" THEN <<Cell("LINKED_ACK", 0)>> ELSE <<>>]]
  /\ sent = [e \in Ends |-> 0] /\ data = [e \in Ends |-> {}]
  /\ delivered = [e \in Ends |-> <<>>]
  /\ bug = [e \in Ends |-> FALSE]

Receive(e, l) ==
  \/ conflux_process_switch_command(e, l) \/ conflux_process_cell(e, l)
  \/ ReceiveSendme(e, l) \/ conflux_process_linked_ack(e, l)

Next == \E e \in Ends :
  \/ conflux_can_send(e)
  \/ \E cmd \in Commands[e] : conflux_decide_circ_for_send(e, cmd)
  \/ \E l \in Legs : \/ set_circuit_blocked_on_chan(e, l)
                     \/ Receive(e, l) \/ LegCloses(e, l)

Spec == Init /\ [][Next]_vars

(* Channels that are readable are read; nothing obliges a stream to send.  *)
FairSpec == Spec /\ \A e \in Ends, l \in Legs : WF_vars(Receive(e, l))

-----------------------------------------------------------------------------
(* Properties.                                                             *)

(* Types.  The counts that the code keeps unsigned never go below zero:    *)
(* cc->inflight when a SENDME is taken off it, and the sequence numbers.   *)
TypeOK ==
  /\ legs \in [Ends -> SUBSET Legs]
  /\ in_full_teardown \in [Ends -> BOOLEAN]
  /\ curr_leg \in [Ends -> Legs \cup {NoLeg}]
  /\ last_seq_sent \in [Ends -> [Legs -> Nat]]
  /\ last_seq_recv \in [Ends -> [Legs -> Nat]]
  /\ circ_rtts_usec \in [Ends -> [Legs -> Nat]]
  /\ inflight \in [Ends -> [Legs -> Nat]] /\ cwnd \in [Ends -> [Legs -> Cwnds]]
  /\ blocked \in [Ends -> [Legs -> BOOLEAN]]
  /\ unacked \in [Ends -> [Legs -> 0 .. sendme_inc - 1]]
  /\ ooo_q \in [Ends -> SUBSET [seq : Nat, id : Nat]]
  /\ last_seq_delivered \in [Ends -> Nat]
  /\ wire \in [Ends -> [Legs -> Seq(Cells)]]
  /\ sent \in [Ends -> Nat] /\ data \in [Ends -> SUBSET Nat]
  /\ delivered \in [Ends -> Seq(Nat)] /\ bug \in [Ends -> BOOLEAN]

(* The set is one ordered stream to those that use it, however its legs    *)
(* overtake each other and whichever of them fail.                         *)
Stream == INSTANCE OrderedStream WITH Ends <- Ends, Peer <- Peer,
                                     sent <- sent, delivered <- delivered
IsOrderedStream == Stream!Spec

(* The current leg has carried the newest cell, so that the difference a   *)
(* SWITCH carries is never negative (the tor_assert in                     *)
(* conflux_decide_circ_for_send).                                          *)
CurrentLegLeads == \A e \in Ends : curr_leg[e] # NoLeg =>
  \A l \in legs[e] : last_seq_sent[e][l] <= last_seq_sent[e][curr_leg[e]]

(* No cell arrives with a number that was delivered already (the BUG in    *)
(* conflux_process_cell).                                                  *)
NoBug == \A e \in Ends : ~bug[e]

(* The receiver's number for a queued cell is the sender's.                *)
NumbersAgree == \A e \in Ends : \A c \in ooo_q[e] : c.seq = c.id

(* A cell that could be delivered is not left in the queue: whatever is    *)
(* queued waits for an earlier cell.                                       *)
QueueWaits == \A e \in Ends : \A c \in ooo_q[e] :
  c.seq > last_seq_delivered[e] + 1

(* What both ends rely on when they number and order cells.                *)
SequencesAgree ==
  TypeOK /\ CurrentLegLeads /\ NoBug /\ NumbersAgree /\ QueueWaits

(* Cell n of p is on its way.                                              *)
OnItsWay(p, n) == \E l \in legs[p] :
  \E i \in DOMAIN wire[p][l] :
    wire[p][l][i].cmd \in {"DATA", "OTHER"} /\ wire[p][l][i].num = n

(* The cells that e waits for and that nothing holds any more.             *)
Lost(e) == {n \in Len(delivered[e]) + 1 .. sent[Peer(e)] :
  ~OnItsWay(Peer(e), n) /\ \A c \in ooo_q[e] : c.id # n}

(* Both ends have the same legs, and neither has given the set up.         *)
BothKeepSet(e) == legs[e] = legs[Peer(e)] /\ legs[e] # {}

(* A set that outlives a leg has lost less than an increment of data with  *)
(* it, whenever the leg closed at either end, whatever was sent on it      *)
(* until the other end heard of it, and however the DATA was mixed with    *)
(* cells that are not counted (cfx_del_leg).                               *)
LossIsBounded == \A e \in Ends : BothKeepSet(e) =>
  Cardinality(Lost(e) \cap data[Peer(e)])
    <= (sendme_inc - 1) * Cardinality(Legs \ legs[e])

(* When both ends keep the set, every cell that was sent and not delivered *)
(* is queued or on its way on a leg that is left: none was lost with a leg *)
(* that closed (conflux_pool.c:569).                                       *)
NothingLost == \A e \in Ends : BothKeepSet(e) => Lost(e) = {}

(* What is sent is delivered, if no leg fails.                             *)
EverythingDelivered == \A e \in Ends :
  []<>(Len(delivered[e]) = sent[Peer(e)] \/ legs[e] # Legs)
=============================================================================
