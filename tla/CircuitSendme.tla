---------------------------- MODULE CircuitSendme ----------------------------
(***************************************************************************)
(* Circuit-level flow control between the two ends of one circuit: the     *)
(* client (the origin, which keeps its windows in the crypt_path_t of the  *)
(* exit hop) and the exit (which keeps them in the circuit_t).  Each end   *)
(* may package a bounded number of RELAY_DATA cells, and every sendme_inc  *)
(* cells it receives it answers with a SENDME that carries the digest of   *)
(* the cell that triggered it.  The other end remembers the digests it     *)
(* expects in a FIFO and closes the circuit when one does not match.       *)
(*                                                                         *)
(* Sources: core/or/sendme.c, core/or/congestion_control_common.c,         *)
(* core/or/relay.c, core/crypto/relay_crypto.c.                            *)
(*                                                                         *)
(* Cells of one circuit and direction arrive reliably and in order (TLS    *)
(* over TCP hop by hop, FIFO cell queues).  The rolling digest after a     *)
(* cell depends on every cell before it, so it is abstracted to the cell's *)
(* position in its direction.  wire[e] keeps every cell e ever sent, and   *)
(* nrecv[e] how many of its peer's cells e has handled.                    *)
(*                                                                         *)
(* Definitions named Faulty... are never used by the specification.  Each  *)
(* is a plausible defect of the definition that follows it, kept to show   *)
(* that the properties notice it.                                          *)
(***************************************************************************)
EXTENDS Integers, Sequences, FiniteSets

CONSTANTS
  UseCC,            \* TRUE: congestion control was negotiated; FALSE: fixed
  CIRCWINDOW_START, \* initial deliver window and largest package window
  sendme_inc,       \* data cells per SENDME (100, or the negotiated cc value)
  circwindow,       \* the "circwindow" parameter: initial package window
  CwndInit,         \* congestion window a circuit starts with
  Cwnds,            \* congestion windows the algorithm may compute
  EmitVersion,      \* sendme_emit_min_version at each end
  AcceptMin,        \* sendme_accept_min_version at each end
  MaxData,          \* bound: payloads each end reads from its edge
  MaxOther          \* bound: other cells (BEGIN, END, ...) each end sends

Ends == {"client", "exit"}
Peer(e) == IF e = "client" THEN "exit" ELSE "client"

ASSUME ConstantsOK ==
  /\ UseCC \in BOOLEAN
  /\ CIRCWINDOW_START \in Nat \ {0}
  /\ sendme_inc \in 1 .. CIRCWINDOW_START
  /\ circwindow \in 1 .. CIRCWINDOW_START
  /\ CwndInit \in Nat \ {0} /\ Cwnds \subseteq Nat \ {0}
  /\ EmitVersion \in [Ends -> {0, 1}] /\ AcceptMin \in [Ends -> {0, 1}]
  /\ MaxData \in [Ends -> Nat] /\ MaxOther \in [Ends -> Nat]

VARIABLES
  status,          \* "open", "protocol" (closed: protocol error) or "closed"
  package_window,  \* fixed algorithm: cells that may still be packaged
  inflight, cwnd,  \* congestion control: unacknowledged cells and window
  sendme_pending_timestamps, \* congestion control: times queued, their number
  deliver_window,  \* cells that may still be received before a SENDME is due
  sendme_last_digests, \* FIFO of digests that SENDMEs must carry
  sendme_digest,   \* the one digest slot of relay_crypto_t
  inbuf,           \* payloads read from the edge and not packaged yet
  reading,         \* is the edge connection being read?
  packaging,       \* is the connection_edge_package_raw_inbuf loop running?
  wire, nrecv      \* cells sent, and how many of them the peer has handled

windows == <<package_window, inflight, cwnd, sendme_pending_timestamps>>
edge    == <<inbuf, reading, packaging>>
vars    == <<status, windows, deliver_window, sendme_last_digests,
             sendme_digest, edge, wire, nrecv>>

-----------------------------------------------------------------------------
(* Cells.  A digest names the direction (its sender) and the position of a *)
(* cell in it.  ndata and nsendme are history: the DATA and SENDME cells   *)
(* of the direction up to and including this one.                          *)

Digests  == [from : Ends, pos : Nat]
NoDigest == [from |-> "client", pos |-> 0]
Cells    == [cmd : {"DATA", "SENDME", "OTHER"}, ver : {0, 1},
             digest : Digests, ndata : Nat, nsendme : Nat]

(* DATA and SENDME cells among the first n cells of a direction.           *)
NData(cells, n)   == IF n = 0 THEN 0 ELSE cells[n].ndata
NSendme(cells, n) == IF n = 0 THEN 0 ELSE cells[n].nsendme

DataSent(e)    == NData(wire[e], Len(wire[e]))
SendmesSent(e) == NSendme(wire[e], Len(wire[e]))
DataRecv(e)    == NData(wire[Peer(e)], nrecv[e])
SendmesRecv(e) == NSendme(wire[Peer(e)], nrecv[e])

Cell(e, cmd, ver, digest) ==
  [cmd |-> cmd, ver |-> ver, digest |-> digest,
   ndata   |-> DataSent(e) + (IF cmd = "DATA" THEN 1 ELSE 0),
   nsendme |-> SendmesSent(e) + (IF cmd = "SENDME" THEN 1 ELSE 0)]

-----------------------------------------------------------------------------
(* Window arithmetic of both algorithms.                                   *)

(* How many cells e may still package.                                     *)
congestion_control_get_package_window(e) ==
  IF ~UseCC THEN package_window[e]
  ELSE IF inflight[e] > cwnd[e] THEN 0
  ELSE cwnd[e] - inflight[e]

(* Will the next cell e sends make the peer send a SENDME?                 *)
circuit_sent_cell_for_sendme(e) ==
  IF UseCC
  THEN /\ inflight[e] # 0
       /\ (inflight[e] + 1) % sendme_inc = 0
  ELSE /\ package_window[e] # CIRCWINDOW_START
       /\ (package_window[e] - 1) % sendme_inc = 0

FaultySendmeIsNext(e) ==
  (CIRCWINDOW_START - deliver_window[e]) % sendme_inc = 0

(* Will the next cell e receives make e send a SENDME?                     *)
circuit_sendme_cell_is_next(e) ==
  (CIRCWINDOW_START - (deliver_window[e] - 1)) % sendme_inc = 0

(* Content of the digest slot once e has encrypted and queued a cell.      *)
sendme_record_sending_cell_digest(e) ==
  IF circuit_sent_cell_for_sendme(e)
  THEN [from |-> e, pos |-> Len(wire[e]) + 1]
  ELSE sendme_digest[e]

(* Content of the digest slot once e has decrypted and recognised a cell.  *)
sendme_record_received_cell_digest(e) ==
  IF circuit_sendme_cell_is_next(e)
  THEN [from |-> Peer(e), pos |-> nrecv[e] + 1]
  ELSE sendme_digest[e]

FaultyRecordOnCirc(e, d) ==  \* reads the slot before the cell is encrypted
  IF circuit_sent_cell_for_sendme(e)
  THEN Append(sendme_last_digests[e], sendme_digest[e])
  ELSE sendme_last_digests[e]

(* The FIFO of expected digests after a DATA cell has been queued, with d  *)
(* in the digest slot.                                                     *)
sendme_record_cell_digest_on_circ(e, d) ==
  IF circuit_sent_cell_for_sendme(e)
  THEN Append(sendme_last_digests[e], d)
  ELSE sendme_last_digests[e]

-----------------------------------------------------------------------------
(* An edge connection has become readable: one more payload is read, and   *)
(* connection_edge_process_inbuf starts to package what is in the buffer.  *)
ReadFromEdge(e) ==
  /\ status[e] = "open" /\ reading[e] /\ ~packaging[e]
  /\ DataSent(e) + inbuf[e] < MaxData[e]
  /\ inbuf' = [inbuf EXCEPT ![e] = @ + 1]
  /\ packaging' = [packaging EXCEPT ![e] = TRUE]
  /\ UNCHANGED <<status, windows, deliver_window, sendme_last_digests,
                 sendme_digest, reading, wire, nrecv>>

FaultyDataPackaged(e) ==  \* does not count the cell that ends an increment
  IF circuit_sent_cell_for_sendme(e)
  THEN UNCHANGED windows
  ELSE IF UseCC
  THEN /\ inflight' = [inflight EXCEPT ![e] = @ + 1]
       /\ UNCHANGED <<package_window, cwnd, sendme_pending_timestamps>>
  ELSE /\ package_window' = [package_window EXCEPT ![e] = @ - 1]
       /\ UNCHANGED <<inflight, cwnd, sendme_pending_timestamps>>

(* What packaging one DATA cell does to the windows.                       *)
sendme_note_circuit_data_packaged(e) ==
  IF UseCC
  THEN /\ inflight' = [inflight EXCEPT ![e] = @ + 1]
       /\ sendme_pending_timestamps' =
            [sendme_pending_timestamps EXCEPT
               ![e] = IF circuit_sent_cell_for_sendme(e) THEN @ + 1 ELSE @]
       /\ UNCHANGED <<package_window, cwnd>>
  ELSE /\ package_window' = [package_window EXCEPT ![e] = @ - 1]
       /\ UNCHANGED <<inflight, cwnd, sendme_pending_timestamps>>

(* One turn of the packaging loop: relay_send_command_from_edge of a DATA  *)
(* cell.  The loop checked the circuit's package window just before.  The  *)
(* cell's digest is taken while it is encrypted and copied to the FIFO     *)
(* after it is queued; a window below 0 closes the circuit.                *)
PackageData(e) ==
  LET d == sendme_record_sending_cell_digest(e)
  IN  /\ status[e] = "open" /\ packaging[e] /\ inbuf[e] > 0
      /\ congestion_control_get_package_window(e) > 0
      /\ inbuf' = [inbuf EXCEPT ![e] = @ - 1]
      /\ sendme_digest' = [sendme_digest EXCEPT ![e] = d]
      /\ wire' = [wire EXCEPT ![e] = Append(@, Cell(e, "DATA", 0, NoDigest))]
      /\ sendme_last_digests' =
           [sendme_last_digests EXCEPT
              ![e] = sendme_record_cell_digest_on_circ(e, d)]
      /\ sendme_note_circuit_data_packaged(e)
      /\ status' = [status EXCEPT
           ![e] = IF congestion_control_get_package_window(e)' < 0
                  THEN "protocol" ELSE @]
      /\ UNCHANGED <<deliver_window, reading, packaging, nrecv>>

FaultyStopPackaging(e) ==  \* stops the edge even when the window is open
  /\ status[e] = "open" /\ packaging[e]
  /\ \/ congestion_control_get_package_window(e) <= 0
     \/ inbuf[e] = 0
  /\ packaging' = [packaging EXCEPT ![e] = FALSE]
  /\ reading' = [reading EXCEPT ![e] = FALSE]
  /\ UNCHANGED <<status, windows, deliver_window, sendme_last_digests,
                 sendme_digest, inbuf, wire, nrecv>>

(* The packaging loop ends: nothing is left to package, or the package     *)
(* window is empty and circuit_consider_stop_edge_reading stops the edge.  *)
StopPackaging(e) ==
  /\ status[e] = "open" /\ packaging[e]
  /\ \/ congestion_control_get_package_window(e) <= 0
     \/ inbuf[e] = 0
  /\ packaging' = [packaging EXCEPT ![e] = FALSE]
  /\ reading' = [reading EXCEPT
       ![e] = @ /\ congestion_control_get_package_window(e) > 0]
  /\ UNCHANGED <<status, windows, deliver_window, sendme_last_digests,
                 sendme_digest, inbuf, wire, nrecv>>

(* A cell that is not DATA: it is digested like every other, and may leave *)
(* its digest in the slot, but it consumes no window and no FIFO entry.    *)
OtherSent(e) == Cardinality({i \in DOMAIN wire[e] : wire[e][i].cmd = "OTHER"})

SendOther(e) ==
  /\ status[e] = "open" /\ ~packaging[e]
  /\ OtherSent(e) < MaxOther[e]
  /\ sendme_digest' = [sendme_digest EXCEPT
                         ![e] = sendme_record_sending_cell_digest(e)]
  /\ wire' = [wire EXCEPT ![e] = Append(@, Cell(e, "OTHER", 0, NoDigest))]
  /\ UNCHANGED <<status, windows, deliver_window, sendme_last_digests, edge,
                 nrecv>>

-----------------------------------------------------------------------------
(* Receiving.  Each end runs one event loop: it handles a cell to the end, *)
(* its packaging loop included, before the next event.                     *)

CellReady(e, cmd) ==
  /\ status[e] = "open" /\ ~packaging[e]
  /\ nrecv[e] < Len(wire[Peer(e)])
  /\ wire[Peer(e)][nrecv[e] + 1].cmd = cmd

(* sendme_circuit_consider_sending: is the deliver window w low enough for *)
(* a SENDME?  The C loop repeats while this holds; OneSendmePerCell below  *)
(* states that it never holds a second time.                               *)
SendmeDue(w) == w <= CIRCWINDOW_START - sendme_inc

(* The SENDME cell e builds from digest d.  A version 0 cell has no        *)
(* payload.                                                                *)
send_circuit_level_sendme(e, d) ==
  Cell(e, "SENDME", EmitVersion[e], IF EmitVersion[e] = 1 THEN d ELSE NoDigest)

(* A DATA cell: digest it, decrement the deliver window (below 0 closes    *)
(* the circuit), and answer with a SENDME when one is due.  The SENDME is  *)
(* built from the slot before its own encryption may overwrite the slot.   *)
ReceiveData(e) ==
  LET d == sendme_record_received_cell_digest(e)
      w == deliver_window[e] - 1
  IN  /\ CellReady(e, "DATA")
      /\ nrecv' = [nrecv EXCEPT ![e] = @ + 1]
      /\ IF w < 0
         THEN /\ status' = [status EXCEPT ![e] = "protocol"]
              /\ deliver_window' = [deliver_window EXCEPT ![e] = w]
              /\ sendme_digest' = [sendme_digest EXCEPT ![e] = d]
              /\ UNCHANGED wire
         ELSE IF SendmeDue(w)
         THEN /\ deliver_window' = [deliver_window EXCEPT ![e] = w + sendme_inc]
              /\ wire' = [wire EXCEPT
                            ![e] = Append(@, send_circuit_level_sendme(e, d))]
              /\ sendme_digest' = [sendme_digest EXCEPT
                   ![e] = IF circuit_sent_cell_for_sendme(e)
                          THEN sendme_record_sending_cell_digest(e) ELSE d]
              /\ UNCHANGED status
         ELSE /\ deliver_window' = [deliver_window EXCEPT ![e] = w]
              /\ sendme_digest' = [sendme_digest EXCEPT ![e] = d]
              /\ UNCHANGED <<status, wire>>
      /\ UNCHANGED <<windows, sendme_last_digests, edge>>

(* May e handle a SENDME of version ver?                                   *)
cell_version_can_be_handled(e, ver) == ver >= AcceptMin[e]

(* Is a SENDME acceptable, given the FIFO?  The first digest is popped     *)
(* whatever the version, and version 1 must carry it.                      *)
sendme_is_valid(e, cell) ==
  /\ cell_version_can_be_handled(e, cell.ver)
  /\ sendme_last_digests[e] # <<>>
  /\ cell.ver = 1 => cell.digest = Head(sendme_last_digests[e])

(* The fixed algorithm refuses a window above the maximum.                 *)
sendme_process_circuit_level_impl(e) ==
  package_window[e] + sendme_inc <= CIRCWINDOW_START

(* The digests left when a SENDME has been looked at.                      *)
pop_first_cell_digest(e) ==
  IF sendme_last_digests[e] = <<>> THEN <<>> ELSE Tail(sendme_last_digests[e])

FaultyAccept(e) ==  \* a SENDME that updates no estimate frees no cells
  IF UseCC
  THEN /\ sendme_pending_timestamps' =
            [sendme_pending_timestamps EXCEPT ![e] = @ - 1]
       /\ UNCHANGED <<package_window, inflight, cwnd>>
  ELSE UNCHANGED windows

(* A valid SENDME opens the window: the fixed algorithm adds the           *)
(* increment, congestion control takes sendme_inc cells out of flight,     *)
(* dequeues one timestamp and computes a new congestion window.            *)
AcceptSendme(e) ==
  IF UseCC
  THEN /\ inflight' = [inflight EXCEPT ![e] = @ - sendme_inc]
       /\ \E c \in Cwnds : cwnd' = [cwnd EXCEPT ![e] = c]
       /\ sendme_pending_timestamps' =
            [sendme_pending_timestamps EXCEPT ![e] = @ - 1]
       /\ UNCHANGED package_window
  ELSE /\ package_window' = [package_window EXCEPT ![e] = @ + sendme_inc]
       /\ UNCHANGED <<inflight, cwnd, sendme_pending_timestamps>>

(* A circuit-level SENDME.  An invalid one closes the circuit; after a     *)
(* valid one circuit_resume_edge_reading starts the edge again and         *)
(* packages what waits in its buffer.                                      *)
ReceiveSendme(e) ==
  LET cell == wire[Peer(e)][nrecv[e] + 1]
  IN  /\ CellReady(e, "SENDME")
      /\ nrecv' = [nrecv EXCEPT ![e] = @ + 1]
      /\ sendme_digest' = [sendme_digest EXCEPT
                             ![e] = sendme_record_received_cell_digest(e)]
      /\ sendme_last_digests' = [sendme_last_digests EXCEPT
           ![e] = IF cell_version_can_be_handled(e, cell.ver)
                  THEN pop_first_cell_digest(e) ELSE @]
      /\ IF /\ sendme_is_valid(e, cell)
            /\ UseCC \/ sendme_process_circuit_level_impl(e)
         THEN /\ AcceptSendme(e)
              /\ reading' = [reading EXCEPT ![e] = TRUE]
              /\ packaging' = [packaging EXCEPT ![e] = inbuf[e] > 0]
              /\ UNCHANGED status
         ELSE /\ status' = [status EXCEPT ![e] = "protocol"]
              /\ UNCHANGED <<windows, reading, packaging>>
      /\ UNCHANGED <<deliver_window, inbuf, wire>>

(* Any other recognised cell: only its digest matters here.                *)
ReceiveOther(e) ==
  /\ CellReady(e, "OTHER")
  /\ nrecv' = [nrecv EXCEPT ![e] = @ + 1]
  /\ sendme_digest' = [sendme_digest EXCEPT
                         ![e] = sendme_record_received_cell_digest(e)]
  /\ UNCHANGED <<status, windows, deliver_window, sendme_last_digests, edge,
                 wire>>

-----------------------------------------------------------------------------
(* The circuit is closed for a reason that is not a protocol error (idle   *)
(* timeout, lost channel, full cell queue), at any moment; the peer learns *)
(* it from a DESTROY, which overtakes the cells still queued.  A closed    *)
(* end drops every cell it gets.                                           *)
circuit_mark_for_close(e) ==
  /\ status[e] = "open"
  /\ status' = [status EXCEPT ![e] = "closed"]
  /\ UNCHANGED <<windows, deliver_window, sendme_last_digests, sendme_digest,
                 edge, wire, nrecv>>

ReceiveDestroy(e) ==
  /\ status[e] = "open" /\ ~packaging[e] /\ status[Peer(e)] # "open"
  /\ status' = [status EXCEPT ![e] = "closed"]
  /\ UNCHANGED <<windows, deliver_window, sendme_last_digests, sendme_digest,
                 edge, wire, nrecv>>

-----------------------------------------------------------------------------
Init ==
  /\ status = [e \in Ends |-> "open"]
  /\ package_window = [e \in Ends |-> circwindow]
  /\ inflight = [e \in Ends |-> 0]
  /\ cwnd = [e \in Ends |-> CwndInit]
  /\ sendme_pending_timestamps = [e \in Ends |-> 0]
  /\ deliver_window = [e \in Ends |-> CIRCWINDOW_START]
  /\ sendme_last_digests = [e \in Ends |-> <<>>]
  /\ sendme_digest = [e \in Ends |-> NoDigest]
  /\ inbuf = [e \in Ends |-> 0]
  /\ reading = [e \in Ends |-> TRUE]
  /\ packaging = [e \in Ends |-> FALSE]
  /\ wire = [e \in Ends |-> <<>>]
  /\ nrecv = [e \in Ends |-> 0]

EndStep(e) ==
  \/ ReadFromEdge(e) \/ PackageData(e) \/ StopPackaging(e) \/ SendOther(e)
  \/ ReceiveData(e) \/ ReceiveSendme(e) \/ ReceiveOther(e)
  \/ circuit_mark_for_close(e) \/ ReceiveDestroy(e)

Next == \E e \in Ends : EndStep(e)

Spec == Init /\ [][Next]_vars

(* The event loop keeps serving a readable channel and finishes a handler  *)
(* it has started; nothing obliges an application to write.                *)
Receive(e) == ReceiveData(e) \/ ReceiveSendme(e) \/ ReceiveOther(e)

Fairness == \A e \in Ends :
  /\ WF_vars(PackageData(e) \/ StopPackaging(e))
  /\ WF_vars(Receive(e))

FairSpec == Spec /\ Fairness

-----------------------------------------------------------------------------
(* Properties.                                                             *)

(* Types.  The windows keep to their ranges, which the code only checks    *)
(* after the fact (a package or deliver window below 0, a package window   *)
(* above CIRCWINDOW_START), and inflight, unsigned in the code, never goes *)
(* below zero.                                                             *)
TypeOK ==
  /\ status \in [Ends -> {"open", "protocol", "closed"}]
  /\ package_window \in [Ends -> 0 .. CIRCWINDOW_START]
  /\ deliver_window \in [Ends -> 0 .. CIRCWINDOW_START]
  /\ inflight \in [Ends -> Nat] /\ cwnd \in [Ends -> Nat \ {0}]
  /\ sendme_pending_timestamps \in [Ends -> Nat]
  /\ sendme_last_digests \in [Ends -> Seq(Digests)]
  /\ sendme_digest \in [Ends -> Digests]
  /\ inbuf \in [Ends -> Nat]
  /\ reading \in [Ends -> BOOLEAN] /\ packaging \in [Ends -> BOOLEAN]
  /\ wire \in [Ends -> Seq(Cells)] /\ nrecv \in [Ends -> Nat]

(* The configurations under which the two ends agree on which cells        *)
(* trigger a SENDME: the window is a whole number of increments, an        *)
(* increment is more than one cell, and SENDMEs are emitted in a version   *)
(* that the other end accepts.                                             *)
WellConfigured ==
  /\ sendme_inc > 1
  /\ UseCC \/ circwindow % sendme_inc = 0
  /\ \A e \in Ends : EmitVersion[Peer(e)] >= AcceptMin[e]

(* Two ends that both run this code never close the circuit for a protocol *)
(* error: no window leaves its range, no SENDME is unexpected and every    *)
(* digest matches, however their cells interleave.                         *)
NoProtocolClose == \A e \in Ends : status[e] # "protocol"

DataInFlight(e)    == DataSent(e) - DataRecv(Peer(e))
SendmesInFlight(e) == SendmesSent(e) - SendmesRecv(Peer(e))

(* Cells are never created or lost by the accounting: what e may not       *)
(* package any more is on the wire, or received and not acknowledged, or   *)
(* acknowledged by a SENDME that is on its way.                            *)
WindowConservation == \A e \in Ends :
  LET outstanding == DataInFlight(e)
                     + (CIRCWINDOW_START - deliver_window[Peer(e)])
                     + sendme_inc * SendmesInFlight(Peer(e))
  IN  (\A f \in Ends : status[f] # "protocol") =>
        IF UseCC THEN inflight[e] = outstanding
                 ELSE circwindow - package_window[e] = outstanding

(* The while loop of sendme_circuit_consider_sending never sends two       *)
(* SENDMEs for one cell, which would carry the same digest (the            *)
(* tor_assert_nonfatal at the end of the loop).                            *)
OneSendmePerCell == \A e \in Ends :
  deliver_window[e] > CIRCWINDOW_START - sendme_inc

(* The SENDMEs on their way to e carry, in order, the digests at the front *)
(* of e's FIFO, and the rest of the FIFO belongs to cells not yet received *)
(* by the peer.                                                            *)
SendmesMatchDigests == \A e \in Ends :
  LET p == Peer(e)
  IN  \A i \in nrecv[e] + 1 .. Len(wire[p]) :
        wire[p][i].cmd = "SENDME" =>
          LET k == wire[p][i].nsendme - SendmesRecv(e)
          IN  /\ k \in DOMAIN sendme_last_digests[e]
              /\ wire[p][i].ver = 1 =>
                   wire[p][i].digest = sendme_last_digests[e][k]

(* One timestamp waits for every digest that waits, so that no SENDME      *)
(* finds the timestamp queue empty and no RTT is measured against the      *)
(* wrong cell.                                                             *)
TimestampPerDigest == \A e \in Ends :
  UseCC /\ status[e] # "protocol" =>
    sendme_pending_timestamps[e] = Len(sendme_last_digests[e])

(* An edge that is not read has no window: no wakeup is lost between the   *)
(* last packaged cell and the SENDME that reopens the window.              *)
NoLostWakeup == \A e \in Ends :
  status[e] = "open" /\ ~packaging[e] /\ (~reading[e] \/ inbuf[e] > 0)
    => congestion_control_get_package_window(e) <= 0

(* circuit_sent_cell_for_sendme answers for the next DATA cell of e        *)
(* whether the peer will send a SENDME for it: it is the last of an        *)
(* increment ("Return true iff the next cell we send will result in the    *)
(* other endpoint sending a SENDME").                                      *)
SentCellForSendmeExact == \A e \in Ends :
  circuit_sent_cell_for_sendme(e) <=> (DataSent(e) + 1) % sendme_inc = 0

-----------------------------------------------------------------------------
(* The inductive invariant.  Its parts speak of the cells out that an end  *)
(* has sent, the cells in that its peer has sent and n, how many of those  *)
(* it has handled.                                                         *)

(* The history counts of a direction add up.                               *)
WireOK(cells) ==
  /\ \A i \in 1 .. Len(cells) :
       /\ cells[i].ndata = NData(cells, i - 1)
                            + (IF cells[i].cmd = "DATA" THEN 1 ELSE 0)
       /\ cells[i].nsendme = NSendme(cells, i - 1)
                              + (IF cells[i].cmd = "SENDME" THEN 1 ELSE 0)
  /\ \A i, j \in 1 .. Len(cells) : i < j =>
       /\ cells[i].ndata <= cells[j].ndata
       /\ cells[j].cmd = "DATA" => cells[i].ndata < cells[j].ndata
       /\ cells[i].nsendme <= cells[j].nsendme

(* The receiver: a SENDME for every whole increment received, and the      *)
(* deliver window lacks what is left.                                      *)
DeliverOK(in, n, out, dw) ==
  /\ n <= Len(in)
  /\ NData(in, n) = sendme_inc * NSendme(out, Len(out)) + (CIRCWINDOW_START - dw)
  /\ dw <= CIRCWINDOW_START /\ dw > CIRCWINDOW_START - sendme_inc

(* The sender: fifo holds the digests of the last cells of all increments  *)
(* that are sent and not acknowledged, oldest first.                       *)
FifoOK(e, out, in, n, fifo) ==
  LET acked == NSendme(in, n)
  IN  /\ NData(out, Len(out)) >= sendme_inc * (acked + Len(fifo))
      /\ NData(out, Len(out)) < sendme_inc * (acked + Len(fifo)) + sendme_inc
      /\ \A k \in 1 .. Len(fifo) :
           /\ fifo[k].from = e
           /\ fifo[k].pos \in 1 .. Len(out)
           /\ out[fifo[k].pos].cmd = "DATA"
           /\ out[fifo[k].pos].ndata = sendme_inc * (acked + k)

(* The sender's window, of the algorithm in use, counts what is sent and   *)
(* not acknowledged.                                                       *)
WindowOK(out, in, n, fifo, pw, infl, stamps) ==
  LET unacked == NData(out, Len(out)) - sendme_inc * NSendme(in, n)
  IN  IF UseCC
      THEN infl = unacked /\ stamps = Len(fifo) /\ pw = circwindow
      ELSE pw = circwindow - unacked /\ pw >= 0 /\ infl = 0 /\ stamps = 0

(* The k-th SENDME an end sent carries the digest of a DATA cell that it   *)
(* has handled, the last of the k-th increment.                            *)
SendmesOK(e, out, in, n) ==
  \A i \in 1 .. Len(out) : out[i].cmd = "SENDME" =>
    /\ out[i].ver = EmitVersion[e]
    /\ out[i].ver = 1 =>
         /\ out[i].digest.from = Peer(e)
         /\ out[i].digest.pos \in 1 .. n
         /\ in[out[i].digest.pos].cmd = "DATA"
         /\ in[out[i].digest.pos].ndata = sendme_inc * out[i].nsendme

(* Together: what keeps the two ends of a circuit agreed on which cells    *)
(* are acknowledged by which SENDMEs.                                      *)
EndAgrees(e) ==
  LET out == wire[e]  in == wire[Peer(e)]  n == nrecv[e]
      fifo == sendme_last_digests[e]
  IN  /\ WireOK(out)
      /\ DeliverOK(in, n, out, deliver_window[e])
      /\ FifoOK(e, out, in, n, fifo)
      /\ WindowOK(out, in, n, fifo, package_window[e], inflight[e],
                  sendme_pending_timestamps[e])
      /\ SendmesOK(e, out, in, n)
      /\ status[e] # "protocol"

EndsAgree == \A e \in Ends : EndAgrees(e)

-----------------------------------------------------------------------------
(* What waits in an edge buffer is packaged in the end, or the circuit is  *)
(* closed.                                                                 *)
BufferedDataGetsSent == \A e \in Ends :
  inbuf[e] > 0 ~> (inbuf[e] = 0 \/ \E f \in Ends : status[f] # "open")
=============================================================================
