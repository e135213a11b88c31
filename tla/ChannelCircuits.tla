--------------------------- MODULE ChannelCircuits ---------------------------
(***************************************************************************)
(* The circuits of one channel, seen from both of its ends: circuit IDs    *)
(* and the map from IDs to circuits (circuitlist.c), the circuit           *)
(* multiplexer that picks the next cell to send (circuitmux.c), and the    *)
(* queue of DESTROY cells, whose circuit IDs stay reserved until the cell  *)
(* has been written.                                                       *)
(*                                                                         *)
(* The "client" end creates circuits (they hang on its n_chan), the        *)
(* "relay" end accepts them (p_chan).  An end is a record, and every       *)
(* function of the code that changes it is an operator from end to end, or *)
(* from end to set of ends where the EWMA policy's choice of circuit is    *)
(* left open.                                                              *)
(***************************************************************************)
EXTENDS Integers, Sequences, FiniteSets, SequencesExt, FiniteSetsExt

CONSTANTS
  Circuits,      \* the circuits that are ever launched on the channel
  Ids,           \* circuit IDs
  NoId,          \* the circuit ID of a circuit that is not on the channel (0)
  MaxQueue,      \* circ_max_cell_queue_size
  MaxWire,       \* bound: cells written by one end and not yet read by the other
  Busy,          \* the ends at which relay cells are queued and memory may run out
  Fragile        \* the ends at which adding a cell to the outbuf may fail, or
                 \* the channel be closed for another reason

ASSUME ChannelCircuitsAssumption ==
  /\ MaxQueue \in Nat \ {0}
  /\ MaxWire \in Nat \ {0}
  /\ Busy \subseteq {"client", "relay"} /\ Fragile \subseteq {"client", "relay"}
  /\ NoId \notin Ids

VARIABLES
  end,    \* end[e]: all that one end keeps about the channel
  wrong   \* history: what reached a circuit it was not meant for

vars == <<end, wrong>>

Ends == {"client", "relay"}
Peer(e) == CHOOSE o \in Ends : o # e
NotAttached == -1

(* A cell on the wire.  circ is the circuit the sender meant; the code only *)
(* sends the ID.                                                            *)
Cell(cmd, id, k) == [cmd |-> cmd, id |-> id, circ |-> k]

-----------------------------------------------------------------------------
(* circuitmux.c: how many cells each attached circuit has, and which        *)
(* circuits the policy has in its queue.                                    *)

IsAttached(E, k) == E.count[k] # NotAttached

circuitmux_set_num_cells(E, k, n) ==
  [E EXCEPT !.count[k] = n,
            !.nCells = @ - E.count[k] + n,
            !.nActive = @ + (IF n > 0 THEN 1 ELSE 0) - (IF E.count[k] > 0 THEN 1 ELSE 0),
            !.active = IF n > 0 THEN @ \cup {k} ELSE @ \ {k}]

circuitmux_attach_circuit(E, k) ==
  circuitmux_set_num_cells([E EXCEPT !.count[k] = 0], k, Len(E.q[k]))

circuitmux_detach_circuit(E, k) ==
  IF IsAttached(E, k)
    THEN [circuitmux_set_num_cells(E, k, 0) EXCEPT !.count[k] = NotAttached]
    ELSE E

-----------------------------------------------------------------------------
(* circuitlist.c: the map from circuit ID to circuit.  An entry without a   *)
(* circuit ("held") reserves the ID while a DESTROY for it is queued.       *)

channel_mark_circid_unusable(E, id) ==
  IF E.map[id] \in Circuits THEN E ELSE [E EXCEPT !.map[id] = "held"]

channel_mark_circid_usable(E, id) == [E EXCEPT !.map[id] = "free"]

channel_note_destroy_pending(E, id) ==
  IF E.map[id] \in Circuits
    THEN [E EXCEPT !.del[E.map[id]] = TRUE]
    ELSE channel_mark_circid_unusable(E, id)

FaultyNoteNotPending(E, id) ==
  IF E.map[id] \in Circuits THEN E ELSE channel_mark_circid_usable(E, id)

channel_note_destroy_not_pending(E, id) ==
  IF E.map[id] \in Circuits
    THEN [E EXCEPT !.del[E.map[id]] = FALSE]
    ELSE channel_mark_circid_usable(E, id)

(* circuit_set_{n,p}_circid_chan(): with NoId the circuit leaves the        *)
(* channel.  The circuit is marked for close only if it is leaving.         *)
circuit_set_circid_chan(E, k, id) ==
  LET old == E.cid[k]
      Detached == IF old # NoId /\ E.st[k] # "marked"
                    THEN circuitmux_detach_circuit(E, k) ELSE E
      Unlinked == IF old # NoId THEN [Detached EXCEPT !.map[old] = "free"] ELSE Detached
      Linked == IF id # NoId
                  THEN circuitmux_attach_circuit(
                         [Unlinked EXCEPT !.cid[k] = id, !.map[id] = k], k)
                  ELSE [Unlinked EXCEPT !.cid[k] = id]
  IN IF E.del[k] /\ old # NoId
       THEN [channel_mark_circid_unusable(Linked, old) EXCEPT !.del[k] = FALSE]
       ELSE Linked

circuit_mark_for_close(E, k) ==
  IF E.st[k] = "up"
    THEN [E EXCEPT !.st[k] = "marked", !.pending = Append(@, k)] ELSE E

-----------------------------------------------------------------------------
(* Moving cells from the circuits' queues to the connection's outbuf.       *)

(* channel_write_packed_cell() on an open channel: the cell is on the       *)
(* outbuf, or the connection is closed for an error and the channel with it.*)
channel_write_packed_cell(e, E, cell) ==
  {[E EXCEPT !.out = Append(@, cell), !.unsent = TRUE]}
    \cup (IF e \in Fragile THEN {[E EXCEPT !.chan = "closing"]} ELSE {})

RECURSIVE channel_flush_from_first_active_circuit(_, _, _)

(* The loop's body for a relay cell of circuit k.  A circuit that the mux   *)
(* thinks active may have lost its queue to the out-of-memory handler.      *)
FlushCircuit(e, E, k, max) ==
  LET popped == [E EXCEPT !.q[k] = Tail(@)]
      sent(F) == circuitmux_set_num_cells(F, k, Len(popped.q[k]))
  IN IF E.q[k] = <<>>
       THEN channel_flush_from_first_active_circuit(
              e, circuit_mark_for_close(circuitmux_set_num_cells(E, k, 0), k), max)
     ELSE IF E.chan # "open"
       THEN channel_flush_from_first_active_circuit(e, popped, max)
     ELSE UNION {channel_flush_from_first_active_circuit(e, sent(F), max - 1) :
                   F \in channel_write_packed_cell(e, popped,
                           Cell(Head(E.q[k]), E.cid[k], k))}

(* circuitmux_get_first_active_circuit() alternates DESTROY cells with the  *)
(* cells of the circuit the policy picks; a cell that cannot be written is  *)
(* gone, and does not count as flushed.                                     *)
channel_flush_from_first_active_circuit(e, E, max) ==
  IF max = 0 THEN {E}
  ELSE IF E.dq # <<>> /\ (~E.lastDestroy \/ E.nActive = 0)
    THEN LET d == Head(E.dq)
             popped == [E EXCEPT !.dq = Tail(@), !.lastDestroy = TRUE]
         IN IF E.chan # "open"
              THEN channel_flush_from_first_active_circuit(e, popped, max)
              ELSE UNION {channel_flush_from_first_active_circuit(e, F, max - 1) :
                     F \in channel_write_packed_cell(
                             e, channel_note_destroy_not_pending(popped, d.id),
                             Cell("destroy", d.id, d.circ))}
  ELSE IF E.nActive > 0
    THEN UNION {FlushCircuit(e, [E EXCEPT !.lastDestroy = FALSE], k, max) : k \in E.active}
  ELSE {E}

(* channel_send_destroy() and circuitmux_append_destroy_cell(): with an     *)
(* empty outbuf one cell is moved there at once.                            *)
channel_send_destroy(e, E, id, k) ==
  LET queued == [channel_note_destroy_pending(E, id)
                   EXCEPT !.dq = Append(@, [id |-> id, circ |-> k])]
  IN IF E.chan # "open" THEN {E}
     ELSE IF E.unsent THEN {queued}
     ELSE channel_flush_from_first_active_circuit(e, queued, 1)

circuit_clear_cell_queue(E, k) ==
  LET cleared == [E EXCEPT !.q[k] = <<>>]
  IN IF IsAttached(E, k) THEN circuitmux_set_num_cells(cleared, k, 0) ELSE cleared

(* circuit_about_to_free() and circuit_free_(): a circuit that still has    *)
(* the channel says goodbye to the other end.                               *)
circuit_about_to_free(e, E, k) ==
  LET gone(F) == [circuit_set_circid_chan(circuitmux_detach_circuit(F, k), k, NoId)
                    EXCEPT !.st[k] = "freed", !.q[k] = <<>>]
  IN IF E.cid[k] = NoId THEN {gone(E)}
     ELSE {gone(F) : F \in channel_send_destroy(e, circuit_clear_cell_queue(E, k), E.cid[k], k)}

RECURSIVE FreeEach(_, _, _)
FreeEach(e, S, ks) ==
  IF ks = <<>> THEN S
  ELSE FreeEach(e, UNION {circuit_about_to_free(e, E, Head(ks)) : E \in S}, Tail(ks))

-----------------------------------------------------------------------------
(* The steps of an end.                                                     *)

Become(e, S) == \E E \in S : end' = [end EXCEPT ![e] = E]

(* get_unique_circ_id_by_chan(): any ID that is neither used nor held.      *)
get_unique_circ_id_by_chan(E) == {id \in Ids : E.map[id] = "free"}

(* circuit_deliver_create_cell(): an unused ID, the map, the mux, and the   *)
(* CREATE cell.                                                             *)
circuit_deliver_create_cell(k, id) ==
  /\ end["client"].chan = "open"
  /\ end["client"].st[k] = "none"
  /\ id \in get_unique_circ_id_by_chan(end["client"])
  /\ LET E == circuit_set_circid_chan([end["client"] EXCEPT !.st[k] = "up"], k, id)
     IN Become("client",
          {circuitmux_set_num_cells([E EXCEPT !.q[k] = <<"create">>], k, 1)})
  /\ UNCHANGED wrong

(* append_cell_to_circuit_queue(); the caller closes a circuit whose queue  *)
(* is full.                                                                 *)
append_cell_to_circuit_queue(e, k) ==
  LET E == end[e]
  IN /\ e \in Busy
     /\ E.st[k] = "up" /\ E.cid[k] # NoId
     /\ Become(e, {IF Len(E.q[k]) >= MaxQueue
                     THEN circuit_mark_for_close(E, k)
                     ELSE circuitmux_set_num_cells([E EXCEPT !.q[k] = Append(@, "relay")],
                                                   k, Len(E.q[k]) + 1)})
     /\ UNCHANGED wrong

(* The scheduler lets the channel flush up to max cells.                    *)
Flush(e, max) ==
  /\ end[e].chan = "open"
  /\ end[e].nCells + Len(end[e].dq) > 0
  /\ Len(end[e].out) + max <= MaxWire
  /\ Become(e, channel_flush_from_first_active_circuit(e, end[e], max))
  /\ UNCHANGED wrong

(* The outbuf has been written to the socket.                               *)
Drain(e) ==
  /\ end[e].unsent
  /\ Become(e, {[end[e] EXCEPT !.unsent = FALSE]})
  /\ UNCHANGED wrong

FaultyClose(e, k) ==
  /\ end[e].st[k] = "up"
  /\ Become(e, IF end[e].cid[k] = NoId THEN {circuit_mark_for_close(end[e], k)}
               ELSE {circuit_mark_for_close(E, k) :
                       E \in channel_send_destroy(e, end[e], end[e].cid[k], k)})
  /\ UNCHANGED wrong

(* Any of the reasons to close one circuit.                                 *)
Close(e, k) ==
  /\ end[e].st[k] = "up"
  /\ Become(e, {circuit_mark_for_close(end[e], k)})
  /\ UNCHANGED wrong

(* circuits_handle_oom() takes the queue and does not tell the mux.         *)
circuits_handle_oom(e, k) ==
  /\ e \in Busy
  /\ end[e].st[k] \in {"up", "marked"}
  /\ end[e].q[k] # <<>>
  /\ Become(e, {[circuit_mark_for_close(end[e], k) EXCEPT !.q[k] = <<>>]})
  /\ UNCHANGED wrong

circuit_close_all_marked(e) ==
  /\ end[e].pending # <<>>
  /\ Become(e, {[E EXCEPT !.pending = <<>>] : E \in FreeEach(e, {end[e]}, end[e].pending)})
  /\ UNCHANGED wrong

(* A RELAY_TRUNCATE cell: the relay at this end of its next hop's channel   *)
(* keeps the circuit and gives the hop up.                                  *)
Truncate(k) ==
  LET E == end["client"]
  IN /\ E.st[k] = "up" /\ E.cid[k] # NoId
     /\ Become("client",
          {circuit_set_circid_chan(F, k, NoId) :
             F \in channel_send_destroy("client", circuit_clear_cell_queue(E, k), E.cid[k], k)})
     /\ UNCHANGED wrong

-----------------------------------------------------------------------------
(* What arrives from the other end.                                         *)

Arriving(e) == Head(end[Peer(e)].out)

Receive(e, cmds) ==
  /\ end[e].chan = "open"
  /\ end[Peer(e)].out # <<>>
  /\ Arriving(e).cmd \in cmds

(* The cell leaves the wire, and the end becomes one of S.                  *)
Take(e, S) ==
  \E E \in S : end' = [end EXCEPT ![e] = E, ![Peer(e)].out = Tail(@)]

FaultyProcessCreate ==
  LET e == "relay"
      c == Arriving(e)
      E == end[e]
  IN /\ Receive(e, {"create"})
     /\ Take(e, {circuit_set_circid_chan([E EXCEPT !.st[c.circ] = "up"], c.circ, c.id)})
     /\ UNCHANGED wrong

(* command_process_create_cell(): dropped if the ID is in use, refused with *)
(* a DESTROY, or accepted.                                                  *)
command_process_create_cell ==
  LET e == "relay"
      c == Arriving(e)
      E == end[e]
  IN /\ Receive(e, {"create"})
     /\ \/ E.map[c.id] # "free" /\ Take(e, {E})
        \/ E.map[c.id] = "free" /\ Take(e, channel_send_destroy(e, E, c.id, c.circ))
        \/ /\ E.map[c.id] = "free"
           /\ Take(e, {circuit_set_circid_chan([E EXCEPT !.st[c.circ] = "up"], c.circ, c.id)})
     /\ UNCHANGED wrong

(* circuit_get_by_circid_channel(): the circuit with this ID that is not    *)
(* marked for close, if any.                                                *)
circuit_get_by_circid_channel(E, id) ==
  {k \in Circuits : E.map[id] = k /\ E.st[k] # "marked"}

(* command_process_relay_cell(): the cell goes to the circuit that has the  *)
(* ID now, or nowhere.                                                      *)
command_process_relay_cell(e) ==
  LET c == Arriving(e)
      found == circuit_get_by_circid_channel(end[e], c.id)
  IN /\ Receive(e, {"relay"})
     /\ Take(e, {end[e]})
     /\ wrong' = IF found \subseteq {c.circ} THEN wrong ELSE wrong \cup {"relay"}

(* command_process_destroy_cell(): the circuit leaves the channel before it *)
(* is closed, so that no DESTROY goes back.                                 *)
command_process_destroy_cell(e) ==
  LET c == Arriving(e)
      found == circuit_get_by_circid_channel(end[e], c.id)
      closed(k) == circuit_mark_for_close(circuit_set_circid_chan(end[e], k, NoId), k)
  IN /\ Receive(e, {"destroy"})
     /\ Take(e, IF found = {} THEN {end[e]} ELSE {closed(k) : k \in found})
     /\ wrong' = IF found \subseteq {c.circ} THEN wrong ELSE wrong \cup {"destroy"}

-----------------------------------------------------------------------------
(* The end of the channel.                                                  *)

(* channel_close_for_error() and the like.                                  *)
channel_mark_for_close(e) ==
  /\ e \in Fragile
  /\ end[e].chan = "open"
  /\ Become(e, {[end[e] EXCEPT !.chan = "closing"]})
  /\ UNCHANGED wrong

(* channel_closed(): circuit_unlink_all_from_channel() empties the mux and  *)
(* closes the circuits it held.                                             *)
channel_closed(e) ==
  LET E == end[e]
      held == SetToSeq({k \in Circuits : IsAttached(E, k)})
      muted == [E EXCEPT !.count = [k \in Circuits |-> NotAttached], !.nCells = 0,
                         !.nActive = 0, !.active = {}]
      unlink(k, F) == circuit_mark_for_close(circuit_set_circid_chan(F, k, NoId), k)
  IN /\ E.chan = "closing"
     /\ Become(e, {[FoldRight(unlink, held, muted) EXCEPT !.chan = "closed"]})
     /\ UNCHANGED wrong

circuitmux_mark_destroyed_circids_usable(E) ==
  FoldLeft(LAMBDA F, d : channel_mark_circid_usable(F, d.id), E, E.dq)

(* channel_run_cleanup(), channel_free_() and circuitmux_free_().           *)
channel_run_cleanup(e) ==
  /\ end[e].chan = "closed"
  /\ Become(e, {[circuitmux_mark_destroyed_circids_usable(end[e])
                   EXCEPT !.chan = "freed", !.dq = <<>>]})
  /\ UNCHANGED wrong

(* A channel without circuits.  It may have had some before: then the last  *)
(* cell that an end sent may have been a DESTROY.                           *)
Init ==
  /\ \E last \in [Ends -> BOOLEAN] : end = [e \in Ends |->
       [chan |-> "open",
        st |-> [k \in Circuits |-> "none"],
        cid |-> [k \in Circuits |-> NoId],
        q |-> [k \in Circuits |-> <<>>],
        del |-> [k \in Circuits |-> FALSE],
        pending |-> <<>>,
        map |-> [id \in Ids |-> "free"],
        count |-> [k \in Circuits |-> NotAttached],
        nCells |-> 0, nActive |-> 0, active |-> {},
        dq |-> <<>>, lastDestroy |-> last[e],
        out |-> <<>>, unsent |-> FALSE]]
  /\ wrong = {}

Next ==
  \/ \E k \in Circuits, id \in Ids : circuit_deliver_create_cell(k, id)
  \/ \E k \in Circuits : Truncate(k)
  \/ command_process_create_cell
  \/ \E e \in Ends, k \in Circuits :
       \/ append_cell_to_circuit_queue(e, k)
       \/ Close(e, k)
       \/ circuits_handle_oom(e, k)
  \/ \E e \in Ends :
       \/ \E max \in 1..MaxWire : Flush(e, max)
       \/ Drain(e)
       \/ circuit_close_all_marked(e)
       \/ command_process_relay_cell(e)
       \/ command_process_destroy_cell(e)
       \/ channel_mark_for_close(e)
       \/ channel_closed(e)
       \/ channel_run_cleanup(e)

Spec == Init /\ [][Next]_vars

-----------------------------------------------------------------------------
(* Properties.                                                              *)

(* Types of the two ends' state.                                            *)
TypeOK ==
  /\ \A e \in Ends : LET E == end[e] IN
       /\ E.chan \in {"open", "closing", "closed", "freed"}
       /\ E.st \in [Circuits -> {"none", "up", "marked", "freed"}]
       /\ E.cid \in [Circuits -> Ids \cup {NoId}]
       /\ \A k \in Circuits : E.q[k] \in Seq({"create", "relay"}) /\ Len(E.q[k]) <= MaxQueue
       /\ E.del = [k \in Circuits |-> FALSE]
       /\ E.pending \in Seq(Circuits)
       /\ E.count \in [Circuits -> {NotAttached} \cup 0..MaxQueue]
       /\ E.nCells \in Nat /\ E.nActive \in Nat /\ E.active \subseteq Circuits
       /\ E.lastDestroy \in BOOLEAN /\ E.unsent \in BOOLEAN
  /\ wrong \subseteq {"relay", "destroy"}

(* assert_circuit_ok(): a circuit that has an ID on the channel is the one  *)
(* the map finds under that ID, and the map finds no circuit that has left  *)
(* the channel or was freed.                                                *)
MapFindsCircuits ==
  \A e \in Ends : LET E == end[e] IN
    /\ \A k \in Circuits : E.cid[k] # NoId => E.map[E.cid[k]] = k
    /\ \A id \in Ids, k \in Circuits :
         E.map[id] = k => E.cid[k] = id /\ E.st[k] \in {"up", "marked"}

(* The check of circuitmux_count_queued_destroy_cells(): no circuit ID has  *)
(* two DESTROYs queued, and one that has a DESTROY queued is reserved, on a *)
(* channel that is going down too.  As long as the channel is open no other *)
(* ID is reserved, so that none is lost to later circuits.                  *)
DestroysHoldTheirIds ==
  \A e \in Ends : LET E == end[e] IN
    \A id \in Ids :
      LET queued == Cardinality({i \in DOMAIN E.dq : E.dq[i].id = id}) IN
        /\ queued <= (IF E.map[id] = "held" THEN 1 ELSE 0)
        /\ E.chan = "open" => (queued = 1 <=> E.map[id] = "held")

(* The mux agrees with the circuits it serves: its totals are the sums over *)
(* the attached circuits, exactly the circuits on the channel are attached, *)
(* and a circuit counted active without cells is one the out-of-memory      *)
(* handler has already marked for close.                                    *)
MuxAgreesWithCircuits ==
  \A e \in Ends : LET E == end[e]
                      attached == {k \in Circuits : IsAttached(E, k)} IN
    /\ attached = {k \in Circuits : E.cid[k] # NoId}
    /\ E.active = {k \in attached : E.count[k] > 0}
    /\ E.nActive = Cardinality(E.active)
    /\ E.nCells = MapThenSumSet(LAMBDA k : E.count[k], attached)
    /\ \A k \in attached :
         E.count[k] # Len(E.q[k]) => E.st[k] = "marked" /\ E.q[k] = <<>>

(* The ID map and the multiplexer agree with the circuits of the channel.   *)
CircuitsAgree == TypeOK /\ MapFindsCircuits /\ MuxAgreesWithCircuits

(* Whatever the order in which the mux mixes DESTROY cells with the cells   *)
(* of the circuits that are left, and whatever it drops when the channel    *)
(* goes down in the middle, an end sends nothing about a circuit after its  *)
(* DESTROY.                                                                 *)
DestroyIsLast ==
  \A e \in Ends : LET out == end[e].out IN
    \A i, j \in DOMAIN out :
      i < j /\ out[i].cmd = "destroy" => out[j].circ # out[i].circ

(* No entry of the map outlives the channel it points to.                   *)
NoDanglingEntries ==
  \A e \in Ends : end[e].chan = "freed" => \A id \in Ids : end[e].map[id] = "free"

(* A DESTROY closes the circuit it was sent for and no other: an ID is not  *)
(* given to a new circuit while the other end still uses it for the old one.*)
DestroyHitsItsCircuit == "destroy" \notin wrong
=============================================================================
