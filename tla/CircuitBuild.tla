---------------------------- MODULE CircuitBuild ----------------------------
(***************************************************************************)
(* Building and tearing down circuits, hop by hop (circuitbuild.c,         *)
(* circuitbuild_relay.c, command.c, circuitlist.c).  The origin is node 0; *)
(* all circuits run through the relays 1, 2, ... and share the channels    *)
(* between neighbours, which are launched, open and fail at any moment.  A *)
(* node without a usable channel to the next one keeps the circuit waiting *)
(* until some channel to that relay opens or fails.                        *)
(*                                                                         *)
(* A cell is what it asks or answers and, for EXTEND, the relay that is to *)
(* extend: the layers of encryption decide nothing else.  A circuit has    *)
(* circuit IDs of its own (ChannelCircuits.tla is about their reuse), a    *)
(* handshake is answered or not (OnionQueue.tla), and a finished circuit   *)
(* is usable now, later or never (EntryGuards.tla).  Left out: TRUNCATE,   *)
(* which nobody sends, the probes and padding that delay a close, and      *)
(* channels that the next relay launched.                                  *)
(***************************************************************************)
EXTENDS Naturals, Sequences, FiniteSets

CONSTANTS
  Circuits,
  MaxLen,      \* the number of relays
  Addr,        \* Addr[k]: the address that circuit k's origin knows the relays by
  Canonical,   \* the address in the consensus
  Plans        \* bounds: the instances that are looked at

(* A plan bounds a behaviour.  len: desired_path_len of the circuits, 0 for *)
(* one that is not launched; most: how far circuit_extend_to_new_exit() may *)
(* go; chans: channels between neighbours; faults: closes that nobody in    *)
(* the model asks for.                                                      *)
ASSUME CircuitBuildAssumption ==
  /\ MaxLen \in Nat \ {0}
  /\ Plans \subseteq [len : [Circuits -> 0..MaxLen], most : [Circuits -> 0..MaxLen],
                     chans : [0..(MaxLen - 1) -> Nat], faults : Nat]

VARIABLES
  node,   \* node[k][i]: the circuit_t of circuit k at node i
  path,   \* path[k]: the cpath of circuit k at its origin
  fwd,    \* fwd[k][i]: cells of circuit k from node i to node i + 1
  bwd,    \* bwd[k][i]: and from node i + 1 to node i
  on,     \* on[k][i]: the channel that carries them, 0 before there is one
  chan,   \* chan[i][x]: channel x from node i to node i + 1
  faults  \* closes that nobody asks for and that may still happen

vars == <<node, path, fwd, bwd, on, chan, faults>>

Nodes == 0..MaxLen
Relays == 1..MaxLen
Links == 0..(MaxLen - 1)
Chans(i) == DOMAIN chan[i]

CircuitStates == {"none", "chan_wait", "building", "guard_wait",
                  "onionskin_pending", "open", "freed"}
NoCircuit == [state |-> "none", p_chan |-> FALSE, n_chan |-> FALSE, marked |-> FALSE]
NoChannel == [near |-> "none", far |-> "none", addr |-> Canonical, bad |-> FALSE]
Gone == [NoChannel EXCEPT !.near = "closed", !.far = "closed"]

Cell(cmd) == [cmd |-> cmd, hop |-> 0]
Extend(r) == [cmd |-> "EXTEND", hop |-> r]
DESTROY == Cell("DESTROY")

Init ==
  /\ node = [k \in Circuits |-> [i \in Nodes |-> NoCircuit]]
  /\ fwd = [k \in Circuits |-> [i \in Links |-> <<>>]]
  /\ bwd = [k \in Circuits |-> [i \in Links |-> <<>>]]
  /\ on = [k \in Circuits |-> [i \in Links |-> 0]]
  /\ \E plan \in Plans :
       /\ path = [k \in Circuits |-> [len |-> plan.len[k], most |-> plan.most[k],
                                     open |-> 0, awaiting |-> FALSE]]
       /\ chan = [i \in Links |-> [x \in 1..plan.chans[i] |-> NoChannel]]
       /\ faults = plan.faults

Exists(k, i) == node[k][i].state \notin {"none", "freed"}
Live(k, i) == Exists(k, i) /\ ~node[k][i].marked
Marked(c) == [c EXCEPT !.marked = TRUE]

(* Cells for a channel that is closing are never sent.                      *)
SentForward(w, k, i, cell) ==
  IF chan[i][on[k][i]].near = "open" THEN [w EXCEPT ![k][i] = Append(@, cell)] ELSE w
SentBack(w, k, i, cell) ==
  IF chan[i][on[k][i]].far = "open" THEN [w EXCEPT ![k][i] = Append(@, cell)] ELSE w

-----------------------------------------------------------------------------
(* Finding or launching the channel to the next node.                       *)

CanonicalOrWanted(i, x, k) == chan[i][x].addr \in {Canonical, Addr[k]}

(* channel_get_for_extend(): the channels to choose from, and whether one   *)
(* to the wanted address is on its way.                                     *)
channel_get_for_extend(i, k) ==
  {x \in Chans(i) : chan[i][x].near = "open" /\ ~chan[i][x].bad /\ CanonicalOrWanted(i, x, k)}
InProgress(i, k) ==
  \E x \in Chans(i) : chan[i][x].near = "opening" /\ chan[i][x].addr = Addr[k]

channel_connect_for_circuit(i, k) ==
  \E x \in Chans(i) :
    /\ chan[i][x].near = "none"
    /\ chan' = [chan EXCEPT ![i][x].near = "opening", ![i][x].addr = Addr[k]]

(* circuit_deliver_create_cell() and what its callers do next: the origin   *)
(* awaits the keys of its first hop, a relay's circuit is open again.       *)
Delivered(c, i) == [c EXCEPT !.n_chan = TRUE, !.state = IF i = 0 THEN "building" ELSE "open"]

(* circuit_handle_first_hop() at the origin, the end of circuit_extend() at *)
(* a relay.  A circuit fails if it finds no free circuit ID on the channel, *)
(* or if no connection can be launched.  w: the cells under way.            *)
Connect(k, i, w) ==
  \/ \E x \in channel_get_for_extend(i, k) :
       /\ on' = [on EXCEPT ![k][i] = x]
       /\ fwd' = [w EXCEPT ![k][i] = <<Cell("CREATE")>>]
       /\ path' = IF i = 0 THEN [path EXCEPT ![k].awaiting = TRUE] ELSE path
       /\ node' = [node EXCEPT ![k][i] = Delivered(@, i)]
       /\ UNCHANGED chan
  \/ /\ channel_get_for_extend(i, k) = {}
     /\ node' = [node EXCEPT ![k][i].state = "chan_wait"]
     /\ IF InProgress(i, k) THEN UNCHANGED chan ELSE channel_connect_for_circuit(i, k)
     /\ fwd' = w /\ UNCHANGED <<path, on>>
  \/ /\ channel_get_for_extend(i, k) # {} \/ ~InProgress(i, k)
     /\ node' = [node EXCEPT ![k][i] =
                   [Marked(@) EXCEPT !.state =
                      IF i = 0 \/ channel_get_for_extend(i, k) = {} THEN "chan_wait"
                      ELSE node[k][i].state]]
     /\ fwd' = w /\ UNCHANGED <<path, on, chan>>

circuit_establish_circuit(k) ==
  /\ node[k][0].state = "none" /\ path[k].len > 0
  /\ Connect(k, 0, fwd)
  /\ UNCHANGED bwd

FaultyPending(i) ==
  {k \in Circuits : Live(k, i) /\ node[k][i].state \in {"chan_wait", "building"}}

(* circuit_get_all_pending_on_channel() and the tests of                    *)
(* circuit_n_chan_done(): the relay's identity decides.  The test of        *)
(* chan->is_canonical looks at a method pointer, which is always set, so    *)
(* the channel's address is not looked at.                                  *)
Pending(i) == {k \in Circuits : Live(k, i) /\ node[k][i].state = "chan_wait"}

(* A channel opens, and the circuits that wait for its relay send their     *)
(* CREATE cells, except those that find no circuit ID.                      *)
channel_do_open_actions(i, x) ==
  /\ chan[i][x].near = "opening"
  /\ chan' = [chan EXCEPT ![i][x].near = "open", ![i][x].far = "open"]
  /\ \E served \in SUBSET Pending(i) :
       /\ on' = [k \in Circuits |-> IF k \in served THEN [on[k] EXCEPT ![i] = x] ELSE on[k]]
       /\ fwd' = [k \in Circuits |->
                    IF k \in served THEN [fwd[k] EXCEPT ![i] = <<Cell("CREATE")>>] ELSE fwd[k]]
       /\ path' = [k \in Circuits |->
                     [path[k] EXCEPT !.awaiting = @ \/ (i = 0 /\ k \in served)]]
       /\ node' = [k \in Circuits |->
                     IF k \in served THEN [node[k] EXCEPT ![i] = Delivered(@, i)]
                     ELSE IF k \in Pending(i) THEN [node[k] EXCEPT ![i] = Marked(@)]
                     ELSE node[k]]
  /\ UNCHANGED bwd

(* A better or newer channel exists, or this one is a week old.             *)
channel_mark_bad_for_new_circs(i, x) ==
  /\ chan[i][x].near = "open" /\ ~chan[i][x].bad
  /\ chan' = [chan EXCEPT ![i][x].bad = TRUE]
  /\ UNCHANGED <<node, path, fwd, bwd, on>>

(* The connection of a channel fails or is closed at its near end ...       *)
channel_mark_for_close(i, x) ==
  /\ chan[i][x].near \in {"opening", "open"}
  /\ chan' = [chan EXCEPT ![i][x].near = "closing"]
  /\ UNCHANGED <<node, path, fwd, bwd, on>>

FaultyChannelClosed(i, x) ==
  /\ chan[i][x].near = "closing"
  /\ chan' = [chan EXCEPT ![i][x] =
                IF @.far = "open" THEN [@ EXCEPT !.near = "closed"] ELSE Gone]
  /\ node' = [k \in Circuits |->
                IF on[k][i] = x /\ node[k][i].n_chan
                THEN [node[k] EXCEPT ![i] = [Marked(@) EXCEPT !.n_chan = FALSE]]
                ELSE node[k]]
  /\ bwd' = [k \in Circuits |-> IF on[k][i] = x THEN [bwd[k] EXCEPT ![i] = <<>>] ELSE bwd[k]]
  /\ UNCHANGED <<path, fwd, on>>

(* ... and when that is done the circuits on it are unlinked and marked; a  *)
(* channel that was never open also fails the circuits that wait for its    *)
(* relay.                                                                   *)
channel_closed(i, x) ==
  /\ chan[i][x].near = "closing"
  /\ chan' = [chan EXCEPT ![i][x] =
                IF @.far = "open" THEN [@ EXCEPT !.near = "closed"] ELSE Gone]
  /\ node' = [k \in Circuits |->
                IF on[k][i] = x /\ node[k][i].n_chan
                THEN [node[k] EXCEPT ![i] = [Marked(@) EXCEPT !.n_chan = FALSE]]
                ELSE IF chan[i][x].far = "none" /\ k \in Pending(i)
                THEN [node[k] EXCEPT ![i] = Marked(@)]
                ELSE node[k]]
  /\ bwd' = [k \in Circuits |-> IF on[k][i] = x THEN [bwd[k] EXCEPT ![i] = <<>>] ELSE bwd[k]]
  /\ UNCHANGED <<path, fwd, on>>

(* The far end of a channel closes it, or notices that it was closed.       *)
FarEndCloses(i, x) ==
  /\ chan[i][x].far = "open"
  /\ chan' = [chan EXCEPT ![i][x] =
                IF @.near = "closed" THEN Gone ELSE [@ EXCEPT !.far = "closed"]]
  /\ node' = [k \in Circuits |->
                IF on[k][i] = x /\ node[k][i + 1].p_chan
                THEN [node[k] EXCEPT ![i + 1] = [Marked(@) EXCEPT !.p_chan = FALSE]]
                ELSE node[k]]
  /\ fwd' = [k \in Circuits |-> IF on[k][i] = x THEN [fwd[k] EXCEPT ![i] = <<>>] ELSE fwd[k]]
  /\ UNCHANGED <<path, bwd, on>>

-----------------------------------------------------------------------------
(* Cells that reach relay r from the origin's side, over link r - 1.  A     *)
(* circuit that is marked for close receives no cells.                      *)

FromBehind(k, r, cmd) ==
  /\ fwd[k][r - 1] # <<>> /\ Head(fwd[k][r - 1]).cmd = cmd
  /\ chan[r - 1][on[k][r - 1]].far = "open"
PoppedFwd(k, r) == [fwd EXCEPT ![k][r - 1] = Tail(@)]

(* A relay may refuse a CREATE (it is closing down or overloaded), or make  *)
(* a circuit whose handshake it cannot take on.                             *)
command_process_create_cell(k, r) ==
  /\ FromBehind(k, r, "CREATE")
  /\ fwd' = PoppedFwd(k, r)
  /\ \/ bwd' = SentBack(bwd, k, r - 1, DESTROY) /\ UNCHANGED node
     \/ /\ \E refused \in BOOLEAN : node' = [node EXCEPT ![k][r] =
              [NoCircuit EXCEPT !.state = "onionskin_pending", !.p_chan = TRUE,
                                !.marked = refused]]
        /\ UNCHANGED bwd
  /\ UNCHANGED <<path, on, chan>>

(* The handshake has been computed: cpuworker_onion_handshake_replyfn() and *)
(* onionskin_answer().                                                      *)
onionskin_answer(k, r) ==
  /\ Live(k, r) /\ node[k][r].state = "onionskin_pending"
  /\ \/ /\ node' = [node EXCEPT ![k][r].state = "open"]
        /\ bwd' = SentBack(bwd, k, r - 1, Cell("CREATED"))
     \/ node' = [node EXCEPT ![k][r] = Marked(@)] /\ UNCHANGED bwd
  /\ UNCHANGED <<path, fwd, on, chan>>

(* An EXTEND cell for this relay: the circuit must neither have a next hop  *)
(* nor wait for one.                                                        *)
circuit_extend(k, r) ==
  IF node[k][r].n_chan \/ node[k][r].state = "chan_wait"
  THEN /\ node' = [node EXCEPT ![k][r] = Marked(@)]
       /\ fwd' = PoppedFwd(k, r) /\ UNCHANGED <<path, on, chan>>
  ELSE Connect(k, r, PoppedFwd(k, r))

(* A relay cell going out is for this relay, or is passed on if there is a  *)
(* next hop.                                                                *)
command_process_relay_cell_out(k, r) ==
  /\ FromBehind(k, r, "EXTEND")
  /\ LET cell == Head(fwd[k][r - 1])
         ready == node[k][r].state # "onionskin_pending"
     IN  IF ~Live(k, r)
         THEN fwd' = PoppedFwd(k, r) /\ UNCHANGED <<node, path, on, chan>>
         ELSE IF ready /\ cell.hop = r THEN circuit_extend(k, r)
         ELSE IF ready /\ node[k][r].n_chan
         THEN /\ fwd' = SentForward(PoppedFwd(k, r), k, r, cell)
              /\ UNCHANGED <<node, path, on, chan>>
         ELSE /\ node' = [node EXCEPT ![k][r] = Marked(@)]
              /\ fwd' = PoppedFwd(k, r) /\ UNCHANGED <<path, on, chan>>
  /\ UNCHANGED bwd

(* A DESTROY from behind unlinks the circuit, so that it is not answered.   *)
DestroyFromBehind(k, r) ==
  /\ FromBehind(k, r, "DESTROY")
  /\ fwd' = PoppedFwd(k, r)
  /\ node' = IF Live(k, r)
             THEN [node EXCEPT ![k][r] = [Marked(@) EXCEPT !.p_chan = FALSE]] ELSE node
  /\ UNCHANGED <<path, bwd, on, chan>>

-----------------------------------------------------------------------------
(* Cells that reach node i from ahead, over link i.                         *)

FromAhead(k, i, cmd) ==
  /\ bwd[k][i] # <<>> /\ Head(bwd[k][i]).cmd = cmd
  /\ chan[i][on[k][i]].near = "open"
PoppedBwd(k, i) == [bwd EXCEPT ![k][i] = Tail(@)]

(* circuit_send_next_onion_skin() once the first hop is open: ask the last  *)
(* open hop to extend to the next, or finish.  p: the cpath.                *)
circuit_send_next_onion_skin(k, p) ==
  IF p.open < p.len
  THEN /\ fwd' = SentForward(fwd, k, 0, Extend(p.open))
       /\ path' = [path EXCEPT ![k] = [p EXCEPT !.awaiting = TRUE]]
       /\ node' = [node EXCEPT ![k][0].state = "building"]
  ELSE /\ \E usable \in {"open", "guard_wait"} :
            node' = [node EXCEPT ![k][0].state = usable]
       /\ path' = [path EXCEPT ![k] = p]
       /\ UNCHANGED fwd

(* A hop has answered: circuit_finish_handshake(), or close the circuit.    *)
HopAnswered(k) ==
  \/ circuit_send_next_onion_skin(k, [path[k] EXCEPT !.open = @ + 1, !.awaiting = FALSE])
  \/ node' = [node EXCEPT ![k][0] = Marked(@)] /\ UNCHANGED <<path, fwd>>

(* At the origin the first hop has answered; a relay turns the answer into  *)
(* an EXTENDED cell.                                                        *)
command_process_created_cell(k, i) ==
  /\ FromAhead(k, i, "CREATED")
  /\ IF ~Live(k, i) THEN bwd' = PoppedBwd(k, i) /\ UNCHANGED <<node, path, fwd>>
     ELSE IF i = 0 THEN bwd' = PoppedBwd(k, i) /\ HopAnswered(k)
     ELSE /\ bwd' = SentBack(PoppedBwd(k, i), k, i - 1, Cell("EXTENDED"))
          /\ UNCHANGED <<node, path, fwd>>
  /\ UNCHANGED <<on, chan>>

(* A relay cell coming in is for the origin.                                *)
command_process_relay_cell_in(k, i) ==
  /\ FromAhead(k, i, "EXTENDED")
  /\ IF ~Live(k, i) THEN bwd' = PoppedBwd(k, i) /\ UNCHANGED <<node, path, fwd>>
     ELSE IF i = 0 THEN bwd' = PoppedBwd(k, i) /\ HopAnswered(k)
     ELSE /\ bwd' = SentBack(PoppedBwd(k, i), k, i - 1, Cell("EXTENDED"))
          /\ UNCHANGED <<node, path, fwd>>
  /\ UNCHANGED <<on, chan>>

DestroyFromAhead(k, i) ==
  /\ FromAhead(k, i, "DESTROY")
  /\ bwd' = PoppedBwd(k, i)
  /\ node' = IF Live(k, i)
             THEN [node EXCEPT ![k][i] = [Marked(@) EXCEPT !.n_chan = FALSE]] ELSE node
  /\ UNCHANGED <<path, fwd, on, chan>>

-----------------------------------------------------------------------------
(* The origin's own decisions, and closing.                                 *)

(* A better guard has failed: the circuit may be used.                      *)
circuit_upgrade_circuits_from_guard_wait(k) ==
  /\ Live(k, 0) /\ node[k][0].state = "guard_wait"
  /\ node' = [node EXCEPT ![k][0].state = "open"]
  /\ UNCHANGED <<path, fwd, bwd, on, chan>>

circuit_extend_to_new_exit(k) ==
  /\ Live(k, 0) /\ node[k][0].state = "open" /\ path[k].len < path[k].most
  /\ circuit_send_next_onion_skin(k, [path[k] EXCEPT !.len = @ + 1])
  /\ UNCHANGED <<bwd, on, chan>>

FaultyExpireBuilding(k) ==
  /\ Live(k, 0) /\ node[k][0].state \in {"chan_wait", "building"}
  /\ path[k].open > 0 \/ path[k].awaiting
  /\ node' = [node EXCEPT ![k][0] = Marked(@)]
  /\ UNCHANGED <<path, fwd, bwd, on, chan>>

(* Time is up for a circuit that is not open, unless its first hop has not  *)
(* been started.                                                            *)
circuit_expire_building(k) ==
  /\ Live(k, 0) /\ node[k][0].state \in {"chan_wait", "building", "guard_wait"}
  /\ path[k].open > 0 \/ path[k].awaiting
  /\ node' = [node EXCEPT ![k][0] = Marked(@)]
  /\ UNCHANGED <<path, fwd, bwd, on, chan>>

(* Any node may give a circuit up: it is idle, memory is short, the         *)
(* controller says so.                                                      *)
circuit_mark_for_close(k, i) ==
  /\ Live(k, i)
  /\ node' = [node EXCEPT ![k][i] = Marked(@)]
  /\ UNCHANGED <<path, fwd, bwd, on, chan>>

(* The origin's first hop never answered: the channel is not used again.    *)
circuit_build_failed(k, x) ==
  node[k][0].n_chan /\ on[k][0] = x /\ path[k].open = 0

(* One side of circuit_about_to_free(): cells that were not sent yet are    *)
(* dropped (unless keep), and a DESTROY goes where the circuit is still     *)
(* linked.  w: the cells on their way to that side.                         *)
circuit_about_to_free(w, linked, sending, keep) ==
  IF ~linked THEN w
  ELSE (IF keep THEN w ELSE <<>>) \o (IF sending THEN <<DESTROY>> ELSE <<>>)

circuit_close_all_marked(i) ==
  LET gone == {k \in Circuits : Exists(k, i) /\ node[k][i].marked}
  IN  /\ gone # {}
      /\ \E sent \in SUBSET gone :
           /\ fwd' = [k \in Circuits |->
                 IF k \in gone /\ i < MaxLen
                 THEN [fwd[k] EXCEPT ![i] = circuit_about_to_free(@, node[k][i].n_chan,
                          node[k][i].n_chan /\ chan[i][on[k][i]].near = "open", k \in sent)]
                 ELSE fwd[k]]
           /\ bwd' = [k \in Circuits |->
                 IF k \in gone /\ i > 0
                 THEN [bwd[k] EXCEPT ![i - 1] =
                          circuit_about_to_free(@, node[k][i].p_chan, node[k][i].p_chan, k \in sent)]
                 ELSE bwd[k]]
      /\ node' = [k \in Circuits |->
             IF k \in gone THEN [node[k] EXCEPT ![i] = [NoCircuit EXCEPT !.state = "freed"]]
             ELSE node[k]]
      /\ chan' = [chan EXCEPT ![0] = [x \in Chans(0) |->
                     [chan[0][x] EXCEPT !.bad =
                        @ \/ (i = 0 /\ \E k \in gone : circuit_build_failed(k, x))]]]
      /\ path' = [k \in Circuits |->
             IF i = 0 /\ k \in gone THEN [len |-> 0, most |-> 0, open |-> 0, awaiting |-> FALSE]
             ELSE path[k]]
      /\ UNCHANGED on

-----------------------------------------------------------------------------

(* What happens without anybody deciding to: cells arrive, handshakes are   *)
(* computed, timers expire, closed connections are noticed.                 *)
Progress ==
  \/ \E k \in Circuits, r \in Relays :
       \/ command_process_create_cell(k, r) \/ onionskin_answer(k, r)
       \/ command_process_relay_cell_out(k, r) \/ DestroyFromBehind(k, r)
  \/ \E k \in Circuits, i \in Links :
       \/ command_process_created_cell(k, i) \/ command_process_relay_cell_in(k, i)
       \/ DestroyFromAhead(k, i)
  \/ \E i \in Links : \E x \in Chans(i) :
       \/ channel_do_open_actions(i, x) \/ channel_closed(i, x)
       \/ chan[i][x].far = "closed" /\ channel_mark_for_close(i, x)
       \/ chan[i][x].near \in {"closing", "closed"} /\ FarEndCloses(i, x)
  \/ \E k \in Circuits : circuit_expire_building(k)
  \/ \E i \in Nodes : circuit_close_all_marked(i)

Decision ==
  \E k \in Circuits : \/ circuit_establish_circuit(k) \/ circuit_extend_to_new_exit(k)
                      \/ circuit_upgrade_circuits_from_guard_wait(k)

Fault ==
  \/ \E k \in Circuits, i \in Nodes : circuit_mark_for_close(k, i)
  \/ \E i \in Links : \E x \in Chans(i) :
       \/ channel_mark_bad_for_new_circs(i, x) \/ channel_mark_for_close(i, x)
       \/ FarEndCloses(i, x)

Next ==
  \/ (Progress \/ Decision) /\ UNCHANGED faults
  \/ Fault /\ faults > 0 /\ faults' = faults - 1

Spec == Init /\ [][Next]_vars

(* Circuits, hops and channels are bounded, so only stopping early has to   *)
(* be excluded.                                                             *)
FairSpec == Spec /\ WF_vars(Progress /\ UNCHANGED faults)

-----------------------------------------------------------------------------
(* Properties.                                                              *)

(* Circuits, paths and channels are in the states the code gives them.      *)
TypeOK ==
  /\ \A k \in Circuits, i \in Nodes :
       node[k][i] \in [state : CircuitStates, p_chan : BOOLEAN, n_chan : BOOLEAN,
                       marked : BOOLEAN]
  /\ path \in [Circuits -> [len : 0..MaxLen, most : 0..MaxLen, open : 0..MaxLen,
                         awaiting : BOOLEAN]]
  /\ \A k \in Circuits, i \in Links : on[k][i] \in {0} \cup Chans(i)
  /\ \A i \in Links : \A x \in Chans(i) :
       /\ chan[i][x].near \in {"none", "opening", "open", "closing", "closed"}
       /\ chan[i][x].far \in {"none", "open", "closed"}

Has(w, cmd) == \E j \in 1..Len(w) : w[j].cmd = cmd
Broken(k, i) == chan[i][on[k][i]].near # "open" \/ chan[i][on[k][i]].far # "open"

(* Nobody keeps a half of a circuit that the node next to it has forgotten: *)
(* a DESTROY or the end of the channel is on its way to it.  A circuit that *)
(* waits for a channel has one on its way, which will serve or fail it.     *)
NobodyIsOrphaned ==
  /\ \A k \in Circuits, i \in Links :
       /\ Live(k, i) /\ node[k][i].n_chan =>
            \/ Broken(k, i) \/ Has(fwd[k][i], "CREATE")
            \/ node[k][i + 1].p_chan \/ Has(bwd[k][i], "DESTROY")
       /\ Live(k, i + 1) =>
            \/ Broken(k, i) \/ node[k][i].n_chan \/ Has(fwd[k][i], "DESTROY")
       /\ k \in Pending(i) =>
            \E x \in Chans(i) : chan[i][x].near \in {"opening", "closing"}
                             /\ chan[i][x].far = "none"

(* The news that circuit k has failed at one of the hops the origin knows   *)
(* of, or at the one it is adding, is on its way.                           *)
Failing(k) ==
  \E i \in {j \in Links : j <= path[k].open} :
    \/ Has(bwd[k][i], "DESTROY")
    \/ node[k][i].n_chan /\ Broken(k, i)
    \/ node[k][i + 1].marked

(* The places where the one handshake under way can be.                     *)
HandshakePlaces(k) ==
  {<<"fwd", i>> : i \in {j \in Links : Has(fwd[k][j], "CREATE") \/ Has(fwd[k][j], "EXTEND")}}
  \cup {<<"bwd", i>> : i \in {j \in Links : Has(bwd[k][j], "CREATED") \/ Has(bwd[k][j], "EXTENDED")}}
  \cup {<<"at", r>> : r \in {q \in Relays : Live(k, q) /\
                               node[k][q].state \in {"onionskin_pending", "chan_wait"}}}

(* The origin and the relays agree on how far the circuit reaches.  While   *)
(* the origin awaits an answer, its question or the answer is in exactly    *)
(* one place, otherwise in none, unless the circuit is failing: no honest   *)
(* node meets an answer it did not ask for ("got extended when circ already *)
(* built?"), an EXTEND it cannot serve ("n_chan already set. Bug/attack"),  *)
(* or a cell for a later hop it does not have.                              *)
PathAgrees ==
  TypeOK /\ \A k \in Circuits : Live(k, 0) /\ ~Failing(k) =>
    /\ Cardinality(HandshakePlaces(k)) = IF path[k].awaiting THEN 1 ELSE 0
    /\ path[k].awaiting => node[k][0].state = "building" /\ path[k].open < path[k].len
    /\ node[k][0].state \in {"open", "guard_wait"} => path[k].open = path[k].len
    /\ \A r \in 1..path[k].open : /\ Live(k, r)
                                  /\ node[k][r].state \in {"open", "chan_wait"}
                                  /\ r < path[k].open => node[k][r].n_chan

(* A circuit that was launched is open in the end, or neither the origin    *)
(* nor any relay has it any more.  No timer runs while it waits for its     *)
(* first channel: "The ORConn should timeout independently and kill us      *)
(* then."  Each circuit is launched once, so "in the end all are settled"   *)
(* says it of each.                                                         *)
Settled(k) ==
  \/ node[k][0].state = "none"
  \/ Live(k, 0) /\ node[k][0].state = "open"
  \/ \A i \in Nodes : ~Exists(k, i)

EveryCircuitResolves == []<>(\A k \in Circuits : Settled(k))

(* A circuit that waited for a channel gets a canonical one or one to the   *)
(* address it asked for: "If the channel is canonical, great.  If not, it   *)
(* needs to match the requested address exactly."                           *)
UsesSuitableChannels ==
  \A k \in Circuits, i \in Links : on[k][i] # 0 => CanonicalOrWanted(i, on[k][i], k)
=============================================================================
