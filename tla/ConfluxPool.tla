----------------------------- MODULE ConfluxPool -----------------------------
(***************************************************************************)
(* The life of one conflux set (core/or/conflux_pool.c): the client        *)
(* launches the legs of a nonce, recovers the ones that close, links them  *)
(* with the LINK / LINKED / LINKED_ACK handshake and gathers them in a     *)
(* conflux object; the exit keeps its own objects for the nonce.  Circuits *)
(* close on their own at either end, are marked first and freed later, and *)
(* a freed circuit tells the other end with a DESTROY.                     *)
(*                                                                         *)
(* The model has one nonce: sets of different nonces share nothing.  The   *)
(* failing attempts to launch a leg call back into conflux_launch_leg      *)
(* before they return; their outcomes are given in closed form.  What the  *)
(* scheduler of the set keeps (Conflux.tla) enters as one bit: once a set  *)
(* has carried a stream, the loss of a leg may require a full teardown.    *)
(***************************************************************************)
EXTENDS Naturals, Sequences, FiniteSets

CONSTANTS NumLegs,      \* conflux_params_get_num_legs_set()
          Retries,      \* conflux_params_get_max_unlinked_leg_retry()
          MaxLegs       \* conflux_params_get_max_legs_set()

ASSUME ParamsAssumption ==
    /\ NumLegs \in Nat \ {0}
    /\ Retries \in Nat
    /\ MaxLegs \in Nat /\ MaxLegs >= 3

MaxLaunch == NumLegs + Retries
Circs == 1 .. MaxLaunch
Ids == 1 .. MaxLaunch       \* conflux_t objects; 0 is NULL

Client == "client"
Exit == "exit"
Ends == {Client, Exit}
Other(e) == IF e = Client THEN Exit ELSE Client

CircStates == {"none", "building", "open", "marked", "freed"}
Cells == {"LINK", "LINKED", "LINKED_ACK", "BEGIN", "DESTROY"}

VARIABLES
    circ,       \* circ[e][c]: the circuit's state at end e
    unlinked,   \* the client's unlinked_circuits_t of the nonce
    linked,     \* linked[e]: pool entry and conflux objects of end e
    wire        \* wire[e][c]: the cells on their way to end e

vars == <<circ, unlinked, linked, wire>>

NoSet == [exists |-> FALSE, legs |-> {}, linked |-> {}, launches |-> 0]
NoObjects == [pool |-> 0, legs |-> [k \in Ids |-> {}],
              ptr |-> [c \in Circs |-> 0], live |-> {}, used |-> {},
              made |-> 0]

Init ==
    /\ circ = [e \in Ends |-> [c \in Circs |-> "none"]]
    /\ unlinked = NoSet
    /\ linked = [e \in Ends |-> NoObjects]
    /\ wire = [e \in Ends |-> [c \in Circs |-> <<>>]]

-----------------------------------------------------------------------------
(***************************************************************************)
(* Wires.                                                                  *)
(***************************************************************************)
Arrives(e, c, cell) ==
    circ[e][c] = "open" /\ wire[e][c] # <<>> /\ Head(wire[e][c]) = cell

\* A circuit that is marked or freed reads no more cells.
Dropped(w) ==
    [e \in Ends |-> [c \in Circs |->
        IF circ'[e][c] = "open" THEN w[e][c] ELSE <<>>]]

\* The wires after e takes its next cell of c and answers with reply.
Taken(e, c, reply) ==
    Dropped([wire EXCEPT ![e][c] = Tail(@), ![Other(e)][c] = @ \o reply])

\* Relays on the path drop any number of the cells queued behind those they
\* have sent on when the DESTROY reaches them.
DestroySent(e, c, keep) ==
    Dropped([wire EXCEPT ![Other(e)][c] =
                            SubSeq(@, 1, keep) \o <<"DESTROY">>])

-----------------------------------------------------------------------------
(***************************************************************************)
(* Launching.                                                              *)
(***************************************************************************)
launch_leg_is_allowed(launches) == launches < MaxLaunch

\* What one call for a set that has legs comes to: every failed attempt
\* closes its circuit, and closing it launches again until none is allowed.
conflux_launch_leg(launches) ==
    LET tries == {n \in (launches + 1) .. (MaxLaunch + 1) :
                     launch_leg_is_allowed(n - 1)}
    IN {[legs |-> 1, launches |-> n] : n \in tries}
       \cup {[legs |-> 0, launches |-> launches + Cardinality(tries)]}

\* The loop stops at the first call that fails.  When that is the very first
\* one the set is freed at once, and nothing of it is left.
launch_new_set ==
    {[legs |-> NumLegs, launches |-> NumLegs]} \cup
    UNION {{[o EXCEPT !.legs = @ + i] : o \in conflux_launch_leg(i + 1)} :
              i \in 1 .. (NumLegs - 1)}

\* The next n circuits, in the order they are made.
NextCircs(n) ==
    LET used == {c \in Circs : circ[Client][c] # "none"}
    IN (Cardinality(used) + 1) .. (Cardinality(used) + n)

Building(states, cs) ==
    [c \in Circs |-> IF c \in cs THEN "building" ELSE states[c]]

conflux_predict_new ==
    /\ \A c \in Circs : circ[Client][c] = "none"
    /\ \E o \in launch_new_set :
          /\ circ' = [circ EXCEPT ![Client] = Building(@, NextCircs(o.legs))]
          /\ unlinked' = [exists |-> TRUE, legs |-> NextCircs(o.legs),
                          linked |-> {}, launches |-> o.launches]
    /\ linked' = [linked EXCEPT ![Client].live = {1}, ![Client].made = 1]
    /\ UNCHANGED wire

-----------------------------------------------------------------------------
(***************************************************************************)
(* Closing a circuit: what circuit_mark_for_close does to the set.         *)
(***************************************************************************)
\* A leg of the unlinked set has closed: the emptied set is freed, and a
\* set with other legs tries to launch another one.
FaultyUnlinkedCircuitClosed(c) ==
    \E o \in conflux_launch_leg(unlinked.launches) :
       /\ unlinked' = [unlinked EXCEPT
                         !.legs = (@ \ {c}) \cup NextCircs(o.legs),
                         !.linked = @ \ {c}, !.launches = o.launches]
       /\ circ' = [circ EXCEPT ![Client] =
                     [Building(@, NextCircs(o.legs)) EXCEPT ![c] = "marked"]]
       /\ UNCHANGED linked
unlinked_circuit_closed(c) ==
    IF unlinked.legs = {c}
    THEN /\ unlinked' = NoSet
         /\ circ' = [circ EXCEPT ![Client][c] = "marked"]
         /\ linked' = [linked EXCEPT ![Client].live = @ \ {1}]
    ELSE \E o \in conflux_launch_leg(unlinked.launches) :
            /\ unlinked' = [unlinked EXCEPT
                              !.legs = (@ \ {c}) \cup NextCircs(o.legs),
                              !.linked = @ \ {c}, !.launches = o.launches]
            /\ circ' = [circ EXCEPT ![Client] =
                          [Building(@, NextCircs(o.legs)) EXCEPT
                              ![c] = "marked"]]
            /\ UNCHANGED linked

\* The object s has after cfx_del_leg of c from k.  The last leg keeps its
\* pointer, so that the object can be freed with it, and the pool entry of
\* the nonce goes; every other leg loses the pointer.
FaultyLegRemoved(s, k, c) ==
    LET left == s.legs[k] \ {c}
    IN [s EXCEPT !.legs[k] = left, !.ptr[c] = IF left = {} THEN k ELSE 0]
LegRemoved(s, k, c) ==
    LET left == s.legs[k] \ {c}
    IN [s EXCEPT !.legs[k] = left,
                 !.ptr[c] = IF left = {} THEN k ELSE 0,
                 !.pool = IF left = {} THEN 0 ELSE @]

\* Marking all legs of the pool's entry closes them one by one; the last of
\* them keeps the pointer.
conflux_mark_all_for_close(s, keep) ==
    [s EXCEPT !.legs[s.pool] = {},
              !.ptr = [d \in Circs |-> IF d \in s.legs[s.pool] \ {keep}
                                       THEN 0 ELSE s.ptr[d]],
              !.pool = 0]

\* cfx_del_leg asks for a full teardown when the leg was in use.
FullTeardowns(s, k) == IF k \in s.used THEN BOOLEAN ELSE {FALSE}

linked_circuit_closed(e, c) ==
    LET k == linked[e].ptr[c]
        s == LegRemoved(linked[e], k, c)
    IN /\ \E full \in FullTeardowns(s, k) :
            IF full /\ s.pool # 0
            THEN \E keep \in s.legs[s.pool] :
                    /\ linked' = [linked EXCEPT
                                    ![e] = conflux_mark_all_for_close(s, keep)]
                    /\ circ' = [circ EXCEPT ![e] =
                          [d \in Circs |-> IF d \in s.legs[s.pool] \cup {c}
                                           THEN "marked" ELSE @[d]]]
            ELSE /\ linked' = [linked EXCEPT ![e] = s]
                 /\ circ' = [circ EXCEPT ![e][c] = "marked"]
       /\ UNCHANGED unlinked

\* circuit_mark_for_close of a circuit that is not marked yet.
conflux_circuit_has_closed(e, c) ==
    IF e = Client /\ c \in unlinked.legs
    THEN unlinked_circuit_closed(c)
    ELSE IF linked[e].ptr[c] # 0
         THEN linked_circuit_closed(e, c)
         ELSE /\ circ' = [circ EXCEPT ![e][c] = "marked"]
              /\ UNCHANGED <<unlinked, linked>>

\* Timeouts, path failures, channel errors and the idle limit.
CloseCircuit(e, c) ==
    /\ circ[e][c] \in {"building", "open"}
    /\ conflux_circuit_has_closed(e, c)
    /\ wire' = Dropped(wire)

command_process_destroy_cell(e, c) ==
    /\ Arrives(e, c, "DESTROY")
    /\ conflux_circuit_has_closed(e, c)
    /\ wire' = Taken(e, c, <<>>)

\* A circuit that points at an object without legs is its last one.  The
\* pool entry of the nonce is removed whichever object it names.
FaultyLinkedCircuitFree(s, c) ==
    [s EXCEPT !.ptr[c] = 0]
linked_circuit_free(s, c) ==
    LET k == s.ptr[c]
    IN IF k # 0 /\ s.legs[k] = {}
       THEN [s EXCEPT !.pool = 0, !.live = @ \ {k}, !.ptr[c] = 0]
       ELSE [s EXCEPT !.ptr[c] = 0]

\* circuit_close_all_marked, in the post-loop cleanup.
circuit_about_to_free(e, c) ==
    /\ circ[e][c] = "marked"
    /\ circ' = [circ EXCEPT ![e][c] = "freed"]
    /\ linked' = [linked EXCEPT ![e] = linked_circuit_free(@, c)]
    /\ \E keep \in 0 .. Len(wire[Other(e)][c]) :
          wire' = DestroySent(e, c, keep)
    /\ UNCHANGED unlinked

\* tor_free_all of the client: every circuit is freed without being closed,
\* then the pools.  Its channels go down, and each path ends in a DESTROY.
ClientShutdown ==
    /\ \E c \in Circs : circ[Client][c] \notin {"none", "freed"}
    /\ circ' = [circ EXCEPT ![Client] = [c \in Circs |-> "freed"]]
    /\ unlinked' = NoSet
    /\ linked' = [linked EXCEPT ![Client] =
                     [NoObjects EXCEPT !.made = linked[Client].made]]
    /\ wire' = Dropped([wire EXCEPT ![Exit] =
                           [c \in Circs |-> Append(@[c], "DESTROY")]])

-----------------------------------------------------------------------------
(***************************************************************************)
(* The handshake.                                                          *)
(***************************************************************************)
conflux_circuit_has_opened(c) ==
    /\ circ[Client][c] = "building"
    /\ circ' = [circ EXCEPT ![Client][c] = "open", ![Exit][c] = "open"]
    /\ wire' = [wire EXCEPT ![Exit][c] = <<"LINK">>]
    /\ UNCHANGED <<unlinked, linked>>

\* The exit's objects after the leg c is linked, which happens before LINKED
\* is sent: to the object of the pool, or else to a new one.
LegLinked(s, c) ==
    LET k == IF s.pool # 0 THEN s.pool ELSE s.made + 1
    IN [s EXCEPT !.pool = k, !.legs[k] = @ \cup {c}, !.ptr[c] = k,
                 !.live = @ \cup {k}, !.made = IF k > @ THEN k ELSE @]

TooManyLegs(s) == s.pool # 0 /\ Cardinality(s.legs[s.pool]) + 1 > MaxLegs

conflux_process_link(c) ==
    /\ Arrives(Exit, c, "LINK")
    /\ IF linked[Exit].ptr[c] # 0 \/ TooManyLegs(linked[Exit])
       THEN /\ conflux_circuit_has_closed(Exit, c)
            /\ wire' = Taken(Exit, c, <<>>)
       ELSE /\ linked' = [linked EXCEPT ![Exit] = LegLinked(@, c)]
            /\ UNCHANGED <<circ, unlinked>>
            /\ wire' = Taken(Exit, c, <<"LINKED">>)

\* All legs are linked: they move to the object, the object to the linked
\* pool, and the unlinked set is freed.
Finalized(s, legs) ==
    [s EXCEPT !.pool = 1, !.legs[1] = legs,
              !.ptr = [c \in Circs |-> IF c \in legs THEN 1 ELSE @[c]]]

try_finalize_set(set) ==
    IF Cardinality(set.legs) <= MaxLegs /\ set.linked = set.legs
    THEN /\ unlinked' = NoSet
         /\ linked' = [linked EXCEPT ![Client] = Finalized(@, set.legs)]
    ELSE /\ unlinked' = set
         /\ UNCHANGED linked

\* A LINKED whose round trip was too long closes the leg.
conflux_process_linked(c) ==
    /\ Arrives(Client, c, "LINKED")
    /\ \/ /\ conflux_circuit_has_closed(Client, c)
          /\ wire' = Taken(Client, c, <<>>)
       \/ /\ c \in unlinked.legs
          /\ try_finalize_set([unlinked EXCEPT !.linked = @ \cup {c}])
          /\ UNCHANGED circ
          /\ wire' = Taken(Client, c, <<"LINKED_ACK">>)

\* Only the round trip is recorded; a circuit without an object is a BUG
\* and is closed (AnswersFindLegs).
conflux_process_linked_ack(c) ==
    /\ Arrives(Exit, c, "LINKED_ACK")
    /\ IF linked[Exit].ptr[c] # 0
       THEN UNCHANGED <<circ, unlinked, linked>>
       ELSE conflux_circuit_has_closed(Exit, c)
    /\ wire' = Taken(Exit, c, <<>>)

\* A stream is attached to the set: BEGIN leaves on one of its legs.
conflux_get_circ_for_conn(c) ==
    LET s == linked[Client]
    IN /\ s.pool # 0 /\ s.pool \notin s.used
       /\ c \in s.legs[s.pool]
       /\ linked' = [linked EXCEPT ![Client].used = @ \cup {s.pool}]
       /\ UNCHANGED <<circ, unlinked>>
       /\ wire' = Dropped([wire EXCEPT ![Exit][c] = Append(@, "BEGIN")])

connection_exit_begin_conn(c) ==
    /\ Arrives(Exit, c, "BEGIN")
    /\ linked' = [linked EXCEPT ![Exit].used = @ \cup
                     ({linked[Exit].ptr[c]} \ {0})]
    /\ UNCHANGED <<circ, unlinked>>
    /\ wire' = Taken(Exit, c, <<>>)

-----------------------------------------------------------------------------
CellArrives(e, c) ==
    \/ e = Exit /\ conflux_process_link(c)
    \/ e = Client /\ conflux_process_linked(c)
    \/ e = Exit /\ conflux_process_linked_ack(c)
    \/ e = Exit /\ connection_exit_begin_conn(c)
    \/ command_process_destroy_cell(e, c)

Next ==
    \/ conflux_predict_new
    \/ ClientShutdown
    \/ \E c \in Circs :
          \/ conflux_circuit_has_opened(c)
          \/ conflux_get_circ_for_conn(c)
    \/ \E e \in Ends, c \in Circs :
          \/ CellArrives(e, c)
          \/ CloseCircuit(e, c)
          \/ circuit_about_to_free(e, c)

Spec == Init /\ [][Next]_vars

\* Cells arrive, the post-loop cleanup runs, and the timeouts of the client
\* close the circuits of an unlinked set: no stream is attached to them.
Fairness ==
    /\ \A c \in Circs : WF_vars(c \in unlinked.legs /\ CloseCircuit(Client, c))
    /\ \A e \in Ends, c \in Circs :
          /\ WF_vars(CellArrives(e, c))
          /\ WF_vars(circuit_about_to_free(e, c))

FairSpec == Spec /\ Fairness

-----------------------------------------------------------------------------
TypeOK ==
    /\ circ \in [Ends -> [Circs -> CircStates]]
    /\ unlinked \in [exists : BOOLEAN, legs : SUBSET Circs,
                     linked : SUBSET Circs, launches : 0 .. MaxLaunch]
    /\ linked \in [Ends -> [pool : {0} \cup Ids, legs : [Ids -> SUBSET Circs],
                            ptr : [Circs -> {0} \cup Ids], live : SUBSET Ids,
                            used : SUBSET Ids, made : 0 .. MaxLaunch]]
    /\ wire \in [Ends -> [Circs -> Seq(Cells)]]

\* The objects of both ends live exactly as long as something refers to
\* them: no circuit, leg list or pool entry refers to a freed object, and an
\* object nothing refers to has been freed (conflux_free in
\* linked_circuit_free and unlinked_free).
ObjectsOwned ==
    /\ \A e \in Ends : \A k \in Ids :
          k \in linked[e].live <=>
             \/ \E c \in Circs : linked[e].ptr[c] = k
             \/ e = Client /\ k = 1 /\ unlinked.exists
    /\ \A e \in Ends : linked[e].pool \in {0} \cup linked[e].live

\* The first leg of a pooled set is read without a check
\* (conflux_get_circ_for_conn and get_exit_for_nonce): a set in the linked
\* pool has a leg, and every leg is an open circuit that points back at it.
PooledLegsUsable ==
    \A e \in Ends : \A k \in Ids :
       /\ linked[e].pool = k => linked[e].legs[k] # {}
       /\ \A c \in linked[e].legs[k] :
             circ[e][c] = "open" /\ linked[e].ptr[c] = k

\* The client's circuits belong to an unlinked set or to a linked one, never
\* to both, and an unlinked set in the pool has legs, none of them closed
\* (the assertions on the purpose in unlinked_circuit_closed and cfx_add_leg
\* and on is_for_linked_set in linked_circuit_free).
OneClientSet ==
    /\ unlinked.exists => linked[Client].pool = 0 /\ unlinked.legs # {}
    /\ unlinked.linked \subseteq unlinked.legs
    /\ \A c \in unlinked.legs :
          circ[Client][c] \in {"building", "open"} /\ linked[Client].ptr[c] = 0

\* The BUG() of conflux_process_linked and of conflux_process_linked_ack:
\* a LINKED finds its leg in the unlinked set of an open circuit, and a
\* LINKED_ACK finds its leg in the exit's object.
AnswersFindLegs ==
    \A c \in Circs :
       /\ Arrives(Client, c, "LINKED") => c \in unlinked.legs
       /\ Arrives(Exit, c, "LINKED_ACK") =>
             LET k == linked[Exit].ptr[c]
             IN k # 0 /\ c \in linked[Exit].legs[k]

\* The exit links before it answers, so that a BEGIN that overtakes the
\* LINKED_ACKs of other legs still finds its streams: whatever the client
\* has linked, the exit has linked or closed.
ExitLinksFirst ==
    \A c \in Circs :
       linked[Client].ptr[c] # 0 \/ c \in unlinked.linked =>
          linked[Exit].ptr[c] # 0 \/ circ[Exit][c] \in {"marked", "freed"}

\* What the assertions of both ends say of the handshake and of the pools,
\* together.
HandshakeAgrees ==
    TypeOK /\ PooledLegsUsable /\ OneClientSet /\ AnswersFindLegs /\ ExitLinksFirst

\* A leg in the unlinked set is waited for only while the set still lacks
\* it: the pool's entry always has a leg whose LINKED is outstanding.
WaitsForALeg ==
    unlinked.exists => unlinked.linked # unlinked.legs

\* The exit indexes its objects by nonce, so the legs that the client has
\* linked in one set, as far as they are open at the exit, are legs of one
\* object there: the streams and the order of the cells are kept in it.
LegsShareObject ==
    \A c, d \in linked[Client].legs[1] :
       circ[Exit][c] = "open" /\ circ[Exit][d] = "open" =>
          linked[Exit].ptr[c] = linked[Exit].ptr[d]

\* A set does not stay in the unlinked pool forever: it is linked, or its
\* legs close and it is freed.
SetResolves == unlinked.exists ~> ~unlinked.exists

\* When the client is gone, the exit frees every object of the nonce.
ExitForgets ==
    (\A c \in Circs : circ[Client][c] \in {"none", "freed"}) ~>
       linked[Exit].live = {}

\* Nothing of a set stays behind, at the client or at the exit.
NothingLeaks == SetResolves /\ ExitForgets
=============================================================================
