---------------------------- MODULE OrderedStream ----------------------------
(***************************************************************************)
(* What a linked set promises to the streams that use it: whatever one end *)
(* sends is handed to the streams of the other end in the order it was     *)
(* sent, each cell once, with no gap.  A set that fails may stop at any    *)
(* point, so nothing is promised about how much arrives.                   *)
(*                                                                         *)
(* The n-th multiplexed cell of a direction is the number n.               *)
(***************************************************************************)
EXTENDS Naturals, Sequences

CONSTANTS Ends, Peer(_)

VARIABLES
  sent,      \* how many multiplexed cells each end has sent
  delivered  \* the cells handed to the streams of each end

Init == /\ sent = [e \in Ends |-> 0]
        /\ delivered = [e \in Ends |-> <<>>]

Send(e) == /\ sent' = [sent EXCEPT ![e] = @ + 1]
           /\ UNCHANGED delivered

(* One or more cells are handed over, always the next ones.                *)
Deliver(e) ==
  /\ \E n \in Len(delivered[e]) + 1 .. sent[Peer(e)] :
       delivered' = [delivered EXCEPT ![e] = [i \in 1 .. n |-> i]]
  /\ UNCHANGED sent

Next == \E e \in Ends : Send(e) \/ Deliver(e)

Spec == Init /\ [][Next]_<<sent, delivered>>
=============================================================================
