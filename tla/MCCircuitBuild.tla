--------------------------- MODULE MCCircuitBuild ---------------------------
(* The instance of CircuitBuild for TLC.  Two circuits whose origins know   *)
(* the relays by different addresses.                                       *)
EXTENDS CircuitBuild

CONSTANTS k1, k2

MCTwo == {k1, k2}
MCAddr == [k \in MCTwo |-> IF k = k1 THEN "canonical" ELSE "other"]

Plan(len1, most1, len2, most2, chans, f) ==
  [len |-> [k \in MCTwo |-> IF k = k1 THEN len1 ELSE len2],
   most |-> [k \in MCTwo |-> IF k = k1 THEN most1 ELSE most2],
   chans |-> [i \in 0..2 |-> chans[i + 1]], faults |-> f]

(* Two one-hop circuits over two channels of which one thing goes wrong;    *)
(* two of two hops, undisturbed; one of two hops that is then extended to a *)
(* third; one of three hops with two things that go wrong.                  *)
MCPlans ==
  {Plan(1, 1, 1, 1, <<2, 0, 0>>, 1), Plan(2, 2, 2, 2, <<1, 2, 0>>, 0),
   Plan(0, 0, 2, 3, <<2, 1, 1>>, 1), Plan(0, 0, 3, 3, <<1, 1, 1>>, 2)}
=============================================================================
