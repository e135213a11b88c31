------------------------------ MODULE MCConflux -------------------------------
(* Instances of Conflux for TLC.                                           *)
EXTENDS Conflux

MCTwoLegs == {1, 2}

\* The exit balances its load; the client asks for low latency.
MCAlg == [client |-> "MINRTT", exit |-> "LOWRTT"]

\* The exit answers the cell that opens a stream with data.
MCDataBack == [client |-> {"OTHER"}, exit |-> {"DATA"}]
MCMaxSend == [client |-> 1, exit |-> 3]

\* It mixes the data with other cells.
MCMixedBack == [client |-> {"OTHER"}, exit |-> {"DATA", "OTHER"}]
=============================================================================
