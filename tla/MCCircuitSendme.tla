-------------------------- MODULE MCCircuitSendme ---------------------------
(* The instance of CircuitSendme for TLC.                                  *)
EXTENDS CircuitSendme

\* The exit's SENDMEs carry no digest, and it insists on the client's.
MCEmitMixed == [client |-> 1, exit |-> 0]
MCAcceptOne == [client |-> 0, exit |-> 1]

\* The exit sends a whole window and more; the client sends one increment.
MCMaxData == [client |-> 2, exit |-> 5]
MCMaxOther == [client |-> 0, exit |-> 1]
=============================================================================
