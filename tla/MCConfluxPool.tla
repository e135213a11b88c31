---- MODULE MCConfluxPool ----
(* ConfluxPool for TLC: sets of two legs, the default; one more launch may *)
(* recover a leg that closed.                                              *)
EXTENDS ConfluxPool
====
