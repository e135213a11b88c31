---------------------------- MODULE MCCpuworkers -----------------------------
(* The constants of Cpuworkers, for TLC: three circuits; two threads, an    *)
(* item of the highest priority and one of the lowest, and two updates; an  *)
(* update or the first item may end its thread.                             *)
EXTENDS Cpuworkers, TLC

CONSTANTS c1, c2, c3, t1, t2, i1, i3

MCCircs == {c1, c2, c3}
MCThreads == {t1, t2}
MCItems == {i1, i3}
MCPriority == i1 :> 0 @@ i3 :> 2
MCStoppers == {i1}
=============================================================================
