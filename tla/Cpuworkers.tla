----------------------------- MODULE Cpuworkers ------------------------------
(***************************************************************************)
(* The two sides of the CPU workers: the onion queue and its tasks         *)
(* (OnionQueue), for which the pool of threads is what WorkPool promises,  *)
(* and the pool itself (Workqueue), which keeps that promise.  They share  *)
(* no variable: what OnionQueue needs of the pool is IsWorkPool, which     *)
(* holds of every behaviour of the pool.  So a behaviour runs one of them. *)
(***************************************************************************)
EXTENDS OnionQueue

CONSTANTS Threads, Items, NoItem, Priority, Stoppers, UpdateStops, MaxUpdates

VARIABLES part, work, pending, generation, update_args, answers, alert, pc, job, arg,
          thread_gen, main, reply, old_args, finished, cancelled, asked, freed

Workers == INSTANCE Workqueue

ASSUME WorkersConstants == Workers!WorkqueueConstants

poolVars == <<work, pending, generation, update_args, answers, alert, pc, job, arg,
              thread_gen, main, reply, old_args, finished, cancelled, asked, freed>>
allVars == <<part, vars, poolVars>>

RelaySteps == part = "relay" /\ UNCHANGED <<part, poolVars>>
PoolSteps == part = "threads" /\ UNCHANGED <<part, vars>>

CpuworkersInit == part \in {"relay", "threads"} /\ Init /\ Workers!Init

CpuworkersNext == (RelaySteps /\ Next) \/ (PoolSteps /\ Workers!Next)

CpuworkersSpec == CpuworkersInit /\ [][CpuworkersNext]_allVars

(* The fairness of OnionQueue and of Workqueue, each for its own behaviours.*)
FairCpuworkersSpec ==
  /\ CpuworkersSpec
  /\ WF_allVars((RelaySteps /\ FairStep) \/ (PoolSteps /\ Workers!MainStep))
  /\ \A t \in Threads : WF_allVars(PoolSteps /\ Workers!ThreadStep(t))

(* No thread, and not the main thread, sleeps while there is something for *)
(* it to do, and none works with a state older than its item (Workqueue).  *)
NobodySleepsOnWork == Workers!NobodySleepsOnWork

(* Every copy of an update's argument has one owner at a time and is freed *)
(* exactly once (Workqueue).                                               *)
ArgsFreedOnce == Workers!ArgsFreedOnce

(* Each item is run once by one thread and answered once, or cancelled     *)
(* before any thread took it: Workqueue implements WorkPool.               *)
IsWorkPool == Workers!IsWorkPool

(* Every item that is queued is answered or cancelled in the end, as long  *)
(* as some thread is left to run it (Workqueue).                           *)
EveryItemAnswered == Workers!EveryItemAnswered
=============================================================================
