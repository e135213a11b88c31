----------------------------- MODULE OnionQueue ------------------------------
(***************************************************************************)
(* A relay answers CREATE cells: the handshake of a new circuit is handed  *)
(* to the thread pool, or waits in the onion queue while too many tasks    *)
(* are pending there; a circuit may be closed at any point of this, and    *)
(* its memory must outlive the task that points at it.                     *)
(*                                                                         *)
(* Sources: core/mainloop/cpuworker.c, feature/relay/onion_queue.c,        *)
(* core/or/command.c, core/or/circuitlist.c.                               *)
(*                                                                         *)
(* The pool is what WorkPool promises, with one item per circuit.  Every   *)
(* handler of the main thread is one step.  TAP is refused and CREATE_FAST *)
(* answered at once, so only the ntor queue is ever used.  The estimate of *)
(* how long the queue takes is any answer once AlwaysRoom entries wait.    *)
(***************************************************************************)
EXTENDS Naturals, Sequences, FiniteSets

CONSTANTS
  Circs,        \* circuits that may be created, each once
  MaxPendings,  \* values max_pending_tasks may have
  AlwaysRoom,   \* entries there is always room for (50 in the code)
  cutoff,       \* ns_onion_queue_wait_cutoff
  MaxTime       \* bound: the clock

ASSUME OnionQueueConstants ==
  /\ IsFiniteSet(Circs)
  /\ MaxPendings \subseteq Nat \ {0} /\ MaxPendings # {}
  /\ AlwaysRoom \in Nat /\ cutoff \in Nat /\ MaxTime \in Nat

VARIABLES
  state,        \* circ->state
  memory,       \* of the circuit: "live", "dead" (DEAD_CIRCUIT_MAGIC) ...
  marked,       \* circuits that are marked for close
  p_chan,       \* circuits whose p_chan is still there
  ol_list,      \* the onion queue
  when_added,
  ol_entries,
  workqueue_entry,      \* circuits whose workqueue_entry is set
  total_pending_tasks, max_pending_tasks,
  now,
  item,         \* the pool's items
  null_head     \* has the cull loop looked at the head of an empty list?

queue == <<ol_list, when_added, ol_entries>>
tasks == <<workqueue_entry, total_pending_tasks, max_pending_tasks>>
vars == <<state, memory, marked, p_chan, queue, tasks, now, item, null_head>>

Pool == INSTANCE WorkPool WITH Items <- Circs, item <- item

\* The circuits whose task is somewhere in the pool.
InPool == {c \in Circs : item[c] \in {"pending", "running", "answered"}}
InQueue == {ol_list[n] : n \in 1 .. Len(ol_list)}

TypeOK ==
  /\ state \in [Circs -> {"none", "onionskin_pending", "open"}]
  /\ memory \in [Circs -> {"none", "live", "dead", "freed"}]
  /\ marked \subseteq Circs /\ p_chan \subseteq Circs
  /\ ol_list \in Seq(Circs)
  /\ when_added \in [Circs -> 0 .. MaxTime]
  /\ ol_entries \in Nat /\ total_pending_tasks \in Nat
  /\ workqueue_entry \subseteq Circs
  /\ max_pending_tasks \in MaxPendings
  /\ now \in 0 .. MaxTime
  /\ item \in [Circs -> Pool!Stages]
  /\ null_head \in BOOLEAN

Init ==
  /\ state = [c \in Circs |-> "none"]
  /\ memory = [c \in Circs |-> "none"]
  /\ marked = {} /\ p_chan = {}
  /\ ol_list = <<>> /\ ol_entries = 0
  /\ when_added = [c \in Circs |-> 0]
  /\ workqueue_entry = {} /\ total_pending_tasks = 0
  /\ max_pending_tasks \in MaxPendings
  /\ now = 0
  /\ Pool!Init
  /\ null_head = FALSE

-----------------------------------------------------------------------------
(* A CREATE cell.                                                          *)

(* How many entries at the head of queue q have waited too long: the cull  *)
(* stops at the first one that has not.                                    *)
Elderly(q) ==
  LET stops == {n \in 0 .. Len(q) :
                  n < Len(q) => now - when_added'[q[n + 1]] < cutoff}
  IN  CHOOSE n \in stops : \A m \in stops : n <= m

FaultyPendingAdd(c) ==  \* forgets to count the entries it culls
  LET q == Append(ol_list, c)
      n == Elderly(q)
  IN  /\ when_added' = [when_added EXCEPT ![c] = now]
      /\ ol_list' = SubSeq(q, n + 1, Len(q))
      /\ ol_entries' = ol_entries + 1
      /\ marked' = marked \cup {q[j] : j \in 1 .. n}
      /\ null_head' = (null_head \/ n = Len(q))
      /\ UNCHANGED <<tasks, item>>

(* onion_pending_add: the circuit joins the queue, and requests that have  *)
(* waited too long leave it and are closed.                                *)
onion_pending_add(c) ==
  LET q == Append(ol_list, c)
      n == Elderly(q)
  IN  /\ when_added' = [when_added EXCEPT ![c] = now]
      /\ ol_list' = SubSeq(q, n + 1, Len(q))
      /\ ol_entries' = ol_entries + 1 - n
      /\ marked' = marked \cup {q[j] : j \in 1 .. n}
      /\ null_head' = (null_head \/ n = Len(q))
      /\ UNCHANGED <<tasks, item>>

\* There is no room: the circuit is closed by the caller.
NoRoom(c) ==
  /\ marked' = marked \cup {c}
  /\ UNCHANGED <<queue, tasks, item, null_head>>

(* The answers there may be to whether another request fits.               *)
have_room_for_onionskin ==
  {TRUE} \cup (IF ol_entries < AlwaysRoom THEN {} ELSE {FALSE})

\* The task goes to the thread pool.
ToPool(c) ==
  /\ total_pending_tasks' = total_pending_tasks + 1
  /\ workqueue_entry' = workqueue_entry \cup {c}
  /\ Pool!Queue(c)
  /\ UNCHANGED <<marked, queue, max_pending_tasks, null_head>>

assign_onionskin_to_cpuworker(c) ==
  IF total_pending_tasks >= max_pending_tasks
  THEN \E room \in have_room_for_onionskin :
         IF room THEN onion_pending_add(c) ELSE NoRoom(c)
  ELSE ToPool(c)

(* A cell whose handshake needs a CPU worker; CREATE_FAST, which is        *)
(* answered at once; and what closes the circuit right away: a cell that   *)
(* does not parse, TAP, an answer that fails.                              *)
command_process_create_cell(c) ==
  /\ memory[c] = "none"
  /\ memory' = [memory EXCEPT ![c] = "live"]
  /\ p_chan' = p_chan \cup {c}
  /\ \/ /\ assign_onionskin_to_cpuworker(c)
        /\ state' = [state EXCEPT ![c] = "onionskin_pending"]
     \/ /\ state' = [state EXCEPT ![c] = "open"]
        /\ UNCHANGED <<marked, queue, tasks, item, null_head>>
     \/ /\ state' = [state EXCEPT ![c] = "onionskin_pending"]
        /\ marked' = marked \cup {c}
        /\ UNCHANGED <<queue, tasks, item, null_head>>
  /\ UNCHANGED now

-----------------------------------------------------------------------------
(* The pool's threads, and the answers they send.                          *)

WorkerStarts(c) ==
  /\ Pool!Start(c)
  /\ UNCHANGED <<state, memory, marked, p_chan, queue, tasks, now, null_head>>

cpuworker_onion_handshake_threadfn(c) ==
  /\ Pool!Finish(c)
  /\ UNCHANGED <<state, memory, marked, p_chan, queue, tasks, now, null_head>>

(* queue_pending_tasks takes entries off the queue until n tasks have gone *)
(* to the pool; an entry whose p_chan is gone is dropped.                  *)
TakenLength(q, n) ==
  LET assigned(k) == Cardinality({j \in 1 .. k : q[j] \in p_chan})
      lengths == {k \in 0 .. Len(q) : assigned(k) = n} \cup {Len(q)}
  IN  CHOOSE k \in lengths : \A j \in lengths : k <= j

FaultyQueuePending(c) ==  \* counts the task that was answered as pending
  LET room == max_pending_tasks - total_pending_tasks
      n == IF room > 0 THEN TakenLength(ol_list, room) ELSE 0
      taken == {ol_list[j] : j \in 1 .. n}
      new == taken \cap p_chan
  IN  /\ ol_list' = SubSeq(ol_list, n + 1, Len(ol_list))
      /\ ol_entries' = ol_entries - n
      /\ total_pending_tasks' = total_pending_tasks - 1 + Cardinality(new)
      /\ workqueue_entry' = (workqueue_entry \ {c}) \cup new
      /\ item' = [k \in Circs |-> IF k = c THEN "replied"
                                  ELSE IF k \in new THEN "pending" ELSE item[k]]
      /\ UNCHANGED <<when_added, max_pending_tasks>>

(* After the task of c was answered: its place is free, and the circuits   *)
(* that wait take the places there are.                                    *)
queue_pending_tasks(c) ==
  LET room == max_pending_tasks - (total_pending_tasks - 1)
      n == IF room > 0 THEN TakenLength(ol_list, room) ELSE 0
      taken == {ol_list[j] : j \in 1 .. n}
      new == taken \cap p_chan
  IN  /\ ol_list' = SubSeq(ol_list, n + 1, Len(ol_list))
      /\ ol_entries' = ol_entries - n
      /\ total_pending_tasks' = total_pending_tasks - 1 + Cardinality(new)
      /\ workqueue_entry' = (workqueue_entry \ {c}) \cup new
      /\ item' = [k \in Circs |-> IF k = c THEN "replied"
                                  ELSE IF k \in new THEN "pending" ELSE item[k]]
      /\ UNCHANGED <<when_added, max_pending_tasks>>

(* The answer arrives in the main thread.  A circuit that was freed in the *)
(* meantime is only released; one that is marked is left alone.            *)
cpuworker_onion_handshake_replyfn(c) ==
  /\ item[c] = "answered"
  /\ IF memory[c] = "dead"
     THEN /\ memory' = [memory EXCEPT ![c] = "freed"]
          /\ UNCHANGED <<state, marked>>
     ELSE IF c \in marked THEN UNCHANGED <<state, memory, marked>>
     ELSE /\ \/ state' = [state EXCEPT ![c] = "open"] /\ marked' = marked
             \/ marked' = marked \cup {c} /\ state' = state
          /\ memory' = memory
  /\ queue_pending_tasks(c)
  /\ UNCHANGED <<p_chan, now, null_head>>

-----------------------------------------------------------------------------
(* Closing.                                                                *)

(* A DESTROY, or a local reason to close.                                  *)
circuit_mark_for_close_(c) ==
  /\ memory[c] = "live" /\ c \notin marked
  /\ marked' = marked \cup {c}
  /\ UNCHANGED <<state, memory, p_chan, queue, tasks, now, item, null_head>>

(* The channel of the circuits in S closes.                                *)
circuit_unlink_all_from_channel(S) ==
  /\ p_chan \cap S # {}
  /\ p_chan' = p_chan \ S
  /\ marked' = marked \cup (S \cap p_chan)
  /\ UNCHANGED <<state, memory, queue, tasks, now, item, null_head>>

FaultyCancelHandshake(S) ==  \* the entry is forgotten even when it was not cancelled
  LET gone == {c \in S : item[c] = "pending"}
  IN  /\ item' = [c \in Circs |-> IF c \in gone THEN "cancelled" ELSE item[c]]
      /\ workqueue_entry' = workqueue_entry \ S
      /\ total_pending_tasks' = total_pending_tasks - Cardinality(gone)

(* The tasks of the circuits in S that no thread has taken are cancelled.  *)
cpuworker_cancel_circ_handshake(S) ==
  LET gone == {c \in S \cap workqueue_entry : item[c] = "pending"}
  IN  /\ item' = [c \in Circs |-> IF c \in gone THEN "cancelled" ELSE item[c]]
      /\ workqueue_entry' = workqueue_entry \ gone
      /\ total_pending_tasks' = total_pending_tasks - Cardinality(gone)

(* Queue q once the entries of the circuits in S are removed.              *)
Without(q, S) ==
  LET kept[n \in 0 .. Len(q)] ==
        IF n = 0 THEN <<>>
        ELSE IF q[n] \in S THEN kept[n - 1] ELSE Append(kept[n - 1], q[n])
  IN  kept[Len(q)]

onion_pending_remove(S) ==
  /\ ol_list' = Without(ol_list, S)
  /\ ol_entries' = ol_entries - Cardinality(S \cap InQueue)
  /\ cpuworker_cancel_circ_handshake(S)
  /\ UNCHANGED <<when_added, max_pending_tasks>>

(* At the end of the loop every marked circuit is freed; one whose task is *)
(* still in the pool is left, dead, for the reply to free.                 *)
circuit_close_all_marked ==
  /\ \E c \in marked : memory[c] = "live"
  /\ LET S == {c \in marked : memory[c] = "live"}
     IN  /\ onion_pending_remove({c \in S : state[c] = "onionskin_pending"})
         /\ memory' = [c \in Circs |->
                         IF c \notin S THEN memory[c]
                         ELSE IF c \in workqueue_entry' THEN "dead" ELSE "freed"]
         /\ p_chan' = p_chan \ S
  /\ UNCHANGED <<state, marked, now, null_head>>

-----------------------------------------------------------------------------
cpuworker_consensus_has_changed ==
  /\ max_pending_tasks' \in MaxPendings \ {max_pending_tasks}
  /\ UNCHANGED <<state, memory, marked, p_chan, queue, workqueue_entry,
                 total_pending_tasks, now, item, null_head>>

Tick ==
  /\ now < MaxTime /\ now' = now + 1
  /\ UNCHANGED <<state, memory, marked, p_chan, queue, tasks, item, null_head>>

Next ==
  \/ \E c \in Circs :
       \/ command_process_create_cell(c)
       \/ WorkerStarts(c) \/ cpuworker_onion_handshake_threadfn(c)
       \/ cpuworker_onion_handshake_replyfn(c)
       \/ circuit_mark_for_close_(c)
  \/ \E S \in SUBSET Circs : circuit_unlink_all_from_channel(S)
  \/ circuit_close_all_marked
  \/ cpuworker_consensus_has_changed
  \/ Tick

Spec == Init /\ [][Next]_vars

(* The pool's threads run, and the main loop handles answers and frees     *)
(* what is marked at the end of every round.                               *)
FairStep ==
  \/ \E c \in Circs : \/ WorkerStarts(c)
                      \/ cpuworker_onion_handshake_threadfn(c)
                      \/ cpuworker_onion_handshake_replyfn(c)
  \/ circuit_close_all_marked

Fairness == WF_vars(FairStep)

FairSpec == Spec /\ Fairness

-----------------------------------------------------------------------------
(* Properties.                                                             *)

(* total_pending_tasks counts the tasks in the pool, through answers,      *)
(* cancels and circuits that die meanwhile: a place that leaked would be   *)
(* lost to the relay for good.  ol_entries is the length of the queue.     *)
TasksCounted ==
  /\ total_pending_tasks = Cardinality(InPool)
  /\ ol_entries = Len(ol_list)

(* A task in the pool points at memory that is still there, and a dead     *)
(* circuit always has a reply coming that will free it.                    *)
TasksKeepCircuits ==
  \A c \in Circs :
    /\ c \in InPool => memory[c] \in {"live", "dead"}
    /\ memory[c] = "dead" => c \in InPool

(* The onion queue holds live circuits that no worker has, each once.      *)
QueueIsAlive ==
  /\ \A c \in InQueue : memory[c] = "live" /\ c \notin InPool
  /\ Cardinality(InQueue) = Len(ol_list)

(* The cull loop stops before the end of the list: at the entry that was   *)
(* just added if at no earlier one, unless requests may not wait at all.   *)
CullStops == cutoff # 0 => ~null_head

(* The queue, its count and the count of tasks agree with the circuits.    *)
QueueAgrees == TypeOK /\ TasksCounted /\ QueueIsAlive /\ CullStops

(* No circuit waits for ever, dead or alive: a dead one is freed, and one  *)
(* in the queue leaves it unless a task in the pool was cancelled.  Each   *)
(* is created once, so "in the end none waits" says it of each.            *)
NobodyWaitsForEver ==
  []<>(/\ \A c \in Circs : memory[c] # "dead"
       /\ InQueue = {} \/ \E c \in Circs : item[c] = "cancelled")

(* A circuit waits in the queue for a free CPU worker: never while no task *)
(* is in the pool at all.                                                  *)
WaitsForWorkers == InQueue # {} => InPool # {}

(* The cull loop always has an entry to look at.                           *)
HeadIsThere == ~null_head
=============================================================================
