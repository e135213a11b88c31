------------------------------ MODULE Workqueue ------------------------------
(***************************************************************************)
(* The thread pool: the main thread queues work items with a priority,     *)
(* cancels them and queues updates for all threads; worker threads wait on *)
(* a condition variable, run what they find without the pool's lock, and   *)
(* put the answers on a reply queue; the first answer on an empty queue    *)
(* writes to an alert descriptor that wakes the main loop up.              *)
(*                                                                         *)
(* Sources: lib/evloop/workqueue.c, lib/net/alertsock.c.                   *)
(*                                                                         *)
(* A critical section of the pool's lock or of the reply queue's lock is   *)
(* one step; everything a thread does without a lock is a step of its own. *)
(* A thread that waits on the condition may wake up for no reason.  The    *)
(* alert is an eventfd or a pipe: what counts is whether it is readable.   *)
(* An update is known by its generation; every thread gets a copy of its   *)
(* argument of its own, and the update function frees the copy it is given.*)
(***************************************************************************)
EXTENDS Naturals, Sequences, FiniteSets

CONSTANTS
  Threads,      \* the worker threads of the pool
  Items,        \* the work items, each queued at most once
  NoItem,       \* not an item
  Priority,     \* the priority of each item: 0 (HIGH) .. 2 (LOW)
  Stoppers,     \* the items whose function may end its thread
  UpdateStops,  \* may the update function end its thread?
  MaxUpdates    \* bound: updates queued

Priorities == 0 .. 2

WorkqueueConstants ==
  /\ IsFiniteSet(Threads)
  /\ NoItem \notin Items
  /\ Priority \in [Items -> Priorities]
  /\ Stoppers \subseteq Items
  /\ UpdateStops \in BOOLEAN
  /\ MaxUpdates \in Nat

VARIABLES
  work,          \* pool->work: a queue per priority
  pending,       \* the items whose pending flag is set
  generation,    \* pool->generation
  update_args,   \* pool->update_args: the generation of each thread's
                 \* argument, 0 for NULL
  answers,       \* the reply queue
  alert,         \* is the alert descriptor readable?
  pc,            \* per thread: what it is doing
  job,           \* per thread: the item it runs
  arg,           \* per thread: the update argument it holds
  thread_gen,    \* thread->generation
  main,          \* what the main thread is doing
  reply,         \* the item whose reply function the main thread runs
  old_args,      \* per thread: the argument the main thread has to free
  finished,      \* history: the items whose reply function has returned
  cancelled,     \* history: the items that were cancelled
  asked,         \* history: pool->generation when an item was queued
  freed          \* history: how often each argument was freed

queues == <<work, pending, answers, alert>>
updates == <<generation, update_args, arg, thread_gen, old_args, freed>>
history == <<finished, cancelled, asked>>
vars == <<queues, updates, pc, job, main, reply, history>>

\* Where a thread may be: at the top of its loop, waiting on the condition,
\* in the update or the work function, about to write to the alert (and to
\* end after it), or gone.
ThreadStates == {"loop", "waiting", "updating", "running", "alerting",
                 "stopping", "exited"}

Generations == 0 .. MaxUpdates

TypeOK ==
  /\ work \in [Priorities -> Seq(Items)]
  /\ pending \subseteq Items
  /\ generation \in Generations
  /\ update_args \in [Threads -> Generations]
  /\ answers \in Seq(Items)
  /\ alert \in BOOLEAN
  /\ pc \in [Threads -> ThreadStates]
  /\ job \in [Threads -> Items \cup {NoItem}]
  /\ arg \in [Threads -> Generations]
  /\ thread_gen \in [Threads -> Generations]
  /\ main \in {"idle", "free", "process", "reply"}
  /\ reply \in Items \cup {NoItem}
  /\ old_args \in [Threads -> Generations]
  /\ finished \subseteq Items /\ cancelled \subseteq Items
  /\ asked \in [Items -> Nat]
  /\ freed \in [Threads -> [1 .. MaxUpdates -> Nat]]

Init ==
  /\ work = [p \in Priorities |-> <<>>]
  /\ pending = {}
  /\ generation = 0
  /\ update_args = [t \in Threads |-> 0]
  /\ answers = <<>>
  /\ alert = FALSE
  /\ pc = [t \in Threads |-> "loop"]
  /\ job = [t \in Threads |-> NoItem]
  /\ arg = [t \in Threads |-> 0]
  /\ thread_gen = [t \in Threads |-> 0]
  /\ main = "idle"
  /\ reply = NoItem
  /\ old_args = [t \in Threads |-> 0]
  /\ finished = {} /\ cancelled = {}
  /\ asked = [i \in Items |-> MaxUpdates + 1]     \* not queued yet
  /\ freed = [t \in Threads |-> [g \in 1 .. MaxUpdates |-> 0]]

-----------------------------------------------------------------------------
(* The main thread.                                                        *)

Waiting == {t \in Threads : pc[t] = "waiting"}

FaultySignalOne ==  \* the signal is forgotten
  pc' = pc

(* tor_cond_signal_one wakes one of the threads that wait, if any does.    *)
tor_cond_signal_one ==
  \/ Waiting = {} /\ pc' = pc
  \/ \E t \in Waiting : pc' = [pc EXCEPT ![t] = "loop"]

FaultySignalAll ==  \* signals one thread only
  tor_cond_signal_one

tor_cond_signal_all ==
  pc' = [t \in Threads |-> IF t \in Waiting THEN "loop" ELSE pc[t]]

\* Work is queued and cancelled from the main loop, also from within a reply
\* function.
MayQueue == main \in {"idle", "reply"}

Queued(i) == asked[i] <= MaxUpdates

threadpool_queue_work_priority(i) ==
  /\ MayQueue /\ ~Queued(i)
  /\ work' = [work EXCEPT ![Priority[i]] = Append(@, i)]
  /\ pending' = pending \cup {i}
  /\ asked' = [asked EXCEPT ![i] = generation]
  /\ tor_cond_signal_one
  /\ UNCHANGED <<answers, alert, updates, job, main, reply, finished, cancelled>>

(* TOR_TAILQ_REMOVE of the entry i of queue q.                             *)
Without(q, i) ==
  LET n == CHOOSE k \in DOMAIN q : q[k] = i
  IN  SubSeq(q, 1, n - 1) \o SubSeq(q, n + 1, Len(q))

FaultyCancel(i) ==  \* cancels whatever has not been replied to
  /\ MayQueue /\ Queued(i) /\ i \notin finished \cup cancelled \cup {reply}
  /\ work' = [work EXCEPT ![Priority[i]] = IF i \in pending THEN Without(@, i) ELSE @]
  /\ pending' = pending \ {i}
  /\ cancelled' = cancelled \cup {i}
  /\ UNCHANGED <<answers, alert, updates, pc, job, main, reply, finished, asked>>

(* workqueue_entry_cancel of an item that is still pending.  When a thread *)
(* has already taken the item the call does nothing.  It must not be       *)
(* called for an item whose reply function has been run.                   *)
workqueue_entry_cancel(i) ==
  /\ MayQueue /\ Queued(i) /\ i \notin finished \cup cancelled \cup {reply}
  /\ i \in pending
  /\ work' = [work EXCEPT ![Priority[i]] = Without(@, i)]
  /\ pending' = pending \ {i}
  /\ cancelled' = cancelled \cup {i}
  /\ UNCHANGED <<answers, alert, updates, pc, job, main, reply, finished, asked>>

(* Under the lock: the new arguments replace the old ones, which are freed *)
(* after the lock is released.                                             *)
threadpool_queue_update ==
  /\ main = "idle" /\ generation < MaxUpdates
  /\ old_args' = update_args
  /\ generation' = generation + 1
  /\ update_args' = [t \in Threads |-> generation + 1]
  /\ tor_cond_signal_all
  /\ main' = "free"
  /\ UNCHANGED <<queues, job, arg, thread_gen, reply, history, freed>>

FreeOldArgs ==
  /\ main = "free"
  /\ freed' = [t \in Threads |-> [g \in 1 .. MaxUpdates |->
                 freed[t][g] + IF old_args[t] = g THEN 1 ELSE 0]]
  /\ old_args' = [t \in Threads |-> 0]
  /\ main' = "idle"
  /\ UNCHANGED <<queues, generation, update_args, arg, thread_gen, pc, job, reply,
                 history>>

(* The alert is readable: it is drained before the queue is looked at.     *)
reply_event_cb ==
  /\ main = "idle" /\ alert
  /\ alert' = FALSE
  /\ main' = "process"
  /\ UNCHANGED <<work, pending, answers, updates, pc, job, reply, history>>

(* One round of the loop under the lock of the reply queue: take the first *)
(* answer, or leave.                                                       *)
replyqueue_process ==
  /\ main = "process"
  /\ IF answers = <<>>
     THEN main' = "idle" /\ UNCHANGED <<answers, reply>>
     ELSE /\ main' = "reply"
          /\ reply' = Head(answers)
          /\ answers' = Tail(answers)
  /\ UNCHANGED <<work, pending, alert, updates, pc, job, history>>

(* The reply function returns and the entry is freed.                      *)
ReplyReturns ==
  /\ main = "reply"
  /\ finished' = finished \cup {reply}
  /\ reply' = NoItem
  /\ main' = "process"
  /\ UNCHANGED <<queues, updates, pc, job, cancelled, asked>>

-----------------------------------------------------------------------------
(* A worker thread, at the top of its loop with the lock held.             *)

Goto(t, l) == pc' = [pc EXCEPT ![t] = l]

worker_thread_has_work(t) ==
  (\E p \in Priorities : work[p] # <<>>) \/ thread_gen[t] # generation

FaultyUpdateStart(t) ==  \* leaves the argument in the pool
  /\ pc[t] = "loop" /\ thread_gen[t] # generation
  /\ arg' = [arg EXCEPT ![t] = update_args[t]]
  /\ thread_gen' = [thread_gen EXCEPT ![t] = generation]
  /\ Goto(t, "updating")
  /\ UNCHANGED <<queues, generation, update_args, old_args, freed, job, main, reply,
                 history>>

UpdateStart(t) ==
  /\ pc[t] = "loop" /\ thread_gen[t] # generation
  /\ arg' = [arg EXCEPT ![t] = update_args[t]]
  /\ update_args' = [update_args EXCEPT ![t] = 0]
  /\ thread_gen' = [thread_gen EXCEPT ![t] = generation]
  /\ Goto(t, "updating")
  /\ UNCHANGED <<queues, generation, old_args, freed, job, main, reply, history>>

(* worker_thread_extract_next_work: usually the first queue that is not    *)
(* empty, with a small chance any later one.                               *)
worker_thread_extract_next_work(t) ==
  /\ pc[t] = "loop" /\ thread_gen[t] = generation
  /\ \E p \in Priorities :
       /\ work[p] # <<>>
       /\ job' = [job EXCEPT ![t] = Head(work[p])]
       /\ work' = [work EXCEPT ![p] = Tail(@)]
       /\ pending' = pending \ {Head(work[p])}
  /\ Goto(t, "running")
  /\ UNCHANGED <<answers, alert, updates, main, reply, history>>

(* tor_cond_wait gives the lock up as it starts to wait.                   *)
CondWait(t) ==
  /\ pc[t] = "loop" /\ ~worker_thread_has_work(t)
  /\ Goto(t, "waiting")
  /\ UNCHANGED <<queues, updates, job, main, reply, history>>

SpuriousWakeup(t) ==
  /\ pc[t] = "waiting"
  /\ Goto(t, "loop")
  /\ UNCHANGED <<queues, updates, job, main, reply, history>>

(* The update function has freed its argument and returned.                *)
UpdateReturns(t) ==
  /\ pc[t] = "updating"
  /\ freed' = [freed EXCEPT ![t][arg[t]] = @ + 1]
  /\ arg' = [arg EXCEPT ![t] = 0]
  /\ \E stop \in {FALSE, UpdateStops} : Goto(t, IF stop THEN "exited" ELSE "loop")
  /\ UNCHANGED <<queues, generation, update_args, thread_gen, old_args, job, main,
                 reply, history>>

(* The work function has returned; queue_reply puts the answer on the      *)
(* queue and remembers whether the queue was empty.                        *)
queue_reply(t) ==
  /\ pc[t] = "running"
  /\ answers' = Append(answers, job[t])
  /\ job' = [job EXCEPT ![t] = NoItem]
  /\ \E stop \in {FALSE, job[t] \in Stoppers} :
       Goto(t, IF answers = <<>> THEN IF stop THEN "stopping" ELSE "alerting"
               ELSE IF stop THEN "exited" ELSE "loop")
  /\ UNCHANGED <<work, pending, alert, updates, main, reply, history>>

(* alert_fn, after the lock was released.                                  *)
WriteAlert(t) ==
  /\ pc[t] \in {"alerting", "stopping"}
  /\ alert' = TRUE
  /\ Goto(t, IF pc[t] = "stopping" THEN "exited" ELSE "loop")
  /\ UNCHANGED <<work, pending, answers, updates, job, main, reply, history>>

-----------------------------------------------------------------------------
MainStep == FreeOldArgs \/ reply_event_cb \/ replyqueue_process \/ ReplyReturns

ThreadStep(t) ==
  \/ UpdateStart(t) \/ worker_thread_extract_next_work(t) \/ CondWait(t)
  \/ UpdateReturns(t) \/ queue_reply(t) \/ WriteAlert(t)

Next ==
  \/ \E i \in Items : threadpool_queue_work_priority(i) \/ workqueue_entry_cancel(i)
  \/ threadpool_queue_update
  \/ MainStep
  \/ \E t \in Threads : ThreadStep(t) \/ SpuriousWakeup(t)

Spec == Init /\ [][Next]_vars

(* Threads are scheduled, work functions return, and libevent runs the     *)
(* callback of a readable descriptor.                                      *)
Fairness == WF_vars(MainStep) /\ \A t \in Threads : WF_vars(ThreadStep(t))

FairSpec == Spec /\ Fairness

-----------------------------------------------------------------------------
(* Properties.                                                             *)

Live == {t \in Threads : pc[t] \notin {"stopping", "exited"}}

(* No wakeup is lost: while an item is queued, or a thread has an update   *)
(* to run, not every thread that could do it sleeps in tor_cond_wait.      *)
NoLostWakeup ==
  /\ (\E p \in Priorities : work[p] # <<>>) /\ Live # {} => Live \ Waiting # {}
  /\ \A t \in Waiting : thread_gen[t] = generation

(* No alert is lost: while an answer is on the reply queue, the alert is   *)
(* readable, the main thread is in its loop over the queue, or the thread  *)
(* that found the queue empty has yet to write to the alert.               *)
NoLostAlert ==
  answers # <<>> => \/ alert
                    \/ main \in {"process", "reply"}
                    \/ \E t \in Threads : pc[t] \in {"alerting", "stopping"}

(* An item that was queued after an update is run by a thread that has     *)
(* applied the update: a handshake queued after a key rotation never uses  *)
(* the old key.                                                            *)
RunsWithUpdate ==
  \A t \in Threads : pc[t] = "running" => asked[job[t]] <= thread_gen[t]

(* No thread, and not the main thread, sleeps while there is something for *)
(* it to do, and none works with a state older than its item.              *)
NobodySleepsOnWork == TypeOK /\ NoLostWakeup /\ NoLostAlert /\ RunsWithUpdate

Held(t, g) ==
  freed[t][g] + (IF update_args[t] = g THEN 1 ELSE 0)
    + (IF arg[t] = g THEN 1 ELSE 0) + (IF old_args[t] = g THEN 1 ELSE 0)

(* Every copy of an update's argument has one owner at a time, the pool,   *)
(* its thread or the main thread, and is freed exactly once; no update     *)
(* function is given NULL.                                                 *)
ArgsFreedOnce ==
  \A t \in Threads :
    /\ \A g \in 1 .. MaxUpdates : Held(t, g) = IF g <= generation THEN 1 ELSE 0
    /\ pc[t] = "updating" => arg[t] # 0

\* What has become of an item, as the users of the pool see it.
Stage ==
  [i \in Items |->
     IF i \in cancelled THEN "cancelled"
     ELSE IF i \in finished THEN "replied"
     ELSE IF i = reply \/ \E n \in 1 .. Len(answers) : answers[n] = i THEN "answered"
     ELSE IF \E t \in Threads : job[t] = i THEN "running"
     ELSE IF i \in pending THEN "pending" ELSE "new"]

Pool == INSTANCE WorkPool WITH Items <- Items, item <- Stage

(* The pool keeps its promise: each item is run once by one thread and     *)
(* answered once, or cancelled before any thread took it (Pool!Spec).      *)
IsWorkPool == Pool!Spec

(* Every item that is queued is answered or cancelled in the end, as long  *)
(* as some thread is left to run it: spurious wakeups are not needed.      *)
(* Items are queued once, so "in the end none is waiting" says it of each. *)
EveryItemAnswered ==
  []<>(Live = {} \/ \A i \in Items : Stage[i] \in {"new", "replied", "cancelled"})
=============================================================================
