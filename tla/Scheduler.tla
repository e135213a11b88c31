------------------------------ MODULE Scheduler ------------------------------
(***************************************************************************)
(* The cell scheduler (scheduler.c) with its Vanilla, KIST and KISTLite    *)
(* algorithms: which channels may move cells from their circuits' queues   *)
(* to their connection's outbuf, and when.                                 *)
(*                                                                         *)
(* A channel is in one of four scheduler states, and in the pending list   *)
(* when it has cells and room.  What moves it between them comes from      *)
(* elsewhere: cells are queued, the outbuf is written to the kernel, the   *)
(* channel opens or closes, the scheduler is replaced.  The run of the     *)
(* scheduler is split at the points where it calls code that comes back    *)
(* to it: KIST writes outbufs itself, and a write changes scheduler states *)
(* and may close the channel under the loop's feet.                        *)
(***************************************************************************)
EXTENDS Integers, FiniteSets, FiniteSetsExt

CONSTANTS
  Channels,
  Modes,        \* the scheduler types the configuration and consensus choose from
  High, Low,    \* or_conn_highwater and or_conn_lowwater, in cells
  WriteAfter,   \* outbuf cells after which KIST writes before it switches (8)
  Interval,     \* KISTSchedRunInterval, in ticks
  MaxLimit,     \* bound: cells the kernel has room for at one time
  MaxCells,     \* bound: cells of a channel in queues and outbuf
  MaxDestroys,  \* bound: DESTROY cells queued on a channel
  DirectTo,     \* bound: outbuf up to which cells are written past the scheduler
  Closers,      \* the channels that may close or fail
  NoChannel, NoTimer, Huge

ASSUME SchedulerAssumption ==
  /\ Modes \subseteq {"vanilla", "kist", "lite"} /\ Modes # {}
  /\ Low \in Nat \ {0} /\ High \in Nat \ {0}
  /\ WriteAfter \in Nat /\ Interval \in Nat \ {0} /\ MaxLimit \in Nat \ {0}
  /\ MaxCells \in Nat /\ MaxDestroys \in Nat /\ DirectTo \in Nat
  /\ Closers \subseteq Channels
  /\ Huge \in Nat /\ Huge > MaxCells
  /\ NoChannel \notin Channels /\ NoTimer \notin Nat

VARIABLES
  chan,   \* chan[c]: state of the channel, cells in its mux, cells in its outbuf
  sch,    \* scheduler states, channels_pending, the event, time since the last run
  run     \* where in the_scheduler->run() we are, and its local variables

vars == <<chan, sch, run>>

SchedStates == {"idle", "waiting_for_cells", "waiting_to_write", "pending"}

Running == run.pc # "off"

NotRunning == [pc |-> "off", cur |-> NoChannel, prev |-> NoChannel,
               limit |-> [c \in Channels |-> 0], outbufs |-> {}, readd |-> {}]

NoCells(state) ==
  [state |-> state, relay |-> 0, destroys |-> 0, last |-> FALSE, out |-> 0]

circuitmux_num_cells(C) == C.relay + C.destroys

(* channel_num_cells_writeable(): the subtraction is unsigned, so an outbuf *)
(* a whole cell past the high-water mark gives INT_MAX.                     *)
channel_num_cells_writeable(C) ==
  IF C.state # "open" THEN 0 ELSE IF C.out <= High THEN High - C.out ELSE Huge

-----------------------------------------------------------------------------
(* scheduler.c: the four ways into and out of the pending list.             *)

(* the_scheduler->schedule(): at once, or an interval after the last run;   *)
(* an event that is already due stays due.                                  *)
schedule(S) ==
  IF S.heap = {} \/ S.timer = 0 THEN S
  ELSE [S EXCEPT !.timer = IF S.mode = "vanilla" THEN 0 ELSE Interval - S.since]

MadePending(S, c) ==
  schedule([S EXCEPT !.st[c] = "pending", !.heap = @ \cup {c}])

FaultyHasWaiting(S, c) ==
  IF S.st[c] = "waiting_for_cells" THEN MadePending(S, c) ELSE S

scheduler_channel_has_waiting_cells(S, c) ==
  IF S.st[c] = "waiting_for_cells" THEN MadePending(S, c)
  ELSE IF S.st[c] = "idle" THEN [S EXCEPT !.st[c] = "waiting_to_write"]
  ELSE S

scheduler_channel_wants_writes(S, c) ==
  IF S.st[c] = "waiting_to_write" THEN MadePending(S, c)
  ELSE IF S.st[c] = "idle" THEN [S EXCEPT !.st[c] = "waiting_for_cells"]
  ELSE S

scheduler_release_channel(S, c) == [S EXCEPT !.heap = @ \ {c}, !.st[c] = "idle"]

-----------------------------------------------------------------------------
(* The connection under a channel.                                          *)

(* connection_or_flushed_some(), after n cells have left the outbuf.        *)
connection_or_flushed_some(S, c, n, out) ==
  IF n > 0 /\ out < Low THEN scheduler_channel_wants_writes(S, c) ELSE S

(* channel_close_for_error() and its kin: CLOSING releases the channel.     *)
Condemn(c) ==
  /\ chan' = [chan EXCEPT ![c].state = "closing"]
  /\ sch' = scheduler_release_channel(sch, c)

(* connection_handle_write(): the kernel takes some cells, or the           *)
(* connection is dead.  Nothing happens on a connection marked for close.   *)
connection_handle_write(c) ==
  \/ /\ chan[c].state = "open"
     /\ \E n \in 0..chan[c].out :
          /\ chan' = [chan EXCEPT ![c].out = @ - n]
          /\ sch' = connection_or_flushed_some(sch, c, n, chan[c].out - n)
  \/ c \in Closers /\ chan[c].state = "open" /\ Condemn(c)
  \/ chan[c].state # "open" /\ UNCHANGED <<chan, sch>>

(* circuitmux_get_first_active_circuit(): DESTROY cells alternate with      *)
(* relay cells as long as there are both.                                   *)
MoveOne(C) ==
  IF C.destroys > 0 /\ (~C.last \/ C.relay = 0)
    THEN [C EXCEPT !.destroys = @ - 1, !.last = TRUE, !.out = @ + 1]
    ELSE [C EXCEPT !.relay = @ - 1, !.last = FALSE, !.out = @ + 1]

(* channel_flush_some_cells() on channel c as C: up to n cells move.  When a   *)
(* write fails the channel is condemned, and a flush that is not done       *)
(* throws away what is left in the mux.                                     *)
Flushed(c, C, n) ==
  LET total == Min({n, circuitmux_num_cells(C)})
      moved[k \in 0..total] == IF k = 0 THEN C ELSE MoveOne(moved[k - 1])
      failed(k) == IF k = n THEN [moved[k] EXCEPT !.state = "closing"]
                   ELSE [moved[k] EXCEPT !.state = "closing", !.relay = 0, !.destroys = 0]
  IN IF C.state # "open" THEN {C}
     ELSE {moved[total]} \cup (IF c \in Closers THEN {failed(k) : k \in 1..total} ELSE {})

(* The scheduler's part of the flush that turned chan[c] into D.            *)
AfterFlush(S, c, D) ==
  IF D.state = "open" \/ chan[c].state # "open" THEN S
  ELSE scheduler_release_channel(S, c)

-----------------------------------------------------------------------------
(* What happens to channels between two runs.                               *)

(* channel_tls_handle_state_change_on_orconn(): circuits that waited for    *)
(* the channel queue their CREATE cells first, then the scheduler hears     *)
(* that the channel is writeable.                                           *)
ChannelOpens(c) ==
  /\ ~Running /\ chan[c].state = "opening"
  /\ \E waiting \in {0, 1} :
       /\ waiting + circuitmux_num_cells(chan[c]) + chan[c].out <= MaxCells
       /\ LET S == IF waiting = 0 THEN sch ELSE scheduler_channel_has_waiting_cells(sch, c)
          IN /\ chan' = [chan EXCEPT ![c].state = "open", ![c].relay = waiting]
             /\ sch' = IF chan[c].out < High THEN scheduler_channel_wants_writes(S, c) ELSE S
  /\ UNCHANGED run

append_cell_to_circuit_queue(c) ==
  /\ ~Running /\ chan[c].state \in {"open", "closing"}
  /\ circuitmux_num_cells(chan[c]) + chan[c].out < MaxCells
  /\ chan' = [chan EXCEPT ![c].relay = @ + 1]
  /\ sch' = scheduler_channel_has_waiting_cells(sch, c)
  /\ UNCHANGED run

(* circuitmux_append_destroy_cell(): with an empty outbuf one cell, of this *)
(* queue or of a circuit, moves at once.  The scheduler is not told.        *)
circuitmux_append_destroy_cell(c) ==
  /\ ~Running /\ chan[c].state = "open"
  /\ chan[c].destroys < MaxDestroys
  /\ circuitmux_num_cells(chan[c]) + chan[c].out < MaxCells
  /\ LET C == [chan[c] EXCEPT !.destroys = @ + 1]
     IN \E D \in IF C.out = 0 THEN Flushed(c, C, 1) ELSE {C} :
          /\ chan' = [chan EXCEPT ![c] = D]
          /\ sch' = AfterFlush(sch, c, D)
  /\ UNCHANGED run

(* Circuits leave the channel with their cells.                             *)
circuit_clear_cell_queue(c) ==
  /\ ~Running /\ chan[c].relay > 0
  /\ \E n \in 0..(chan[c].relay - 1) : chan' = [chan EXCEPT ![c].relay = n]
  /\ UNCHANGED <<sch, run>>

(* connection_or_write_cell_to_buf() for handshake and padding negotiation  *)
(* cells, which do not pass the scheduler.                                  *)
WriteDirectly(c) ==
  /\ ~Running /\ chan[c].state \in {"opening", "open"}
  /\ chan[c].out < DirectTo
  /\ circuitmux_num_cells(chan[c]) + chan[c].out < MaxCells
  /\ chan' = [chan EXCEPT ![c].out = @ + 1]
  /\ UNCHANGED <<sch, run>>

(* The main loop found the socket writeable.                                *)
SocketWriteable(c) ==
  /\ ~Running /\ chan[c].out > 0
  /\ connection_handle_write(c)
  /\ UNCHANGED run

channel_mark_for_close(c) ==
  /\ c \in Closers /\ ~Running /\ chan[c].state \in {"opening", "open"}
  /\ Condemn(c)
  /\ UNCHANGED run

(* channel_closed(): released once more, the mux emptied, the connection    *)
(* gone with its outbuf.                                                    *)
channel_closed(c) ==
  /\ ~Running /\ chan[c].state = "closing"
  /\ chan' = [chan EXCEPT ![c] = NoCells("closed")]
  /\ sch' = scheduler_release_channel(sch, c)
  /\ UNCHANGED run

(* set_scheduler(): KIST starts to count from now when it replaces Vanilla; *)
(* the pending list and the event belong to all of them.                    *)
set_scheduler(mode) ==
  /\ ~Running /\ mode \in Modes \ {sch.mode}
  /\ sch' = [sch EXCEPT !.mode = mode, !.since = IF sch.mode = "vanilla" THEN 0 ELSE @]
  /\ UNCHANGED <<chan, run>>

Tick ==
  /\ ~Running /\ sch.timer # 0
  /\ sch.since < Interval \/ sch.timer # NoTimer
  /\ sch' = [sch EXCEPT !.since = Min({@ + 1, Interval}),
                        !.timer = IF @ = NoTimer THEN @ ELSE @ - 1]
  /\ UNCHANGED <<chan, run>>

-----------------------------------------------------------------------------
(* scheduler_evt_callback().                                                *)

(* What update_socket_info_impl() may find out about a channel: the         *)
(* kernel's room for KIST, the outbuf's for KISTLite and when the kernel    *)
(* does not answer.                                                         *)
Limits(c) ==
  CASE sch.mode = "vanilla" -> {0}
    [] sch.mode = "lite" -> {channel_num_cells_writeable(chan[c])}
    [] sch.mode = "kist" -> 0..MaxLimit \cup {channel_num_cells_writeable(chan[c])}

StartRun(limit) ==
  /\ ~Running /\ sch.timer = 0
  /\ \A c \in Channels : limit[c] \in (IF c \in sch.heap THEN Limits(c) ELSE {0})
  /\ run' = [NotRunning EXCEPT !.pc = "loop", !.limit = limit]
  /\ sch' = [sch EXCEPT !.timer = NoTimer]
  /\ UNCHANGED chan

(* One turn of the loop of vanilla_scheduler_run().                         *)
VanillaTurn(c) ==
  /\ run.pc = "loop" /\ sch.mode = "vanilla" /\ c \in sch.heap
  /\ LET n == channel_num_cells_writeable(chan[c])
         popped == [sch EXCEPT !.heap = @ \ {c}]
     IN \E D \in Flushed(c, chan[c], n) :
          LET S == AfterFlush(popped, c, D)
              more == circuitmux_num_cells(D) > 0
              writeable == channel_num_cells_writeable(D) > 0
              st == IF n = 0 THEN "waiting_to_write"
                    ELSE IF D.out < chan[c].out + n THEN "waiting_for_cells"
                    ELSE IF more THEN (IF writeable THEN S.st[c] ELSE "waiting_to_write")
                    ELSE (IF writeable THEN "waiting_for_cells" ELSE "idle")
          IN /\ chan' = [chan EXCEPT ![c] = D]
             /\ sch' = [S EXCEPT !.st[c] = st]
             /\ run' = [run EXCEPT !.readd =
                          IF n > 0 /\ D.out = chan[c].out + n /\ more /\ writeable
                            THEN @ \cup {c} ELSE @]

(* kist_scheduler_run() pops a channel; before it serves another one than   *)
(* the last it considers writing the last one's outbuf.                     *)
KistPop(c) ==
  /\ run.pc = "loop" /\ sch.mode # "vanilla" /\ c \in sch.heap
  /\ sch' = [sch EXCEPT !.heap = @ \ {c}]
  /\ run' = [run EXCEPT !.cur = c,
               !.outbufs = @ \cup {c},
               !.pc = IF run.prev \notin {NoChannel, c} /\ chan[run.prev].out > WriteAfter
                        THEN "write" ELSE "serve",
               !.prev = IF run.prev \notin {NoChannel, c} /\ chan[run.prev].out > WriteAfter
                          THEN @ ELSE c]
  /\ UNCHANGED chan

KistWritePrevious ==
  /\ run.pc = "write"
  /\ connection_handle_write(run.prev)
  /\ run' = [run EXCEPT !.pc = "serve", !.outbufs = @ \ {run.prev}, !.prev = run.cur]

FaultyKistServe ==
  /\ run.pc = "serve"
  /\ LET c == run.cur
         before == run.limit[c] > 0
     IN \E D \in IF before THEN Flushed(c, chan[c], 1) ELSE {chan[c]} :
          LET left == IF before /\ D.out > chan[c].out THEN run.limit[c] - 1 ELSE run.limit[c]
              more == circuitmux_num_cells(D) > 0
              S == AfterFlush(sch, c, D)
          IN /\ chan' = [chan EXCEPT ![c] = D]
             /\ sch' = IF before /\ D.state # "open" THEN [S EXCEPT !.st[c] = "idle"]
                       ELSE IF (before /\ D.out = chan[c].out) \/ ~more
                              THEN [S EXCEPT !.st[c] = IF left > 0 THEN "waiting_for_cells" ELSE "idle"]
                       ELSE IF left > 0 THEN [S EXCEPT !.st[c] = "pending", !.heap = @ \cup {c}]
                       ELSE S
             /\ run' = [run EXCEPT !.pc = "loop", !.cur = NoChannel, !.limit[c] = left,
                          !.readd = IF more /\ left = 0 /\ ~(before /\ D.state # "open")
                                      THEN @ \cup {c} ELSE @]

(* ... then flushes one cell of the popped channel if the kernel has room,  *)
(* and decides what becomes of the channel.                                 *)
KistServe ==
  /\ run.pc = "serve"
  /\ LET c == run.cur
         before == run.limit[c] > 0
     IN \E D \in IF before THEN Flushed(c, chan[c], 1) ELSE {chan[c]} :
          LET left == IF before /\ D.out > chan[c].out THEN run.limit[c] - 1 ELSE run.limit[c]
              more == circuitmux_num_cells(D) > 0
              S == AfterFlush(sch, c, D)
          IN /\ chan' = [chan EXCEPT ![c] = D]
             /\ sch' = IF before /\ D.state # "open" THEN [S EXCEPT !.st[c] = "idle"]
                       ELSE IF (before /\ D.out = chan[c].out) \/ ~more
                              THEN [S EXCEPT !.st[c] = "waiting_for_cells"]
                       ELSE IF left > 0 THEN [S EXCEPT !.st[c] = "pending", !.heap = @ \cup {c}]
                       ELSE S
             /\ run' = [run EXCEPT !.pc = "loop", !.cur = NoChannel, !.limit[c] = left,
                          !.readd = IF more /\ left = 0 /\ ~(before /\ D.state # "open")
                                      THEN @ \cup {c} ELSE @]

(* After the loop KIST writes the outbufs that are left ...                 *)
KistWriteOutbuf(c) ==
  /\ run.pc \in {"loop", "final"} /\ (run.pc = "loop" => sch.heap = {})
  /\ c \in run.outbufs
  /\ connection_handle_write(c)
  /\ run' = [run EXCEPT !.pc = "final", !.outbufs = @ \ {c}]

(* ... and channels that must wait for the next run are pending again.      *)
FinishRun ==
  /\ run.pc \in {"loop", "final"} /\ (run.pc = "loop" => sch.heap = {})
  /\ run.outbufs = {}
  /\ sch' = schedule([sch EXCEPT
              !.st = [c \in Channels |-> IF c \in run.readd THEN "pending" ELSE sch.st[c]],
              !.heap = @ \cup run.readd,
              !.since = IF sch.mode = "vanilla" THEN @ ELSE 0])
  /\ run' = NotRunning
  /\ UNCHANGED chan

Init ==
  /\ chan = [c \in Channels |-> NoCells("opening")]
  /\ \E mode \in Modes :
       sch = [st |-> [c \in Channels |-> "idle"], heap |-> {}, timer |-> NoTimer,
              since |-> 0, mode |-> mode]
  /\ run = NotRunning

RunStep ==
  \/ \E limit \in [Channels -> 0..Max({MaxLimit, High}) \cup {Huge}] : StartRun(limit)
  \/ \E c \in Channels : VanillaTurn(c) \/ KistPop(c) \/ KistWriteOutbuf(c)
  \/ KistWritePrevious
  \/ KistServe
  \/ FinishRun

Next ==
  \/ \E c \in Channels :
       \/ ChannelOpens(c)
       \/ append_cell_to_circuit_queue(c)
       \/ circuitmux_append_destroy_cell(c)
       \/ circuit_clear_cell_queue(c)
       \/ WriteDirectly(c)
       \/ SocketWriteable(c)
       \/ channel_mark_for_close(c)
       \/ channel_closed(c)
  \/ \E mode \in Modes : set_scheduler(mode)
  \/ Tick
  \/ RunStep

Spec == Init /\ [][Next]_vars

(* The event loop runs timers and callbacks, sockets take data as long as   *)
(* the other side reads, and the kernel does not run out of room for ever.  *)
FairSpec ==
  /\ Spec
  /\ SF_vars(Tick)
  /\ WF_vars(RunStep)
  /\ \A c \in Channels :
       /\ SF_vars(SocketWriteable(c) /\ chan'[c].out < chan[c].out)
       /\ SF_vars(\E limit \in [Channels -> 0..Max({MaxLimit, High}) \cup {Huge}] :
                    limit[c] > 0 /\ StartRun(limit))

-----------------------------------------------------------------------------
(* Properties.                                                              *)

(* Types of the channels, of the scheduler and of its run.                  *)
TypeOK ==
  /\ \A c \in Channels :
       /\ chan[c].state \in {"opening", "open", "closing", "closed"}
       /\ chan[c].relay \in Nat /\ chan[c].destroys \in Nat /\ chan[c].out \in 0..MaxCells
       /\ chan[c].last \in BOOLEAN
  /\ sch.st \in [Channels -> SchedStates]
  /\ sch.heap \subseteq Channels
  /\ sch.timer \in {NoTimer} \cup 0..Interval /\ sch.since \in 0..Interval
  /\ sch.mode \in Modes
  /\ run.pc \in {"off", "loop", "write", "serve", "final"}
  /\ run.readd \subseteq Channels /\ run.outbufs \subseteq Channels

(* The list and the states agree: between runs the channels in              *)
(* channels_pending are those in state PENDING, and none of them is closed, *)
(* although a channel can be released in the middle of a run that holds it. *)
PendingListIsRight ==
  /\ ~Running => sch.heap = {c \in Channels : sch.st[c] = "pending"}
  /\ \A c \in sch.heap : sch.st[c] = "pending" /\ chan[c].state # "closed"

(* As long as a channel is pending the event is armed, for no later than an *)
(* interval after the last run: the calls of schedule() in between do not   *)
(* postpone it.                                                             *)
EventArmed ==
  ~Running /\ sch.heap # {} => sch.timer # NoTimer /\ sch.timer + sch.since <= Interval

(* No channel is forgotten: an open channel with relay cells is pending, or *)
(* waits for room behind an outbuf whose flushing will make it pending.     *)
NobodyForgotten ==
  \A c \in Channels : ~Running /\ chan[c].state = "open" /\ chan[c].relay > 0 =>
    \/ sch.st[c] = "pending"
    \/ sch.st[c] = "waiting_to_write" /\ chan[c].out >= Min({Low, High})

(* Between two runs every channel is where the next run will find it.       *)
ChannelsAreScheduled ==
  TypeOK /\ PendingListIsRight /\ EventArmed /\ NobodyForgotten

(* Relay cells do not stay behind: a channel that stays open with relay     *)
(* cells moves cells of its circuits again and again, unless cells written  *)
(* past the scheduler keep its outbuf full.                                 *)
CellsMove ==
  \A c \in Channels :
    \/ []<>(chan[c].relay = 0 \/ chan[c].state # "open")
    \/ []<><<chan'[c].relay < chan[c].relay \/ WriteDirectly(c)>>_vars

(* circuitmux_append_destroy_cell() says that the flushing of the cell it   *)
(* moves makes room for more: then a queued DESTROY does not stay behind.   *)
DestroysMove ==
  \A c \in Channels :
    \/ []<>(chan[c].destroys = 0 \/ chan[c].state # "open")
    \/ []<><<chan'[c].destroys < chan[c].destroys>>_vars

(* Cells are added until the outbuf is just over the high-water mark: apart *)
(* from the cells written past it, the scheduler never exceeds the mark.    *)
JustOverHighWater == \A c \in Channels : chan[c].out <= Max({High, DirectTo})
=============================================================================
