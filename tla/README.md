# TLA+ models of the Anyone relay (ator-protocol)

The repository is a C implementation of an onion router, a descendant of Tor:
clients choose guards, build circuits through relays and carry streams over
them; relays move cells between channels; directory authorities agree on a
consensus. This directory models the parts of it whose correctness depends on
several machines, threads or callbacks agreeing about state that each keeps for
itself.

Paths below are relative to the repository's `src/` directory.

## Inventory

| Component | State | Operations | What is hard | What makes it correct |
|---|---|---|---|---|
| Circuit SENDME flow control (`core/or/sendme.c`, parts of `relay.c`, `congestion_control_common.c`, `relay_crypto.c`) | package and deliver windows or `inflight`/`cwnd`, FIFO of expected digests, one digest slot per hop, timestamps, reading flag of edges | package a cell, receive DATA, send and receive SENDME, stop and resume edges, close | both directions share the digest slot; the two ends predict each other's SENDMEs from their own counters; boundaries of the increment | the ends never disagree, nothing is acknowledged that did not arrive, no edge stays asleep |
| Conflux in use (`core/or/conflux.c`, `conflux_util.c`, `relay.c`) | legs with sequence numbers and round-trip times, current leg, out-of-order queue | choose a leg, SWITCH, receive, dequeue, leg closes, teardown | legs overtake each other; a leg dies with cells in flight; each end decides for itself whether the set survives | one ordered stream; a set that survives a leg loses at most what the code's test for data in flight lets pass |
| Conflux pool (`core/or/conflux_pool.c`, `conflux_cell.c`) | unlinked and linked sets by nonce, retries | launch a leg, LINK, LINKED, LINKED_ACK, finalise, relaunch, shut down | a leg closes between any two steps of the handshake; recovery legs of a linked set | objects are owned once; no set is left behind |
| Congestion control (`congestion_control_common.c`, `congestion_control_vegas.c`) | RTT estimates, BDP, cwnd, slow start, event counters | SENDME processed, clock stall or jump, channel blocked | arithmetic at the limits over many SENDMEs | the window stays in its range, no circuit starves |
| Edge reading and stream flow control (`relay.c`, `connection_edge.c`, `congestion_control_flow.c`) | XON/XOFF counters, `circuit_blocked_on_*_chan`, cell queue, bandwidth flag | package, block and unblock streams, resume, XON, XOFF, refill | four independent reasons to stop reading and their wakeups, re-entered loops | no stream left behind; an honest peer is never refused |
| Channels, circuit multiplexer, circuit IDs (`channel.c`, `circuitmux*.c`, `circuitlist.c`, `command.c`, `relay.c`) | map from channel and ID to circuit, active circuits, DESTROY queue, cell queues | create, queue, flush, truncate, run out of memory, destroy, close, free | the same facts kept in three places; IDs reused while DESTROYs cross | the places agree; an ID is held while its DESTROY is queued, and not for ever; nothing of a circuit follows its DESTROY |
| Schedulers (`scheduler*.c`, `channeltls.c`, `connection_or.c`) | scheduler state per channel, pending list, run event, outbufs, kernel limits | cells queued, run, write, open, close, change of scheduler | callbacks change the list under the loop; wakeups by flushes | a channel with cells is scheduled and its cells move |
| Onion queue, CPU workers, work queue (`feature/relay/onion_queue.c`, `core/mainloop/cpuworker.c`, `lib/evloop/workqueue.c`) | queued handshakes, tasks, threads, reply queue | add, cull, assign, cancel, update, reply | real threads; answers for circuits that are gone | each job ends once; nobody sleeps on work; memory outlives tasks |
| Entry guards (`feature/client/entrynodes.c`) | sample, filtered, confirmed and primary lists, reachability, guard state of each circuit, state file | select, succeed, fail, expire, cancel, upgrade waiting circuits, consensus, options, save, restart | lists derived from each other and updated by hand | lists agree; what changed is saved; waiting circuits are judged rightly |
| Shared randomness and voting (`feature/dirauth/shared_random*.c`, `dirvote.c`) | commits, reveals, SRVs, phase, disk state, pending votes and consensuses | vote, fetch, compute, sign, publish, crash, restart | crashes between saves, lost votes, different sets of votes | one consensus per round, one commit per run, one value |
| Hosts mapping (`feature/anyone/anyone_hosts_update.c`) | fetch in progress, next server, installed file | periodic call, consensus, answer, timeout, install, restart | a timeout races a late answer | one fetch at a time; every server gets its turn; as far as can be told, the file does not get older |
| Circuit construction (`circuitbuild.c`, `feature/relay/circuitbuild_relay.c`, `circuitlist.c`, `circuituse.c`, `command.c`) | the circuit at each node with its two channels, the path at the origin, circuits that wait for a channel | launch, CREATE, EXTEND and their answers, channel opens or fails, timeout, guard wait, new exit, DESTROY, close | circuits share channels; every node may give up at any step while cells cross; a wait without a timer | no half of a circuit is left behind; origin and relays agree on the path; every circuit is open or gone in the end |
| Circuit padding, onion services, directory client, control port, main loop, libraries | | | | not modelled, see the end |

Components interact by direct calls inside one event loop per process. A
handler runs to its end before the next one starts, which is why an action of
a model is a whole handler; the interleaving that matters is between machines,
between the circuits of one machine, and inside handlers that call code that
comes back to them. The work queue is the one place with threads.

The hazards of this code, each with its line and the properties that cover it,
are listed in `PROJECT.json`.

## Modules

| Module | Models |
|---|---|
| `CircuitSendme` | the two ends of one circuit under either flow control |
| `OrderedStream` | what a conflux set promises: an ordered stream per direction |
| `Conflux` | a linked conflux set in use, shown to implement `OrderedStream` |
| `ConfluxPool` | the life of a set: launching, linking, recovery, shutdown |
| `Vegas` | the congestion window of one end |
| `EdgeReading` | the streams of one circuit and what stops and starts them |
| `XonXoff` | the two ends of one stream's XON/XOFF flow control |
| `ChannelCircuits` | the circuits, IDs and multiplexer of one channel, both ends |
| `CircuitBuild` | circuits of several hops over shared channels |
| `Scheduler` | KIST, KISTLite and vanilla over several channels |
| `WorkPool` | what a thread pool promises: each item ends once |
| `Workqueue` | the thread pool, shown to implement `WorkPool` |
| `OnionQueue` | handshakes of new circuits; composes the queue with `WorkPool` |
| `Streams` | `EdgeReading`, `XonXoff` and `Vegas` side by side |
| `Cpuworkers` | `OnionQueue` and `Workqueue` side by side |
| `SharedRandom` | several authorities voting on a shared random value |
| `EntryGuards` | the client's guard selection |
| `AnyoneHosts` | the updates of the hosts mapping |
| `MC...` | instances for TLC |
| `...Proofs` | proofs about a module, or a composition and its parts, for every value of the constants |

Definitions keep the names of the C functions they stand for; `map` in
`PROJECT.json` gives the lines. Definitions named `Faulty...` are never used:
each is a plausible defect of the definition after it, and shows which property
would notice.

Three ways in which modules meet. `Conflux` and `Workqueue` each implement an
abstract specification, checked as a property (`IsOrderedStream`,
`IsWorkPool`). `OnionQueue` is composed with the abstract pool instead of the
threads: what it may assume of the pool is what `Workqueue` was shown to do.
`CircuitSendme` leaves the congestion window open, so its results hold whatever
`Vegas` computes. `CircuitBuild` lets a relay answer a handshake at any time or
refuse it, and a finished circuit be usable at once, later or never, which is
what `OnionQueue` and `EntryGuards` decide.

`Streams`, `Cpuworkers` and `MCClient` each put two or three components side by
side that share no state. A variable `part` chooses which of them a behaviour runs;
the others stay in their initial states. Fairness in them is that of the
components, each restricted to its own behaviours.

### CircuitSendme

The client is the origin, which keeps its windows in the `crypt_path_t` of the
last hop; the exit keeps them in its `circuit_t`. The code is the same for both
and so is the model. State: `package_window` (fixed windows) or `inflight`,
`cwnd` and `sendme_pending_timestamps` (congestion control), `deliver_window`,
`sendme_last_digests`, `sendme_digest`; the edge as a buffer, the flag whether
it is read and whether its packaging loop is running; and the cells sent, with
how many of them the peer has handled.

* Cells arrive in order and are not lost: each hop is a TLS connection. A
  running digest covers all earlier cells of its direction, so it is modelled
  by the position of its cell: two digests are equal exactly when the position
  and the direction are.
* Each turn of the packaging loop is a step of its own, and the loop excludes
  other handlers of the same end, as in the event loop.
* What the model keeps of the order inside a handler: the digest is taken when
  a cell is encrypted, before the windows are touched, and copied to the FIFO
  after it is queued; a SENDME is built from the slot before its own encryption
  may overwrite the slot; a SENDME pops the FIFO whatever its version.
* `AcceptSendme` lets congestion control choose any window of `Cwnds`. A SENDME
  always updates the window here; a clock that stands still, which keeps it, is
  the choice of the old window.
* One edge stands for the streams of an end; several streams and their other
  reasons to stop are in `EdgeReading`.
* A circuit may be closed at any moment; the peer learns of it by a DESTROY
  that may overtake cells.

### Conflux

The set starts when the client has linked every leg, with the LINKED_ACKs still
on their way to the exit, so that the race between the first stream cell and
the round-trip measurements is part of the model. Each leg carries cells in
order; legs know nothing of each other. A sender picks a leg as
`conflux_decide_next_circ` does (the client by lowest RTT, the exit by lowest
RTT with room), precedes the first cell on a new leg by a SWITCH and carries
its count over; any round-trip time of `RTTs` may be measured at any SENDME.
The receiver numbers, delivers, queues and acknowledges. A leg may close at
either end, `cfx_del_leg` decides whether the set goes with it, and the other
end learns of it later and decides for itself.

`DATA` stands for cells that the congestion window counts and `OTHER` for the
multiplexed ones it does not; these go to the current leg when no leg has room.
The exit sends nothing before a cell of the client has opened a stream
(`HasStream`).
`cells_until_switch` is only ever assigned 0, so `conflux_can_switch` is always
true, and `prev_leg` is written and not read; both are left out. `cwndrtt`
asserts that the set has no legs and neither end chooses it.

A cell's `num` is history: the receiver never looks at it. `delivered` records
these numbers, so that `IsOrderedStream` compares what the receiver handed to
its streams with what was sent, not with the receiver's own counting. `data` is
history too: which of the cells sent were `DATA`. A leg can take cells with it
unnoticed, because `cfx_del_leg` asks for a whole increment in flight and
`inflight` counts `DATA` only; `LossIsBounded` says how much `DATA` that can be,
from the view of both ends and whenever each learns of the loss. The
refinement mapping is the identity on `sent` and `delivered`.

### ConfluxPool

One nonce at a client and its exit; sets of different nonces share nothing. A
circuit is building, open, marked or freed at each end; marking and freeing are
separate steps, as `circuit_mark_for_close` and `circuit_close_all_marked` are.
Launches that fail call back into `conflux_launch_leg` before they return;
their outcomes are given in closed form. What `Conflux` keeps enters as one
bit: a set that carried a stream may need a full teardown when a leg goes.

### Vegas

One controller through any sequence of cells, SENDMEs, round-trip times (0 is a
stalled clock), blocked channels and queue lengths. `is_monotime_clock_broken`
belongs to the process; the model has one circuit set it. The arithmetic is that
of the code on naturals; `VegasAssumption` states for which parameters no
subtraction wraps. `Settle` fixes the path's delay from some moment on, which is
what the liveness property needs.

### EdgeReading and XonXoff

`EdgeReading` has several streams of one circuit with a fixed congestion window
and a cell queue with high and low marks. A stream stops being read for the
window, the queue, an XOFF or the bandwidth limit; a SENDME, the flushed queue,
an XON and the refill callback start it again. Starting to read may package
what is in the input buffer at once (`connection_start_reading` and the loops
of `circuit_resume_edge_reading_helper`), which may stop other streams in the
middle of the loop; `StartAll` folds over the streams in the loop's order.

`XonXoff` is one stream with both ends' counters: the receiver's buffer, drain
rate and XONs, the sender's counts and the checks by which it refuses a cell.
Rates and clocks are arbitrary; the scaling of counters is that of the code
with smaller constants.

### ChannelCircuits

Only the client's end creates circuits; each end keeps the map from ID to
circuit or placeholder, the multiplexer with its counts, active circuits and
DESTROY queue, the cell queues, and the channel's state. The EWMA policy's
choice of circuit is left open. Only the side of a circuit that is on this
channel exists. `unsent` says whether the outbuf is empty; `wrong` and a cell's
`circ` are history. `destroy_ctr` and the channel's counts of circuits are left
out. `Busy` says which end queues cells, and `Fragile` at which a write may fail
or the channel be lost for another reason. A write that fails in the middle of a
flush leaves the rest of that flush to a closing channel: cells and DESTROYs that
are popped then are dropped, and the IDs of these DESTROYs stay reserved
(`channel_write_packed_cell`). `last_cell_was_destroy` starts with either value,
since a channel without circuits may have had some before.

### CircuitBuild

Node 0 is the origin and all circuits run through relays 1, 2, ..., so they
compete for the channels between neighbours. `node[k][i]` is what node i keeps
of circuit k: its state, whether it is linked to the channels on either side,
and whether it is marked. `path[k]` is the origin's view: the length it wants,
the open hops, and whether the next one is awaiting its keys. Cells travel in
order per circuit and direction. The two ends of a channel notice its end
separately, and cells under way are then lost.

* `Connect` is the common part of `circuit_handle_first_hop` and
  `circuit_extend`: use an open channel, wait for one under way, launch one, or
  fail (no circuit ID, no connection).
* `channel_do_open_actions` and `channel_closed` serve or fail the circuits that
  wait for the relay, whatever address they asked for, as the code does (see
  below).
* Marking and freeing are separate steps; freeing all marked circuits of a node
  is one step, which drops what was not sent yet and queues the DESTROYs.
* A circuit has IDs of its own on each channel (`ChannelCircuits` is about their
  reuse). Left out: TRUNCATE, which nobody sends, path-bias probes and padding
  machines that delay a close, incoming channels used to extend, and relays
  without known identity keys.
* `Plans` lists the instances: lengths, channels per pair of neighbours, and
  how many things go wrong that nobody in the model asks for (a channel closes
  or turns bad, a node gives a circuit up). Refused or unanswerable handshakes,
  missing circuit IDs and timeouts are not counted.

### Scheduler

The outbuf is counted in cells and time in ticks. A run is split into one
action per point at which it calls code that comes back to it: a write of the
outbuf changes scheduler states and may close the channel. The policy's choice
is left open. The state MAINT is not reachable. `DirectTo` bounds the cells that
are written past the scheduler (`circuitmux_append_destroy_cell` and control
cells), `Closers` are the channels that may fail. KISTLite differs from KIST
in its limits only and is not among the run's `Modes`.

### Workqueue and OnionQueue

In `Workqueue` a critical section is one step and what a thread does without a
lock is a step of its own. Threads wake for no reason; updates and items may end
a thread. In `OnionQueue` every main-thread handler is one step and the pool's
items move as `WorkPool` allows. TAP is refused and CREATE_FAST answered at
once, so only the ntor queue exists. The memory of a circuit is live, dead (kept
for its task) or freed.

### SharedRandom

Time is the voting interval and its three stages. Every change of the protocol
state is written at once, so a handler is the sequence of states it saves, and a
crash keeps one of them. `cut` records (as history) the authorities that were
stopped inside a handler. The authorities' clocks agree to within a stage, and
all of them count in the interval of a live consensus; an authority without one
counts in its initial voting interval (`voting_schedule.c:49`), which comes to
matter only after consensuses were missed in a row. A value is the set of reveals and the value before it. The counters of rounds and
runs are only logged and left out. Disk writes are atomic. An authority that
restarts late in an interval has only its own vote and computes no consensus.
`N_ROUNDS` = 2 stands for 12 and an agreement of all three authorities for the
super-majority.

### EntryGuards

One selection, the default one. A guard's `sampled_idx` is its position, the
confirmed list is derived from `confirmed_idx`. The dates after which guards
are pruned are not counted: which guard is due is an input of the action (one
per consensus at most). A draw by bandwidth is any order. A path restriction is
a set of excluded guards. Every guard has a descriptor. Ages are capped where
no test tells more apart.

### AnyoneHosts

Times are ages. An answer is refused, or it is a signed file with a published
time, or with none (0); which server has which file is open. Whether the
installed file can be read and is the same as the answer, and whether the write
succeeds, is open too: the published times are compared only when both files
have one and the installed one was read. A fetch is a connection, or none when
it could not be made, and the result reaches the updater from the answer, from
the close of the connection, or from both. Which fetch a connection belongs to
is history; `crossed` records (as history) that a result was taken for another
fetch's, `asked` the last server and `quiet` the time since the last launch or
accepted file.

## Runs

Each run answers one question about one part of the system. Invariants that are
conjunctions of named parts are listed with the parts.

| Run | Shows |
|---|---|
| `sendme` | Two ends under congestion control with a window that moves between 2 and 5 cells, versions 0 and 1: `NoProtocolClose`, `WindowConservation`, `SendmesMatchDigests`, `NoLostWakeup`, `EndsAgree` (the inductive invariant of the proofs), and `BufferedDataGetsSent` |
| `conflux` | Two legs of different delay, one of which may block, both of which may close, increments of two, an exit that mixes `DATA` with other cells: `SequencesAgree` (types, current leg leads, no `BUG`, numbers agree, the queue waits only for a missing cell), `LossIsBounded` (a set that outlives a leg lost less than an increment of `DATA` with it), `IsOrderedStream` (refinement), `EverythingDelivered` |
| `conflux_lost` | Expected violation of `NothingLost`: with increments of two, less than an increment in flight is lost with its leg |
| `conflux_pool` | Two legs and one recovery, closing anywhere: `ObjectsOwned`, `HandshakeAgrees` (pooled legs are usable, one client set, answers find their legs, the exit links first), `NothingLeaks` (a set is resolved, the exit forgets) |
| `circuit_build` | Circuits of one to three hops over shared channels: `NobodyIsOrphaned` (a half of a circuit always has the news of the other's end on its way, a waiting circuit a channel), `PathAgrees` (origin and relays agree on the path; one handshake is under way, in one place), `EveryCircuitResolves` |
| `circuit_channels` | Expected violation of `UsesSuitableChannels`: a waiting circuit is put on a channel to an address it did not ask for and that is not canonical |
| `cpuworkers` | Three circuits, one or two tasks: `QueueAgrees` (counts, live circuits, no empty head), `TasksKeepCircuits`, `NobodyWaitsForEver`. The pool with two threads, two items, two updates, threads that end: `NobodySleepsOnWork` (no lost wakeup, no lost alert, work runs with the update), `ArgsFreedOnce`, `IsWorkPool` (refinement), `EveryItemAnswered` |
| `streams` | Two streams of a circuit: `NoStreamLeftBehind` (an XOFF is obeyed, stopped for a reason, nothing lingers, blocked by the queue), `StreamsAreDelivered`. One stream's XON/XOFF: `StreamEndsAgree` (both ends, the buffer's bound, no honest cell refused). The window through any sequence of measurements: `WindowStaysUsable` (in bounds, never starved), `WindowWedgeEnds` |
| `shared_random` | Three authorities, two protocol runs, a crash and a lost message: `OneConsensusPerRound`, `OneCommitPerRun`, `SrvIsAgreed` (`SrvIsStable`: once a majority has registered a consensus, none published later for the run names another SRV; `CalmRunsYieldSrv`: a run without trouble yields one from every reveal) |
| `channel_circuits` | Two circuits and two IDs: `CircuitsAgree` (map, multiplexer and circuits), `DestroysHoldTheirIds` (a queued DESTROY reserves its ID; on an open channel nothing else does), `DestroyIsLast` |
| `scheduler` | Two channels under vanilla and KIST, switched while they run: `ChannelsAreScheduled` (the pending list is right, the event armed, nobody forgotten), `CellsMove` |
| `client` | Two guards and two circuits: `SelectionAgrees` (flags, primary, confirmed, pending), `CleanMeansSaved`, `UpgradedWhenNeeded`. Hosts updates with dated and undated files and connections that outlive the timeout: `FetchesAreRight` (`OneFetchAtATime`: no second connection, no late answer taken for a later fetch's; `ServersTakeTurns`: the next server after exactly one failure, and a bound on the time without a fetch) |

### Bounds

* `sendme`, `conflux`: windows are counted modulo the increment, so a window of
  two increments of two cells has every position of a cell relative to a
  boundary. Four cells of the exit over two legs reach a switch there and back,
  a queue of several cells and both legs without room; two legs are the
  default. With increments of two, a leg can be lost with one cell of `DATA` in
  flight and the set kept, so `LossIsBounded` is reached with equality. Fixed windows are covered by the proofs, which leave `UseCC` open.
* `conflux_pool`: with three launches a recovery leg meets sets that are still
  unlinked, linked and gone.
* `circuit_build`: two one-hop circuits with different addresses and two
  channels, one of which may fail, reach every order of waiting, launching,
  serving and failing; two circuits of two hops share channels at a relay too;
  one circuit of three hops, and one that grows from two to three, meet a close
  at every node and link while cells cross, two of them in the longest.
* `cpuworkers`: two threads and two updates are the least with which an update
  replaces one that a thread has and another has not taken.
  The cull needs a waiting circuit that grew old, a new one, and
  one in the pool; two values of `max_pending_tasks` let a consensus raise and
  lower it while tasks are pending.
* `streams`: a window of three, marks 2 and 1: each stream can be stopped by
  each reason while the other is not. Eleven bytes pass the XOFF limit twice.
  Four RTTs, windows of two to four increments: slow start, its cap, the exit
  from it and steady state all occur.
* `shared_random`: intervals 2 to 9 are the end of a run, a full run and the
  start of a third; crash and loss fall anywhere in them.
* `channel_circuits`: with two IDs, cells of one circuit meet the DESTROY of
  another in the multiplexer, two DESTROYs meet a write that fails, and an ID is
  used by both circuits in turn; two cells per queue and on the wire. One end,
  the relay's, is loaded and fails, the other answers it.
* `scheduler`: a mark of one cell and two cells per channel are enough for a
  channel to fill, wait for room and be woken with cells left.
* `client`: one primary guard and another; three changes of the world (a
  consensus, options, a save, a restart) in any order. For the hosts file, the
  order `Timeout` < `MaxAge` < `Retry` <= `Interval` is that of the code: a fetch
  is given up after 10 minutes, a client's directory connection is closed after 5
  minutes without data (`mainloop.c:1185`) but an answer that trickles in keeps
  it, attempts after a failure are an hour apart, and the interval is at least an
  hour (`config.c:4081`). That an answer takes less than the hour is not enforced
  by the code: the row of `OneFetchAtATime` below has the case that is left out.
  The bound of `ServersTakeTurns` is tight: a unit less is refuted.

### Fairness

Only what an event loop, a kernel or a thread library promises:

* a readable channel is served and a started loop ends (`CircuitSendme`:
  packaging and `Receive`; `Conflux`: `Receive`; `ConfluxPool`: `CellArrives`
  and freeing marked circuits, and closing of legs that stay unlinked, which is
  the circuit-build timeout);
* `EdgeReading`: the loop serves some ready socket, queue or cell and the refill
  callback fires. It is strong fairness of `Progress`: a stream may run out of
  bandwidth again and again, but not so that nothing is ever read in between;
* `CircuitBuild`: weak fairness of `Progress`, that something that is due
  happens: cells arrive, handshakes are answered, timers expire, marked circuits
  are freed, an ended connection is noticed, and a channel that is opening opens
  or fails (connections that do not open are expired by
  `run_connection_housekeeping`). Circuits, hops and channels are bounded, so
  one condition for all of them is enough;
* `OnionQueue`: weak fairness of one step for all of: threads take and finish
  work, the main loop handles replies and frees marked circuits; `Workqueue`: each thread and the main loop run. A new
  CREATE is never assumed;
* `Scheduler`: time passes, sockets become writeable again and again, and the
  kernel again and again has room when the scheduler runs;
* `Vegas`: a sender with data fills its window, and its SENDMEs come back.

Where something that can wait happens a bounded number of times (`OnionQueue`,
`Workqueue`, `CircuitBuild`), liveness is stated as "again and again nothing
waits", which implies that each of them is served.

`ChannelCircuits`, `SharedRandom`, `EntryGuards` and `AnyoneHosts` are checked
for safety only. The first has no liveness to promise, see `DestroysMove` below.
The last has ages instead of fairness: time does not pass while the periodic
call is due, so that a fetch is launched in time is an invariant. It assumes
nothing of the servers; a fetch may even make no connection at all.

## Where code and comments disagree

Two disagreements have runs of their own. `conflux_lost`: a leg that is not
current closes with fewer than `sendme_inc` cells in flight and neither end
tears the set down, though the comment says it does when there is data in
flight (`conflux_pool.c:569`). `inflight` only falls by whole increments, so the
test has to allow for cells that arrived and will never be acknowledged.
`conflux` shows that the loss stays below an increment of `DATA` for each leg. It
is not bounded in cells: CONNECTED, END, XON and XOFF have sequence numbers but
do not count as in flight, so an exit may send one of them on a leg, switch, and
lose it with that leg at any increment (the row of `NothingLost` below).

`circuit_channels`: `circuit_n_chan_done` tests `! chan->is_canonical`, which is
a method pointer (`channel.h:353`) and never NULL, where `channel_is_canonical()`
is meant ("If the channel is canonical, great.  If not, it needs to match the
requested address exactly.", `circuitbuild.c:715`). So any channel to the relay
serves a waiting circuit, and any that fails fails it, though one to the wanted
address is on its way. The assertion of `circuit_deliver_create_cell`
(`circuitbuild.c:798`) has the same slip. Reading alone showed one more:
`connection_or_about_to_close` clears `or_conn->chan` and then passes it to
`entry_guard_chan_failed` (`connection_or.c:773`), which does nothing with NULL;
the guard's failure is noted later by `circuit_build_failed`.

The modules state further properties, taken from comments, that TLC refutes
under the constants given here (others as in the cfg or MC module of the component). They are
in no run; a team that changes the code may want to check them again.

| Property | Constants | What TLC shows | The comment |
|---|---|---|---|
| `CircuitSendme!SendmesMatchDigests` | `sendme_inc = 1` | `circuit_sent_cell_for_sendme` answers false when nothing is in flight, so the first increment records no digest | "Return true iff the next cell we send will result in the other endpoint sending a SENDME", `congestion_control_common.c:557` |
| `CircuitSendme!SentCellForSendmeExact` | fixed, start 6, increment 3, `circwindow = 5` | the sender looks for boundaries of its own window, the receiver for those of 1000 | `sendme.c:704` |
| `ConfluxPool!WaitsForALeg` | as run | when no leg may be relaunched and the others are linked, nothing finalises the set | "attempt to finalize it and relaunch a new leg", `conflux_pool.c:1440` |
| `ConfluxPool!LegsShareObject` | as run | the last leg of an old object deletes the entry of a newer one | `conflux_pool.c:55` |
| `XonXoff!HonestCellsAreValid` | scaling at 2, `XonRate = 4`, 16 bytes | counts are halved before the arriving XOFF is counted, which then weighs two | `congestion_control_flow.c:281` |
| `Vegas!WedgeEnds` | `JumpRatio = 3` | every true RTT is taken for a clock jump when the average is abnormally low | "This gets us out of a wedge state", `congestion_control_common.c:814` |
| `Vegas!BdpWithinCwnd` | `CwndMax = 11`, `SsMax = 9`, `JumpRatio = 3` | raising the minimum RTT brings the BDP above the window | "This should not happen anymore..", `congestion_control_vegas.c:432` |
| `Vegas!FullResetPerWindow` | `CwndMax = 14`, `SsCap = 10`, `SsMax = 13`, `JumpRatio = 3` | a window that shrinks in mid-count resets the flag early | `congestion_control_vegas.c:368` |
| `Vegas!NeverStarved` | `Gamma = 1`, `CwndMax = 11`, `SsMax = 9`, `JumpRatio = 3` | leaving slow start applies no lower limit | "cwnd can never fall below 1 increment", `congestion_control_vegas.c:581` |
| `OnionQueue!WaitsForWorkers` | `MaxPendings = {1}` | cancelling the last task takes nothing from the queue | `onion_queue.c:53` |
| `OnionQueue!HeadIsThere` | `cutoff = 0` | the cull removes the entry just added and reads the head of an empty list | `onion_queue.c:173` |
| `Conflux!NothingLost` | `sendme_inc = 1`, `Commands <- MCMixedBack` | a cell that the window does not count is lost with its leg, though nothing else is in flight | "If the circuit still has inflight data, teardown", `conflux_pool.c:569` |
| `ChannelCircuits!NoDanglingEntries` | as run | after a failed write, DESTROYs are dropped and their IDs stay marked | `circuitmux.c:316` |
| `ChannelCircuits!DestroyHitsItsCircuit` | as run | crossing DESTROYs: the peer's closes the next user of the ID | `circuitbuild.c:120` |
| `Scheduler!DestroysMove` | one channel, KIST, `High = 2`, `DirectTo = 0` | a DESTROY queued behind a nonempty outbuf wakes no scheduler | `circuitmux.c:1200` |
| `Scheduler!JustOverHighWater` | vanilla, `High = 2`, `MaxCells = 5`, `DirectTo = 3` | an unsigned difference makes an overfull outbuf writeable without limit | `connection_or.c:641` |
| `SharedRandom!ResumesAfterReboot` | `Start = 3`, one crash | a saved state expires a round early | `shared_random.c:52` |
| `SharedRandom!CommitsOfThisRun` | as run | a state loaded in a run's last hour keeps the old commits | `shared_random_state.c:1134` |
| `SharedRandom!FreshSrvSurvives` | `Start = 3`, one loss | an older consensus replaces the SRV just computed | `shared_random.c:1228` |
| `SharedRandom!TakesPart` | `Start = 3`, one crash | after a stop between reset and commit, no commit is generated | `shared_random_state.c:1141` |
| `SharedRandom!SameVotesSameConsensus` | `Start = 3`, one crash | the fresh flag, which is not saved, decides which majority is needed | `dirvote.c:77` |
| `SharedRandom!NeverVotesTwice` | one authority, `Agreements = 1`, `Start = 2`, `End = 13`, three crashes (two if `N_ROUNDS = 1`) | a stop in `sr_state_init` leaves a new state without commitment on disk; a reboot in the run's last hour takes it for the next run's without renewing its validity, commits and votes, and the next reboot finds the file expired and commits again | "To support rebooting authorities and to avoid double voting", `shared_random.c:51` |
| `AnyoneHosts!FlagWhileOpen` | as run | a fetch that is given up after the timeout leaves its connection open | "True while a DIR_PURPOSE_FETCH_ANYONE_HOSTS connection is open.", `anyone_hosts_update.c:57` |
| `AnyoneHosts!OneFetchAtATime` | `MaxAge = 4` | a connection that lives as long as the gap between attempts meets the next fetch, and its answer is taken for that fetch's | "only the first call for a given fetch records a result", `anyone_hosts_update.c:180` |
| `AnyoneHosts!NeverOlder` | as run | a file without a published time, or an installed file that cannot be read, lets an older file in | "it is not older (by published time) than the installed mapping", `anyone_hosts_update.c:22` |
| `EntryGuards!PrimaryNotPending` | three guards, `MinFiltered = 2`, `MaxSample = 3` | a pending guard becomes primary | "Primary guards can never be pending.", `entrynodes.h:155` |
| `EntryGuards!PendingUntilDone` | same | freeing an old circuit clears the mark of another's attempt | `entrynodes.h:154` |
| `EntryGuards!PrimariesFull` | same, `NPrimary = 2` | guards that count as reachable again do not make the list out of date | `entrynodes.c:99` |

## Proofs

Eleven components have proofs, for every value of their constants under the
assumptions named in the module that declares them. Each proof module states an
inductive invariant `IInv` (`CommitInv` for the commitments and `SrvInv` for the agreed values of
`SharedRandomProofs`, `PathInv` for the paths of `CircuitBuildProofs`), proves that the initial states satisfy it and that every
step keeps it, action by action, and derives the properties from it. Lemmas
about operators come first.

| Module | Theorem | Property | Further hypotheses |
|---|---|---|---|
| `CircuitSendmeProofs` | `EndsAlwaysAgree`, `NeverProtocolClose`, `SendmesAlwaysMatch` | `EndsAgree`, `NoProtocolClose`, `SendmesMatchDigests` | `WellConfigured` |
| | `WindowsConserved`, `NeverTwoSendmes`, `TimestampsMatch`, `RecordsRightCells`, `TypeCorrect` | `WindowConservation` and the parts of `EndsAgree` of these names | `WellConfigured` |
| | `WakeupsAreNotLost` | `NoLostWakeup` | none |
| `ConfluxProofs` | `SequencesAlwaysAgree` | `SequencesAgree` | none |
| | `ImplementsOrderedStream` | `IsOrderedStream` (refinement) | none |
| `ConfluxPoolProofs` | `ObjectsStayOwned`, `HandshakeAlwaysAgrees` | `ObjectsOwned`, `HandshakeAgrees` | none |
| `CpuworkersProofs` | `NobodySleeps`, `FreedOnce` | `NobodySleepsOnWork`, `ArgsFreedOnce` | none |
| | `ImplementsWorkPool` | `IsWorkPool` (refinement) | none |
| | `TasksKeepTheirCircuits` | `TasksKeepCircuits` | none |
| | `QueueAlwaysAgrees` | `QueueAgrees` | none |
| `StreamsProofs` | `WindowAlwaysUsable` | `WindowStaysUsable` | none |
| | `StreamStateAgrees` | `StreamEndsAgree` without its last conjunct | none |
| | `StreamEndsAlwaysAgree` | `StreamEndsAgree` | `CountersUnscaled` |
| | `NoStreamIsLeftBehind` | `NoStreamLeftBehind` | none |
| `SharedRandomProofs` | `OneConsensus`, `OneCommit` | `OneConsensusPerRound`, `OneCommitPerRun` | none |
| | `AgreedSrvStays` | `SrvIsStable`, the action property in `SrvIsAgreed` | none |
| `SchedulerProofs` | `AlwaysScheduled` | `ChannelsAreScheduled` | none |
| `CircuitBuildProofs` | `CircuitsAreNotOrphaned` | `NobodyIsOrphaned` | none |
| | `PathsAlwaysAgree` | `PathAgrees` | none |

`WellConfigured`: an increment of more than one cell, a fixed window that is a
whole number of increments, emitted versions that the other end accepts.
`CountersUnscaled`: no more is sent on the stream than the bytes that XOFFs,
XONs or the count of bytes can account for before the first of them is scaled
down; with the code's defaults these are 10 MB. The row of `HonestCellsAreValid`
above is the case it leaves out. TLC evaluates these in the runs.

### CircuitSendme

`IInv == Types /\ EndsAgree` (theorem `Agreement`). `NoProtocolClose` is not
inductive: whether a SENDME is acceptable depends on what both ends did
increments ago. `EndsAgree` ties the four pieces of state that this connects:

1. `WireOK`: the history counts of each direction add up.
2. `DeliverOK`: a receiver has sent one SENDME for every whole increment it has
   received, and its deliver window lacks exactly the rest.
3. `FifoOK` and `WindowOK`: a sender's FIFO holds the digests of the last cells
   of its unacknowledged increments, oldest first, its window counts what is
   unacknowledged, and there is a timestamp per digest.
4. `SendmesOK`: the k-th SENDME carries the digest of the last cell of the k-th
   increment, which was received.

A SENDME that arrives is the (acked + 1)-th by 1 and 4; by 2 that increment was
received, so by 3 the FIFO is not empty and its head has the same position
(`ExpectedSendme`). `RecordingExact` shows that the test on the window, or on
`inflight`, finds exactly the last cells of increments; it needs
`WellConfigured`, and the first two rows of the table above show that it fails
without it. The k-th SENDME on the wire meets the k-th digest of the FIFO
(`SendmesAlwaysMatch`). `WakeupsAreNotLost` needs none of this: every handler
that reopens the window starts the edge before it ends.

### Conflux

`SequencesAgree` and the refinement compare what a receiver counts with what
the sender sent, which no single state shows: a SWITCH carries a difference, and
cells are numbered only when they are taken off their leg. The invariant counts
along a wire. `Numbered(w, r, s)`: starting at the receiver's number r of the
leg, the cells and SWITCHes on wire w count up to the sender's number s, and
every multiplexed cell comes out with the number it was sent as; the count is a
function on the positions of the wire (`Running`), so taking the first cell off
shifts it and sending extends it. `Lines` adds that no number is on a wire
twice, on two wires, queued, or delivered; `Order` that what was delivered is a
prefix and that the queue is behind a gap; `Leads` that the current leg carried
the last cell. `Acks` counts the SENDMEs on the way back in the same fashion
(`Tally`), so `inflight` never falls below what is on the wire. A step of one
end then maps to one step of `OrderedStream` or none: a cell that closes a gap
delivers a run of queued cells at once, which the abstract stream allows.

### ConfluxPool

The invariant has three parts. The objects of one end are sound by themselves
(`Sound`): a leg is open and points back at its object, and a circuit points at
an object it is a leg of, except that the last leg of an emptied object keeps its
pointer until it is freed, which frees the object. Each helper of
`conflux_pool.c` (`LegRemoved`, `conflux_mark_all_for_close`,
`linked_circuit_free`, `LegLinked`, `Finalized`) has a lemma that it keeps this
and what lives (`LivesWhilePointed`). The client's circuits that are not closed
are the legs of one of its sets (`UnlinkedSound`), and each was a launch
(`LaunchesCounted`). `WireSound` ties the two ends: a LINK is on its way only to
an exit without a pointer, a LINKED only to a client that has not linked the leg,
a LINKED_ACK only to an exit that has, and LINK and LINKED are always the first
cell of their wire. A LINK arrives once per leg, so the exit makes at most one
object for each (`MadeByLinks`) and the numbering up to `MaxLaunch` loses none.
Relays may drop any cells behind those they sent on before a DESTROY
(`FollowsDestroy`); most steps add no cell of the handshake (`QuietStep`) and
need no more.

### Workqueue and OnionQueue

`NobodySleepsOnWork` is strengthened to `Wakeups`: while some thread sleeps, at
least as many threads are about to look for work as there are items. That a
thread sleeps and another has the last item is then no danger, and one signal
per item is enough. `Places` says that an item that was queued is in one place,
which the refinement of `WorkPool` rests on, and `Arguments` that the argument
of an update is where the thread's generation says it is, which is what
`FreedOnce` needs of threads that are told to update twice before they look.

In `OnionQueue` the counts are right (`Counts`), and a circuit is in the queue
or in the pool only while it waits (`Waiters`); so a circuit that is freed
leaves the queue, and one that cannot leave the pool is kept. The cull is a
recursive function over the queue; the lemmas give its steps by its equation.
`QueueAlwaysAgrees` holds for every cutoff, 0 included: even then the counts are
right, but only a cutoff above 0 makes the cull stop inside the list
(`CullStops`), and the row of `HeadIsThere` above shows that it is needed.

A behaviour of `Cpuworkers` is one of each of its parts
(`EachKeepsItsSpec`), which is how the theorems about the parts become theorems
of the specification that the run checks.

### Vegas and XonXoff

`WindowStaysUsable` is inductive with one lemma for each stage of an update: the
estimates touch neither the window nor `inflight`, and every way to move the
window leaves it at or above the smaller of `CwndInit` and `CwndMin` (`Usable`).
`VegasAssumption` has what this needs of the parameters. Leaving slow start sets
the window to `bdp + gamma` without looking at the minimum
(`congestion_control_vegas.c:470`), and an estimate may be near zero, so `Gamma`
must not be below that floor: the default of `gamma` is twice `OUTBUF_CELLS`,
the initial and minimal window is 124 cells by default, and the row of
`NeverStarved` above has the case that is left out.

`EndsAgree` compares the receiver's state with the sender's through what is on
its way. The invariant (`Book`) has three functions for this over the positions
of the queue of cells: the SENDMEs up to a position (`Sums`), and what the sender
will have been told when it has handled the cells up to a position (`Told`),
where an XOFF only ever follows an XON. Position 0 is the sender's state and the
last position the receiver's; sending a cell extends the functions and taking one
shifts them. An XOFF on its way or obeyed leaves only what the sender had sent
before it, and each of those cells has its SENDME behind the XOFF or is still to
arrive (`BufferFits`): hence the bound of limit, window and a cell.

That no honest cell is refused needs three more totals (`Accounted`): the bytes
on their way and the XONs and XOFFs among the cells. An XOFF is sent only with
more than the limit buffered and the buffer is empty before the next one. An
advisory XON is paid for by the bytes drained since the last (`Pays`): a new rate
takes `xon_rate_bytes` of drained data, and the invariant tells whether the rate
that was measured last has been told already or still has its bytes to spend.

### EdgeReading

`NoStreamLeftBehind` says that a stream which is not read, or has data in its
input buffer, waits for something that will come. The invariant (`EdgeInv`) has
four parts. `Fine`: a stream that was not told to stop is read or waits for the
queue, the window or its bandwidth, and has an empty input buffer unless it
waits for the queue or the window; the queue's mark agrees with its length.
`AllTold`: the cells on their way back turn what each sender was told into what
its receiver said last, and an XOFF meets only a sender that was not told to
stop. `Balanced`: the window, the cells that it counts and the SENDMEs on their
way make the congestion window. `CellsCounted`: the data of a stream is never
more than was offered to it, which bounds the buffers.

The difficulty is in the loops. A handler packages and starts streams one after
another, and a stream that is started may block the queue and so stop those
that were started before it. The relation `Packs` says what any amount of
packaging and starting may do to the sending end: it is reflexive and
transitive, takes from the window only what it adds to the queue, never clears a
mark, and leaves a stream that was read either read or waiting. A stream that
is `Settled` stays so under it (`PacksSettled`). One turn of a loop is a case of
`Packs` that settles its stream, so the loop settles all of its streams, in
whatever order; the loops are recursive functions over the turns, and the
induction is by least counterexample (`StartAllKeeps`, `PackageSharesKeeps`).
How large the shares are that `circuit_resume_edge_reading_helper` computes does
not matter for this.

### SharedRandom

`OneConsensus`: an authority signs what it computed from a majority and signs
once per round (`Pending`); while a round is published its signatures stay, and
what is published has a majority of them (`Backed`). Two majorities of a finite
set of authorities share a signer.

`OneCommit` follows what an authority knows to have committed to: the commitments
it posted and the one in its state. Every such commitment is guarded (`Guarded`):
its run is over, or the saved state is of that run, has the commitment while the
commit phase lasts, and stays valid until the run ends, so a reboot loads it
instead of making a new one. A handler is a sequence of saved states; `Updated`,
`Written` and `Saved` give what each of them is made of, and `Sound` holds of
all of them except one that a crash left without a commitment (`torn`). One such
state does no harm; two do, which is the row of `NeverVotesTwice` above. The
condition on `cut` in `OneCommitPerRun` is therefore the weakest that is true of
the code's crash behaviour that the model tells apart.

`AgreedSrvStays` follows what an authority can still vote for once it has
registered a consensus of a run. It is `Loyal` to that consensus for the rest of
the run: the consensus it keeps is not of an earlier run, and that consensus, its
votes and its state name no other value. It cannot come to another value by
itself, because only the passage from reveal to the next commit phase computes
one, it has no votes left from the last round (`Cleared`), and a file saved in
an earlier run has expired (`Recent`). A consensus published later needs a majority for its value; that
majority meets the one that registered the first (`MajoritiesMeet`), so the
values are the same (`Settled`, `NextSettles`). Writing this proof showed that an
earlier form of the property was too strong. It compared a registered consensus
with all consensuses of the run, also those published before the majority had
registered it, and among those another value is possible: one authority may
publish a consensus while the others have not registered the last one and still
vote for an older value. The bounds of the run did not reach that.

### Scheduler

`ChannelsAreScheduled` speaks of the time between two runs. The invariant says
for each channel where its scheduler state puts it at every point of a run
(`Placed`): a pending channel is in the list, in the loop's hands, or among
those added back after the loop; a channel that waits for cells has none; one
that waits for room has an outbuf that is not almost empty, so a flush will wake
it. A write calls back into the scheduler for any number of channels and in the
middle may lose the channel; `FlushFacts` shows for any number of steps of that
loop that only the channel at hand changes. With it goes `EventArmed`: while the
list is not empty the event is due within an interval of the last run. The proof
found one mistake of the model: `ChannelOpens` lacked the bound on cells that
the other actions have, so a channel that opened late could exceed it.

### CircuitBuild

The invariant speaks of one circuit on one link at a time (`Link`): what the
nodes at its two ends keep, the cells in both directions, and the channel. Three
facts make `NobodyIsOrphaned` inductive. A circuit uses a link once, so the cells
on it are of one attempt and a CREATE is always the first of them. The far node
has made no circuit, and has sent nothing, before the CREATE arrives. And a
DESTROY is sent only by a node that has forgotten the circuit, so one that is
taken never leaves the sender with a half. With them goes that the two ends of a
channel open together and that a channel in use never returns to being launched
(`Ends`, `Moves`). A lemma for each way to touch a link at its near or far end
(`NearConnects`, `CreateServed`, `Severed`, `NearFreed`, ...) carries the
argument; each action is then the two links at one node, for one circuit
(`Turn`) or for all circuits on a channel (`EveryNode`). The proof also shows
that an EXTEND is never obeyed by the last relay, which has no next link.

`PathsAlwaysAgree` adds a second invariant (`PathInv`), which speaks of a circuit
from end to end. The one question or answer of a circuit has a place (`AtMost`):
a link outwards, a link inwards, or a relay. It is about the first hop that is
not open (`Where`): a CREATE on that hop's link or an EXTEND on its way to the
last open relay, that relay waiting for a channel, the new relay at work on the
handshake, or the answer on its way back. The relays so far have the circuit and
nobody beyond has heard of it (`Reaches`). All this holds unless there is trouble
at one of the hops the origin knows of or at the one it adds (`Failed`), and two
facts let a step rely on that. Trouble does not go away before the origin closes the circuit:
a DESTROY reaches the node it is for, or its channel breaks (`NewsStay`, proved
for every action first). And the trouble nearest to the origin is of the kind
that `PathAgrees` excuses: a DESTROY on its way back, a broken channel, or a
relay that has marked its circuit (`TroubleShows`). Steps that ask and answer
nothing keep the place (`Calm`); each of the others moves it on by one
(`PlaceMoves`). That the origin never sends a question while one is out is a
consequence: it sends one only when it is launched, when its channel opens, when
the answer has arrived, or when a finished circuit gets one more hop.

### Only model-checked

* Liveness under fairness, in every module: out of the prover's reach.
* `LossIsBounded`: it relates what each end decided at different times. What one
  would like instead, `NothingLost`, is false (`conflux_lost`).
* `ChannelCircuits`, which uses recursive operators that the SMT backend does
  not take.
* `CalmRunsYieldSrv`, the rest of `SrvIsAgreed`: it follows the whole protocol
  through a run without losses, and it is not true of all constants. The rounds
  before the authorities boot count as troubled, since one that boots in the
  reveal phase has nothing to reveal in that run. `Agreements` must not exceed
  the number of authorities. And a phase must have two rounds: an authority that
  misses the last consensus of a run is a round late, and with phases of one
  round it comes to the reveal phase of the next run without a commitment (TLC
  finds this with `N_ROUNDS = 1`, one crash and one loss). The code has twelve
  rounds in a phase.
* `EntryGuards` and `AnyoneHosts`: not proved yet.

The library's induction theorems take an operator as a parameter, which the
installed backends cannot instantiate. Where a proof needs induction over a
count, the lemma `NatLeast` (a nonempty set of naturals has a least element)
serves instead, with the least counterexample as the set's element.

## Plan

1. Proofs: `CalmRunsYieldSrv` of `SharedRandom` for phases of two rounds or more;
   `SelectionAgrees` of `EntryGuards`.
2. Which circuit a stream uses (`circuituse.c`), stream opening and closing
   (`connection_edge.c`), TRUNCATE.
3. Padding negotiation, hibernation.

## Not modelled

* The choice of paths and of circuits for streams, stream opening and the
  statistics behind the build timeout.
* Circuit padding: the machines are tables of probability distributions, and
  negotiation is one message each way.
* Onion services, the directory client, caches and the node database: parsing
  and storage of documents, and cryptography that a model would only assume.
* Cryptography; a digest is the position of its cell.
* The control port, configuration and hibernation: interfaces and schedules
  that meet the other components only through operations the models already
  allow at any time (closing, new options).
* The main loop: it is the atomicity assumption of every module.
* General-purpose libraries, except the work queue; `ext/` and `trunnel/` are
  vendored or generated.

`PROJECT.json` lists every component with its reason.
