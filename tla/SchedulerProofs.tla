--------------------------- MODULE SchedulerProofs ---------------------------
(***************************************************************************)
(* Proofs about the cell scheduler (Scheduler), for any set of channels    *)
(* and of algorithms, any water marks, and any channel that fails: between *)
(* two runs the pending list holds the pending channels, the event is      *)
(* armed, and no open channel with cells is out of the scheduler's reach.  *)
(*                                                                         *)
(* The invariant says of each channel where its scheduler state puts it    *)
(* (Placed), in a run too, when a pending channel may be in the list, in   *)
(* the loop's hands or among those that are added back after the loop.     *)
(***************************************************************************)
EXTENDS Scheduler, TLAPS, FiniteSetTheorems, WellFoundedInduction

(* A set of natural numbers has a least one: induction without an operator *)
(* for a parameter.                                                        *)
LEMMA NatLeast ==
  ASSUME NEW T, T \subseteq Nat, T # {}
  PROVE  \E m \in T : \A n \in T : m <= n
<1> DEFINE R == OpToRel(<, Nat)
<1>1. IsWellFoundedOn(R, Nat)
  BY NatLessThanWellFounded
<1>2. \A x, y \in Nat : <<y, x>> \in R <=> y < x
  BY DEF OpToRel
<1> HIDE DEF R
<1>3. PICK x \in T : \A y \in T : ~(<<y, x>> \in R)
  BY <1>1, WFMin
<1>4. ASSUME NEW n \in T PROVE x <= n
  <2>1. x \in Nat /\ n \in Nat
    OBVIOUS
  <2>2. ~(n < x)
    BY <2>1, <1>2, <1>3
  <2> QED BY <2>1, <2>2
<1> QED BY <1>4

ChannelRecords ==
  [state : {"opening", "open", "closing", "closed"},
   relay : Nat, destroys : Nat, last : BOOLEAN, out : Nat]

SchedulerRecords ==
  [st : [Channels -> SchedStates], heap : SUBSET Channels,
   timer : {NoTimer} \cup 0 .. Interval, since : 0 .. Interval, mode : Modes]

Slots == Channels \cup {NoChannel}

Points == {"off", "loop", "write", "serve", "final"}

RunRecords ==
  [pc : Points,
   cur : Slots, prev : Slots,
   limit : [Channels -> Nat], outbufs : SUBSET Channels, readd : SUBSET Channels]

Types ==
  /\ chan \in [Channels -> ChannelRecords]
  /\ sch \in SchedulerRecords
  /\ run \in RunRecords

(* What the loop holds at each of its points.                              *)
Shape ==
  /\ run.pc = "off" => run.readd = {}
  /\ run.pc \in {"off", "loop", "final"} => run.cur = NoChannel
  /\ run.pc \in {"write", "serve"} => run.cur \in Channels
  /\ run.pc = "write" => run.prev \in Channels /\ run.prev # run.cur

(* The scheduler state of a channel says where the channel is and what it  *)
(* waits for: cells, when it has none, or room, when its outbuf is not     *)
(* almost empty.                                                           *)
Placed(c) ==
  /\ circuitmux_num_cells(chan[c]) + chan[c].out <= MaxCells
  /\ c \in sch.heap => sch.st[c] = "pending" /\ chan[c].state # "closed"
  /\ sch.st[c] = "pending" => c \in sch.heap \/ c \in run.readd \/ c = run.cur
  /\ c \in run.readd \/ c = run.cur => chan[c].state \in {"open", "closing"}
  /\ c = run.cur => sch.st[c] = "pending" /\ c \notin sch.heap
  /\ chan[c].state = "opening" => sch.st[c] = "idle"
  /\ chan[c].state = "open" /\ sch.st[c] \in {"idle", "waiting_for_cells"}
       => chan[c].relay = 0
  /\ chan[c].state = "open" /\ sch.st[c] \in {"idle", "waiting_to_write"}
       => chan[c].out >= Min({Low, High})

IInv == Types /\ Shape /\ (\A c \in Channels : Placed(c)) /\ EventArmed

-----------------------------------------------------------------------------
(* Lemmas about the operators.                                             *)

(* The lesser and the greater of two numbers.                              *)
LEMMA TwoNumbers ==
  ASSUME NEW a \in Nat, NEW b \in Nat
  PROVE  /\ Min({a, b}) = IF a <= b THEN a ELSE b
         /\ Max({a, b}) = IF a <= b THEN b ELSE a
<1> DEFINE P == {a, b}
<1>1. \A x \in P : x \in Nat
  OBVIOUS
<1>2. /\ \E x \in P : \A y \in P : x <= y
      /\ \E x \in P : \A y \in P : x >= y
  <2>1. CASE a <= b
    BY <2>1
  <2>2. CASE b <= a
    BY <2>2
  <2> QED BY <2>1, <2>2
<1> HIDE DEF P
<1>3. /\ Min(P) \in P /\ \A y \in P : Min(P) <= y
      /\ Max(P) \in P /\ \A y \in P : Max(P) >= y
  BY <1>2 DEF Min, Max
<1> QED BY <1>1, <1>3 DEF P

(* The equation that defines moved in Flushed.                             *)
IsMoved(f, C, t) == f = [k \in 0 .. t |-> IF k = 0 THEN C ELSE MoveOne(f[k - 1])]

(* The equation has a solution.                                            *)
LEMMA MovedExists ==
  ASSUME NEW C, NEW t \in Nat
  PROVE  \E f : IsMoved(f, C, t)
<1> DEFINE Bad == {m \in Nat : ~ \E f : IsMoved(f, C, m)}
<1>1. ASSUME Bad # {} PROVE FALSE
  <2>0. Bad \subseteq Nat
    OBVIOUS
  <2>1. PICK m \in Nat : m \in Bad /\ \A n \in Bad : m <= n
    <3> HIDE DEF Bad
    <3> QED BY <1>1, <2>0, NatLeast
  <2>2. CASE m = 0
    <3>1. IsMoved([k \in 0 .. 0 |-> C], C, 0)
      BY DEF IsMoved
    <3> QED BY <2>1, <2>2, <3>1
  <2>3. CASE m # 0
    <3>1. m - 1 \in Nat /\ ~(m <= m - 1)
      BY <2>1, <2>3
    <3>2. m - 1 \notin Bad
      <4> HIDE DEF Bad
      <4> QED BY <2>1, <3>1
    <3>3. PICK f : IsMoved(f, C, m - 1)
      BY <3>1, <3>2
    <3> DEFINE g == [k \in 0 .. m |-> IF k = m THEN MoveOne(f[m - 1]) ELSE f[k]]
    <3>4. ASSUME NEW k \in 0 .. m
          PROVE  g[k] = IF k = 0 THEN C ELSE MoveOne(g[k - 1])
      <4>1. CASE k = 0
        BY <2>1, <2>3, <3>1, <3>3, <4>1 DEF IsMoved
      <4>2. CASE k # 0 /\ k # m
        <5>1. k \in 0 .. m - 1 /\ k - 1 \in 0 .. m /\ k - 1 # m
          BY <2>1, <4>2
        <5>2. g[k] = f[k] /\ g[k - 1] = f[k - 1]
          BY <4>2, <5>1
        <5>3. f[k] = MoveOne(f[k - 1])
          BY <3>3, <4>2, <5>1 DEF IsMoved
        <5> QED BY <4>2, <5>2, <5>3
      <4>3. CASE k # 0 /\ k = m
        <5>1. m - 1 \in 0 .. m /\ m - 1 # m
          BY <2>1, <3>1
        <5>2. g[k] = MoveOne(f[m - 1]) /\ g[m - 1] = f[m - 1]
          BY <4>3, <5>1
        <5> QED BY <4>3, <5>2
      <4> QED BY <4>1, <4>2, <4>3
    <3>5. IsMoved(g, C, m)
      <4>1. g = [k \in 0 .. m |-> g[k]]
        OBVIOUS
      <4>2. [k \in 0 .. m |-> g[k]] = [k \in 0 .. m |-> IF k = 0 THEN C ELSE MoveOne(g[k - 1])]
        <5> HIDE DEF g
        <5> QED BY <3>4
      <4> HIDE DEF g
      <4> QED BY <4>1, <4>2 DEF IsMoved
    <3> HIDE DEF g
    <3> QED BY <2>1, <3>5
  <2> QED BY <2>2, <2>3
<1> QED BY <1>1

(* D is C after k cells have moved.                                        *)
After(C, k, D) ==
  /\ D \in ChannelRecords /\ D.state = C.state
  /\ D.out = C.out + k
  /\ D.relay + D.destroys + k = C.relay + C.destroys
  /\ D.relay <= C.relay

(* A channel's record is made of its fields.                               *)
LEMMA ChannelFields ==
  ASSUME NEW D \in ChannelRecords
  PROVE  /\ D = [state |-> D.state, relay |-> D.relay, destroys |-> D.destroys,
                 last |-> D.last, out |-> D.out]
         /\ D.state \in {"opening", "open", "closing", "closed"} /\ D.last \in BOOLEAN
         /\ D.relay \in Nat /\ D.destroys \in Nat /\ D.out \in Nat
  BY DEF ChannelRecords

(* One cell moves.                                                         *)
LEMMA OneMoves ==
  ASSUME NEW C \in ChannelRecords, NEW D \in ChannelRecords, NEW k \in Nat,
         After(C, k, D), k < C.relay + C.destroys
  PROVE  After(C, k + 1, MoveOne(D))
<1>1. /\ C.relay \in Nat /\ C.destroys \in Nat /\ C.out \in Nat
      /\ D.relay \in Nat /\ D.destroys \in Nat /\ D.out \in Nat
  BY DEF ChannelRecords
<1>2. CASE D.destroys > 0 /\ (~D.last \/ D.relay = 0)
  <2>1. MoveOne(D) = [D EXCEPT !.destroys = @ - 1, !.last = TRUE, !.out = @ + 1]
    BY <1>2 DEF MoveOne
  <2>2. /\ MoveOne(D) \in ChannelRecords
        /\ MoveOne(D).destroys = D.destroys - 1 /\ MoveOne(D).out = D.out + 1
        /\ MoveOne(D).relay = D.relay /\ MoveOne(D).state = D.state
    <3>0. PICK yes \in BOOLEAN : yes = TRUE
      OBVIOUS
    <3>3. MoveOne(D) = [D EXCEPT !.destroys = @ - 1, !.last = yes, !.out = @ + 1]
      BY <2>1, <3>0
    <3>1. MoveOne(D) = [state |-> D.state, relay |-> D.relay, destroys |-> D.destroys - 1,
                        last |-> yes, out |-> D.out + 1]
      BY <3>3, ChannelFields
    <3>2. D.destroys - 1 \in Nat /\ D.out + 1 \in Nat
      BY <1>1, <1>2
    <3> QED BY <3>1, <3>2, ChannelFields DEF ChannelRecords
  <2> QED BY <1>1, <1>2, <2>2 DEF After
<1>3. CASE ~(D.destroys > 0 /\ (~D.last \/ D.relay = 0))
  <2>1. MoveOne(D) = [D EXCEPT !.relay = @ - 1, !.last = FALSE, !.out = @ + 1]
    BY <1>3 DEF MoveOne
  <2>2. D.relay > 0
    BY <1>1, <1>3 DEF After
  <2>3. /\ MoveOne(D) \in ChannelRecords
        /\ MoveOne(D).relay = D.relay - 1 /\ MoveOne(D).out = D.out + 1
        /\ MoveOne(D).destroys = D.destroys /\ MoveOne(D).state = D.state
    <3>1. MoveOne(D) = [state |-> D.state, relay |-> D.relay - 1, destroys |-> D.destroys,
                        last |-> FALSE, out |-> D.out + 1]
      BY <2>1, ChannelFields
    <3>2. D.relay - 1 \in Nat /\ D.out + 1 \in Nat
      BY <1>1, <2>2
    <3> QED BY <3>1, <3>2, ChannelFields DEF ChannelRecords
  <2> QED BY <1>1, <2>2, <2>3 DEF After
<1> QED BY <1>2, <1>3

(* channel_flush_some_cells(): what it may make of a channel.              *)
LEMMA FlushFacts ==
  ASSUME NEW c \in Channels, NEW C \in ChannelRecords, NEW n \in Nat, NEW D \in Flushed(c, C, n)
  PROVE  /\ D \in ChannelRecords
         /\ D.relay <= C.relay
         /\ D.out >= C.out /\ D.out <= C.out + n
         /\ D.relay + D.destroys + D.out <= C.relay + C.destroys + C.out
         /\ C.state # "open" => D = C
         /\ C.state = "open" => D.state \in {"open", "closing"}
         /\ D.state = "open" /\ D.out < C.out + n => D.relay = 0 /\ D.destroys = 0
<1>1. CASE C.state # "open"
  <2>1. D = C
    BY <1>1 DEF Flushed
  <2> QED BY <1>1, <2>1 DEF ChannelRecords
<1>2. CASE C.state = "open"
  <2> DEFINE total == Min({n, circuitmux_num_cells(C)})
             moved == CHOOSE f : IsMoved(f, C, total)
             failed(k) == IF k = n THEN [moved[k] EXCEPT !.state = "closing"]
                          ELSE [moved[k] EXCEPT !.state = "closing", !.relay = 0, !.destroys = 0]
  <2>1. C.relay \in Nat /\ C.destroys \in Nat /\ C.out \in Nat
    BY DEF ChannelRecords
  <2>2. /\ total \in Nat /\ total <= n /\ total <= C.relay + C.destroys
        /\ total = n \/ total = C.relay + C.destroys
    BY <2>1, TwoNumbers DEF circuitmux_num_cells
  <2>3. D \in {moved[total]} \cup (IF c \in Closers THEN {failed(k) : k \in 1 .. total} ELSE {})
    BY <1>2 DEF Flushed, IsMoved
  <2>4. IsMoved(moved, C, total)
    <3> HIDE DEF total
    <3>1. \E f : IsMoved(f, C, total)
      BY <2>2, MovedExists
    <3> QED BY <3>1
  <2> HIDE DEF total, moved
  <2>5. ASSUME NEW k \in 0 .. total PROVE After(C, k, moved[k])
    <3> DEFINE Bad == {j \in 0 .. total : ~After(C, j, moved[j])}
    <3>1. ASSUME Bad # {} PROVE FALSE
      <4>1. Bad \subseteq Nat /\ Bad \subseteq 0 .. total
        BY <2>2
      <4>2. PICK m \in 0 .. total : m \in Bad /\ \A j \in Bad : m <= j
        <5> HIDE DEF Bad
        <5> QED BY <3>1, <4>1, NatLeast
      <4>3. CASE m = 0
        <5>1. moved[0] = C
          BY <2>2, <2>4 DEF IsMoved
        <5>2. After(C, 0, C)
          BY <2>1 DEF After
        <5> QED BY <4>2, <4>3, <5>1, <5>2
      <4>4. CASE m # 0
        <5>1. m \in Nat /\ m - 1 \in 0 .. total /\ ~(m <= m - 1) /\ m - 1 \in Nat
          BY <2>2, <4>2, <4>4
        <5>2. m - 1 \notin Bad
          <6> HIDE DEF Bad
          <6> QED BY <4>2, <5>1
        <5>3. After(C, m - 1, moved[m - 1])
          BY <5>1, <5>2
        <5>4. moved[m] = MoveOne(moved[m - 1])
          BY <2>4, <4>2, <4>4 DEF IsMoved
        <5>5. moved[m - 1] \in ChannelRecords
          BY <5>3 DEF After
        <5>6. m - 1 < C.relay + C.destroys
          BY <2>1, <2>2, <4>2, <5>1
        <5>7. After(C, m - 1 + 1, MoveOne(moved[m - 1]))
          BY <5>1, <5>3, <5>5, <5>6, OneMoves
        <5>8. m - 1 + 1 = m
          BY <5>1
        <5> QED BY <4>2, <5>4, <5>7, <5>8
      <4> QED BY <4>3, <4>4
    <3> QED BY <3>1
  <2>6. CASE D = moved[total]
    <3>1. After(C, total, D)
      BY <2>2, <2>5, <2>6
    <3>2. D \in ChannelRecords /\ D.relay \in Nat /\ D.destroys \in Nat /\ D.out \in Nat
      BY <3>1 DEF After, ChannelRecords
    <3>3. /\ D.state = "open" /\ D.out = C.out + total /\ D.relay <= C.relay
          /\ D.relay + D.destroys + total = C.relay + C.destroys
      BY <1>2, <3>1 DEF After
    <3>4. ASSUME D.out < C.out + n PROVE D.relay = 0 /\ D.destroys = 0
      <4>1. total # n
        BY <2>1, <2>2, <3>2, <3>3, <3>4
      <4>2. total = C.relay + C.destroys
        BY <2>2, <4>1
      <4>3. D.relay + D.destroys = 0
        BY <2>1, <2>2, <3>2, <3>3, <4>2
      <4> QED BY <3>2, <4>3
    <3>5. /\ D.out >= C.out /\ D.out <= C.out + n
          /\ D.relay + D.destroys + D.out <= C.relay + C.destroys + C.out
      BY <2>1, <2>2, <3>2, <3>3
    <3> QED BY <1>2, <3>2, <3>3, <3>4, <3>5
  <2>7. ASSUME NEW k \in 1 .. total, D = failed(k) PROVE D.state = "closing" /\
          D \in ChannelRecords
         /\ D.relay <= C.relay
         /\ D.out >= C.out /\ D.out <= C.out + n
         /\ D.relay + D.destroys + D.out <= C.relay + C.destroys + C.out
    <3>1. After(C, k, moved[k]) /\ k \in Nat /\ k <= n
      BY <2>2, <2>5
    <3> DEFINE M == moved[k]
    <3>2. M \in ChannelRecords /\ M.relay \in Nat /\ M.destroys \in Nat /\ M.out \in Nat
      BY <3>1 DEF After, ChannelRecords
    <3>3. /\ D \in ChannelRecords /\ D.state = "closing" /\ D.out = M.out
          /\ D.relay = M.relay \/ D.relay = 0
          /\ D.destroys = M.destroys \/ D.destroys = 0
      <4> HIDE DEF M
      <4>1. D = IF k = n THEN [M EXCEPT !.state = "closing"]
                ELSE [M EXCEPT !.state = "closing", !.relay = 0, !.destroys = 0]
        BY <2>7 DEF M
      <4> QED BY <3>2, <4>1 DEF ChannelRecords
    <3> HIDE DEF M
    <3>4. After(C, k, M)
      BY <3>1 DEF M
    <3>5. D.relay \in Nat /\ D.destroys \in Nat /\ D.relay <= M.relay /\ D.destroys <= M.destroys
      BY <3>2, <3>3
    <3> QED BY <2>1, <3>1, <3>2, <3>3, <3>4, <3>5 DEF After
  <2> QED BY <1>2, <2>3, <2>6, <2>7
<1> QED BY <1>1, <1>2

-----------------------------------------------------------------------------
(* What the calls of the scheduler do to a channel and to the event.       *)

(* The event is due within an interval of the last run.                    *)
Armed(S) == S.heap # {} => S.timer # NoTimer /\ S.timer + S.since <= Interval

(* T is S with changes to channel c only.                                  *)
OnlyOf(S, T, c) ==
  /\ T \in SchedulerRecords
  /\ \A d \in Channels \ {c} : T.st[d] = S.st[d] /\ (d \in T.heap <=> d \in S.heap)

(* The scheduler's record is made of its fields.                           *)
LEMMA SchedulerFields ==
  ASSUME NEW S \in SchedulerRecords
  PROVE  /\ S = [st |-> S.st, heap |-> S.heap, timer |-> S.timer,
                 since |-> S.since, mode |-> S.mode]
         /\ S.st \in [Channels -> SchedStates] /\ S.heap \in SUBSET Channels
         /\ S.timer \in {NoTimer} \cup 0 .. Interval /\ S.since \in 0 .. Interval
         /\ S.mode \in Modes
  BY DEF SchedulerRecords

(* A change of the list and of one state.                                  *)
Changed(S, c, s, h) == [S EXCEPT !.st[c] = s, !.heap = h]

LEMMA ChangedFields ==
  ASSUME NEW S \in SchedulerRecords, NEW c \in Channels, NEW h \in SUBSET Channels,
         NEW s \in SchedStates, NEW T, T = Changed(S, c, s, h)
  PROVE  /\ T \in SchedulerRecords
         /\ T.st = [S.st EXCEPT ![c] = s] /\ T.heap = h
         /\ T.timer = S.timer /\ T.since = S.since /\ T.mode = S.mode
<1>1. PICK f, e, t, w, m : f = S.st /\ e = S.heap /\ t = S.timer /\ w = S.since /\ m = S.mode
  OBVIOUS
<1>2. S = [st |-> f, heap |-> e, timer |-> t, since |-> w, mode |-> m]
  BY <1>1, SchedulerFields
<1>3. T = [st |-> [f EXCEPT ![c] = s], heap |-> h, timer |-> t, since |-> w, mode |-> m]
  BY <1>2 DEF Changed
<1>4. [f EXCEPT ![c] = s] \in [Channels -> SchedStates]
  BY <1>1, SchedulerFields
<1>5. t \in {NoTimer} \cup 0 .. Interval /\ w \in 0 .. Interval /\ m \in Modes
  BY <1>1, SchedulerFields
<1>6. T \in SchedulerRecords
  BY <1>3, <1>4, <1>5 DEF SchedulerRecords
<1> QED BY <1>1, <1>3, <1>6

(* A change of the times and of the algorithm.                             *)
Timed(S, t, w, m) == [S EXCEPT !.timer = t, !.since = w, !.mode = m]

LEMMA TimedFields ==
  ASSUME NEW S \in SchedulerRecords, NEW t \in {NoTimer} \cup 0 .. Interval,
         NEW w \in 0 .. Interval, NEW m \in Modes, NEW T, T = Timed(S, t, w, m)
  PROVE  /\ T \in SchedulerRecords /\ T.st = S.st /\ T.heap = S.heap
         /\ T.timer = t /\ T.since = w /\ T.mode = m
<1>1. PICK f, e, a, b, d : f = S.st /\ e = S.heap /\ a = S.timer /\ b = S.since /\ d = S.mode
  OBVIOUS
<1>2. S = [st |-> f, heap |-> e, timer |-> a, since |-> b, mode |-> d]
  BY <1>1, SchedulerFields
<1>3. T = [st |-> f, heap |-> e, timer |-> t, since |-> w, mode |-> m]
  BY <1>2 DEF Timed
<1>4. f \in [Channels -> SchedStates] /\ e \in SUBSET Channels
  BY <1>1, SchedulerFields
<1>5. T \in SchedulerRecords
  BY <1>3, <1>4 DEF SchedulerRecords
<1> QED BY <1>1, <1>3, <1>5

(* The record by the values of its fields.                                 *)
LEMMA FieldValues ==
  ASSUME NEW S \in SchedulerRecords
  PROVE  \E f, e, a, b, d :
           /\ f = S.st /\ e = S.heap /\ a = S.timer /\ b = S.since /\ d = S.mode
           /\ S = [st |-> f, heap |-> e, timer |-> a, since |-> b, mode |-> d]
  BY SchedulerFields

(* the_scheduler->schedule(): the event is armed, and in time.             *)
LEMMA ScheduleFacts ==
  ASSUME NEW S \in SchedulerRecords
  PROVE  /\ schedule(S) \in SchedulerRecords
         /\ schedule(S).st = S.st /\ schedule(S).heap = S.heap
         /\ Armed(schedule(S))
<1>1. CASE S.heap = {} \/ S.timer = 0
  <2>1. schedule(S) = S
    BY <1>1 DEF schedule
  <2>2. S.since \in 0 .. Interval /\ Interval \in Nat
    BY SchedulerFields, SchedulerAssumption
  <2>3. S.timer = 0 => S.timer # NoTimer /\ S.timer + S.since <= Interval
    BY <2>2, SchedulerAssumption
  <2> QED BY <1>1, <2>1, <2>3 DEF Armed
<1>2. CASE ~(S.heap = {} \/ S.timer = 0)
  <2> DEFINE t == IF S.mode = "vanilla" THEN 0 ELSE Interval - S.since
  <2>1. S.since \in 0 .. Interval /\ Interval \in Nat
    BY SchedulerFields, SchedulerAssumption
  <2>2. t \in 0 .. Interval /\ t + S.since <= Interval
    BY <2>1
  <2>3. t # NoTimer
    BY <2>1, <2>2, SchedulerAssumption
  <2>4. schedule(S) = [S EXCEPT !.timer = t]
    BY <1>2 DEF schedule
  <2> HIDE DEF t
  <2>5. schedule(S) = [st |-> S.st, heap |-> S.heap, timer |-> t,
                       since |-> S.since, mode |-> S.mode]
    BY <2>4, SchedulerFields
  <2> QED BY <2>2, <2>3, <2>5, SchedulerFields DEF SchedulerRecords, Armed
<1> QED BY <1>1, <1>2

(* A channel that becomes pending arms the event.                          *)
LEMMA PendingFacts ==
  ASSUME NEW S \in SchedulerRecords, NEW c \in Channels, NEW T, T = MadePending(S, c)
  PROVE  /\ T.st = [S.st EXCEPT ![c] = "pending"] /\ T.heap = S.heap \cup {c}
         /\ OnlyOf(S, T, c) /\ T.st[c] = "pending" /\ c \in T.heap /\ Armed(T)
<1>1. PICK s \in SchedStates : s = "pending"
  BY DEF SchedStates
<1>2. PICK h \in SUBSET Channels : h = S.heap \cup {c}
  BY SchedulerFields
<1>3. PICK R : R = Changed(S, c, s, h)
  OBVIOUS
<1>4. R \in SchedulerRecords /\ R.st = [S.st EXCEPT ![c] = s] /\ R.heap = h
  BY <1>3, ChangedFields
<1>5. T = schedule(R)
  BY <1>1, <1>2, <1>3 DEF MadePending, Changed
<1>6. /\ schedule(R) \in SchedulerRecords
      /\ schedule(R).st = R.st /\ schedule(R).heap = R.heap /\ Armed(schedule(R))
  BY <1>4, ScheduleFacts
<1>7. S.st \in [Channels -> SchedStates]
  BY SchedulerFields
<1> QED BY <1>1, <1>2, <1>4, <1>5, <1>6, <1>7 DEF OnlyOf

(* scheduler_channel_wants_writes(): there is room.                        *)
LEMMA WantsFacts ==
  ASSUME NEW S \in SchedulerRecords, NEW c \in Channels, NEW T,
         T = scheduler_channel_wants_writes(S, c)
  PROVE  /\ OnlyOf(S, T, c) /\ (Armed(S) => Armed(T))
         /\ T.st[c] = IF S.st[c] = "waiting_to_write" THEN "pending"
                      ELSE IF S.st[c] = "idle" THEN "waiting_for_cells" ELSE S.st[c]
         /\ c \in T.heap <=> c \in S.heap \/ S.st[c] = "waiting_to_write"
<1>1. CASE S.st[c] = "waiting_to_write"
  <2>1. T = MadePending(S, c)
    BY <1>1 DEF scheduler_channel_wants_writes
  <2> QED BY <1>1, <2>1, PendingFacts
<1>2. CASE S.st[c] = "idle"
  <2>1. PICK s \in SchedStates : s = "waiting_for_cells"
    BY DEF SchedStates
  <2>2. S.heap \in SUBSET Channels /\ S.st \in [Channels -> SchedStates]
    BY SchedulerFields
  <2>3. T = Changed(S, c, s, S.heap)
    <3>1. T = [S EXCEPT !.st[c] = s]
      BY <1>2, <2>1 DEF scheduler_channel_wants_writes
    <3>2. S = [st |-> S.st, heap |-> S.heap, timer |-> S.timer,
               since |-> S.since, mode |-> S.mode]
      BY SchedulerFields
    <3> QED BY <3>1, <3>2 DEF Changed
  <2>4. /\ T \in SchedulerRecords /\ T.st = [S.st EXCEPT ![c] = s] /\ T.heap = S.heap
        /\ T.timer = S.timer /\ T.since = S.since
    BY <2>2, <2>3, ChangedFields
  <2> QED BY <1>2, <2>1, <2>2, <2>4 DEF OnlyOf, Armed
<1>3. CASE S.st[c] \notin {"idle", "waiting_to_write"}
  <2>1. T = S
    BY <1>3 DEF scheduler_channel_wants_writes
  <2> QED BY <1>3, <2>1 DEF OnlyOf
<1> QED BY <1>1, <1>2, <1>3

(* scheduler_channel_has_waiting_cells(): there are cells.                 *)
LEMMA WaitingFacts ==
  ASSUME NEW S \in SchedulerRecords, NEW c \in Channels, NEW T,
         T = scheduler_channel_has_waiting_cells(S, c)
  PROVE  /\ OnlyOf(S, T, c) /\ (Armed(S) => Armed(T))
         /\ T.st[c] = IF S.st[c] = "waiting_for_cells" THEN "pending"
                      ELSE IF S.st[c] = "idle" THEN "waiting_to_write" ELSE S.st[c]
         /\ c \in T.heap <=> c \in S.heap \/ S.st[c] = "waiting_for_cells"
<1>1. CASE S.st[c] = "waiting_for_cells"
  <2>1. T = MadePending(S, c)
    BY <1>1 DEF scheduler_channel_has_waiting_cells
  <2> QED BY <1>1, <2>1, PendingFacts
<1>2. CASE S.st[c] = "idle"
  <2>1. PICK s \in SchedStates : s = "waiting_to_write"
    BY DEF SchedStates
  <2>2. S.heap \in SUBSET Channels /\ S.st \in [Channels -> SchedStates]
    BY SchedulerFields
  <2>3. T = Changed(S, c, s, S.heap)
    <3>1. T = [S EXCEPT !.st[c] = s]
      BY <1>2, <2>1 DEF scheduler_channel_has_waiting_cells
    <3>2. S = [st |-> S.st, heap |-> S.heap, timer |-> S.timer,
               since |-> S.since, mode |-> S.mode]
      BY SchedulerFields
    <3> QED BY <3>1, <3>2 DEF Changed
  <2>4. /\ T \in SchedulerRecords /\ T.st = [S.st EXCEPT ![c] = s] /\ T.heap = S.heap
        /\ T.timer = S.timer /\ T.since = S.since
    BY <2>2, <2>3, ChangedFields
  <2> QED BY <1>2, <2>1, <2>2, <2>4 DEF OnlyOf, Armed
<1>3. CASE S.st[c] \notin {"idle", "waiting_for_cells"}
  <2>1. T = S
    BY <1>3 DEF scheduler_channel_has_waiting_cells
  <2> QED BY <1>3, <2>1 DEF OnlyOf
<1> QED BY <1>1, <1>2, <1>3

(* scheduler_release_channel(): the channel leaves the list.               *)
LEMMA ReleaseFacts ==
  ASSUME NEW S \in SchedulerRecords, NEW c \in Channels, NEW T,
         T = scheduler_release_channel(S, c)
  PROVE  /\ OnlyOf(S, T, c) /\ (Armed(S) => Armed(T))
         /\ T.st[c] = "idle" /\ c \notin T.heap
<1>1. PICK s \in SchedStates : s = "idle"
  BY DEF SchedStates
<1>2. PICK h \in SUBSET Channels : h = S.heap \ {c}
  BY SchedulerFields
<1>3. T = Changed(S, c, s, h)
  <2>1. T = [S EXCEPT !.heap = h, !.st[c] = s]
    BY <1>1, <1>2 DEF scheduler_release_channel
  <2>2. S = [st |-> S.st, heap |-> S.heap, timer |-> S.timer,
             since |-> S.since, mode |-> S.mode]
    BY SchedulerFields
  <2> QED BY <2>1, <2>2 DEF Changed
<1>4. /\ T \in SchedulerRecords /\ T.st = [S.st EXCEPT ![c] = s] /\ T.heap = h
      /\ T.timer = S.timer /\ T.since = S.since
  BY <1>3, ChangedFields
<1>5. S.st \in [Channels -> SchedStates]
  BY SchedulerFields
<1> QED BY <1>1, <1>2, <1>4, <1>5 DEF OnlyOf, Armed

-----------------------------------------------------------------------------
(* Every step keeps the invariant.                                         *)

(* Numbers that the cases below need.                                      *)
LEMMA Marks ==
  /\ Low \in Nat /\ High \in Nat /\ Huge \in Nat /\ Huge > MaxCells /\ MaxCells \in Nat
  /\ Min({Low, High}) \in Nat /\ Min({Low, High}) <= Low /\ Min({Low, High}) <= High
  BY SchedulerAssumption, TwoNumbers

(* A step that touches one channel.                                        *)
LEMMA OneChannel ==
  ASSUME IInv, NEW c \in Channels, NEW D \in ChannelRecords,
         chan' = [chan EXCEPT ![c] = D], OnlyOf(sch, sch', c),
         \A d \in Channels \ {c} : /\ d \in run'.readd <=> d \in run.readd
                                   /\ d = run'.cur <=> d = run.cur,
         Placed(c)'
  PROVE  /\ chan' \in [Channels -> ChannelRecords] /\ sch' \in SchedulerRecords
         /\ \A d \in Channels : Placed(d)'
<1>1. chan \in [Channels -> ChannelRecords]
  BY DEF IInv, Types
<1>2. chan' \in [Channels -> ChannelRecords] /\ \A d \in Channels \ {c} : chan'[d] = chan[d]
  BY <1>1
<1>3. ASSUME NEW d \in Channels \ {c} PROVE Placed(d)'
  <2>1. Placed(d)
    BY DEF IInv
  <2>2. chan'[d] = chan[d] /\ sch'.st[d] = sch.st[d] /\ (d \in sch'.heap <=> d \in sch.heap)
    BY <1>2 DEF OnlyOf
  <2> QED BY <2>1, <2>2 DEF Placed
<1> QED BY <1>2, <1>3 DEF OnlyOf

(* Such a step between two runs.                                           *)
LEMMA QuietChannel ==
  ASSUME IInv, ~Running, UNCHANGED run, NEW c \in Channels, NEW D \in ChannelRecords,
         chan' = [chan EXCEPT ![c] = D], OnlyOf(sch, sch', c),
         Armed(sch) => Armed(sch'), Placed(c)'
  PROVE  IInv'
<1>1. /\ chan' \in [Channels -> ChannelRecords] /\ sch' \in SchedulerRecords
      /\ \A d \in Channels : Placed(d)'
  BY OneChannel
<1>2. Types'
  BY <1>1 DEF IInv, Types
<1>3. Shape'
  BY DEF IInv, Shape
<1>4. EventArmed'
  BY DEF IInv, EventArmed, Armed, Running
<1> QED BY <1>1, <1>2, <1>3, <1>4 DEF IInv

(* What is known of a channel between two runs.                            *)
LEMMA QuietFacts ==
  ASSUME IInv, NEW c \in Channels
  PROVE  /\ chan[c] \in ChannelRecords /\ chan \in [Channels -> ChannelRecords]
         /\ chan[c].relay \in Nat /\ chan[c].destroys \in Nat /\ chan[c].out \in Nat
         /\ sch \in SchedulerRecords /\ sch.st[c] \in SchedStates
         /\ Placed(c)
         /\ ~Running => c \notin run.readd /\ c # run.cur
<1>1. chan[c] \in ChannelRecords
  BY DEF IInv, Types
<1>2. sch \in SchedulerRecords
  BY DEF IInv, Types
<1>3. ~Running => c \notin run.readd /\ c # run.cur
  BY SchedulerAssumption DEF IInv, Shape, Running
<1> QED BY <1>1, <1>2, <1>3, ChannelFields, SchedulerFields DEF IInv, Types

(* A channel is replaced by D.                                             *)
LEMMA Replaced ==
  ASSUME IInv, NEW c \in Channels, NEW D, chan' = [chan EXCEPT ![c] = D]
  PROVE  chan'[c] = D
  BY DEF IInv, Types

(* A channel is condemned: it is released, and no longer open.             *)
LEMMA CondemnStep ==
  ASSUME IInv, NEW c \in Channels, chan[c].state \in {"opening", "open"}, Condemn(c),
         c # run.cur, run'.cur = run.cur, run'.readd = run.readd
  PROVE  \E D \in ChannelRecords :
           /\ chan' = [chan EXCEPT ![c] = D] /\ OnlyOf(sch, sch', c)
           /\ Armed(sch) => Armed(sch')
           /\ Placed(c)'
<1> DEFINE C == chan[c]
<1>1. PICK D : D = [C EXCEPT !.state = "closing"]
  OBVIOUS
<1>2. chan' = [chan EXCEPT ![c] = D]
  BY <1>1 DEF Condemn
<1>3. /\ D \in ChannelRecords /\ D.state = "closing"
      /\ D.relay = C.relay /\ D.destroys = C.destroys /\ D.out = C.out
  <2>1. C \in ChannelRecords
    BY QuietFacts
  <2>2. D = [state |-> "closing", relay |-> C.relay, destroys |-> C.destroys,
             last |-> C.last, out |-> C.out]
    BY <1>1, <2>1, ChannelFields
  <2> QED BY <2>1, <2>2, ChannelFields DEF ChannelRecords
<1>4. sch' = scheduler_release_channel(sch, c) /\ sch \in SchedulerRecords
  BY QuietFacts DEF Condemn
<1>5. /\ OnlyOf(sch, sch', c) /\ (Armed(sch) => Armed(sch'))
      /\ sch'.st[c] = "idle" /\ c \notin sch'.heap
  BY <1>4, ReleaseFacts
<1>6. chan'[c] = D
  BY <1>2, Replaced
<1>7. Placed(c)
  BY QuietFacts
<1>8. circuitmux_num_cells(D) + D.out <= MaxCells
  BY <1>3, <1>7 DEF Placed, circuitmux_num_cells
<1>9. Placed(c)'
  BY <1>3, <1>5, <1>6, <1>8 DEF Placed, circuitmux_num_cells
<1> QED BY <1>2, <1>3, <1>5, <1>9

(* The kernel takes cells: a channel that waited for room is pending.      *)
LEMMA WriteStep ==
  ASSUME IInv, NEW c \in Channels, connection_handle_write(c),
         c # run.cur, run'.cur = run.cur, run'.readd = run.readd
  PROVE  \E D \in ChannelRecords :
           /\ chan' = [chan EXCEPT ![c] = D] /\ OnlyOf(sch, sch', c)
           /\ Armed(sch) => Armed(sch')
           /\ Placed(c)'
<1> DEFINE C == chan[c]
<1>1. /\ C \in ChannelRecords /\ C.relay \in Nat /\ C.destroys \in Nat /\ C.out \in Nat
      /\ sch \in SchedulerRecords /\ Placed(c) /\ chan \in [Channels -> ChannelRecords]
  BY QuietFacts
<1>2. ASSUME C.state = "open", NEW n \in 0 .. C.out,
             chan' = [chan EXCEPT ![c].out = @ - n],
             sch' = connection_or_flushed_some(sch, c, n, C.out - n)
      PROVE  \E D \in ChannelRecords :
               /\ chan' = [chan EXCEPT ![c] = D] /\ OnlyOf(sch, sch', c)
               /\ Armed(sch) => Armed(sch')
               /\ Placed(c)'
  <2>1. PICK o \in Nat : o = C.out - n
    BY <1>1
  <2>2. PICK D : D = [C EXCEPT !.out = o]
    OBVIOUS
  <2>3. chan' = [chan EXCEPT ![c] = D]
    BY <1>1, <1>2, <2>1, <2>2
  <2>4. /\ D \in ChannelRecords /\ D.state = "open"
        /\ D.relay = C.relay /\ D.destroys = C.destroys /\ D.out = o
    <3>1. D = [state |-> C.state, relay |-> C.relay, destroys |-> C.destroys,
               last |-> C.last, out |-> o]
      BY <1>1, <2>2, ChannelFields
    <3> QED BY <1>1, <1>2, <3>1, ChannelFields DEF ChannelRecords
  <2>5. chan'[c] = D
    BY <2>3, Replaced
  <2>6. D.relay + D.destroys + D.out <= MaxCells
    <3>1. C.relay + C.destroys + C.out <= MaxCells
      BY <1>1 DEF Placed, circuitmux_num_cells
    <3> QED BY <1>1, <2>1, <2>4, <3>1, Marks
  <2>7. CASE n > 0 /\ o < Low
    <3>1. sch' = scheduler_channel_wants_writes(sch, c)
      BY <1>2, <2>1, <2>7 DEF connection_or_flushed_some
    <3>2. /\ OnlyOf(sch, sch', c) /\ (Armed(sch) => Armed(sch'))
          /\ sch'.st[c] = IF sch.st[c] = "waiting_to_write" THEN "pending"
                          ELSE IF sch.st[c] = "idle" THEN "waiting_for_cells" ELSE sch.st[c]
          /\ c \in sch'.heap <=> c \in sch.heap \/ sch.st[c] = "waiting_to_write"
      BY <1>1, <3>1, WantsFacts
    <3>3. Placed(c)'
      BY <1>1, <1>2, <2>4, <2>5, <2>6, <3>2 DEF Placed, circuitmux_num_cells
    <3> QED BY <2>3, <2>4, <3>2, <3>3
  <2>8. CASE ~(n > 0 /\ o < Low)
    <3>1. sch' = sch
      BY <1>2, <2>1, <2>8 DEF connection_or_flushed_some
    <3>2. C.out >= Min({Low, High}) => o >= Min({Low, High})
      BY <1>1, <2>1, <2>8, Marks
    <3>3. Placed(c)'
      BY <1>1, <1>2, <2>4, <2>5, <2>6, <3>1, <3>2 DEF Placed, circuitmux_num_cells
    <3>4. OnlyOf(sch, sch', c)
      BY <1>1, <3>1 DEF OnlyOf
    <3> QED BY <2>3, <2>4, <3>1, <3>3, <3>4
  <2> QED BY <2>7, <2>8
<1>3. CASE C.state = "open" /\ Condemn(c)
  BY <1>3, CondemnStep
<1>4. CASE C.state # "open" /\ UNCHANGED <<chan, sch>>
  <2>1. chan' = [chan EXCEPT ![c] = C]
    BY <1>1, <1>4
  <2>2. OnlyOf(sch, sch', c)
    BY <1>1, <1>4 DEF OnlyOf
  <2>3. Placed(c)'
    BY <1>1, <1>4 DEF Placed
  <2> QED BY <1>1, <1>4, <2>1, <2>2, <2>3
<1> QED BY <1>2, <1>3, <1>4 DEF connection_handle_write

(* The channel opens, perhaps with CREATE cells that waited for it.        *)
LEMMA OpenStep ==
  ASSUME IInv, NEW c \in Channels, ChannelOpens(c)
  PROVE  IInv'
<1> DEFINE C == chan[c]
<1>1. ~Running /\ C.state = "opening" /\ UNCHANGED run
  BY DEF ChannelOpens
<1>2. /\ C \in ChannelRecords /\ C.relay \in Nat /\ C.destroys \in Nat /\ C.out \in Nat
      /\ sch \in SchedulerRecords /\ Placed(c) /\ chan \in [Channels -> ChannelRecords]
      /\ c \notin run.readd /\ c # run.cur
  BY <1>1, QuietFacts
<1>3. sch.st[c] = "idle" /\ c \notin sch.heap
  BY <1>1, <1>2 DEF Placed
<1>4. PICK waiting \in {0, 1} :
        /\ waiting + circuitmux_num_cells(C) + C.out <= MaxCells
        /\ LET S == IF waiting = 0 THEN sch ELSE scheduler_channel_has_waiting_cells(sch, c)
           IN /\ chan' = [chan EXCEPT ![c].state = "open", ![c].relay = waiting]
              /\ sch' = IF chan[c].out < High THEN scheduler_channel_wants_writes(S, c) ELSE S
  BY Zenon DEF ChannelOpens
<1>5. PICK S : S = IF waiting = 0 THEN sch ELSE scheduler_channel_has_waiting_cells(sch, c)
  OBVIOUS
<1>6. /\ chan' = [chan EXCEPT ![c].state = "open", ![c].relay = waiting]
      /\ sch' = IF C.out < High THEN scheduler_channel_wants_writes(S, c) ELSE S
  BY <1>4, <1>5
<1>7. PICK D : D = [C EXCEPT !.state = "open", !.relay = waiting]
  OBVIOUS
<1>8. chan' = [chan EXCEPT ![c] = D]
  BY <1>2, <1>6, <1>7
<1>9. /\ D \in ChannelRecords /\ D.state = "open"
      /\ D.relay = waiting /\ D.destroys = C.destroys /\ D.out = C.out
  <2>1. PICK s \in {"opening", "open", "closing", "closed"}, r \in Nat :
          s = "open" /\ r = waiting
    <3>1. waiting \in Nat
      OBVIOUS
    <3> QED BY <3>1
  <2>2. D = [C EXCEPT !.state = s, !.relay = r]
    BY <1>7, <2>1
  <2>3. D = [state |-> s, relay |-> r, destroys |-> C.destroys,
             last |-> C.last, out |-> C.out]
    <3>1. C = [state |-> C.state, relay |-> C.relay, destroys |-> C.destroys,
               last |-> C.last, out |-> C.out]
      BY <1>2, ChannelFields
    <3>2. PICK d, l, o : d = C.destroys /\ l = C.last /\ o = C.out
      OBVIOUS
    <3> HIDE DEF C
    <3>3. PICK t, q : C = [state |-> t, relay |-> q, destroys |-> d, last |-> l, out |-> o]
      BY <3>1, <3>2
    <3> QED BY <2>2, <3>2, <3>3
  <2>4. C.destroys \in Nat /\ C.out \in Nat /\ C.last \in BOOLEAN
    BY <1>2, ChannelFields
  <2>5. /\ D \in ChannelRecords /\ D.state = s
        /\ D.relay = r /\ D.destroys = C.destroys /\ D.out = C.out
    <3> HIDE DEF C
    <3> QED BY <2>3, <2>4 DEF ChannelRecords
  <2> QED BY <2>1, <2>5
<1>10. chan'[c] = D
  BY <1>8, Replaced
<1>11. /\ S \in SchedulerRecords /\ OnlyOf(sch, S, c) /\ (Armed(sch) => Armed(S))
       /\ S.st[c] = IF waiting = 0 THEN "idle" ELSE "waiting_to_write"
       /\ c \notin S.heap
  <2>1. CASE waiting = 0
    BY <1>2, <1>3, <1>5, <2>1 DEF OnlyOf
  <2>2. CASE waiting = 1
    <3>1. S = scheduler_channel_has_waiting_cells(sch, c)
      BY <1>5, <2>2
    <3> QED BY <1>2, <1>3, <2>2, <3>1, WaitingFacts DEF OnlyOf
  <2> QED BY <2>1, <2>2
<1>12. circuitmux_num_cells(D) + D.out <= MaxCells
  BY <1>2, <1>4, <1>9, Marks DEF circuitmux_num_cells
<1>13. CASE C.out < High
  <2>1. sch' = scheduler_channel_wants_writes(S, c)
    BY <1>6, <1>13
  <2>2. /\ OnlyOf(S, sch', c) /\ (Armed(S) => Armed(sch'))
        /\ sch'.st[c] = IF S.st[c] = "waiting_to_write" THEN "pending"
                        ELSE IF S.st[c] = "idle" THEN "waiting_for_cells" ELSE S.st[c]
        /\ c \in sch'.heap <=> c \in S.heap \/ S.st[c] = "waiting_to_write"
    BY <1>11, <2>1, WantsFacts
  <2>3. OnlyOf(sch, sch', c) /\ (Armed(sch) => Armed(sch'))
    BY <1>11, <2>2 DEF OnlyOf
  <2>4. Placed(c)'
    BY <1>1, <1>2, <1>9, <1>10, <1>11, <1>12, <2>2 DEF Placed, circuitmux_num_cells
  <2> QED BY <1>1, <1>8, <1>9, <2>3, <2>4, QuietChannel
<1>14. CASE ~(C.out < High)
  <2>1. sch' = S
    BY <1>6, <1>14
  <2>2. C.out >= Min({Low, High})
    BY <1>2, <1>14, Marks
  <2>3. Placed(c)'
    BY <1>1, <1>2, <1>9, <1>10, <1>11, <1>12, <2>1, <2>2 DEF Placed, circuitmux_num_cells
  <2>4. OnlyOf(sch, sch', c) /\ (Armed(sch) => Armed(sch'))
    BY <1>11, <2>1
  <2> QED BY <1>1, <1>8, <1>9, <2>3, <2>4, QuietChannel
<1> QED BY <1>13, <1>14

(* A cell is queued on a circuit of the channel.                           *)
LEMMA QueueStep ==
  ASSUME IInv, NEW c \in Channels, append_cell_to_circuit_queue(c)
  PROVE  IInv'
<1> DEFINE C == chan[c]
<1>1. /\ ~Running /\ C.state \in {"open", "closing"} /\ UNCHANGED run
      /\ C.relay + C.destroys + C.out < MaxCells
      /\ chan' = [chan EXCEPT ![c].relay = @ + 1]
      /\ sch' = scheduler_channel_has_waiting_cells(sch, c)
  BY DEF append_cell_to_circuit_queue, circuitmux_num_cells
<1>2. /\ C \in ChannelRecords /\ C.relay \in Nat /\ C.destroys \in Nat /\ C.out \in Nat
      /\ sch \in SchedulerRecords /\ Placed(c) /\ chan \in [Channels -> ChannelRecords]
      /\ c \notin run.readd /\ c # run.cur /\ sch.st[c] \in SchedStates
  BY <1>1, QuietFacts
<1>3. PICK r \in Nat : r = C.relay + 1
  BY <1>2
<1>4. PICK D : D = [C EXCEPT !.relay = r]
  OBVIOUS
<1>5. chan' = [chan EXCEPT ![c] = D]
  BY <1>1, <1>2, <1>3, <1>4
<1>6. /\ D \in ChannelRecords /\ D.state = C.state
      /\ D.relay = r /\ D.destroys = C.destroys /\ D.out = C.out
  <2>1. D = [state |-> C.state, relay |-> r, destroys |-> C.destroys,
             last |-> C.last, out |-> C.out]
    BY <1>2, <1>4, ChannelFields
  <2> QED BY <1>2, <2>1, ChannelFields DEF ChannelRecords
<1>7. chan'[c] = D
  BY <1>5, Replaced
<1>8. /\ OnlyOf(sch, sch', c) /\ (Armed(sch) => Armed(sch'))
      /\ sch'.st[c] = IF sch.st[c] = "waiting_for_cells" THEN "pending"
                      ELSE IF sch.st[c] = "idle" THEN "waiting_to_write" ELSE sch.st[c]
      /\ c \in sch'.heap <=> c \in sch.heap \/ sch.st[c] = "waiting_for_cells"
  BY <1>1, <1>2, WaitingFacts
<1>9. D.relay + D.destroys + D.out <= MaxCells
  BY <1>1, <1>2, <1>3, <1>6, Marks
<1>10. Placed(c)'
  BY <1>1, <1>2, <1>6, <1>7, <1>8, <1>9 DEF Placed, circuitmux_num_cells, SchedStates
<1> QED BY <1>1, <1>5, <1>6, <1>8, <1>10, QuietChannel

(* The scheduler's part of a flush.                                        *)
LEMMA AfterFlushFacts ==
  ASSUME NEW S \in SchedulerRecords, NEW c \in Channels, NEW D, NEW T,
         T = AfterFlush(S, c, D)
  PROVE  /\ OnlyOf(S, T, c) /\ (Armed(S) => Armed(T))
         /\ D.state = "open" \/ chan[c].state # "open" => T = S
         /\ ~(D.state = "open" \/ chan[c].state # "open") =>
              T.st[c] = "idle" /\ c \notin T.heap
<1>1. CASE D.state = "open" \/ chan[c].state # "open"
  <2>1. T = S
    BY <1>1 DEF AfterFlush
  <2> QED BY <1>1, <2>1 DEF OnlyOf
<1>2. CASE ~(D.state = "open" \/ chan[c].state # "open")
  <2>1. T = scheduler_release_channel(S, c)
    BY <1>2 DEF AfterFlush
  <2> QED BY <1>2, <2>1, ReleaseFacts
<1> QED BY <1>1, <1>2

(* A DESTROY is queued, and with an empty outbuf a cell moves at once.     *)
LEMMA DestroyStep ==
  ASSUME IInv, NEW c \in Channels, circuitmux_append_destroy_cell(c)
  PROVE  IInv'
<1>1. ~Running /\ chan[c].state = "open" /\ UNCHANGED run
  BY DEF circuitmux_append_destroy_cell
<1>2. /\ chan[c] \in ChannelRecords
      /\ chan[c].relay \in Nat /\ chan[c].destroys \in Nat /\ chan[c].out \in Nat
      /\ sch \in SchedulerRecords /\ Placed(c) /\ chan \in [Channels -> ChannelRecords]
      /\ c \notin run.readd /\ c # run.cur /\ sch.st[c] \in SchedStates
  BY <1>1, QuietFacts
<1>3. PICK C : C = [chan[c] EXCEPT !.destroys = @ + 1]
  OBVIOUS
<1>4. /\ C \in ChannelRecords /\ C.state = "open" /\ C.relay = chan[c].relay
      /\ C.destroys = chan[c].destroys + 1 /\ C.out = chan[c].out
  <2>1. PICK d \in Nat : d = chan[c].destroys + 1
    BY <1>2
  <2>2. C = [state |-> chan[c].state, relay |-> chan[c].relay, destroys |-> d,
             last |-> chan[c].last, out |-> chan[c].out]
    BY <1>2, <1>3, <2>1, ChannelFields
  <2> QED BY <1>1, <1>2, <2>1, <2>2, ChannelFields DEF ChannelRecords
<1>5. PICK D \in IF C.out = 0 THEN Flushed(c, C, 1) ELSE {C} :
         chan' = [chan EXCEPT ![c] = D] /\ sch' = AfterFlush(sch, c, D)
  BY <1>3, Zenon DEF circuitmux_append_destroy_cell
<1>6. /\ D \in ChannelRecords /\ D.relay <= C.relay /\ D.out >= C.out
      /\ D.relay + D.destroys + D.out <= C.relay + C.destroys + C.out
      /\ D.state \in {"open", "closing"}
  <2>1. CASE C.out = 0
    <3>1. D \in Flushed(c, C, 1) /\ 1 \in Nat
      BY <1>5, <2>1
    <3>2. /\ D \in ChannelRecords /\ D.relay <= C.relay /\ D.out >= C.out
          /\ D.relay + D.destroys + D.out <= C.relay + C.destroys + C.out
          /\ C.state = "open" => D.state \in {"open", "closing"}
      BY <1>4, <3>1, FlushFacts
    <3> QED BY <1>4, <3>2
  <2>2. CASE C.out # 0
    <3>1. D = C
      BY <1>5, <2>2
    <3> QED BY <1>2, <1>4, <3>1
  <2> QED BY <2>1, <2>2
<1>7. chan'[c] = D
  BY <1>5, Replaced
<1>8. /\ OnlyOf(sch, sch', c) /\ (Armed(sch) => Armed(sch'))
      /\ D.state = "open" \/ chan[c].state # "open" => sch' = sch
      /\ ~(D.state = "open" \/ chan[c].state # "open") =>
           sch'.st[c] = "idle" /\ c \notin sch'.heap
  BY <1>2, <1>5, AfterFlushFacts
<1>9. D.relay + D.destroys + D.out <= MaxCells
  <2>1. chan[c].relay + chan[c].destroys + chan[c].out < MaxCells
    BY DEF circuitmux_append_destroy_cell, circuitmux_num_cells
  <2>2. D.relay \in Nat /\ D.destroys \in Nat /\ D.out \in Nat
    BY <1>6, ChannelFields
  <2> QED BY <1>2, <1>4, <1>6, <2>1, <2>2, Marks
<1>10. Placed(c)'
  <2>1. CASE D.state = "open"
    <3>1. sch' = sch
      BY <1>8, <2>1
    <3>2. chan[c].relay = 0 => D.relay = 0
      <4>1. D.relay \in Nat
        BY <1>6, ChannelFields
      <4> QED BY <1>4, <1>6, <4>1
    <3>3. chan[c].out >= Min({Low, High}) => D.out >= Min({Low, High})
      <4>1. D.out \in Nat
        BY <1>6, ChannelFields
      <4> QED BY <1>2, <1>4, <1>6, <4>1, Marks
    <3> QED BY <1>1, <1>2, <1>7, <1>9, <2>1, <3>1, <3>2, <3>3 DEF Placed, circuitmux_num_cells
  <2>2. CASE D.state = "closing"
    <3>1. sch'.st[c] = "idle" /\ c \notin sch'.heap
      BY <1>1, <1>8, <2>2
    <3> QED BY <1>1, <1>2, <1>7, <1>9, <2>2, <3>1 DEF Placed, circuitmux_num_cells
  <2> QED BY <1>6, <2>1, <2>2
<1> QED BY <1>1, <1>5, <1>6, <1>8, <1>10, QuietChannel

(* Circuits leave with their cells.                                        *)
LEMMA ClearStep ==
  ASSUME IInv, NEW c \in Channels, circuit_clear_cell_queue(c)
  PROVE  IInv'
<1> DEFINE C == chan[c]
<1>1. ~Running /\ C.relay > 0 /\ UNCHANGED <<sch, run>>
  BY DEF circuit_clear_cell_queue
<1>2. /\ C \in ChannelRecords /\ C.relay \in Nat /\ C.destroys \in Nat /\ C.out \in Nat
      /\ sch \in SchedulerRecords /\ Placed(c) /\ chan \in [Channels -> ChannelRecords]
  BY <1>1, QuietFacts
<1>3. PICK n \in 0 .. C.relay - 1 : chan' = [chan EXCEPT ![c].relay = n]
  BY DEF circuit_clear_cell_queue
<1>4. PICK r \in Nat : r = n /\ r < C.relay
  BY <1>2
<1>5. PICK D : D = [C EXCEPT !.relay = r]
  OBVIOUS
<1>6. chan' = [chan EXCEPT ![c] = D]
  BY <1>2, <1>3, <1>4, <1>5
<1>7. /\ D \in ChannelRecords /\ D.state = C.state
      /\ D.relay = r /\ D.destroys = C.destroys /\ D.out = C.out
  <2>1. D = [state |-> C.state, relay |-> r, destroys |-> C.destroys,
             last |-> C.last, out |-> C.out]
    BY <1>2, <1>5, ChannelFields
  <2> QED BY <1>2, <2>1, ChannelFields DEF ChannelRecords
<1>8. chan'[c] = D
  BY <1>6, Replaced
<1>9. D.relay + D.destroys + D.out <= MaxCells /\ C.relay # 0
  <2>1. C.relay + C.destroys + C.out <= MaxCells
    BY <1>2 DEF Placed, circuitmux_num_cells
  <2> QED BY <1>1, <1>2, <1>4, <1>7, <2>1, Marks
<1>10. Placed(c)'
  BY <1>1, <1>2, <1>7, <1>8, <1>9 DEF Placed, circuitmux_num_cells
<1>11. OnlyOf(sch, sch', c) /\ (Armed(sch) => Armed(sch'))
  BY <1>1, <1>2 DEF OnlyOf
<1> QED BY <1>1, <1>6, <1>7, <1>10, <1>11, QuietChannel

(* A cell is written past the scheduler.                                   *)
LEMMA DirectStep ==
  ASSUME IInv, NEW c \in Channels, WriteDirectly(c)
  PROVE  IInv'
<1> DEFINE C == chan[c]
<1>1. /\ ~Running /\ UNCHANGED <<sch, run>> /\ C.state \in {"opening", "open"}
      /\ C.relay + C.destroys + C.out < MaxCells
      /\ chan' = [chan EXCEPT ![c].out = @ + 1]
  BY DEF WriteDirectly, circuitmux_num_cells
<1>2. /\ C \in ChannelRecords /\ C.relay \in Nat /\ C.destroys \in Nat /\ C.out \in Nat
      /\ sch \in SchedulerRecords /\ Placed(c) /\ chan \in [Channels -> ChannelRecords]
  BY <1>1, QuietFacts
<1>4. PICK o \in Nat : o = C.out + 1
  BY <1>2
<1>5. PICK D : D = [C EXCEPT !.out = o]
  OBVIOUS
<1>6. chan' = [chan EXCEPT ![c] = D]
  BY <1>1, <1>2, <1>4, <1>5
<1>7. /\ D \in ChannelRecords /\ D.state = C.state
      /\ D.relay = C.relay /\ D.destroys = C.destroys /\ D.out = o
  <2>1. D = [state |-> C.state, relay |-> C.relay, destroys |-> C.destroys,
             last |-> C.last, out |-> o]
    BY <1>2, <1>5, ChannelFields
  <2> QED BY <1>2, <2>1, ChannelFields DEF ChannelRecords
<1>8. chan'[c] = D
  BY <1>6, Replaced
<1>9. D.relay + D.destroys + D.out <= MaxCells
  BY <1>1, <1>2, <1>4, <1>7, Marks
<1>10. C.out >= Min({Low, High}) => D.out >= Min({Low, High})
  BY <1>2, <1>4, <1>7, Marks
<1>11. Placed(c)'
  BY <1>1, <1>2, <1>7, <1>8, <1>9, <1>10 DEF Placed, circuitmux_num_cells
<1>12. OnlyOf(sch, sch', c) /\ (Armed(sch) => Armed(sch'))
  BY <1>1, <1>2 DEF OnlyOf
<1> QED BY <1>1, <1>6, <1>7, <1>11, <1>12, QuietChannel

(* The main loop writes to the socket.                                     *)
LEMMA SocketStep ==
  ASSUME IInv, NEW c \in Channels, SocketWriteable(c)
  PROVE  IInv'
<1>1. ~Running /\ connection_handle_write(c) /\ UNCHANGED run
  BY DEF SocketWriteable
<1>2. c # run.cur
  BY <1>1, QuietFacts
<1>3. PICK D \in ChannelRecords :
         /\ chan' = [chan EXCEPT ![c] = D] /\ OnlyOf(sch, sch', c)
         /\ Armed(sch) => Armed(sch')
         /\ Placed(c)'
  BY <1>1, <1>2, WriteStep
<1> QED BY <1>1, <1>3, QuietChannel

(* The channel is marked for close.                                        *)
LEMMA MarkStep ==
  ASSUME IInv, NEW c \in Channels, channel_mark_for_close(c)
  PROVE  IInv'
<1>1. ~Running /\ chan[c].state \in {"opening", "open"} /\ Condemn(c) /\ UNCHANGED run
  BY DEF channel_mark_for_close
<1>2. c # run.cur
  BY <1>1, QuietFacts
<1>3. PICK D \in ChannelRecords :
         /\ chan' = [chan EXCEPT ![c] = D] /\ OnlyOf(sch, sch', c)
         /\ Armed(sch) => Armed(sch')
         /\ Placed(c)'
  BY <1>1, <1>2, CondemnStep
<1> QED BY <1>1, <1>3, QuietChannel

(* The channel is gone.                                                    *)
LEMMA ClosedStep ==
  ASSUME IInv, NEW c \in Channels, channel_closed(c)
  PROVE  IInv'
<1>1. /\ ~Running /\ UNCHANGED run
      /\ chan' = [chan EXCEPT ![c] = NoCells("closed")]
      /\ sch' = scheduler_release_channel(sch, c)
  BY DEF channel_closed
<1>2. sch \in SchedulerRecords /\ c \notin run.readd /\ c # run.cur
  BY <1>1, QuietFacts
<1>3. PICK D : D = NoCells("closed")
  OBVIOUS
<1>4. /\ D \in ChannelRecords /\ D.state = "closed"
      /\ D.relay = 0 /\ D.destroys = 0 /\ D.out = 0
  BY <1>3 DEF NoCells, ChannelRecords
<1>5. chan' = [chan EXCEPT ![c] = D]
  BY <1>1, <1>3
<1>6. chan'[c] = D
  BY <1>5, Replaced
<1>7. /\ OnlyOf(sch, sch', c) /\ (Armed(sch) => Armed(sch'))
      /\ sch'.st[c] = "idle" /\ c \notin sch'.heap
  BY <1>1, <1>2, ReleaseFacts
<1>8. 0 + 0 + 0 <= MaxCells
  BY Marks
<1>9. Placed(c)'
  BY <1>1, <1>2, <1>4, <1>6, <1>7, <1>8 DEF Placed, circuitmux_num_cells
<1> QED BY <1>1, <1>4, <1>5, <1>7, <1>9, QuietChannel

(* Steps that move no channel, between two runs.                           *)
LEMMA NoChannelMoves ==
  ASSUME IInv, ~Running, UNCHANGED <<chan, run>>, sch' \in SchedulerRecords,
         sch'.st = sch.st, sch'.heap = sch.heap, Armed(sch) => Armed(sch')
  PROVE  IInv'
<1>1. Types' /\ Shape'
  BY DEF IInv, Types, Shape
<1>2. \A c \in Channels : Placed(c)'
  BY DEF IInv, Placed
<1>3. EventArmed'
  BY DEF IInv, EventArmed, Armed, Running
<1> QED BY <1>1, <1>2, <1>3 DEF IInv

(* Another scheduler takes over.                                           *)
LEMMA SetStep ==
  ASSUME IInv, NEW mode \in Modes, set_scheduler(mode)
  PROVE  IInv'
<1>1. ~Running /\ UNCHANGED <<chan, run>>
  BY DEF set_scheduler
<1>2. sch \in SchedulerRecords
  BY DEF IInv, Types
<1>3. PICK w \in 0 .. Interval : w = (IF sch.mode = "vanilla" THEN 0 ELSE sch.since)
  BY <1>2, SchedulerFields, SchedulerAssumption
<1>4. sch' = [sch EXCEPT !.mode = mode, !.since = w]
  BY <1>3 DEF set_scheduler
<1>5. sch' = Timed(sch, sch.timer, w, mode)
  <2>1. PICK f, e, a, b, d :
           /\ f = sch.st /\ e = sch.heap /\ a = sch.timer /\ b = sch.since /\ d = sch.mode
           /\ sch = [st |-> f, heap |-> e, timer |-> a, since |-> b, mode |-> d]
    BY <1>2, FieldValues
  <2> QED BY <1>4, <2>1 DEF Timed
<1>6. /\ sch' \in SchedulerRecords /\ sch'.st = sch.st /\ sch'.heap = sch.heap
      /\ sch'.timer = sch.timer /\ sch'.since = w
  <2>1. sch.timer \in {NoTimer} \cup 0 .. Interval
    BY <1>2, SchedulerFields
  <2> QED BY <1>2, <1>5, <2>1, TimedFields
<1>7. Armed(sch) => Armed(sch')
  <2>1. CASE sch.timer = NoTimer
    BY <1>6, <2>1 DEF Armed
  <2>2. CASE sch.timer \in 0 .. Interval
    <3>1. w <= sch.since /\ sch.since \in 0 .. Interval /\ Interval \in Nat
      BY <1>2, <1>3, SchedulerFields, SchedulerAssumption
    <3>2. sch.timer + sch.since <= Interval => sch.timer + w <= Interval
      BY <2>2, <3>1
    <3> QED BY <1>6, <3>2 DEF Armed
  <2> QED BY <1>2, <2>1, <2>2, SchedulerFields
<1> QED BY <1>1, <1>6, <1>7, NoChannelMoves

(* Time passes: what is added to the time since the run leaves the timer.  *)
LEMMA TickStep ==
  ASSUME IInv, Tick
  PROVE  IInv'
<1>1. ~Running /\ UNCHANGED <<chan, run>> /\ sch.timer # 0
  BY DEF Tick
<1>2. sch \in SchedulerRecords /\ Interval \in Nat
  BY SchedulerAssumption DEF IInv, Types
<1>3. sch.since \in 0 .. Interval /\ sch.timer \in {NoTimer} \cup 0 .. Interval
  BY <1>2, SchedulerFields
<1>4. PICK w \in 0 .. Interval : w = Min({sch.since + 1, Interval}) /\ w <= sch.since + 1
  BY <1>2, <1>3, TwoNumbers
<1>5. PICK t \in {NoTimer} \cup 0 .. Interval :
        t = IF sch.timer = NoTimer THEN sch.timer ELSE sch.timer - 1
  BY <1>1, <1>2, <1>3
<1>6. sch' = [sch EXCEPT !.since = w, !.timer = t]
  BY <1>4, <1>5 DEF Tick
<1>7. sch' = Timed(sch, t, w, sch.mode)
  <2>1. PICK f, e, a, b, d :
           /\ f = sch.st /\ e = sch.heap /\ a = sch.timer /\ b = sch.since /\ d = sch.mode
           /\ sch = [st |-> f, heap |-> e, timer |-> a, since |-> b, mode |-> d]
    BY <1>2, FieldValues
  <2> QED BY <1>6, <2>1 DEF Timed
<1>8. /\ sch' \in SchedulerRecords /\ sch'.st = sch.st /\ sch'.heap = sch.heap
      /\ sch'.timer = t /\ sch'.since = w
  <2>1. sch.mode \in Modes
    BY <1>2, SchedulerFields
  <2> QED BY <1>2, <1>7, <2>1, TimedFields
<1>9. Armed(sch) => Armed(sch')
  <2>1. CASE sch.timer = NoTimer
    BY <1>5, <1>8, <2>1 DEF Armed
  <2>2. CASE sch.timer \in 0 .. Interval /\ sch.timer # NoTimer
    <3>1. t = sch.timer - 1
      BY <1>5, <2>2
    <3>2. t # NoTimer
      BY <1>1, <2>2, <3>1, SchedulerAssumption
    <3>3. sch.timer + sch.since <= Interval => t + w <= Interval
      BY <1>2, <1>3, <1>4, <2>2, <3>1
    <3> QED BY <1>8, <3>2, <3>3 DEF Armed
  <2> QED BY <1>3, <2>1, <2>2
<1> QED BY <1>1, <1>8, <1>9, NoChannelMoves

-----------------------------------------------------------------------------
(* The steps of a run.                                                     *)

Popped(S, c) == [S EXCEPT !.heap = @ \ {c}]
InState(S, c, s) == [S EXCEPT !.st[c] = s]
PutBack(S, c, s) == [S EXCEPT !.st[c] = s, !.heap = @ \cup {c}]

(* A channel is taken from the list, its state is set, and both.           *)
LEMMA TurnFacts ==
  ASSUME NEW S \in SchedulerRecords, NEW c \in Channels, NEW s \in SchedStates
  PROVE  /\ OnlyOf(S, Popped(S, c), c)
         /\ Popped(S, c).st = S.st /\ c \notin Popped(S, c).heap
         /\ Popped(S, c).mode = S.mode
         /\ OnlyOf(S, InState(S, c, s), c)
         /\ InState(S, c, s).st[c] = s /\ InState(S, c, s).heap = S.heap
         /\ OnlyOf(S, PutBack(S, c, s), c)
         /\ PutBack(S, c, s).st[c] = s /\ c \in PutBack(S, c, s).heap
<1>1. PICK f, e, a, b, d :
         /\ f = S.st /\ e = S.heap /\ a = S.timer /\ b = S.since /\ d = S.mode
         /\ S = [st |-> f, heap |-> e, timer |-> a, since |-> b, mode |-> d]
  BY FieldValues
<1>2. /\ f \in [Channels -> SchedStates] /\ e \in SUBSET Channels
      /\ a \in {NoTimer} \cup 0 .. Interval /\ b \in 0 .. Interval /\ d \in Modes
  BY <1>1, SchedulerFields
<1>3. PICK g : g = [f EXCEPT ![c] = s]
  OBVIOUS
<1>4. g \in [Channels -> SchedStates] /\ g[c] = s /\ \A x \in Channels \ {c} : g[x] = f[x]
  BY <1>2, <1>3
<1>5. /\ Popped(S, c) = [st |-> f, heap |-> e \ {c}, timer |-> a, since |-> b, mode |-> d]
      /\ InState(S, c, s) = [st |-> g, heap |-> e, timer |-> a, since |-> b, mode |-> d]
  <2>1. Popped(S, c) = [st |-> f, heap |-> e \ {c}, timer |-> a, since |-> b, mode |-> d]
    <3>1. PICK h : h = e \ {c}
      OBVIOUS
    <3>2. Popped(S, c) = [S EXCEPT !.heap = h]
      BY <1>1, <3>1 DEF Popped
    <3> QED BY <1>1, <3>1, <3>2
  <2>2. InState(S, c, s) = [st |-> g, heap |-> e, timer |-> a, since |-> b, mode |-> d]
    BY <1>1, <1>3 DEF InState
  <2> QED BY <2>1, <2>2
<1>6. e \ {c} \in SUBSET Channels /\ e \cup {c} \in SUBSET Channels
  BY <1>2
<1>7. /\ OnlyOf(S, Popped(S, c), c)
      /\ Popped(S, c).st = S.st /\ c \notin Popped(S, c).heap
      /\ Popped(S, c).mode = S.mode
  BY <1>1, <1>2, <1>5, <1>6 DEF OnlyOf, SchedulerRecords
<1>8. /\ OnlyOf(S, InState(S, c, s), c)
      /\ InState(S, c, s).st[c] = s /\ InState(S, c, s).heap = S.heap
  BY <1>1, <1>2, <1>4, <1>5 DEF OnlyOf, SchedulerRecords
<1>9. /\ OnlyOf(S, PutBack(S, c, s), c)
      /\ PutBack(S, c, s).st[c] = s /\ c \in PutBack(S, c, s).heap
  <2>1. PICK h \in SUBSET Channels : h = e \cup {c}
    BY <1>6
  <2>2. PICK T : T = PutBack(S, c, s)
    OBVIOUS
  <2>3. T = Changed(S, c, s, h)
    BY <1>1, <2>1, <2>2 DEF PutBack, Changed
  <2>4. T \in SchedulerRecords /\ T.st = [S.st EXCEPT ![c] = s] /\ T.heap = h
    BY <2>3, ChangedFields
  <2> QED BY <1>1, <1>3, <1>4, <2>1, <2>2, <2>4 DEF OnlyOf
<1> QED BY <1>7, <1>8, <1>9

(* Changes of one channel add up.                                          *)
LEMMA OnlyOfTwice ==
  ASSUME NEW S, NEW T, NEW U, NEW c, OnlyOf(S, T, c), OnlyOf(T, U, c)
  PROVE  OnlyOf(S, U, c)
  BY DEF OnlyOf

(* The loop's record by the values of its fields.                          *)
LEMMA RunValues ==
  ASSUME NEW R \in RunRecords
  PROVE  \E pc, cur, prev, limit, outbufs, readd :
           /\ pc = R.pc /\ cur = R.cur /\ prev = R.prev
           /\ limit = R.limit /\ outbufs = R.outbufs /\ readd = R.readd
           /\ R = [pc |-> pc, cur |-> cur, prev |-> prev,
                   limit |-> limit, outbufs |-> outbufs, readd |-> readd]
           /\ pc \in Points
           /\ cur \in Slots /\ prev \in Slots
           /\ limit \in [Channels -> Nat]
           /\ outbufs \in SUBSET Channels /\ readd \in SUBSET Channels
  BY DEF RunRecords

(* A step of the loop on one channel.                                      *)
LEMMA LoopChannel ==
  ASSUME IInv, NEW c \in Channels, NEW D \in ChannelRecords,
         chan' = [chan EXCEPT ![c] = D], OnlyOf(sch, sch', c),
         run' \in RunRecords, run'.pc # "off", Shape',
         \A d \in Channels \ {c} : /\ d \in run'.readd <=> d \in run.readd
                                   /\ d = run'.cur <=> d = run.cur,
         Placed(c)'
  PROVE  IInv'
<1>1. /\ chan' \in [Channels -> ChannelRecords] /\ sch' \in SchedulerRecords
      /\ \A d \in Channels : Placed(d)'
  BY OneChannel
<1>2. Types'
  BY <1>1 DEF Types
<1>3. EventArmed'
  BY DEF EventArmed, Running
<1> QED BY <1>1, <1>2, <1>3 DEF IInv

(* The number of cells that fit into an outbuf.                            *)
LEMMA Writeable ==
  ASSUME NEW C \in ChannelRecords, C.out <= MaxCells
  PROVE  /\ channel_num_cells_writeable(C) \in Nat
         /\ C.state # "open" => channel_num_cells_writeable(C) = 0
         /\ C.state = "open" /\ C.out <= High => channel_num_cells_writeable(C) = High - C.out
         /\ C.state = "open" /\ channel_num_cells_writeable(C) = 0 => C.out = High
         /\ C.state = "open" /\ C.out > High => channel_num_cells_writeable(C) = Huge
<1>1. C.out \in Nat
  BY ChannelFields
<1>2. Huge # 0
  BY <1>1, Marks
<1> QED BY <1>1, <1>2, Marks DEF channel_num_cells_writeable

(* The event fires: the loop starts with what is in the list.              *)
LEMMA StartStep ==
  ASSUME IInv, NEW limit \in [Channels -> 0 .. Max({MaxLimit, High}) \cup {Huge}],
         StartRun(limit)
  PROVE  IInv'
<1>1. ~Running /\ UNCHANGED chan
  BY DEF StartRun
<1>2. limit \in [Channels -> Nat]
  <2>1. Max({MaxLimit, High}) \in Nat /\ Huge \in Nat
    BY SchedulerAssumption, TwoNumbers
  <2>2. \A x \in 0 .. Max({MaxLimit, High}) \cup {Huge} : x \in Nat
    <3>1. PICK m \in Nat : m = Max({MaxLimit, High})
      BY <2>1
    <3>2. ASSUME NEW x \in 0 .. m PROVE x \in Nat
      OBVIOUS
    <3>3. ASSUME NEW x \in {Huge} PROVE x \in Nat
      BY <2>1
    <3> QED BY <3>1, <3>2, <3>3
  <2> QED BY <2>2
<1>3. sch \in SchedulerRecords
  BY DEF IInv, Types
<1>4. sch' \in SchedulerRecords /\ sch'.st = sch.st /\ sch'.heap = sch.heap
  <2>1. PICK f, e, a, b, d :
           /\ f = sch.st /\ e = sch.heap /\ a = sch.timer /\ b = sch.since /\ d = sch.mode
           /\ sch = [st |-> f, heap |-> e, timer |-> a, since |-> b, mode |-> d]
    BY <1>3, FieldValues
  <2>2. sch' = [sch EXCEPT !.timer = NoTimer]
    BY DEF StartRun
  <2>3. sch' = Timed(sch, NoTimer, b, d)
    BY <2>1, <2>2 DEF Timed
  <2>4. b \in 0 .. Interval /\ d \in Modes
    BY <1>3, <2>1, SchedulerFields
  <2> QED BY <1>3, <2>3, <2>4, TimedFields
<1>5. PICK p \in Points : p = "loop"
  BY DEF Points
<1>5a. PICK o : o = "off"
  OBVIOUS
<1>5b. PICK n \in SUBSET Channels : n = {}
  OBVIOUS
<1>5c. PICK z : z = [c \in Channels |-> 0]
  OBVIOUS
<1>6. run' \in RunRecords /\ run'.pc = "loop" /\ run'.cur = NoChannel /\ run'.readd = {}
  <2>1. NotRunning = [pc |-> o, cur |-> NoChannel, prev |-> NoChannel,
                      limit |-> z, outbufs |-> n, readd |-> n]
    BY <1>5a, <1>5b, <1>5c DEF NotRunning
  <2>2. run' = [NotRunning EXCEPT !.pc = p, !.limit = limit]
    BY <1>5 DEF StartRun
  <2>3. run' = [pc |-> p, cur |-> NoChannel, prev |-> NoChannel,
                limit |-> limit, outbufs |-> n, readd |-> n]
    BY <2>1, <2>2
  <2> QED BY <1>2, <1>5, <1>5b, <2>3 DEF RunRecords, Slots
<1>7. run.readd = {} /\ run.cur = NoChannel
  BY <1>1 DEF IInv, Shape, Running
<1>8. Types' /\ Shape'
  BY <1>1, <1>4, <1>6 DEF IInv, Types, Shape
<1>9. ASSUME NEW c \in Channels PROVE Placed(c)'
  <2>1. Placed(c)
    BY DEF IInv
  <2>2. run'.readd = run.readd /\ run'.cur = run.cur
    BY <1>6, <1>7
  <2> QED BY <1>1, <1>4, <2>1, <2>2 DEF Placed
<1>10. EventArmed'
  BY <1>6 DEF EventArmed, Running
<1> QED BY <1>8, <1>9, <1>10 DEF IInv

(* The loop's record with every field replaced.                            *)
Loop(R, pc, cur, prev, limit, outbufs, readd) ==
  [R EXCEPT !.pc = pc, !.cur = cur, !.prev = prev,
            !.limit = limit, !.outbufs = outbufs, !.readd = readd]

LEMMA LoopFields ==
  ASSUME NEW R \in RunRecords, NEW pc \in Points,
         NEW cur \in Slots, NEW prev \in Slots,
         NEW limit \in [Channels -> Nat],
         NEW outbufs \in SUBSET Channels, NEW readd \in SUBSET Channels,
         NEW Q, Q = Loop(R, pc, cur, prev, limit, outbufs, readd)
  PROVE  /\ Q \in RunRecords
         /\ Q.pc = pc /\ Q.cur = cur /\ Q.prev = prev
         /\ Q.limit = limit /\ Q.outbufs = outbufs /\ Q.readd = readd
<1>1. PICK p0, c0, v0, l0, o0, r0 :
        R = [pc |-> p0, cur |-> c0, prev |-> v0, limit |-> l0, outbufs |-> o0, readd |-> r0]
  BY DEF RunRecords
<1>2. Q = [pc |-> pc, cur |-> cur, prev |-> prev,
           limit |-> limit, outbufs |-> outbufs, readd |-> readd]
  BY <1>1 DEF Loop
<1> QED BY <1>2 DEF RunRecords

(* One turn of Vanilla's loop: the channel is filled.                      *)
LEMMA VanillaStep ==
  ASSUME IInv, NEW c \in Channels, VanillaTurn(c)
  PROVE  IInv'
<1> DEFINE C == chan[c]
<1>1. run.pc = "loop" /\ sch.mode = "vanilla" /\ c \in sch.heap
  BY DEF VanillaTurn
<1>2. /\ C \in ChannelRecords /\ C.relay \in Nat /\ C.destroys \in Nat /\ C.out \in Nat
      /\ sch \in SchedulerRecords /\ Placed(c) /\ chan \in [Channels -> ChannelRecords]
      /\ run \in RunRecords
  BY QuietFacts DEF IInv, Types
<1>3. C.relay + C.destroys + C.out <= MaxCells /\ C.out <= MaxCells
  BY <1>2, Marks DEF Placed, circuitmux_num_cells
<1>4. PICK n \in Nat : n = channel_num_cells_writeable(C)
  BY <1>2, <1>3, Writeable
<1>5. PICK P : P = Popped(sch, c)
  OBVIOUS
<1>6. PICK D \in Flushed(c, C, n) :
        LET S == AfterFlush(P, c, D)
            more == circuitmux_num_cells(D) > 0
            writeable == channel_num_cells_writeable(D) > 0
            st == IF n = 0 THEN "waiting_to_write"
                  ELSE IF D.out < chan[c].out + n THEN "waiting_for_cells"
                  ELSE IF more THEN (IF writeable THEN S.st[c] ELSE "waiting_to_write")
                  ELSE (IF writeable THEN "waiting_for_cells" ELSE "idle")
        IN /\ chan' = [chan EXCEPT ![c] = D]
           /\ sch' = [S EXCEPT !.st[c] = st]
           /\ run' = [run EXCEPT !.readd =
                        IF n > 0 /\ D.out = chan[c].out + n /\ more /\ writeable
                          THEN @ \cup {c} ELSE @]
  BY <1>4, <1>5, Zenon DEF VanillaTurn, Popped
<1>7. PICK S : S = AfterFlush(P, c, D)
  OBVIOUS
<1>8. PICK st : st = IF n = 0 THEN "waiting_to_write"
                     ELSE IF D.out < C.out + n THEN "waiting_for_cells"
                     ELSE IF circuitmux_num_cells(D) > 0
                       THEN (IF channel_num_cells_writeable(D) > 0 THEN S.st[c]
                             ELSE "waiting_to_write")
                     ELSE (IF channel_num_cells_writeable(D) > 0 THEN "waiting_for_cells"
                           ELSE "idle")
  OBVIOUS
<1>9. PICK q : q = IF n > 0 /\ D.out = C.out + n /\ circuitmux_num_cells(D) > 0
                        /\ channel_num_cells_writeable(D) > 0
                   THEN run.readd \cup {c} ELSE run.readd
  OBVIOUS
<1>10. /\ chan' = [chan EXCEPT ![c] = D]
       /\ sch' = InState(S, c, st)
       /\ run' = [run EXCEPT !.readd = q]
  BY <1>6, <1>7, <1>8, <1>9 DEF InState
<1>11. chan'[c] = D
  BY <1>10, Replaced
<1>12. /\ D \in ChannelRecords /\ D.relay <= C.relay
       /\ D.out >= C.out /\ D.out <= C.out + n
       /\ D.relay + D.destroys + D.out <= C.relay + C.destroys + C.out
       /\ C.state # "open" => D = C
       /\ C.state = "open" => D.state \in {"open", "closing"}
       /\ D.state = "open" /\ D.out < C.out + n => D.relay = 0 /\ D.destroys = 0
  BY <1>2, <1>4, FlushFacts
<1>13. D.relay \in Nat /\ D.destroys \in Nat /\ D.out \in Nat
  BY <1>12, ChannelFields
<1>14. D.relay + D.destroys + D.out <= MaxCells /\ D.out <= MaxCells
  BY <1>2, <1>3, <1>12, <1>13, Marks
<1>15. sch.st[c] = "pending" /\ C.state \in {"open", "closing"}
  <2>1. C.state \in {"opening", "open", "closing", "closed"}
    BY <1>2, ChannelFields
  <2> QED BY <1>1, <1>2, <2>1 DEF Placed
<1>16. /\ P \in SchedulerRecords /\ OnlyOf(sch, P, c)
       /\ P.st = sch.st /\ c \notin P.heap
  <2>1. PICK s \in SchedStates : s = "idle"
    BY DEF SchedStates
  <2> QED BY <1>2, <1>5, <2>1, TurnFacts DEF OnlyOf
<1>17. /\ S \in SchedulerRecords /\ OnlyOf(P, S, c)
       /\ D.state = "open" \/ C.state # "open" => S = P
       /\ ~(D.state = "open" \/ C.state # "open") => S.st[c] = "idle" /\ c \notin S.heap
  <2>1. /\ OnlyOf(P, S, c)
        /\ D.state = "open" \/ chan[c].state # "open" => S = P
        /\ ~(D.state = "open" \/ chan[c].state # "open") => S.st[c] = "idle" /\ c \notin S.heap
    BY <1>7, <1>16, AfterFlushFacts
  <2>2. S \in SchedulerRecords
    BY <2>1 DEF OnlyOf
  <2> QED BY <2>1, <2>2
<1>18. c \notin S.heap /\ S.st[c] \in SchedStates
  BY <1>16, <1>17, SchedulerFields
<1>19. st \in SchedStates
  BY <1>8, <1>18 DEF SchedStates
<1>20. /\ sch' \in SchedulerRecords /\ OnlyOf(sch, sch', c)
       /\ sch'.st[c] = st /\ c \notin sch'.heap
  <2>1. /\ OnlyOf(S, sch', c) /\ sch'.st[c] = st /\ sch'.heap = S.heap
    BY <1>10, <1>17, <1>19, TurnFacts
  <2>2. OnlyOf(sch, S, c)
    BY <1>16, <1>17, OnlyOfTwice
  <2>3. OnlyOf(sch, sch', c)
    BY <2>1, <2>2, OnlyOfTwice
  <2> QED BY <1>18, <2>1, <2>3 DEF OnlyOf
<1>21. q \in SUBSET Channels /\ q \subseteq run.readd \cup {c} /\ run.readd \subseteq q
  BY <1>2, <1>9 DEF RunRecords
<1>22. /\ run' \in RunRecords /\ run'.pc = "loop" /\ run'.cur = NoChannel /\ run'.readd = q
  <2>1. run.cur = NoChannel
    BY <1>1 DEF IInv, Shape
  <2>2. /\ run' \in RunRecords /\ run'.pc = run.pc /\ run'.cur = run.cur /\ run'.readd = q
    BY <1>2, <1>10, <1>21 DEF RunRecords
  <2> QED BY <1>1, <2>1, <2>2
<1>23. Shape'
  BY <1>22 DEF Shape
<1>24. \A d \in Channels \ {c} : /\ d \in run'.readd <=> d \in run.readd
                                 /\ d = run'.cur <=> d = run.cur
  <2>1. run.cur = NoChannel
    BY <1>1 DEF IInv, Shape
  <2> QED BY <1>21, <1>22, <2>1
<1>25. c # run'.cur
  BY <1>22, SchedulerAssumption
<1>26. D.state \in {"open", "closing"}
  BY <1>12, <1>15
<1>27. st = "pending" => c \in q
  <2> SUFFICES ASSUME st = "pending" PROVE c \in q
    OBVIOUS
  <2>1. /\ n # 0 /\ ~(D.out < C.out + n) /\ circuitmux_num_cells(D) > 0
        /\ channel_num_cells_writeable(D) > 0
    BY <1>8
  <2>2. n > 0 /\ D.out = C.out + n
    BY <1>2, <1>12, <1>13, <2>1
  <2> QED BY <1>9, <2>1, <2>2
<1>28. ASSUME D.state = "open"
       PROVE  /\ st \in {"idle", "waiting_for_cells"} => D.relay = 0
              /\ st \in {"idle", "waiting_to_write"} => D.out >= Min({Low, High})
  <2>1. C.state = "open"
    BY <1>12, <1>28
  <2>2. n = 0 => D.out >= Min({Low, High})
    <3>1. n = 0 => C.out = High
      BY <1>2, <1>3, <1>4, <2>1, Writeable
    <3> QED BY <1>2, <1>12, <1>13, <3>1, Marks
  <2>3. D.out < C.out + n => D.relay = 0
    BY <1>12, <1>28
  <2>4. ~(circuitmux_num_cells(D) > 0) => D.relay = 0
    BY <1>13 DEF circuitmux_num_cells
  <2>5. ~(channel_num_cells_writeable(D) > 0) => D.out >= Min({Low, High})
    <3>1. channel_num_cells_writeable(D) \in Nat
      BY <1>12, <1>14, Writeable
    <3>2. channel_num_cells_writeable(D) = 0 => D.out = High
      BY <1>12, <1>14, <1>28, Writeable
    <3> QED BY <3>1, <3>2, Marks
  <2>6. S.st[c] = "pending"
    BY <1>15, <1>16, <1>17, <1>28
  <2> QED BY <1>8, <2>2, <2>3, <2>4, <2>5, <2>6
<1>29. Placed(c)'
  BY <1>11, <1>14, <1>20, <1>22, <1>25, <1>26, <1>27, <1>28 DEF Placed, circuitmux_num_cells
<1> QED BY <1>10, <1>12, <1>20, <1>22, <1>23, <1>24, <1>29, LoopChannel

(* KIST takes a channel from the list, which stays pending in its hands.   *)
LEMMA PopStep ==
  ASSUME IInv, NEW c \in Channels, KistPop(c)
  PROVE  IInv'
<1>1. /\ run.pc = "loop" /\ c \in sch.heap /\ UNCHANGED chan
      /\ sch' = Popped(sch, c)
  BY DEF KistPop, Popped
<1>2. /\ chan[c] \in ChannelRecords /\ sch \in SchedulerRecords /\ Placed(c)
      /\ chan \in [Channels -> ChannelRecords] /\ run \in RunRecords
  BY QuietFacts DEF IInv, Types
<1>3. sch.st[c] = "pending" /\ chan[c].state \in {"open", "closing"}
  <2>1. chan[c].state \in {"opening", "open", "closing", "closed"}
    BY <1>2, ChannelFields
  <2> QED BY <1>1, <1>2, <2>1 DEF Placed
<1>4. OnlyOf(sch, sch', c) /\ sch'.st = sch.st /\ c \notin sch'.heap
  <2>1. PICK s \in SchedStates : s = "idle"
    BY DEF SchedStates
  <2> QED BY <1>1, <1>2, <2>1, TurnFacts
<1>5. PICK p, v, o :
        /\ p = IF run.prev \notin {NoChannel, c} /\ chan[run.prev].out > WriteAfter
                 THEN "write" ELSE "serve"
        /\ v = IF run.prev \notin {NoChannel, c} /\ chan[run.prev].out > WriteAfter
                 THEN run.prev ELSE c
        /\ o = run.outbufs \cup {c}
  OBVIOUS
<1>6. run' = Loop(run, p, c, v, run.limit, o, run.readd)
  <2>1. run' = [run EXCEPT !.cur = c, !.outbufs = o, !.pc = p, !.prev = v]
    BY <1>5 DEF KistPop
  <2>2. PICK pc, cur, prev, limit, outbufs, readd :
           /\ pc = run.pc /\ cur = run.cur /\ prev = run.prev
           /\ limit = run.limit /\ outbufs = run.outbufs /\ readd = run.readd
           /\ run = [pc |-> pc, cur |-> cur, prev |-> prev,
                     limit |-> limit, outbufs |-> outbufs, readd |-> readd]
    BY <1>2, RunValues
  <2> QED BY <2>1, <2>2 DEF Loop
<1>7. p \in Points /\ p \in {"write", "serve"}
  BY <1>5 DEF Points
<1>8. /\ run.prev \in Slots /\ run.limit \in [Channels -> Nat]
      /\ run.outbufs \in SUBSET Channels /\ run.readd \in SUBSET Channels
  BY <1>2 DEF RunRecords
<1>9. /\ v \in Slots /\ o \in SUBSET Channels
      /\ c \in Slots
  BY <1>5, <1>8 DEF Slots
<1>10. /\ run' \in RunRecords /\ run'.pc = p /\ run'.cur = c /\ run'.prev = v
       /\ run'.readd = run.readd
  <2>1. PICK l \in [Channels -> Nat], r \in SUBSET Channels : l = run.limit /\ r = run.readd
    BY <1>8
  <2>2. run' = Loop(run, p, c, v, l, o, r)
    BY <1>6, <2>1
  <2>3. /\ p \in Points /\ c \in Slots /\ v \in Slots
        /\ o \in SUBSET Channels
    BY <1>7, <1>9
  <2> QED BY <1>2, <2>1, <2>2, <2>3, LoopFields
<1>11. p = "write" => v \in Channels /\ v # c
  BY <1>5, <1>8 DEF Slots
<1>12. Shape' /\ run'.pc # "off"
  BY <1>7, <1>10, <1>11 DEF Shape
<1>13. \A d \in Channels \ {c} : /\ d \in run'.readd <=> d \in run.readd
                                 /\ d = run'.cur <=> d = run.cur
  <2>1. run.cur = NoChannel
    BY <1>1 DEF IInv, Shape
  <2> QED BY <1>10, <2>1, SchedulerAssumption
<1>14. chan' = [chan EXCEPT ![c] = chan[c]]
  BY <1>1, <1>2
<1>15. Placed(c)'
  BY <1>1, <1>2, <1>3, <1>4, <1>10 DEF Placed
<1> QED BY <1>2, <1>4, <1>10, <1>12, <1>13, <1>14, <1>15, LoopChannel

(* KIST writes the outbuf of the channel it served last.                   *)
LEMMA WritePreviousStep ==
  ASSUME IInv, KistWritePrevious
  PROVE  IInv'
<1>1. run.pc = "write" /\ connection_handle_write(run.prev)
  BY DEF KistWritePrevious
<1>2. PICK c \in Channels : c = run.prev /\ c # run.cur
  BY <1>1 DEF IInv, Shape
<1>3. run \in RunRecords /\ run.cur \in Channels
  BY <1>1 DEF IInv, Types, Shape
<1>4. PICK p, o : p = "serve" /\ o = run.outbufs \ {c}
  OBVIOUS
<1>5. run' = Loop(run, p, run.cur, run.cur, run.limit, o, run.readd)
  <2>1. run' = [run EXCEPT !.pc = p, !.outbufs = o, !.prev = run.cur]
    BY <1>2, <1>4 DEF KistWritePrevious
  <2>2. PICK pc, cur, prev, limit, outbufs, readd :
           /\ pc = run.pc /\ cur = run.cur /\ prev = run.prev
           /\ limit = run.limit /\ outbufs = run.outbufs /\ readd = run.readd
           /\ run = [pc |-> pc, cur |-> cur, prev |-> prev,
                     limit |-> limit, outbufs |-> outbufs, readd |-> readd]
    BY <1>3, RunValues
  <2> QED BY <2>1, <2>2 DEF Loop
<1>6. /\ run.cur \in Slots /\ run.limit \in [Channels -> Nat]
      /\ run.outbufs \in SUBSET Channels /\ run.readd \in SUBSET Channels
  BY <1>3 DEF RunRecords
<1>7. p \in Points /\ o \in SUBSET Channels
  <2>1. p \in Points
    BY <1>4 DEF Points
  <2> QED BY <1>4, <1>6, <2>1
<1>8. /\ run' \in RunRecords /\ run'.pc = p /\ run'.cur = run.cur
      /\ run'.readd = run.readd
  BY <1>3, <1>5, <1>6, <1>7, LoopFields
<1>9. PICK D \in ChannelRecords :
         /\ chan' = [chan EXCEPT ![c] = D] /\ OnlyOf(sch, sch', c)
         /\ Armed(sch) => Armed(sch')
         /\ Placed(c)'
  BY <1>1, <1>2, <1>8, WriteStep
<1>10. Shape' /\ run'.pc # "off"
  BY <1>3, <1>4, <1>8 DEF Shape
<1> QED BY <1>8, <1>9, <1>10, LoopChannel

(* ... and after the loop those that are left.                             *)
LEMMA WriteOutbufStep ==
  ASSUME IInv, NEW c \in Channels, KistWriteOutbuf(c)
  PROVE  IInv'
<1>1. run.pc \in {"loop", "final"} /\ connection_handle_write(c)
  BY DEF KistWriteOutbuf
<1>2. run.cur = NoChannel /\ c # run.cur
  BY <1>1, SchedulerAssumption DEF IInv, Shape
<1>3. run \in RunRecords
  BY DEF IInv, Types
<1>4. PICK p, o : p = "final" /\ o = run.outbufs \ {c}
  OBVIOUS
<1>5. run' = Loop(run, p, run.cur, run.prev, run.limit, o, run.readd)
  <2>1. run' = [run EXCEPT !.pc = p, !.outbufs = o]
    BY <1>4 DEF KistWriteOutbuf
  <2>2. PICK pc, cur, prev, limit, outbufs, readd :
           /\ pc = run.pc /\ cur = run.cur /\ prev = run.prev
           /\ limit = run.limit /\ outbufs = run.outbufs /\ readd = run.readd
           /\ run = [pc |-> pc, cur |-> cur, prev |-> prev,
                     limit |-> limit, outbufs |-> outbufs, readd |-> readd]
    BY <1>3, RunValues
  <2> QED BY <2>1, <2>2 DEF Loop
<1>6. /\ run.cur \in Slots /\ run.prev \in Slots
      /\ run.limit \in [Channels -> Nat]
      /\ run.outbufs \in SUBSET Channels /\ run.readd \in SUBSET Channels
  BY <1>3 DEF RunRecords
<1>7. p \in Points /\ o \in SUBSET Channels
  <2>1. p \in Points
    BY <1>4 DEF Points
  <2> QED BY <1>4, <1>6, <2>1
<1>8. /\ run' \in RunRecords /\ run'.pc = p /\ run'.cur = run.cur
      /\ run'.readd = run.readd
  <2>1. PICK k \in Slots, v \in Slots,
             l \in [Channels -> Nat], r \in SUBSET Channels :
          k = run.cur /\ v = run.prev /\ l = run.limit /\ r = run.readd
    BY <1>6
  <2>2. run' = Loop(run, p, k, v, l, o, r)
    BY <1>5, <2>1
  <2> QED BY <1>3, <1>7, <2>1, <2>2, LoopFields
<1>9. PICK D \in ChannelRecords :
         /\ chan' = [chan EXCEPT ![c] = D] /\ OnlyOf(sch, sch', c)
         /\ Armed(sch) => Armed(sch')
         /\ Placed(c)'
  BY <1>1, <1>2, <1>8, WriteStep
<1>10. Shape' /\ run'.pc # "off"
  BY <1>2, <1>4, <1>8 DEF Shape
<1> QED BY <1>8, <1>9, <1>10, LoopChannel

(* KIST flushes a cell of the channel and decides what becomes of it.      *)
LEMMA ServeStep ==
  ASSUME IInv, KistServe
  PROVE  IInv'
<1>1. run.pc = "serve" /\ run.cur \in Channels
  BY DEF KistServe, IInv, Shape
<1>2. PICK c \in Channels : c = run.cur
  BY <1>1
<1> DEFINE C == chan[c]
           before == run.limit[c] > 0
<1>3. /\ C \in ChannelRecords /\ C.relay \in Nat /\ C.destroys \in Nat /\ C.out \in Nat
      /\ sch \in SchedulerRecords /\ Placed(c) /\ chan \in [Channels -> ChannelRecords]
      /\ run \in RunRecords /\ sch.st[c] = "pending" /\ C.state \in {"open", "closing"}
      /\ c \notin sch.heap
  <2>1. Placed(c)
    BY QuietFacts
  <2> QED BY <1>2, <2>1, QuietFacts DEF IInv, Types, Placed
<1>4. C.relay + C.destroys + C.out <= MaxCells
  BY <1>3 DEF Placed, circuitmux_num_cells
<1>5. PICK lim \in [Channels -> Nat] : lim = run.limit
  BY <1>3 DEF RunRecords
<1>6. lim[c] \in Nat /\ lim[c] = run.limit[c]
  BY <1>5
<1>7. PICK D \in IF before THEN Flushed(c, C, 1) ELSE {C} :
        LET left == IF before /\ D.out > C.out THEN run.limit[c] - 1 ELSE run.limit[c]
            more == circuitmux_num_cells(D) > 0
            S == AfterFlush(sch, c, D)
        IN /\ chan' = [chan EXCEPT ![c] = D]
           /\ sch' = IF before /\ D.state # "open" THEN [S EXCEPT !.st[c] = "idle"]
                     ELSE IF (before /\ D.out = C.out) \/ ~more
                            THEN [S EXCEPT !.st[c] = "waiting_for_cells"]
                     ELSE IF left > 0 THEN [S EXCEPT !.st[c] = "pending", !.heap = @ \cup {c}]
                     ELSE S
           /\ run' = [run EXCEPT !.pc = "loop", !.cur = NoChannel, !.limit[c] = left,
                        !.readd = IF more /\ left = 0 /\ ~(before /\ D.state # "open")
                                    THEN @ \cup {c} ELSE @]
  BY <1>2, ZenonT(60) DEF KistServe
<1>8. /\ D \in ChannelRecords /\ D.relay <= C.relay /\ D.out >= C.out
      /\ D.relay + D.destroys + D.out <= C.relay + C.destroys + C.out
      /\ D.state \in {"open", "closing"}
      /\ D.state = "open" => C.state = "open"
      /\ ~before => D = C
      /\ before /\ D.state = "open" /\ D.out = C.out => D.relay = 0
  <2>1. CASE before
    <3>1. D \in Flushed(c, C, 1) /\ 1 \in Nat
      BY <1>7, <2>1
    <3>2. /\ D \in ChannelRecords /\ D.relay <= C.relay /\ D.out >= C.out
          /\ D.relay + D.destroys + D.out <= C.relay + C.destroys + C.out
          /\ C.state # "open" => D = C
          /\ C.state = "open" => D.state \in {"open", "closing"}
          /\ D.state = "open" /\ D.out < C.out + 1 => D.relay = 0 /\ D.destroys = 0
      BY <1>3, <3>1, FlushFacts
    <3>3. C.out < C.out + 1
      BY <1>3
    <3> QED BY <1>3, <2>1, <3>2, <3>3
  <2>2. CASE ~before
    <3>1. D = C
      BY <1>7, <2>2
    <3> QED BY <1>3, <2>2, <3>1
  <2> QED BY <2>1, <2>2
<1>9. D.relay \in Nat /\ D.destroys \in Nat /\ D.out \in Nat
  BY <1>8, ChannelFields
<1>10. D.relay + D.destroys + D.out <= MaxCells
  BY <1>3, <1>4, <1>8, <1>9, Marks
<1>11. PICK S : S = AfterFlush(sch, c, D)
  OBVIOUS
<1>12. PICK left : left = IF before /\ D.out > C.out THEN run.limit[c] - 1 ELSE run.limit[c]
  OBVIOUS
<1>13. left \in Nat
  BY <1>6, <1>12
<1>14. PICK p, g, q :
         /\ p = "loop" /\ g = [lim EXCEPT ![c] = left]
         /\ q = IF circuitmux_num_cells(D) > 0 /\ left = 0 /\ ~(before /\ D.state # "open")
                  THEN run.readd \cup {c} ELSE run.readd
  OBVIOUS
<1>15. /\ chan' = [chan EXCEPT ![c] = D]
       /\ run' = [run EXCEPT !.pc = p, !.cur = NoChannel, !.limit[c] = left, !.readd = q]
  BY <1>7, <1>12, <1>14
<1>16. sch' = IF before /\ D.state # "open" THEN InState(S, c, "idle")
              ELSE IF (before /\ D.out = C.out) \/ ~(circuitmux_num_cells(D) > 0)
                     THEN InState(S, c, "waiting_for_cells")
              ELSE IF left > 0 THEN PutBack(S, c, "pending")
              ELSE S
  BY <1>7, <1>11, <1>12 DEF InState, PutBack
<1>17. chan'[c] = D
  BY <1>15, Replaced
<1>18. /\ S \in SchedulerRecords /\ OnlyOf(sch, S, c) /\ c \notin S.heap
       /\ ~(before /\ D.state # "open") => S = sch
  <2>1. /\ OnlyOf(sch, S, c)
        /\ D.state = "open" \/ chan[c].state # "open" => S = sch
        /\ ~(D.state = "open" \/ chan[c].state # "open") => S.st[c] = "idle" /\ c \notin S.heap
    BY <1>3, <1>11, AfterFlushFacts
  <2>2. S \in SchedulerRecords
    BY <2>1 DEF OnlyOf
  <2>3. ~(before /\ D.state # "open") => S = sch
    <3>1. CASE D.state = "open"
      BY <2>1, <3>1
    <3>2. CASE ~before
      BY <1>8, <2>1, <3>2
    <3> QED BY <3>1, <3>2
  <2>4. c \notin S.heap
    BY <1>3, <2>1
  <2> QED BY <2>1, <2>2, <2>3, <2>4
<1>19. /\ sch' \in SchedulerRecords /\ OnlyOf(sch, sch', c)
       /\ c \in sch'.heap => sch'.st[c] = "pending"
       /\ sch'.st[c] = "pending" => c \in sch'.heap \/ c \in q
       /\ D.state = "open" /\ sch'.st[c] \in {"idle", "waiting_for_cells"} => D.relay = 0
       /\ D.state = "open" => sch'.st[c] \notin {"idle", "waiting_to_write"}
  <2>1. CASE before /\ D.state # "open"
    <3>1. PICK s \in SchedStates : s = "idle"
      BY DEF SchedStates
    <3>2. sch' = InState(S, c, s)
      BY <1>16, <2>1, <3>1
    <3>3. OnlyOf(S, sch', c) /\ sch'.st[c] = s /\ sch'.heap = S.heap
      BY <1>18, <3>2, TurnFacts
    <3>4. OnlyOf(sch, sch', c)
      BY <1>18, <3>3, OnlyOfTwice
    <3> QED BY <1>18, <2>1, <3>1, <3>3, <3>4 DEF OnlyOf
  <2>2. CASE ~(before /\ D.state # "open")
             /\ ((before /\ D.out = C.out) \/ ~(circuitmux_num_cells(D) > 0))
    <3>1. PICK s \in SchedStates : s = "waiting_for_cells"
      BY DEF SchedStates
    <3>2. sch' = InState(S, c, s)
      BY <1>16, <2>2, <3>1
    <3>3. OnlyOf(S, sch', c) /\ sch'.st[c] = s /\ sch'.heap = S.heap
      BY <1>18, <3>2, TurnFacts
    <3>4. OnlyOf(sch, sch', c)
      BY <1>18, <3>3, OnlyOfTwice
    <3>5. D.state = "open" => D.relay = 0
      <4>1. ~(circuitmux_num_cells(D) > 0) => D.relay = 0
        BY <1>9 DEF circuitmux_num_cells
      <4> QED BY <1>8, <2>2, <4>1
    <3> QED BY <1>18, <3>1, <3>3, <3>4, <3>5 DEF OnlyOf
  <2>3. CASE /\ ~(before /\ D.state # "open")
             /\ ~((before /\ D.out = C.out) \/ ~(circuitmux_num_cells(D) > 0))
             /\ left > 0
    <3>1. PICK s \in SchedStates : s = "pending"
      BY DEF SchedStates
    <3>2. sch' = PutBack(S, c, s)
      BY <1>16, <2>3, <3>1
    <3>3. OnlyOf(S, sch', c) /\ sch'.st[c] = s /\ c \in sch'.heap
      BY <1>18, <3>2, TurnFacts
    <3>4. OnlyOf(sch, sch', c)
      BY <1>18, <3>3, OnlyOfTwice
    <3> QED BY <3>1, <3>3, <3>4 DEF OnlyOf
  <2>4. CASE /\ ~(before /\ D.state # "open")
             /\ ~((before /\ D.out = C.out) \/ ~(circuitmux_num_cells(D) > 0))
             /\ ~(left > 0)
    <3>1. sch' = S /\ S = sch
      BY <1>16, <1>18, <2>4
    <3>2. left = 0
      BY <1>13, <2>4
    <3>3. c \in q
      BY <1>14, <2>4, <3>2
    <3> QED BY <1>3, <1>18, <3>1, <3>3
  <2> QED BY <2>1, <2>2, <2>3, <2>4
<1>20. /\ run' \in RunRecords /\ run'.pc = "loop" /\ run'.cur = NoChannel /\ run'.readd = q
       /\ run.readd \subseteq q /\ q \subseteq run.readd \cup {c}
  <2>1. PICK l0, v, o :
          /\ l0 = run.limit /\ v = run.prev /\ o = run.outbufs
          /\ run = [pc |-> run.pc, cur |-> run.cur, prev |-> v,
                    limit |-> l0, outbufs |-> o, readd |-> run.readd]
    BY <1>3 DEF RunRecords
  <2>2. g = [l0 EXCEPT ![c] = left]
    BY <1>5, <1>14, <2>1
  <2>3. run' = Loop(run, p, NoChannel, v, g, o, q)
    <3>1. PICK a, b, r : run = [pc |-> a, cur |-> b, prev |-> v,
                                limit |-> l0, outbufs |-> o, readd |-> r]
      BY <2>1
    <3>2. PICK R : R = [run EXCEPT !.pc = p, !.cur = NoChannel, !.limit[c] = left, !.readd = q]
      OBVIOUS
    <3>3. R = [pc |-> p, cur |-> NoChannel, prev |-> v,
               limit |-> [l0 EXCEPT ![c] = left], outbufs |-> o, readd |-> q]
      BY <3>1, <3>2
    <3>4. PICK Q : Q = Loop(run, p, NoChannel, v, g, o, q)
      OBVIOUS
    <3>5. Q = [pc |-> p, cur |-> NoChannel, prev |-> v,
               limit |-> g, outbufs |-> o, readd |-> q]
      BY <3>1, <3>4 DEF Loop
    <3> QED BY <1>15, <2>2, <3>2, <3>3, <3>4, <3>5
  <2>4. /\ v \in Slots /\ o \in SUBSET Channels /\ run.readd \in SUBSET Channels
    BY <1>3, <2>1 DEF RunRecords
  <2>5. p \in Points /\ NoChannel \in Slots
    BY <1>14 DEF Points, Slots
  <2>6. g \in [Channels -> Nat]
    BY <1>5, <1>13, <1>14
  <2>7. run.readd \subseteq q /\ q \subseteq run.readd \cup {c}
    BY <1>14
  <2>8. q \in SUBSET Channels
    BY <2>4, <2>7
  <2>9. run' \in RunRecords /\ run'.pc = p /\ run'.cur = NoChannel /\ run'.readd = q
    BY <1>3, <2>3, <2>4, <2>5, <2>6, <2>8, LoopFields
  <2> QED BY <1>14, <2>7, <2>9
<1>21. Shape' /\ run'.pc # "off"
  BY <1>20 DEF Shape
<1>22. \A d \in Channels \ {c} : /\ d \in run'.readd <=> d \in run.readd
                                 /\ d = run'.cur <=> d = run.cur
  BY <1>2, <1>20, SchedulerAssumption
<1>23. c # run'.cur
  BY <1>20, SchedulerAssumption
<1>24. Placed(c)'
  BY <1>8, <1>10, <1>17, <1>19, <1>20, <1>23 DEF Placed, circuitmux_num_cells
<1> QED BY <1>8, <1>15, <1>19, <1>20, <1>21, <1>22, <1>24, LoopChannel

(* The channels that must wait are pending again, and the event is armed.  *)
LEMMA FinishStep ==
  ASSUME IInv, FinishRun
  PROVE  IInv'
<1>1. run.pc \in {"loop", "final"} /\ run' = NotRunning /\ UNCHANGED chan
  BY DEF FinishRun
<1>2. /\ sch \in SchedulerRecords /\ run.readd \in SUBSET Channels
      /\ run.cur = NoChannel /\ chan \in [Channels -> ChannelRecords]
  BY <1>1 DEF IInv, Types, Shape, RunRecords
<1>3. PICK g, h, w :
        /\ g = [c \in Channels |-> IF c \in run.readd THEN "pending" ELSE sch.st[c]]
        /\ h = sch.heap \cup run.readd
        /\ w = IF sch.mode = "vanilla" THEN sch.since ELSE 0
  OBVIOUS
<1>4. PICK S : S = [sch EXCEPT !.st = g, !.heap = h, !.since = w]
  OBVIOUS
<1>5. sch' = schedule(S)
  BY <1>3, <1>4 DEF FinishRun
<1>6. /\ S \in SchedulerRecords /\ S.st = g /\ S.heap = h
  <2>1. PICK f, e, a, b, d :
           /\ f = sch.st /\ e = sch.heap /\ a = sch.timer /\ b = sch.since /\ d = sch.mode
           /\ sch = [st |-> f, heap |-> e, timer |-> a, since |-> b, mode |-> d]
    BY <1>2, FieldValues
  <2>2. S = [st |-> g, heap |-> h, timer |-> a, since |-> w, mode |-> d]
    BY <1>4, <2>1
  <2>3. a \in {NoTimer} \cup 0 .. Interval /\ b \in 0 .. Interval /\ d \in Modes
    BY <1>2, <2>1, SchedulerFields
  <2>4. w \in 0 .. Interval
    BY <1>3, <2>1, <2>3, SchedulerAssumption
  <2>5. h \in SUBSET Channels
    BY <1>2, <1>3, SchedulerFields
  <2>6. g \in [Channels -> SchedStates]
    <3>1. \A c \in Channels : sch.st[c] \in SchedStates
      BY <1>2, SchedulerFields
    <3> QED BY <1>3, <3>1 DEF SchedStates
  <2> QED BY <2>2, <2>3, <2>4, <2>5, <2>6 DEF SchedulerRecords
<1>7. /\ sch' \in SchedulerRecords /\ sch'.st = g /\ sch'.heap = h /\ Armed(sch')
  BY <1>5, <1>6, ScheduleFacts
<1>8. /\ run' \in RunRecords /\ run'.pc = "off" /\ run'.cur = NoChannel /\ run'.readd = {}
  BY <1>1 DEF NotRunning, RunRecords, Points, Slots
<1>9. Types' /\ Shape'
  BY <1>1, <1>2, <1>7, <1>8 DEF Types, Shape
<1>10. ASSUME NEW c \in Channels PROVE Placed(c)'
  <2>1. Placed(c)
    BY DEF IInv
  <2>2. g[c] = IF c \in run.readd THEN "pending" ELSE sch.st[c]
    BY <1>3
  <2>3. c \in h <=> c \in sch.heap \/ c \in run.readd
    BY <1>3
  <2>4. c # NoChannel
    BY SchedulerAssumption
  <2> QED BY <1>1, <1>2, <1>7, <1>8, <2>1, <2>2, <2>3, <2>4 DEF Placed
<1>11. EventArmed'
  BY <1>7 DEF EventArmed, Armed
<1> QED BY <1>9, <1>10, <1>11 DEF IInv

(* When the process starts, no channel is open and nothing is pending.     *)
LEMMA InitStep == Init => IInv
<1> SUFFICES ASSUME Init PROVE IInv
  OBVIOUS
<1>1. PICK mode \in Modes :
         sch = [st |-> [c \in Channels |-> "idle"], heap |-> {}, timer |-> NoTimer,
                since |-> 0, mode |-> mode]
  BY DEF Init
<1>2. /\ sch.st = [c \in Channels |-> "idle"] /\ sch.heap = {}
      /\ sch \in SchedulerRecords
  <2>1. PICK f \in [Channels -> SchedStates] : f = [c \in Channels |-> "idle"]
    BY DEF SchedStates
  <2>2. 0 \in 0 .. Interval
    BY SchedulerAssumption
  <2> QED BY <1>1, <2>1, <2>2 DEF SchedulerRecords
<1>3. PICK D : D = NoCells("opening")
  OBVIOUS
<1>4. D \in ChannelRecords /\ D.state = "opening" /\ D.relay = 0 /\ D.destroys = 0 /\ D.out = 0
  BY <1>3 DEF NoCells, ChannelRecords
<1>5. chan = [c \in Channels |-> D]
  BY <1>3 DEF Init
<1>6. /\ run \in RunRecords /\ run.pc = "off" /\ run.cur = NoChannel /\ run.readd = {}
  BY DEF Init, NotRunning, RunRecords, Points, Slots
<1>7. Types /\ Shape
  BY <1>2, <1>4, <1>5, <1>6 DEF Types, Shape
<1>8. ASSUME NEW c \in Channels PROVE Placed(c)
  <2>1. chan[c] = D /\ sch.st[c] = "idle"
    BY <1>2, <1>5
  <2>2. c # NoChannel /\ 0 + 0 + 0 <= MaxCells
    BY SchedulerAssumption
  <2> QED BY <1>2, <1>4, <1>6, <2>1, <2>2 DEF Placed, circuitmux_num_cells
<1>9. EventArmed
  BY <1>2 DEF EventArmed
<1> QED BY <1>7, <1>8, <1>9 DEF IInv

(* Every step of the specification.                                        *)
LEMMA NextStep == IInv /\ [Next]_vars => IInv'
<1> SUFFICES ASSUME IInv, [Next]_vars PROVE IInv'
  OBVIOUS
<1>1. ASSUME NEW c \in Channels, ChannelOpens(c) PROVE IInv'
  BY <1>1, OpenStep
<1>2. ASSUME NEW c \in Channels, append_cell_to_circuit_queue(c) PROVE IInv'
  BY <1>2, QueueStep
<1>3. ASSUME NEW c \in Channels, circuitmux_append_destroy_cell(c) PROVE IInv'
  BY <1>3, DestroyStep
<1>4. ASSUME NEW c \in Channels, circuit_clear_cell_queue(c) PROVE IInv'
  BY <1>4, ClearStep
<1>5. ASSUME NEW c \in Channels, WriteDirectly(c) PROVE IInv'
  BY <1>5, DirectStep
<1>6. ASSUME NEW c \in Channels, SocketWriteable(c) PROVE IInv'
  BY <1>6, SocketStep
<1>7. ASSUME NEW c \in Channels, channel_mark_for_close(c) PROVE IInv'
  BY <1>7, MarkStep
<1>8. ASSUME NEW c \in Channels, channel_closed(c) PROVE IInv'
  BY <1>8, ClosedStep
<1>9. ASSUME NEW mode \in Modes, set_scheduler(mode) PROVE IInv'
  BY <1>9, SetStep
<1>10. CASE Tick
  BY <1>10, TickStep
<1>11. CASE RunStep
  <2>1. ASSUME NEW limit \in [Channels -> 0 .. Max({MaxLimit, High}) \cup {Huge}],
               StartRun(limit)
        PROVE  IInv'
    BY <2>1, StartStep
  <2>2. ASSUME NEW c \in Channels, VanillaTurn(c) PROVE IInv'
    BY <2>2, VanillaStep
  <2>3. ASSUME NEW c \in Channels, KistPop(c) PROVE IInv'
    BY <2>3, PopStep
  <2>4. ASSUME NEW c \in Channels, KistWriteOutbuf(c) PROVE IInv'
    BY <2>4, WriteOutbufStep
  <2>5. CASE KistWritePrevious
    BY <2>5, WritePreviousStep
  <2>6. CASE KistServe
    BY <2>6, ServeStep
  <2>7. CASE FinishRun
    BY <2>7, FinishStep
  <2> QED BY <1>11, <2>1, <2>2, <2>3, <2>4, <2>5, <2>6, <2>7 DEF RunStep
<1>12. CASE UNCHANGED vars
  BY <1>12 DEF vars, IInv, Types, Shape, Placed, EventArmed, Running
<1> QED BY <1>1, <1>2, <1>3, <1>4, <1>5, <1>6, <1>7, <1>8, <1>9, <1>10, <1>11, <1>12 DEF Next

(* Where a channel is follows from its scheduler state, in every state     *)
(* between and within the runs of the scheduler.                           *)
THEOREM Invariance == Spec => []IInv
  BY InitStep, NextStep, PTL DEF Spec

(* Whatever channels open, fail or are replaced in the loop's hands and    *)
(* whichever algorithm runs: between two runs the pending list holds the   *)
(* pending channels, the event is due within an interval of the last run,  *)
(* and every open channel with relay cells is pending or waits behind an   *)
(* outbuf whose flushing makes it pending.                                 *)
THEOREM AlwaysScheduled == Spec => []ChannelsAreScheduled
<1>1. IInv => ChannelsAreScheduled
  <2> SUFFICES ASSUME IInv PROVE ChannelsAreScheduled
    OBVIOUS
  <2>1. ASSUME NEW c \in Channels
        PROVE  /\ chan[c] \in ChannelRecords /\ Placed(c) /\ sch.st[c] \in SchedStates
               /\ ~Running => c \notin run.readd /\ c # run.cur
    BY QuietFacts
  <2>2. sch \in SchedulerRecords /\ run \in RunRecords
    BY DEF IInv, Types
  <2>3. ASSUME NEW c \in Channels
        PROVE  /\ chan[c].state \in {"opening", "open", "closing", "closed"}
               /\ chan[c].relay \in Nat /\ chan[c].destroys \in Nat
               /\ chan[c].out \in 0 .. MaxCells /\ chan[c].last \in BOOLEAN
    <3>1. /\ chan[c].state \in {"opening", "open", "closing", "closed"}
          /\ chan[c].relay \in Nat /\ chan[c].destroys \in Nat
          /\ chan[c].out \in Nat /\ chan[c].last \in BOOLEAN
      BY <2>1, ChannelFields
    <3>2. chan[c].relay + chan[c].destroys + chan[c].out <= MaxCells
      BY <2>1 DEF Placed, circuitmux_num_cells
    <3> QED BY <3>1, <3>2, Marks
  <2>4. TypeOK
    <3>1. run.pc \in Points /\ run.readd \subseteq Channels /\ run.outbufs \subseteq Channels
      BY <2>2 DEF RunRecords
    <3> QED BY <2>2, <2>3, <3>1, SchedulerFields DEF TypeOK, Points
  <2>5. PendingListIsRight
    <3>1. sch.heap \subseteq Channels
      BY <2>2, SchedulerFields
    <3> QED BY <2>1, <3>1 DEF PendingListIsRight, Placed
  <2>6. NobodyForgotten
    <3>1. ASSUME NEW c \in Channels, ~Running, chan[c].state = "open", chan[c].relay > 0
          PROVE  \/ sch.st[c] = "pending"
                 \/ sch.st[c] = "waiting_to_write" /\ chan[c].out >= Min({Low, High})
      <4>1. chan[c].relay # 0
        BY <2>3, <3>1
      <4> QED BY <2>1, <3>1, <4>1 DEF Placed, SchedStates
    <3> QED BY <3>1 DEF NobodyForgotten
  <2> QED BY <2>4, <2>5, <2>6 DEF IInv, ChannelsAreScheduled
<1> QED BY <1>1, Invariance, PTL

=============================================================================
