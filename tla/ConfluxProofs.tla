---------------------------- MODULE ConfluxProofs ----------------------------
(***************************************************************************)
(* Proofs about a linked conflux set (Conflux), for any number of legs,    *)
(* any scheduling of the cells on them and any leg that fails: both ends   *)
(* give every cell the same number, and what an end sends is handed to     *)
(* the streams of the other in order and without a gap (OrderedStream).    *)
(*                                                                         *)
(* The argument follows a wire: counted from the number its leg has at the *)
(* receiver, the SWITCHes and cells on it add up to the number the leg has *)
(* at the sender, and give each cell the number it was sent as (Numbered). *)
(* The numbers on the wires of a direction, in the out-of-order queue and  *)
(* delivered are all different, so none is ever met twice.                 *)
(***************************************************************************)
EXTENDS Conflux, TLAPS, FiniteSetTheorems, SequenceTheorems

Mux(c) == c.cmd \in {"DATA", "OTHER"}

(* By how much a cell moves the number of its leg at the receiver.         *)
Step(c) == IF Mux(c) THEN 1 ELSE IF c.cmd = "SWITCH" THEN c.num ELSE 0

(* From number r, the cells of wire w count up to s by way of f, and each  *)
(* multiplexed cell comes out with its own number.                         *)
Running(w, r, s, f) ==
  /\ f \in [0 .. Len(w) -> Nat] /\ f[0] = r /\ f[Len(w)] = s
  /\ \A i \in 1 .. Len(w) : /\ f[i] = f[i - 1] + Step(w[i])
                            /\ Mux(w[i]) => w[i].num = f[i]
Numbered(w, r, s) == \E f : Running(w, r, s, f)

(* Wire w holds m cells with command cmd; f counts them from its end.      *)
Tally(w, cmd, m, f) ==
  /\ f \in [0 .. Len(w) -> Nat] /\ f[0] = m /\ f[Len(w)] = 0
  /\ \A i \in 1 .. Len(w) : f[i - 1] = f[i] + (IF w[i].cmd = cmd THEN 1 ELSE 0)
Counted(w, cmd, m) == \E f : Tally(w, cmd, m, f)

(* The numbers of the multiplexed cells of a wire, each met once.          *)
IsNum(w, n) == \E i \in 1 .. Len(w) : Mux(w[i]) /\ w[i].num = n
Fresh(w) == \A i, j \in 1 .. Len(w) :
              Mux(w[i]) /\ Mux(w[j]) /\ w[i].num = w[j].num => i = j

-----------------------------------------------------------------------------
(* Lemmas about one wire.                                                  *)

(* The peer is the other end.                                              *)
LEMMA PeerFacts ==
  \A e \in Ends : /\ Peer(e) \in Ends /\ Peer(e) # e /\ Peer(Peer(e)) = e
                  /\ \A f \in Ends : f = e \/ f = Peer(e)
  BY DEF Ends, Peer

(* A cell that is sent continues the count of its wire.                    *)
LEMMA SendNumbered ==
  ASSUME NEW w \in Seq(Cells), NEW c \in Cells, NEW r, NEW s \in Nat, Numbered(w, r, s),
         s + Step(c) \in Nat, Mux(c) => c.num = s + 1
  PROVE  Numbered(Append(w, c), r, s + Step(c))
<1>1. PICK f : Running(w, r, s, f)
  BY DEF Numbered
<1> DEFINE v == Append(w, c)
           g == [i \in 0 .. Len(w) + 1 |-> IF i = Len(w) + 1 THEN s + Step(c) ELSE f[i]]
<1>2. /\ Len(w) \in Nat /\ Len(v) = Len(w) + 1 /\ v[Len(w) + 1] = c
      /\ \A i \in 1 .. Len(w) : v[i] = w[i]
  OBVIOUS
<1>3. /\ g \in [0 .. Len(w) + 1 -> Nat] /\ g[Len(w) + 1] = s + Step(c)
      /\ \A i \in 0 .. Len(w) : g[i] = f[i]
  BY <1>1, <1>2 DEF Running
<1> HIDE DEF v, g
<1>4. ASSUME NEW i \in 1 .. Len(v)
      PROVE  g[i] = g[i - 1] + Step(v[i]) /\ (Mux(v[i]) => v[i].num = g[i])
  <2>1. CASE i = Len(w) + 1
    <3>1. g[i - 1] = s
      BY <1>1, <1>2, <1>3, <2>1 DEF Running
    <3>2. Mux(c) => Step(c) = 1
      BY DEF Step
    <3> QED BY <1>2, <1>3, <2>1, <3>1, <3>2
  <2>2. CASE i \in 1 .. Len(w)
    <3>1. i - 1 \in 0 .. Len(w) /\ i \in 0 .. Len(w)
      BY <1>2, <2>2
    <3>2. f[i] = f[i - 1] + Step(w[i]) /\ (Mux(w[i]) => w[i].num = f[i])
      BY <1>1, <2>2 DEF Running
    <3> QED BY <1>2, <1>3, <2>2, <3>1, <3>2
  <2> QED BY <1>2, <2>1, <2>2
<1>5. g[0] = r
  BY <1>1, <1>2, <1>3 DEF Running
<1>6. Running(v, r, s + Step(c), g)
  BY <1>2, <1>3, <1>4, <1>5 DEF Running
<1> QED BY <1>6 DEF Numbered, v

(* The count goes on behind the first cell.                                *)
LEMMA TakeNumbered ==
  ASSUME NEW w \in Seq(Cells), w # <<>>, NEW r, NEW s, Numbered(w, r, s)
  PROVE  /\ r + Step(Head(w)) \in Nat /\ Numbered(Tail(w), r + Step(Head(w)), s)
         /\ Mux(Head(w)) => Head(w).num = r + 1
<1>1. PICK f : Running(w, r, s, f)
  BY DEF Numbered
<1> DEFINE v == Tail(w)
           g == [i \in 0 .. Len(w) - 1 |-> f[i + 1]]
<1>2. /\ Len(w) \in Nat \ {0} /\ Len(v) = Len(w) - 1 /\ Head(w) = w[1]
      /\ \A i \in 1 .. Len(w) - 1 : v[i] = w[i + 1]
  OBVIOUS
<1>3. /\ g \in [0 .. Len(w) - 1 -> Nat] /\ g[0] = f[1] /\ g[Len(w) - 1] = f[Len(w)]
      /\ \A i \in 0 .. Len(w) - 1 : g[i] = f[i + 1]
  BY <1>1, <1>2 DEF Running
<1> HIDE DEF v, g
<1>4. /\ f[1] = r + Step(w[1]) /\ f[1] \in Nat
      /\ Mux(w[1]) => w[1].num = f[1]
  <2>1. 1 \in 1 .. Len(w) /\ 1 \in 0 .. Len(w) /\ 1 - 1 = 0
    BY <1>2
  <2> QED BY <1>1, <2>1 DEF Running
<1>5. ASSUME NEW i \in 1 .. Len(v)
      PROVE  g[i] = g[i - 1] + Step(v[i]) /\ (Mux(v[i]) => v[i].num = g[i])
  <2>1. i + 1 \in 1 .. Len(w) /\ i \in 1 .. Len(w) - 1 /\ i - 1 \in 0 .. Len(w) - 1
        /\ i \in 0 .. Len(w) - 1 /\ i + 1 - 1 = i /\ i - 1 + 1 = i
    BY <1>2
  <2>2. f[i + 1] = f[i] + Step(w[i + 1]) /\ (Mux(w[i + 1]) => w[i + 1].num = f[i + 1])
    BY <1>1, <2>1 DEF Running
  <2>3. g[i] = f[i + 1] /\ g[i - 1] = f[i] /\ v[i] = w[i + 1]
    BY <1>2, <1>3, <2>1
  <2> QED BY <2>2, <2>3
<1>6. Running(v, r + Step(w[1]), s, g)
  <2>1. f[Len(w)] = s
    BY <1>1 DEF Running
  <2> QED BY <1>2, <1>3, <1>4, <1>5, <2>1 DEF Running
<1>7. Mux(w[1]) => w[1].num = r + 1
  BY <1>4 DEF Step
<1> QED BY <1>2, <1>4, <1>6, <1>7 DEF Numbered, v

(* A cell that is sent is counted.                                         *)
LEMMA SendCounted ==
  ASSUME NEW w \in Seq(Cells), NEW c \in Cells, NEW cmd, NEW m \in Nat, Counted(w, cmd, m)
  PROVE  Counted(Append(w, c), cmd, m + (IF c.cmd = cmd THEN 1 ELSE 0))
<1>1. PICK f : Tally(w, cmd, m, f)
  BY DEF Counted
<1>2. PICK one \in {0, 1} : one = IF c.cmd = cmd THEN 1 ELSE 0
  OBVIOUS
<1> DEFINE v == Append(w, c)
           g == [i \in 0 .. Len(w) + 1 |-> IF i = Len(w) + 1 THEN 0 ELSE f[i] + one]
<1>3. /\ Len(w) \in Nat /\ Len(v) = Len(w) + 1 /\ v[Len(w) + 1] = c
      /\ \A i \in 1 .. Len(w) : v[i] = w[i]
  OBVIOUS
<1>4. /\ g \in [0 .. Len(w) + 1 -> Nat] /\ g[Len(w) + 1] = 0
      /\ \A i \in 0 .. Len(w) : g[i] = f[i] + one
  BY <1>1, <1>3 DEF Tally
<1> HIDE DEF v, g
<1>5. ASSUME NEW i \in 1 .. Len(v)
      PROVE  g[i - 1] = g[i] + (IF v[i].cmd = cmd THEN 1 ELSE 0)
  <2>1. CASE i = Len(w) + 1
    <3>1. g[i - 1] = one
      BY SMTT(30), <1>1, <1>3, <1>4, <2>1 DEF Tally
    <3> QED BY <1>2, <1>3, <1>4, <2>1, <3>1
  <2>2. CASE i \in 1 .. Len(w)
    <3>1. /\ i - 1 \in 0 .. Len(w) /\ i \in 0 .. Len(w)
          /\ f[i] \in Nat /\ f[i - 1] \in Nat
      BY <1>1, <1>3, <2>2 DEF Tally
    <3>2. f[i - 1] = f[i] + (IF w[i].cmd = cmd THEN 1 ELSE 0)
      BY <1>1, <2>2 DEF Tally
    <3>3. g[i] = f[i] + one /\ g[i - 1] = f[i - 1] + one /\ v[i] = w[i]
      BY <1>3, <1>4, <2>2, <3>1
    <3>4. PICK u \in {0, 1} : u = IF w[i].cmd = cmd THEN 1 ELSE 0
      OBVIOUS
    <3> QED BY SMTT(30), <3>1, <3>2, <3>3, <3>4
  <2> QED BY <1>3, <2>1, <2>2
<1>6. g[0] = m + one
  BY <1>1, <1>3, <1>4 DEF Tally
<1>7. Tally(v, cmd, m + one, g)
  BY <1>3, <1>4, <1>5, <1>6 DEF Tally
<1> QED BY <1>2, <1>7 DEF Counted, v

(* The first cell is taken off the count.                                  *)
LEMMA TakeCounted ==
  ASSUME NEW w \in Seq(Cells), w # <<>>, NEW cmd, NEW m \in Nat, Counted(w, cmd, m)
  PROVE  /\ m - (IF Head(w).cmd = cmd THEN 1 ELSE 0) \in Nat
         /\ Counted(Tail(w), cmd, m - (IF Head(w).cmd = cmd THEN 1 ELSE 0))
<1>1. PICK f : Tally(w, cmd, m, f)
  BY DEF Counted
<1> DEFINE v == Tail(w)
           g == [i \in 0 .. Len(w) - 1 |-> f[i + 1]]
<1>2. /\ Len(w) \in Nat \ {0} /\ Len(v) = Len(w) - 1 /\ Head(w) = w[1]
      /\ \A i \in 1 .. Len(w) - 1 : v[i] = w[i + 1]
  OBVIOUS
<1>3. /\ g \in [0 .. Len(w) - 1 -> Nat] /\ g[0] = f[1] /\ g[Len(w) - 1] = f[Len(w)]
      /\ \A i \in 0 .. Len(w) - 1 : g[i] = f[i + 1]
  BY <1>1, <1>2 DEF Tally
<1> HIDE DEF v, g
<1>4. m = f[1] + (IF w[1].cmd = cmd THEN 1 ELSE 0) /\ f[1] \in Nat
  <2>1. 1 \in 1 .. Len(w) /\ 1 \in 0 .. Len(w) /\ 1 - 1 = 0
    BY <1>2
  <2> QED BY <1>1, <2>1 DEF Tally
<1>5. ASSUME NEW i \in 1 .. Len(v)
      PROVE  g[i - 1] = g[i] + (IF v[i].cmd = cmd THEN 1 ELSE 0)
  <2>1. i + 1 \in 1 .. Len(w) /\ i \in 1 .. Len(w) - 1 /\ i - 1 \in 0 .. Len(w) - 1
        /\ i \in 0 .. Len(w) - 1 /\ i + 1 - 1 = i /\ i - 1 + 1 = i
    BY <1>2
  <2>2. f[i] = f[i + 1] + (IF w[i + 1].cmd = cmd THEN 1 ELSE 0)
    BY <1>1, <2>1 DEF Tally
  <2>3. g[i] = f[i + 1] /\ g[i - 1] = f[i] /\ v[i] = w[i + 1]
    BY <1>2, <1>3, <2>1
  <2> QED BY <2>2, <2>3
<1>6. Tally(v, cmd, f[1], g)
  <2>1. f[Len(w)] = 0
    BY <1>1 DEF Tally
  <2> QED BY <1>2, <1>3, <1>4, <1>5, <2>1 DEF Tally
<1>7. m - (IF Head(w).cmd = cmd THEN 1 ELSE 0) = f[1]
  BY <1>2, <1>4
<1> QED BY <1>4, <1>6, <1>7 DEF Counted, v

(* An empty wire counts nothing.                                           *)
LEMMA EmptyWire ==
  ASSUME NEW r \in Nat, NEW cmd
  PROVE  /\ Numbered(<<>>, r, r) /\ Counted(<<>>, cmd, 0) /\ Fresh(<<>>)
         /\ \A n : ~IsNum(<<>>, n)
<1>1. Running(<<>>, r, r, [i \in 0 .. 0 |-> r])
  BY DEF Running
<1>2. Tally(<<>>, cmd, 0, [i \in 0 .. 0 |-> 0])
  BY DEF Tally
<1> QED BY <1>1, <1>2 DEF Numbered, Counted, Fresh, IsNum

(* The numbers on a wire once a cell is sent.                              *)
LEMMA SendFresh ==
  ASSUME NEW w \in Seq(Cells), NEW c \in Cells
  PROVE  /\ Append(w, c) \in Seq(Cells)
         /\ \A n : IsNum(Append(w, c), n) <=> IsNum(w, n) \/ (Mux(c) /\ n = c.num)
         /\ Fresh(w) /\ (Mux(c) => ~IsNum(w, c.num)) => Fresh(Append(w, c))
<1> DEFINE v == Append(w, c)
<1>1. /\ v \in Seq(Cells) /\ Len(v) = Len(w) + 1 /\ Len(w) \in Nat
      /\ \A i \in 1 .. Len(w) : v[i] = w[i]
      /\ v[Len(w) + 1] = c
  OBVIOUS
<1> HIDE DEF v
<1>2. 1 .. Len(v) = (1 .. Len(w)) \cup {Len(w) + 1}
  BY <1>1
<1>3. ASSUME NEW n PROVE IsNum(v, n) <=> IsNum(w, n) \/ (Mux(c) /\ n = c.num)
  BY <1>1, <1>2, Zenon DEF IsNum
<1>4. Fresh(w) /\ (Mux(c) => ~IsNum(w, c.num)) => Fresh(v)
  <2> SUFFICES ASSUME Fresh(w), Mux(c) => ~IsNum(w, c.num) PROVE Fresh(v)
    OBVIOUS
  <2> SUFFICES ASSUME NEW i \in 1 .. Len(v), NEW j \in 1 .. Len(v),
                      Mux(v[i]), Mux(v[j]), v[i].num = v[j].num
               PROVE  i = j
    BY DEF Fresh
  <2>1. CASE i \in 1 .. Len(w) /\ j \in 1 .. Len(w)
    BY <1>1, <2>1 DEF Fresh
  <2>2. CASE i \in 1 .. Len(w) /\ j = Len(w) + 1
    BY <1>1, <2>2, Zenon DEF IsNum
  <2>3. CASE i = Len(w) + 1 /\ j \in 1 .. Len(w)
    BY <1>1, <2>3, Zenon DEF IsNum
  <2> QED BY <1>2, <2>1, <2>2, <2>3
<1> QED BY <1>1, <1>3, <1>4 DEF v

(* The numbers on a wire behind its first cell.                            *)
LEMMA TakeFresh ==
  ASSUME NEW w \in Seq(Cells), w # <<>>
  PROVE  /\ Head(w) \in Cells /\ Tail(w) \in Seq(Cells)
         /\ \A n : IsNum(w, n) <=> IsNum(Tail(w), n) \/ (Mux(Head(w)) /\ n = Head(w).num)
         /\ Fresh(w) => /\ Fresh(Tail(w))
                        /\ Mux(Head(w)) => ~IsNum(Tail(w), Head(w).num)
<1> DEFINE v == Tail(w)
           h == Head(w)
<1>1. /\ v \in Seq(Cells) /\ Len(v) = Len(w) - 1 /\ Len(w) \in Nat \ {0}
      /\ \A i \in 1 .. Len(v) : v[i] = w[i + 1]
      /\ h = w[1] /\ h \in Cells
  OBVIOUS
<1> HIDE DEF v, h
<1>2. ASSUME NEW n PROVE IsNum(w, n) <=> IsNum(v, n) \/ (Mux(h) /\ n = h.num)
  <2>1. ASSUME NEW i \in 1 .. Len(w), Mux(w[i]), w[i].num = n
        PROVE  IsNum(v, n) \/ (Mux(h) /\ n = h.num)
    <3>1. CASE i = 1
      BY <1>1, <2>1, <3>1
    <3>2. CASE i # 1
      <4>1. i - 1 \in 1 .. Len(v) /\ v[i - 1] = w[i]
        BY <1>1, <3>2
      <4> QED BY <2>1, <4>1 DEF IsNum
    <3> QED BY <3>1, <3>2
  <2>2. ASSUME NEW i \in 1 .. Len(v), Mux(v[i]), v[i].num = n PROVE IsNum(w, n)
    <3>1. i + 1 \in 1 .. Len(w) /\ w[i + 1] = v[i]
      BY <1>1
    <3> QED BY <2>2, <3>1 DEF IsNum
  <2>3. Mux(h) /\ n = h.num => IsNum(w, n)
    <3>1. 1 \in 1 .. Len(w)
      BY <1>1
    <3> QED BY <1>1, <3>1 DEF IsNum
  <2> QED BY <2>1, <2>2, <2>3 DEF IsNum
<1>3. Fresh(w) => Fresh(v) /\ (Mux(h) => ~IsNum(v, h.num))
  <2> HAVE Fresh(w)
  <2>1. ASSUME NEW i \in 1 .. Len(v), NEW j \in 1 .. Len(v),
               Mux(v[i]), Mux(v[j]), v[i].num = v[j].num
        PROVE  i = j
    <3>1. i + 1 \in 1 .. Len(w) /\ j + 1 \in 1 .. Len(w) /\ v[i] = w[i + 1] /\ v[j] = w[j + 1]
      BY <1>1
    <3>2. i + 1 = j + 1
      BY <2>1, <3>1 DEF Fresh
    <3> QED BY <1>1, <3>2
  <2>2. ASSUME Mux(h), NEW i \in 1 .. Len(v), Mux(v[i]), v[i].num = h.num PROVE FALSE
    <3>1. 1 \in 1 .. Len(w) /\ i + 1 \in 1 .. Len(w) /\ i + 1 # 1 /\ v[i] = w[i + 1]
      BY <1>1
    <3> QED BY <1>1, <2>2, <3>1 DEF Fresh
  <2> QED BY <2>1, <2>2 DEF Fresh, IsNum
<1> QED BY <1>1, <1>2, <1>3 DEF v, h
-----------------------------------------------------------------------------
(* The inductive invariant.                                                *)

(* The legs that e still has bring cells that are numbered as they were    *)
(* sent, none of them delivered, queued, or on two legs.                   *)
Lines(e) == \A l \in legs[e] :
  /\ Numbered(wire[Peer(e)][l], last_seq_recv[e][l], last_seq_sent[Peer(e)][l])
  /\ Fresh(wire[Peer(e)][l])
  /\ \A n : IsNum(wire[Peer(e)][l], n) =>
       /\ n \in last_seq_delivered[e] + 1 .. sent[Peer(e)]
       /\ n \notin QueuedSeqs(e)
       /\ \A k \in legs[e] \ {l} : ~IsNum(wire[Peer(e)][k], n)

(* What e has delivered is a prefix of what was sent, and its queue holds  *)
(* cells behind a gap.                                                     *)
Order(e) ==
  /\ delivered[e] = [i \in 1 .. last_seq_delivered[e] |-> i]
  /\ last_seq_delivered[e] <= sent[Peer(e)]
  /\ IsFiniteSet(ooo_q[e])
  /\ \A c \in ooo_q[e] : /\ c.seq = c.id
                         /\ c.seq > last_seq_delivered[e] + 1
                         /\ c.seq <= sent[Peer(e)]
  /\ ~bug[e]

(* The current leg of e was the last to carry a cell; while there is none, *)
(* nothing was sent.                                                       *)
Leads(e) ==
  /\ \A l \in Legs : last_seq_sent[e][l] <= sent[e]
  /\ curr_leg[e] # NoLeg =>
       curr_leg[e] \in legs[e] /\ last_seq_sent[e][curr_leg[e]] = sent[e]
  /\ curr_leg[e] = NoLeg /\ legs[e] # {} => sent[e] = 0

(* The cells in flight on leg l of e are on its wire, received and not     *)
(* acknowledged, or acknowledged by a SENDME on its way back.              *)
Acked(e, l) == \E d, s \in Nat :
  /\ Counted(wire[e][l], "DATA", d) /\ Counted(wire[Peer(e)][l], "SENDME", s)
  /\ inflight[e][l] >= d + unacked[Peer(e)][l] + sendme_inc * s

Acks(e) == \A l \in legs[e] : Acked(e, l)

IInv == TypeOK /\ \A e \in Ends : Lines(e) /\ Order(e) /\ Leads(e) /\ Acks(e)

-----------------------------------------------------------------------------
(* What a step that does not concern a direction leaves true of it.        *)

(* A cell that opens the window does not count as a cell of the stream.    *)
LEMMA LinesKept ==
  ASSUME TypeOK, NEW e \in Ends, Lines(e), legs'[e] \subseteq legs[e],
         UNCHANGED <<last_seq_delivered[e], ooo_q[e], sent[Peer(e)]>>,
         \A l \in legs'[e] :
           /\ \/ wire'[Peer(e)][l] = wire[Peer(e)][l]
              \/ wire'[Peer(e)][l] = Append(wire[Peer(e)][l], Cell("SENDME", 0))
           /\ last_seq_recv'[e][l] = last_seq_recv[e][l]
           /\ last_seq_sent'[Peer(e)][l] = last_seq_sent[Peer(e)][l]
  PROVE  Lines(e)'
<1> DEFINE p == Peer(e)
<1>1. p \in Ends /\ legs[e] \subseteq Legs
  BY PeerFacts DEF TypeOK
<1>2. Cell("SENDME", 0) \in Cells /\ ~Mux(Cell("SENDME", 0)) /\ Step(Cell("SENDME", 0)) = 0
  BY DEF Cell, Cells, Mux, Step
<1>3. ASSUME NEW l \in legs'[e]
      PROVE  /\ Numbered(wire'[p][l], last_seq_recv'[e][l], last_seq_sent'[p][l])
             /\ Fresh(wire'[p][l])
             /\ \A n : IsNum(wire'[p][l], n) <=> IsNum(wire[p][l], n)
  <2>1. /\ wire[p][l] \in Seq(Cells) /\ last_seq_sent[p][l] \in Nat
        /\ Numbered(wire[p][l], last_seq_recv[e][l], last_seq_sent[p][l])
        /\ Fresh(wire[p][l])
    BY <1>1 DEF TypeOK, Lines
  <2>2. CASE wire'[p][l] = wire[p][l]
    BY <2>1, <2>2
  <2>3. CASE wire'[p][l] = Append(wire[p][l], Cell("SENDME", 0))
    <3>1. Numbered(wire'[p][l], last_seq_recv[e][l], last_seq_sent[p][l])
      <4>1. last_seq_sent[p][l] + Step(Cell("SENDME", 0)) = last_seq_sent[p][l]
        BY <1>2, <2>1
      <4> QED BY <1>2, <2>1, <2>3, <4>1, SendNumbered
    <3>2. /\ Fresh(wire'[p][l])
          /\ \A n : IsNum(wire'[p][l], n) <=> IsNum(wire[p][l], n)
      BY <1>2, <2>1, <2>3, SendFresh
    <3> QED BY <3>1, <3>2
  <2> QED BY <2>2, <2>3
<1>4. QueuedSeqs(e)' = QueuedSeqs(e)
  BY DEF QueuedSeqs
<1> QED BY <1>3, <1>4 DEF Lines

(* The first cell of a leg is handled: its number leaves the wires, and    *)
(* the others are still to come.                                           *)
LEMMA LinesTaken ==
  ASSUME TypeOK, NEW e \in Ends, Lines(e), NEW l \in legs[e], wire[Peer(e)][l] # <<>>,
         legs'[e] = legs[e], sent'[Peer(e)] = sent[Peer(e)],
         wire'[Peer(e)][l] = Tail(wire[Peer(e)][l]),
         last_seq_recv'[e][l] = last_seq_recv[e][l] + Step(Head(wire[Peer(e)][l])),
         \A k \in legs[e] \ {l} : /\ wire'[Peer(e)][k] = wire[Peer(e)][k]
                                  /\ last_seq_recv'[e][k] = last_seq_recv[e][k],
         \A k \in legs[e] : last_seq_sent'[Peer(e)][k] = last_seq_sent[Peer(e)][k],
         \A n \in last_seq_delivered[e] + 1 .. sent[Peer(e)] :
           /\ n \notin QueuedSeqs(e)
           /\ Mux(Head(wire[Peer(e)][l])) => n # Head(wire[Peer(e)][l]).num
           => /\ n \in last_seq_delivered'[e] + 1 .. sent[Peer(e)]
              /\ n \notin QueuedSeqs(e)'
  PROVE  Lines(e)'
<1> DEFINE p == Peer(e)
           h == Head(wire[p][l])
<1>1. p \in Ends /\ legs[e] \subseteq Legs /\ wire[p][l] \in Seq(Cells)
  BY PeerFacts DEF TypeOK
<1>2. /\ \A n : IsNum(wire[p][l], n) <=> IsNum(wire'[p][l], n) \/ (Mux(h) /\ n = h.num)
      /\ Fresh(wire'[p][l]) /\ (Mux(h) => ~IsNum(wire'[p][l], h.num))
  BY <1>1, TakeFresh DEF Lines
<1>3. Numbered(wire'[p][l], last_seq_recv'[e][l], last_seq_sent'[p][l])
  <2>1. Numbered(wire[p][l], last_seq_recv[e][l], last_seq_sent[p][l])
    BY DEF Lines
  <2> QED BY <1>1, <2>1, TakeNumbered
<1>4. ASSUME NEW k \in legs[e], NEW n, IsNum(wire'[p][k], n)
      PROVE  /\ IsNum(wire[p][k], n) /\ (Mux(h) => n # h.num)
  <2>1. CASE k = l
    BY <1>2, <1>4, <2>1
  <2>2. CASE k # l
    <3>1. IsNum(wire[p][k], n)
      BY <1>4, <2>2
    <3>2. ~IsNum(wire[p][l], n)
      BY <2>2, <3>1 DEF Lines
    <3> QED BY <1>2, <3>1, <3>2
  <2> QED BY <2>1, <2>2
<1>5. ASSUME NEW k \in legs[e], NEW n, IsNum(wire'[p][k], n)
      PROVE  /\ n \in last_seq_delivered'[e] + 1 .. sent[p] /\ n \notin QueuedSeqs(e)'
             /\ \A j \in legs[e] \ {k} : ~IsNum(wire'[p][j], n)
  <2>1. /\ n \in last_seq_delivered[e] + 1 .. sent[p] /\ n \notin QueuedSeqs(e)
        /\ \A j \in legs[e] \ {k} : ~IsNum(wire[p][j], n)
    BY <1>4, <1>5 DEF Lines
  <2>2. n \in last_seq_delivered'[e] + 1 .. sent[p] /\ n \notin QueuedSeqs(e)'
    BY <1>4, <1>5, <2>1
  <2>3. \A j \in legs[e] \ {k} : ~IsNum(wire'[p][j], n)
    BY <1>4, <2>1
  <2> QED BY <2>2, <2>3
<1>6. ASSUME NEW k \in legs[e], k # l
      PROVE  /\ Numbered(wire'[p][k], last_seq_recv'[e][k], last_seq_sent'[p][k])
             /\ Fresh(wire'[p][k])
  BY <1>6 DEF Lines
<1> QED BY <1>2, <1>3, <1>5, <1>6 DEF Lines

(* Wire v has no more cells with command cmd than wire w.                  *)
NoMore(v, w, cmd) == \A m \in Nat : Counted(w, cmd, m) =>
                       \E n \in Nat : n <= m /\ Counted(v, cmd, n)

(* What a step may do to a wire without adding cells with command cmd.     *)
LEMMA NoMoreCells ==
  ASSUME NEW w \in Seq(Cells), NEW cmd
  PROVE  /\ NoMore(w, w, cmd) /\ NoMore(<<>>, w, cmd)
         /\ w # <<>> => NoMore(Tail(w), w, cmd)
         /\ \A c \in Cells : c.cmd # cmd => NoMore(Append(w, c), w, cmd)
<1>1. NoMore(w, w, cmd)
  BY DEF NoMore
<1>2. NoMore(<<>>, w, cmd)
  <2>1. Counted(<<>>, cmd, 0)
    BY EmptyWire
  <2> QED BY <2>1 DEF NoMore
<1>3. ASSUME w # <<>>, NEW m \in Nat, Counted(w, cmd, m)
      PROVE  \E n \in Nat : n <= m /\ Counted(Tail(w), cmd, n)
  <2>1. PICK n : n = m - (IF Head(w).cmd = cmd THEN 1 ELSE 0)
    OBVIOUS
  <2>2. n \in Nat /\ Counted(Tail(w), cmd, n)
    BY <1>3, <2>1, TakeCounted
  <2> QED BY <2>1, <2>2
<1>4. ASSUME NEW c \in Cells, c.cmd # cmd, NEW m \in Nat, Counted(w, cmd, m)
      PROVE  Counted(Append(w, c), cmd, m)
  <2>1. m + (IF c.cmd = cmd THEN 1 ELSE 0) = m
    BY <1>4
  <2> QED BY <1>4, <2>1, SendCounted
<1> QED BY <1>1, <1>2, <1>3, <1>4 DEF NoMore

(* Products of an increment keep their order.                              *)
LEMMA ProductMono ==
  ASSUME NEW b \in Nat, NEW u \in Nat, NEW v \in Nat, u <= v
  PROVE  b * u <= b * v /\ b * u \in Nat /\ b * v \in Nat
  OBVIOUS

(* A leg on which no data was sent and nothing acknowledged.               *)
LEMMA AckedKept ==
  ASSUME TypeOK, NEW e \in Ends, NEW l \in legs[e], Acked(e, l),
         inflight'[e][l] >= inflight[e][l], inflight'[e][l] \in Nat,
         unacked'[Peer(e)][l] = unacked[Peer(e)][l],
         NoMore(wire'[e][l], wire[e][l], "DATA"),
         NoMore(wire'[Peer(e)][l], wire[Peer(e)][l], "SENDME")
  PROVE  Acked(e, l)'
<1>1. /\ sendme_inc \in Nat /\ inflight[e][l] \in Nat /\ unacked[Peer(e)][l] \in Nat
  BY ConfluxConstants, PeerFacts DEF TypeOK
<1>2. PICK d \in Nat, s \in Nat :
        /\ Counted(wire[e][l], "DATA", d) /\ Counted(wire[Peer(e)][l], "SENDME", s)
        /\ inflight[e][l] >= d + unacked[Peer(e)][l] + sendme_inc * s
  BY DEF Acked
<1>3. PICK d1 \in Nat : d1 <= d /\ Counted(wire'[e][l], "DATA", d1)
  BY <1>2 DEF NoMore
<1>4. PICK s1 \in Nat : s1 <= s /\ Counted(wire'[Peer(e)][l], "SENDME", s1)
  BY <1>2 DEF NoMore
<1>5. sendme_inc * s1 <= sendme_inc * s /\ sendme_inc * s1 \in Nat /\ sendme_inc * s \in Nat
  BY <1>1, <1>4, ProductMono
<1>6. inflight'[e][l] >= d1 + unacked'[Peer(e)][l] + sendme_inc * s1
  BY <1>1, <1>2, <1>3, <1>5
<1> QED BY <1>3, <1>4, <1>6 DEF Acked
-----------------------------------------------------------------------------
(* Every step keeps the invariant.                                         *)

(* Steps that touch neither wires, numbers nor windows.                    *)
LEMMA QuietStep ==
  ASSUME IInv, TypeOK',
         UNCHANGED <<legs, last_seq_sent, last_seq_recv, inflight, receiver, wire, sent>>,
         \A e \in Ends : Leads(e)'
  PROVE  IInv'
<1>1. ASSUME NEW e \in Ends PROVE Lines(e)' /\ Order(e)'
  BY DEF IInv, Lines, Order, QueuedSeqs, receiver
<1>2. ASSUME NEW e \in Ends PROVE Acks(e)'
  BY DEF IInv, Acks, Acked, receiver
<1> QED BY <1>1, <1>2 DEF IInv

(* The first leg is picked.                                                *)
LEMMA CanSendStep ==
  ASSUME IInv, NEW e \in Ends, conflux_can_send(e)
  PROVE  IInv'
<1>1. PICK l \in conflux_pick_first_leg(e) :
        /\ curr_leg' = [curr_leg EXCEPT ![e] = l]
        /\ legs[e] # {} /\ curr_leg[e] = NoLeg
        /\ UNCHANGED <<legs, in_full_teardown, last_seq_sent, last_seq_recv, schedule,
                       receiver, wire, sent, data>>
  BY DEF conflux_can_send
<1>2. TypeOK /\ l \in legs[e] /\ l \in Legs
  BY DEF IInv, TypeOK, conflux_pick_first_leg, LowestRTT
<1>3. TypeOK'
  BY <1>1, <1>2 DEF TypeOK, schedule, receiver
<1>4. ASSUME NEW f \in Ends PROVE Leads(f)'
  <2>1. CASE f = e
    <3>1. sent[e] = 0 /\ last_seq_sent[e][l] <= sent[e] /\ last_seq_sent[e][l] \in Nat
      BY <1>1, <1>2 DEF IInv, Leads, TypeOK
    <3>2. last_seq_sent[e][l] = sent[e]
      BY <3>1
    <3>3. curr_leg'[e] = l
      BY <1>1, <1>2 DEF TypeOK
    <3> QED BY <1>1, <1>2, <2>1, <3>2, <3>3 DEF IInv, Leads, NoLeg
  <2>2. CASE f # e
    <3>1. curr_leg'[f] = curr_leg[f]
      BY <1>1, <1>2, <2>2 DEF TypeOK
    <3> QED BY <1>1, <3>1 DEF IInv, Leads
  <2> QED BY <2>1, <2>2
<1> QED BY <1>1, <1>3, <1>4, QuietStep DEF schedule

(* A channel blocks or drains.                                             *)
LEMMA BlockStep ==
  ASSUME IInv, NEW e \in Ends, NEW l \in Legs, set_circuit_blocked_on_chan(e, l)
  PROVE  IInv'
<1>1. /\ blocked' = [blocked EXCEPT ![e][l] = ~@]
      /\ UNCHANGED <<legs, in_full_teardown, curr_leg, last_seq_sent, last_seq_recv,
                     circ_rtts_usec, inflight, cwnd, receiver, wire, sent, data>>
  BY DEF set_circuit_blocked_on_chan
<1>2. blocked' \in [Ends -> [Legs -> BOOLEAN]]
  <2>1. blocked \in [Ends -> [Legs -> BOOLEAN]]
    BY DEF IInv, TypeOK
  <2>2. [blocked[e] EXCEPT ![l] = ~@] \in [Legs -> BOOLEAN]
    BY <2>1, Zenon
  <2>3. blocked' = [blocked EXCEPT ![e] = [blocked[e] EXCEPT ![l] = ~@]]
    BY <1>1
  <2> QED BY <2>1, <2>2, <2>3, Zenon
<1>3. TypeOK'
  BY <1>1, <1>2 DEF IInv, TypeOK, receiver
<1>4. \A f \in Ends : Leads(f)'
  BY <1>1 DEF IInv, Leads
<1> QED BY <1>1, <1>3, <1>4, QuietStep

(* What a function of two arguments is after one value has changed.        *)
LEMMA PerLegExcept ==
  ASSUME NEW S, NEW f \in [Ends -> [Legs -> S]], NEW e \in Ends, NEW l \in Legs, NEW v \in S
  PROVE  /\ [f EXCEPT ![e][l] = v] \in [Ends -> [Legs -> S]]
         /\ [f EXCEPT ![e][l] = v][e][l] = v
         /\ \A k \in Legs : k # l => [f EXCEPT ![e][l] = v][e][k] = f[e][k]
         /\ \A d \in Ends : d # e => [f EXCEPT ![e][l] = v][d] = f[d]
<1>1. [f EXCEPT ![e][l] = v] = [f EXCEPT ![e] = [f[e] EXCEPT ![l] = v]]
  OBVIOUS
<1>2. [f[e] EXCEPT ![l] = v] \in [Legs -> S]
  OBVIOUS
<1> QED BY <1>1, <1>2

(* A leg closes, with or without the rest of the set: what is on its way   *)
(* to the end that closes it is dropped.                                   *)
LEMMA CloseStep ==
  ASSUME IInv, NEW e \in Ends, NEW l \in Legs, LegCloses(e, l)
  PROVE  IInv'
<1> DEFINE p == Peer(e)
<1>0. TypeOK /\ p \in Ends /\ p # e /\ Peer(p) = e /\ \A f \in Ends : f = e \/ f = p
  BY PeerFacts DEF IInv
<1>1. PICK gone \in SUBSET Legs :
        /\ legs' = [legs EXCEPT ![e] = @ \ gone]
        /\ in_full_teardown' = [in_full_teardown EXCEPT ![e] = @ \/ gone # {l}]
        /\ curr_leg' = [curr_leg EXCEPT ![e] = IF @ \in gone THEN NoLeg ELSE @]
        /\ wire' = [wire EXCEPT ![p] = [k \in Legs |-> IF k \in gone THEN <<>> ELSE @[k]]]
        /\ gone = legs[e] \/ (curr_leg[e] # l /\ gone = {l})
  <2>1. PICK gone : gone = IF cfx_del_leg(e, l, last_seq_recv[e]) THEN legs[e] ELSE {l}
    OBVIOUS
  <2>2. gone = legs[e] \/ (curr_leg[e] # l /\ gone = {l})
    BY <2>1 DEF cfx_del_leg
  <2>3. gone \in SUBSET Legs
    BY SMTT(30), <1>0, <2>2 DEF TypeOK
  <2> QED BY <2>1, <2>2, <2>3 DEF LegCloses, linked_circuit_closed
<1>2. UNCHANGED <<last_seq_sent, last_seq_recv, schedule, receiver, sent, data>>
  BY DEF LegCloses
<1>3. /\ wire' \in [Ends -> [Legs -> Seq(Cells)]] /\ wire'[e] = wire[e]
      /\ \A k \in gone : wire'[p][k] = <<>>
      /\ \A k \in Legs \ gone : wire'[p][k] = wire[p][k]
  <2>1. [k \in Legs |-> IF k \in gone THEN <<>> ELSE wire[p][k]] \in [Legs -> Seq(Cells)]
    BY <1>0 DEF TypeOK
  <2> QED BY <1>0, <1>1, <2>1 DEF TypeOK
<1>4. /\ legs' \in [Ends -> SUBSET Legs] /\ legs'[e] = legs[e] \ gone /\ legs'[p] = legs[p]
      /\ curr_leg' \in [Ends -> Legs \cup {NoLeg}] /\ curr_leg'[p] = curr_leg[p]
      /\ curr_leg'[e] = IF curr_leg[e] \in gone THEN NoLeg ELSE curr_leg[e]
  BY <1>0, <1>1 DEF TypeOK
<1>5. TypeOK'
  <2>1. in_full_teardown' \in [Ends -> BOOLEAN]
    <3>1. in_full_teardown \in [Ends -> BOOLEAN]
      BY <1>0 DEF TypeOK
    <3>2. (in_full_teardown[e] \/ gone # {l}) \in BOOLEAN
      OBVIOUS
    <3> QED BY <1>1, <3>1, <3>2, Zenon
  <2> QED BY <1>0, <1>2, <1>3, <1>4, <2>1 DEF TypeOK, schedule, receiver
<1>6. ASSUME NEW f \in Ends PROVE Lines(f)'
  <2>1. legs'[f] \subseteq legs[f] /\ \A k \in legs'[f] : wire'[Peer(f)][k] = wire[Peer(f)][k]
    <3>1. CASE f = e
      BY <1>0, <1>3, <1>4, <3>1 DEF TypeOK
    <3>2. CASE f = p
      BY <1>0, <1>3, <1>4, <3>2
    <3> QED BY <1>0, <3>1, <3>2
  <2>2. Lines(f) /\ UNCHANGED <<last_seq_delivered[f], ooo_q[f], sent[Peer(f)]>>
    BY <1>2 DEF IInv, receiver
  <2> QED BY <1>0, <1>2, <2>1, <2>2, LinesKept
<1>7. ASSUME NEW f \in Ends PROVE Order(f)'
  BY <1>2 DEF IInv, Order, receiver
<1>8. ASSUME NEW f \in Ends PROVE Leads(f)'
  <2>0. Leads(f)
    BY DEF IInv
  <2>1. CASE f = e
    <3>1. CASE gone = legs[e]
      BY <1>2, <1>4, <2>0, <2>1, <3>1 DEF Leads
    <3>2. CASE curr_leg[e] # l /\ gone = {l}
      BY <1>2, <1>4, <2>0, <2>1, <3>2 DEF Leads
    <3> QED BY <1>1, <3>1, <3>2
  <2>2. CASE f = p
    BY <1>2, <1>4, <2>0, <2>2 DEF Leads
  <2> QED BY <1>0, <2>1, <2>2
<1>9. ASSUME NEW f \in Ends PROVE Acks(f)'
  <2> SUFFICES ASSUME NEW k \in legs'[f] PROVE Acked(f, k)'
    BY DEF Acks
  <2>1. k \in legs[f] /\ k \in Legs
    BY <1>0, <1>4 DEF TypeOK
  <2>2. /\ inflight'[f][k] = inflight[f][k] /\ inflight[f][k] \in Nat
        /\ unacked'[Peer(f)][k] = unacked[Peer(f)][k] /\ Peer(f) \in Ends
    BY <1>0, <1>2, <2>1, PeerFacts DEF schedule, receiver, TypeOK
  <2>3. ASSUME NEW d \in Ends PROVE wire'[d][k] = wire[d][k] \/ wire'[d][k] = <<>>
    BY <1>0, <1>3, <2>1
  <2>4. ASSUME NEW d \in Ends, NEW cmd PROVE NoMore(wire'[d][k], wire[d][k], cmd)
    <3>1. wire[d][k] \in Seq(Cells)
      BY <1>0, <2>1 DEF TypeOK
    <3> QED BY <2>3, <3>1, NoMoreCells
  <2>5. Acked(f, k)
    BY <2>1 DEF IInv, Acks
  <2>6. inflight'[f][k] >= inflight[f][k]
    BY <2>2
  <2> QED BY <1>0, <2>1, <2>2, <2>4, <2>5, <2>6, AckedKept
<1> QED BY <1>5, <1>6, <1>7, <1>8, <1>9 DEF IInv

(* The wires once the first cell of leg l is taken.                        *)
LEMMA TailWire ==
  ASSUME TypeOK, NEW e \in Ends, NEW l \in Legs, wire[Peer(e)][l] # <<>>,
         wire' = [wire EXCEPT ![Peer(e)][l] = Tail(@)]
  PROVE  /\ wire' \in [Ends -> [Legs -> Seq(Cells)]]
         /\ wire'[Peer(e)][l] = Tail(wire[Peer(e)][l])
         /\ \A f \in Ends, k \in Legs :
              f # Peer(e) \/ k # l => wire'[f][k] = wire[f][k]
         /\ \A f \in Ends, k \in Legs : \A cmd : NoMore(wire'[f][k], wire[f][k], cmd)
<1>0. PICK p \in Ends : p = Peer(e)
  BY PeerFacts
<1>1. PICK v : v = Tail(wire[p][l])
  OBVIOUS
<1>2. PICK S : S = Seq(Cells)
  OBVIOUS
<1>a. wire \in [Ends -> [Legs -> S]] /\ wire[p][l] \in Seq(Cells)
  BY SMTT(30), <1>0, <1>2 DEF TypeOK
<1>b. v \in S
  BY <1>0, <1>1, <1>2, <1>a
<1>c. wire' = [wire EXCEPT ![p][l] = v]
  BY <1>0, <1>1
<1>d. /\ wire' \in [Ends -> [Legs -> S]]
      /\ wire'[p][l] = v
      /\ \A k \in Legs : k # l => wire'[p][k] = wire[p][k]
      /\ \A d \in Ends : d # p => wire'[d] = wire[d]
  <2>1. PICK g : g = [wire EXCEPT ![p][l] = v]
    OBVIOUS
  <2>2. /\ g \in [Ends -> [Legs -> S]] /\ g[p][l] = v
        /\ \A k \in Legs : k # l => g[p][k] = wire[p][k]
        /\ \A d \in Ends : d # p => g[d] = wire[d]
    BY <1>a, <1>b, <2>1, PerLegExcept
  <2> QED BY <1>c, <2>1, <2>2
<1>3. /\ wire' \in [Ends -> [Legs -> Seq(Cells)]]
      /\ wire'[p][l] = v
      /\ \A k \in Legs : k # l => wire'[p][k] = wire[p][k]
      /\ \A d \in Ends : d # p => wire'[d] = wire[d]
  BY <1>2, <1>d
<1>4. ASSUME NEW f \in Ends, NEW k \in Legs, f # p \/ k # l
      PROVE  wire'[f][k] = wire[f][k]
  BY <1>3, <1>4
<1>5. ASSUME NEW f \in Ends, NEW k \in Legs, NEW cmd
      PROVE  NoMore(wire'[f][k], wire[f][k], cmd)
  <2>1. wire[f][k] \in Seq(Cells)
    BY DEF TypeOK
  <2>2. CASE f = p /\ k = l
    BY <1>0, <1>1, <1>3, <2>1, <2>2, NoMoreCells
  <2>3. CASE f # p \/ k # l
    BY <1>4, <2>1, <2>3, NoMoreCells
  <2> QED BY <2>2, <2>3
<1> QED BY <1>0, <1>1, <1>3, <1>4, <1>5

(* A cell that is no cell of the stream is handled.                        *)
LEMMA ControlStep ==
  ASSUME IInv, TypeOK', NEW e \in Ends, NEW l \in legs[e], wire[Peer(e)][l] # <<>>,
         ~Mux(Head(wire[Peer(e)][l])),
         wire' = [wire EXCEPT ![Peer(e)][l] = Tail(@)],
         last_seq_recv'[e][l] = last_seq_recv[e][l] + Step(Head(wire[Peer(e)][l])),
         \A k \in Legs \ {l} : last_seq_recv'[e][k] = last_seq_recv[e][k],
         last_seq_recv'[Peer(e)] = last_seq_recv[Peer(e)],
         \A f \in Ends, k \in Legs : f # e \/ k # l => inflight'[f][k] = inflight[f][k],
         UNCHANGED <<legs, curr_leg, last_seq_sent, receiver, sent>>,
         Acked(e, l)'
  PROVE  IInv'
<1> DEFINE p == Peer(e)
<1>0. /\ TypeOK /\ p \in Ends /\ p # e /\ Peer(p) = e /\ l \in Legs
      /\ legs[e] \subseteq Legs /\ legs[p] \subseteq Legs
      /\ \A f \in Ends : f = e \/ f = p
  BY PeerFacts DEF IInv, TypeOK
<1>a. /\ wire'[p][l] = Tail(wire[p][l])
      /\ \A f \in Ends, k \in Legs : f # p \/ k # l => wire'[f][k] = wire[f][k]
      /\ \A f \in Ends, k \in Legs : \A cmd : NoMore(wire'[f][k], wire[f][k], cmd)
  BY ZenonT(60), <1>0, TailWire
<1>1. /\ wire'[p][l] = Tail(wire[p][l])
      /\ \A k \in Legs : k # l => wire'[p][k] = wire[p][k]
      /\ \A k \in Legs : wire'[e][k] = wire[e][k]
      /\ \A f \in Ends, k \in Legs : \A cmd : NoMore(wire'[f][k], wire[f][k], cmd)
  BY <1>0, <1>a
<1>2. Lines(e)'
  <2>1. QueuedSeqs(e)' = QueuedSeqs(e)
    BY DEF QueuedSeqs, receiver
  <2> QED BY <1>0, <1>1, <2>1, LinesTaken DEF IInv, receiver
<1>3. Lines(p)'
  <2>1. Lines(p)
    BY <1>0 DEF IInv
  <2>2. \A k \in legs'[p] : /\ wire'[Peer(p)][k] = wire[Peer(p)][k]
                            /\ last_seq_recv'[p][k] = last_seq_recv[p][k]
    BY <1>0, <1>1
  <2> QED BY <1>0, <2>1, <2>2, LinesKept DEF receiver
<1>4. ASSUME NEW f \in Ends PROVE Order(f)' /\ Leads(f)'
  BY DEF IInv, Order, Leads, receiver
<1>5. ASSUME NEW f \in Ends, NEW k \in legs'[f] PROVE Acked(f, k)'
  <2>1. CASE f = e /\ k = l
    BY <2>1
  <2>2. CASE f # e \/ k # l
    <3>1. k \in legs[f] /\ k \in Legs /\ Peer(f) \in Ends /\ Acked(f, k)
      BY <1>0, PeerFacts DEF IInv, Acks
    <3>2. inflight'[f][k] = inflight[f][k] /\ inflight[f][k] \in Nat
      BY <1>0, <2>2, <3>1 DEF TypeOK
    <3>3. inflight'[f][k] >= inflight[f][k]
      BY <3>2
    <3>4. unacked'[Peer(f)][k] = unacked[Peer(f)][k]
      BY DEF receiver
    <3> QED BY <1>0, <1>1, <3>1, <3>2, <3>3, <3>4, AckedKept
  <2> QED BY <2>1, <2>2
<1> QED BY <1>0, <1>2, <1>3, <1>4, <1>5 DEF IInv, Acks

(* A leg is taken over by the other end: SWITCH.                           *)
LEMMA SwitchStep ==
  ASSUME IInv, NEW e \in Ends, NEW l \in Legs, conflux_process_switch_command(e, l)
  PROVE  IInv'
<1> DEFINE p == Peer(e)
           h == Head(wire[p][l])
<1>0. /\ TypeOK /\ p \in Ends /\ l \in legs[e]
      /\ wire[p][l] # <<>> /\ wire[p][l] \in Seq(Cells)
  <2>1. l \in legs[e] /\ wire[p][l] # <<>>
    BY DEF conflux_process_switch_command, CellReady
  <2>2. TypeOK /\ p \in Ends
    BY PeerFacts DEF IInv
  <2> QED BY <2>1, <2>2 DEF TypeOK
<1>1. h.cmd = "SWITCH" /\ ~Mux(h) /\ Step(h) = h.num
  BY DEF conflux_process_switch_command, CellReady, Mux, Step
<1>2. /\ wire' = [wire EXCEPT ![p][l] = Tail(@)]
      /\ last_seq_recv' = [last_seq_recv EXCEPT ![e][l] = last_seq_recv[e][l] + h.num]
      /\ UNCHANGED <<legs, in_full_teardown, curr_leg, last_seq_sent, schedule,
                     receiver, sent, data>>
  BY DEF conflux_process_switch_command, SwitchTo
<1>3. PICK m : m = last_seq_recv[e][l] + h.num
  OBVIOUS
<1>4. m \in Nat
  <2>1. Numbered(wire[p][l], last_seq_recv[e][l], last_seq_sent[p][l])
    BY <1>0 DEF IInv, Lines
  <2> QED BY <1>0, <1>1, <1>3, <2>1, TakeNumbered
<1>5. /\ last_seq_recv' \in [Ends -> [Legs -> Nat]] /\ last_seq_recv'[e][l] = m
      /\ \A k \in Legs \ {l} : last_seq_recv'[e][k] = last_seq_recv[e][k]
      /\ last_seq_recv'[p] = last_seq_recv[p]
  <2>1. last_seq_recv' = [last_seq_recv EXCEPT ![e][l] = m]
    BY <1>2, <1>3
  <2>2. last_seq_recv \in [Ends -> [Legs -> Nat]] /\ p # e
    BY <1>0, PeerFacts DEF TypeOK
  <2> QED BY <1>0, <1>4, <2>1, <2>2, PerLegExcept
<1>6. wire' \in [Ends -> [Legs -> Seq(Cells)]]
      /\ \A f \in Ends, k \in Legs : \A cmd : NoMore(wire'[f][k], wire[f][k], cmd)
  BY <1>0, <1>2, TailWire
<1>7. TypeOK'
  BY <1>0, <1>2, <1>5, <1>6 DEF TypeOK, schedule, receiver
<1>8. Acked(e, l)'
  <2>1. Acked(e, l) /\ inflight[e][l] \in Nat
    BY <1>0 DEF IInv, Acks, TypeOK
  <2>2. inflight'[e][l] = inflight[e][l] /\ unacked'[p][l] = unacked[p][l]
    BY <1>2 DEF schedule, receiver
  <2>3. inflight'[e][l] >= inflight[e][l]
    BY <2>1, <2>2
  <2> QED BY <1>0, <1>6, <2>1, <2>2, <2>3, AckedKept
<1>9. \A f \in Ends, k \in Legs : f # e \/ k # l => inflight'[f][k] = inflight[f][k]
  BY <1>2 DEF schedule
<1> QED BY <1>0, <1>1, <1>2, <1>3, <1>5, <1>7, <1>8, <1>9, ControlStep

(* The exit learns a round-trip time.                                      *)
LEMMA LinkedAckStep ==
  ASSUME IInv, NEW e \in Ends, NEW l \in Legs, conflux_process_linked_ack(e, l)
  PROVE  IInv'
<1> DEFINE p == Peer(e)
           h == Head(wire[p][l])
<1>0. TypeOK /\ p \in Ends /\ l \in legs[e] /\ wire[p][l] # <<>> /\ p # e
  BY PeerFacts DEF IInv, TypeOK, conflux_process_linked_ack, CellReady
<1>1. ~Mux(h) /\ Step(h) = 0
  BY DEF conflux_process_linked_ack, CellReady, Mux, Step
<1>2. PICK r \in RTTs :
        /\ wire' = [wire EXCEPT ![p][l] = Tail(@)]
        /\ circ_rtts_usec' = [circ_rtts_usec EXCEPT ![e][l] = r]
        /\ UNCHANGED <<legs, in_full_teardown, curr_leg, last_seq_sent, last_seq_recv,
                       inflight, cwnd, blocked, receiver, sent, data>>
  BY DEF conflux_process_linked_ack
<1>3. circ_rtts_usec' \in [Ends -> [Legs -> Nat]]
  BY ZenonT(60), <1>0, <1>2, ConfluxConstants, PerLegExcept DEF TypeOK
<1>4. wire' \in [Ends -> [Legs -> Seq(Cells)]]
      /\ \A f \in Ends, k \in Legs : \A cmd : NoMore(wire'[f][k], wire[f][k], cmd)
  BY <1>0, <1>2, TailWire
<1>5. TypeOK'
  BY <1>0, <1>2, <1>3, <1>4 DEF TypeOK, receiver
<1>6. Acked(e, l)'
  <2>1. Acked(e, l) /\ inflight[e][l] \in Nat
    BY <1>0 DEF IInv, Acks, TypeOK
  <2>2. inflight'[e][l] = inflight[e][l] /\ unacked'[p][l] = unacked[p][l]
    BY <1>2 DEF receiver
  <2>3. inflight'[e][l] >= inflight[e][l]
    BY <2>1, <2>2
  <2> QED BY <1>0, <1>4, <2>1, <2>2, <2>3, AckedKept
<1>7. last_seq_recv'[e][l] = last_seq_recv[e][l] + Step(h)
  <2>1. last_seq_recv[e][l] \in Nat
    BY <1>0 DEF TypeOK
  <2> QED BY <1>1, <1>2, <2>1
<1> QED BY <1>0, <1>1, <1>2, <1>5, <1>6, <1>7, ControlStep

(* A SENDME opens the window of its leg: the cells it acknowledges were    *)
(* counted in flight.                                                      *)
LEMMA SendmeStep ==
  ASSUME IInv, NEW e \in Ends, NEW l \in Legs, ReceiveSendme(e, l)
  PROVE  IInv'
<1> DEFINE p == Peer(e)
           h == Head(wire[p][l])
<1>0. /\ TypeOK /\ p \in Ends /\ p # e /\ Peer(p) = e
      /\ l \in legs[e] /\ wire[p][l] # <<>>
  <2>1. l \in legs[e] /\ wire[p][l] # <<>>
    BY DEF ReceiveSendme, CellReady
  <2> QED BY <2>1, PeerFacts DEF IInv
<1>1. h.cmd = "SENDME" /\ ~Mux(h) /\ Step(h) = 0
  BY DEF ReceiveSendme, CellReady, Mux, Step
<1>2. PICK r \in RTTs, c \in Cwnds :
        /\ wire' = [wire EXCEPT ![p][l] = Tail(@)]
        /\ inflight' = [inflight EXCEPT ![e][l] = inflight[e][l] - sendme_inc]
        /\ circ_rtts_usec' = [circ_rtts_usec EXCEPT ![e][l] = r]
        /\ cwnd' = [cwnd EXCEPT ![e][l] = c]
        /\ UNCHANGED <<legs, in_full_teardown, curr_leg, last_seq_sent, last_seq_recv,
                       blocked, receiver, sent, data>>
  BY DEF ReceiveSendme, AckedInflight, conflux_update_rtt
<1>3. /\ circ_rtts_usec' \in [Ends -> [Legs -> Nat]]
      /\ cwnd' \in [Ends -> [Legs -> Cwnds]]
  BY ZenonT(60), <1>0, <1>2, ConfluxConstants, PerLegExcept DEF TypeOK
<1>4. /\ wire' \in [Ends -> [Legs -> Seq(Cells)]]
      /\ wire'[p][l] = Tail(wire[p][l]) /\ wire'[e][l] = wire[e][l]
  BY <1>0, <1>2, TailWire
<1>5. PICK d \in Nat, s \in Nat :
        /\ Counted(wire[e][l], "DATA", d) /\ Counted(wire[p][l], "SENDME", s)
        /\ inflight[e][l] >= d + unacked[p][l] + sendme_inc * s
  BY <1>0 DEF IInv, Acks, Acked
<1>6. s - 1 \in Nat /\ Counted(wire'[p][l], "SENDME", s - 1)
  <2>1. wire[p][l] \in Seq(Cells)
    BY <1>0 DEF TypeOK
  <2>2. PICK one \in {0, 1} : one = IF h.cmd = "SENDME" THEN 1 ELSE 0
    OBVIOUS
  <2>3. s - one \in Nat /\ Counted(Tail(wire[p][l]), "SENDME", s - one)
    BY <1>0, <1>5, <2>1, <2>2, TakeCounted
  <2> QED BY <1>1, <1>4, <2>2, <2>3
<1>7. PICK t \in Nat : s = t + 1
  BY <1>6
<1>8. sendme_inc * s = sendme_inc * t + sendme_inc /\ sendme_inc * t \in Nat
  <2>1. sendme_inc \in Nat
    BY ConfluxConstants
  <2> QED BY <1>7, <2>1
<1>9. PICK m \in Nat : m = inflight[e][l] - sendme_inc
  <2>1. /\ inflight[e][l] \in Nat /\ unacked[p][l] \in Nat
        /\ sendme_inc \in Nat
    BY <1>0, ConfluxConstants DEF TypeOK
  <2> QED BY <1>5, <1>8, <2>1
<1>10. m >= d + unacked[p][l] + sendme_inc * t
  <2>1. /\ inflight[e][l] \in Nat /\ unacked[p][l] \in Nat
        /\ sendme_inc \in Nat
    BY <1>0, ConfluxConstants DEF TypeOK
  <2> QED BY <1>5, <1>8, <1>9, <2>1
<1>11. /\ inflight' \in [Ends -> [Legs -> Nat]] /\ inflight'[e][l] = m
       /\ \A k \in Legs : k # l => inflight'[e][k] = inflight[e][k]
       /\ inflight'[p] = inflight[p]
  <2>1. inflight' = [inflight EXCEPT ![e][l] = m]
    BY <1>2, <1>9
  <2>2. inflight \in [Ends -> [Legs -> Nat]]
    BY <1>0 DEF TypeOK
  <2> QED BY <1>0, <2>1, <2>2, PerLegExcept
<1>12. TypeOK'
  BY <1>0, <1>2, <1>3, <1>4, <1>11 DEF TypeOK, receiver
<1>13. Acked(e, l)'
  <2>1. /\ Counted(wire'[e][l], "DATA", d) /\ Counted(wire'[p][l], "SENDME", t)
        /\ inflight'[e][l] >= d + unacked'[p][l] + sendme_inc * t
    <3>1. unacked' = unacked /\ s - 1 = t
      BY <1>2, <1>7 DEF receiver
    <3> QED BY <1>4, <1>5, <1>6, <1>10, <1>11, <3>1
  <2> QED BY <2>1, Zenon DEF Acked
<1>14. last_seq_recv'[e][l] = last_seq_recv[e][l] + Step(h)
  <2>1. last_seq_recv[e][l] \in Nat
    BY <1>0 DEF TypeOK
  <2> QED BY <1>1, <1>2, <2>1
<1>15. \A f \in Ends, k \in Legs : f # e \/ k # l => inflight'[f][k] = inflight[f][k]
  BY <1>0, <1>11, PeerFacts
<1> QED BY <1>0, <1>1, <1>2, <1>12, <1>13, <1>14, <1>15, ControlStep

(* v is wire w with cell t + 1 sent on it, behind a SWITCH by x or none.   *)
Extends(v, w, x, t, cmd) ==
  \E switch : /\ switch = <<Cell("SWITCH", x)>> \/ (switch = <<>> /\ x = 0)
              /\ v = w \o switch \o <<Cell(cmd, t + 1)>>

(* A wire on which a cell was sent, behind a SWITCH when the leg changed.  *)
LEMMA SentWire ==
  ASSUME NEW w \in Seq(Cells), NEW x \in Nat, NEW t \in Nat, x <= t,
         NEW cmd \in {"DATA", "OTHER"}, NEW v, Extends(v, w, x, t, cmd)
  PROVE  /\ v \in Seq(Cells)
         /\ \A r : Numbered(w, r, t - x) => Numbered(v, r, t + 1)
         /\ \A n : IsNum(v, n) <=> IsNum(w, n) \/ n = t + 1
         /\ Fresh(w) /\ ~IsNum(w, t + 1) => Fresh(v)
         /\ \A m \in Nat : Counted(w, "DATA", m) =>
                             Counted(v, "DATA", m + (IF cmd = "DATA" THEN 1 ELSE 0))
         /\ NoMore(v, w, "SENDME")
<1>1. PICK s : s = Cell("SWITCH", x)
  OBVIOUS
<1>2. s \in Cells /\ ~Mux(s) /\ Step(s) = x /\ s.cmd = "SWITCH"
  BY <1>1 DEF Cell, Cells, Mux, Step
<1>3. PICK c : c = Cell(cmd, t + 1)
  OBVIOUS
<1>4. c \in Cells /\ Mux(c) /\ Step(c) = 1 /\ c.num = t + 1 /\ c.cmd = cmd
  BY <1>3 DEF Cell, Cells, Mux, Step
<1>z. PICK switch : /\ switch = <<Cell("SWITCH", x)>> \/ (switch = <<>> /\ x = 0)
                    /\ v = w \o switch \o <<Cell(cmd, t + 1)>>
  BY DEF Extends
<1>0. PICK moved \in BOOLEAN : /\ moved => switch = <<Cell("SWITCH", x)>>
                               /\ ~moved => switch = <<>> /\ x = 0
  BY <1>z
<1>5. PICK a : a = IF moved THEN Append(w, s) ELSE w
  OBVIOUS
<1>6. a \in Seq(Cells) /\ v = Append(a, c)
  <2>1. CASE moved
    <3>1. v = (w \o <<s>>) \o <<c>> /\ a = Append(w, s)
      BY <1>z, <1>0, <1>1, <1>3, <1>5, <2>1
    <3>2. w \o <<s>> = a /\ a \in Seq(Cells)
      BY <1>2, <3>1, AppendIsConcat, AppendProperties
    <3>3. a \o <<c>> = Append(a, c)
      BY <1>4, <3>2, AppendIsConcat
    <3> QED BY <3>1, <3>2, <3>3
  <2>2. CASE ~moved
    <3>1. v = (w \o <<>>) \o <<c>> /\ a = w
      BY <1>z, <1>0, <1>3, <1>5, <2>2
    <3>2. w \o <<>> = w /\ w \o <<c>> = Append(w, c)
      BY <1>4, AppendIsConcat, ConcatEmptySeq
    <3> QED BY <3>1, <3>2
  <2> QED BY <2>1, <2>2
<1>7. ASSUME NEW r, Numbered(w, r, t - x) PROVE Numbered(a, r, t)
  <2>1. CASE moved
    <3>1. PICK u \in Nat : u = t - x
      OBVIOUS
    <3>2. u + Step(s) = t
      BY <1>2, <3>1
    <3>3. Numbered(Append(w, s), r, u + Step(s))
      BY <1>2, <1>7, <3>1, <3>2, SendNumbered
    <3> QED BY <1>5, <2>1, <3>2, <3>3
  <2>2. CASE ~moved
    <3>1. t - x = t
      BY <1>0, <2>2
    <3> QED BY <1>5, <1>7, <2>2, <3>1
  <2> QED BY <2>1, <2>2
<1>8. ASSUME NEW r, Numbered(w, r, t - x) PROVE Numbered(v, r, t + 1)
  <2>1. Numbered(a, r, t) /\ t + Step(c) \in Nat /\ t + Step(c) = t + 1
    BY <1>4, <1>7, <1>8
  <2>2. Numbered(Append(a, c), r, t + Step(c))
    BY <1>4, <1>6, <2>1, SendNumbered
  <2> QED BY <1>6, <2>1, <2>2
<1>9. /\ \A n : IsNum(a, n) <=> IsNum(w, n)
      /\ Fresh(w) => Fresh(a)
  <2>1. CASE moved
    BY <1>2, <1>5, <2>1, SendFresh
  <2>2. CASE ~moved
    BY <1>5, <2>2
  <2> QED BY <2>1, <2>2
<1>10. /\ \A n : IsNum(v, n) <=> IsNum(w, n) \/ n = t + 1
       /\ Fresh(w) /\ ~IsNum(w, t + 1) => Fresh(v)
  <2>0. /\ \A n : IsNum(Append(a, c), n) <=> IsNum(a, n) \/ (Mux(c) /\ n = c.num)
        /\ Fresh(a) /\ (Mux(c) => ~IsNum(a, c.num)) => Fresh(Append(a, c))
    BY <1>4, <1>6, SendFresh, Zenon
  <2>1. /\ \A n : IsNum(v, n) <=> IsNum(a, n) \/ (Mux(c) /\ n = c.num)
        /\ Fresh(a) /\ (Mux(c) => ~IsNum(a, c.num)) => Fresh(v)
    BY <1>6, <2>0, Zenon
  <2> QED BY <1>4, <1>9, <2>1, Zenon
<1>11. ASSUME NEW m \in Nat, Counted(w, "DATA", m) PROVE Counted(a, "DATA", m)
  <2>1. CASE moved
    <3>1. m + (IF s.cmd = "DATA" THEN 1 ELSE 0) = m
      BY <1>2
    <3> QED BY <1>2, <1>5, <1>11, <2>1, <3>1, SendCounted
  <2>2. CASE ~moved
    BY <1>5, <1>11, <2>2
  <2> QED BY <2>1, <2>2
<1>12. ASSUME NEW m \in Nat, Counted(w, "DATA", m)
       PROVE  Counted(v, "DATA", m + (IF cmd = "DATA" THEN 1 ELSE 0))
  BY <1>4, <1>6, <1>11, <1>12, SendCounted
<1>13. NoMore(a, w, "SENDME")
  <2>1. CASE moved
    BY <1>2, <1>5, <2>1, NoMoreCells
  <2>2. CASE ~moved
    BY <1>5, <2>2, NoMoreCells
  <2> QED BY <2>1, <2>2
<1>14. NoMore(v, a, "SENDME")
  BY <1>4, <1>6, NoMoreCells
<1>15. NoMore(v, w, "SENDME")
  <2> SUFFICES ASSUME NEW m \in Nat, Counted(w, "SENDME", m)
               PROVE  \E n \in Nat : n <= m /\ Counted(v, "SENDME", n)
    BY DEF NoMore
  <2>1. PICK n1 \in Nat : n1 <= m /\ Counted(a, "SENDME", n1)
    BY <1>13 DEF NoMore
  <2>2. PICK n2 \in Nat : n2 <= n1 /\ Counted(v, "SENDME", n2)
    BY <1>14, <2>1 DEF NoMore
  <2> QED BY <2>1, <2>2
<1>16. v \in Seq(Cells)
  <2>1. Append(a, c) \in Seq(Cells)
    BY <1>4, <1>6, AppendProperties
  <2> QED BY <1>6, <2>1, Zenon
<1> QED BY <1>8, <1>10, <1>12, <1>15, <1>16, Zenon

(* The leg that a cell goes to is a leg of the set, and so is the one      *)
(* before it, which has carried all that was sent.                         *)
LEMMA ChosenLegs ==
  ASSUME IInv, NEW e \in Ends, legs[e] # {}, NEW from \in CurrentLeg(e),
         NEW new \in conflux_decide_next_circ(e)
  PROVE  /\ from \in legs[e] /\ last_seq_sent[e][from] = sent[e]
         /\ new \in legs[e] \cup {NoLeg}
<1>0. TypeOK /\ Leads(e) /\ legs[e] \subseteq Legs
  BY DEF IInv, TypeOK
<1>1. from \in legs[e]
  BY <1>0 DEF Leads, CurrentLeg, conflux_pick_first_leg, LowestRTT
<1>2. last_seq_sent[e][from] = sent[e]
  <2>1. CASE curr_leg[e] = NoLeg
    <3>1. /\ sent[e] = 0 /\ last_seq_sent[e][from] <= sent[e]
          /\ last_seq_sent[e][from] \in Nat
      BY <1>0, <1>1, <2>1 DEF Leads, TypeOK
    <3> QED BY <3>1
  <2>2. CASE curr_leg[e] # NoLeg
    BY <1>0, <2>2 DEF Leads, CurrentLeg
  <2> QED BY <2>1, <2>2
<1>3. new \in legs[e] \cup {NoLeg}
  <2>1. ASSUME new \in conflux_decide_circ_minrtt(e) PROVE new \in legs[e] \cup {NoLeg}
    BY <2>1 DEF conflux_decide_circ_minrtt, LowestRTT
  <2>2. ASSUME new \in conflux_decide_circ_lowrtt(e) PROVE new \in legs[e] \cup {NoLeg}
    BY <2>2 DEF conflux_decide_circ_lowrtt, LowestRTT
  <2> QED BY <2>1, <2>2 DEF conflux_decide_next_circ
<1> QED BY <1>1, <1>2, <1>3

(* A cell is sent: it gets the next number of its direction, and the leg   *)
(* it goes to takes over the count.                                        *)
LEMMA SendStep ==
  ASSUME IInv, NEW e \in Ends, NEW cmd \in {"DATA", "OTHER"},
         conflux_decide_circ_for_send(e, cmd)
  PROVE  IInv'
<1>0. PICK p \in Ends : p = Peer(e) /\ p # e /\ Peer(p) = e /\ \A f \in Ends : f = e \/ f = p
  BY PeerFacts
<1>1. TypeOK /\ legs[e] \subseteq Legs /\ legs[p] \subseteq Legs
  BY DEF IInv, TypeOK
<1>2. PICK from, new, to :
        /\ from \in CurrentLeg(e) /\ new \in conflux_decide_next_circ(e)
        /\ to = IF new = NoLeg THEN from ELSE new
        /\ curr_leg' = [curr_leg EXCEPT ![e] = to]
        /\ wire' = [wire EXCEPT
             ![e][to] = wire[e][to] \o conflux_send_switch_command(e, from, to)
                                    \o <<Cell(cmd, sent[e] + 1)>>]
        /\ last_seq_sent' = conflux_note_cell_sent(e, from, to)
        /\ inflight' = [inflight EXCEPT ![e][to] =
             IF cmd = "DATA" THEN inflight[e][to] + 1 ELSE inflight[e][to]]
        /\ legs[e] # {}
  BY DEF conflux_decide_circ_for_send
<1>3. /\ sent' = [sent EXCEPT ![e] = sent[e] + 1]
      /\ UNCHANGED <<legs, in_full_teardown, last_seq_recv, circ_rtts_usec, cwnd,
                     blocked, receiver>>
  BY DEF conflux_decide_circ_for_send
<1>4. /\ from \in legs[e] /\ to \in legs[e] /\ to \in Legs
      /\ last_seq_sent[e][from] = sent[e]
  BY <1>1, <1>2, ChosenLegs
<1>5. PICK t \in Nat : t = sent[e]
  BY <1>1 DEF TypeOK
<1>6. PICK x \in Nat : /\ x = t - last_seq_sent[e][to] /\ x <= t
                       /\ last_seq_sent[e][to] = t - x
  <2>1. last_seq_sent[e][to] \in Nat /\ last_seq_sent[e][to] <= t
    BY <1>1, <1>4, <1>5 DEF TypeOK, IInv, Leads
  <2> QED BY <2>1
<1>7. PICK w \in Seq(Cells) : w = wire[e][to]
  BY <1>1, <1>4 DEF TypeOK
<1>8. PICK switch : switch = conflux_send_switch_command(e, from, to)
  OBVIOUS
<1>9. PICK v : v = w \o switch \o <<Cell(cmd, t + 1)>>
  OBVIOUS
<1>10. switch = <<Cell("SWITCH", x)>> \/ (switch = <<>> /\ x = 0)
  <2>1. CASE from = to
    <3>1. x = t - t
      BY <1>4, <1>5, <1>6, <2>1
    <3> QED BY <1>8, <2>1, <3>1 DEF conflux_send_switch_command
  <2>2. CASE from # to
    BY <1>4, <1>5, <1>6, <1>8, <2>2 DEF conflux_send_switch_command
  <2> QED BY <2>1, <2>2
<1>11. /\ v \in Seq(Cells)
       /\ \A r : Numbered(w, r, t - x) => Numbered(v, r, t + 1)
       /\ \A n : IsNum(v, n) <=> IsNum(w, n) \/ n = t + 1
       /\ Fresh(w) /\ ~IsNum(w, t + 1) => Fresh(v)
       /\ \A m \in Nat : Counted(w, "DATA", m) =>
                           Counted(v, "DATA", m + (IF cmd = "DATA" THEN 1 ELSE 0))
       /\ NoMore(v, w, "SENDME")
  <2>1. Extends(v, w, x, t, cmd)
    BY <1>9, <1>10 DEF Extends
  <2> QED BY <1>6, <2>1, SentWire
<1>12. wire' = [wire EXCEPT ![e][to] = v]
  BY <1>2, <1>5, <1>7, <1>8, <1>9
<1>13. /\ wire' \in [Ends -> [Legs -> Seq(Cells)]] /\ wire'[e][to] = v
       /\ \A k \in Legs : k # to => wire'[e][k] = wire[e][k]
       /\ wire'[p] = wire[p]
  <2>1. PICK S : S = Seq(Cells)
    OBVIOUS
  <2>2. PICK g : g = [wire EXCEPT ![e][to] = v]
    OBVIOUS
  <2>3. wire \in [Ends -> [Legs -> S]] /\ v \in S
    BY <1>1, <1>11, <2>1, Zenon DEF TypeOK
  <2>4. /\ g \in [Ends -> [Legs -> S]] /\ g[e][to] = v
        /\ \A k \in Legs : k # to => g[e][k] = wire[e][k]
        /\ \A d \in Ends : d # e => g[d] = wire[d]
    BY <1>4, <2>2, <2>3, PerLegExcept
  <2> QED BY <1>0, <1>12, <2>1, <2>2, <2>4
<1>14. /\ last_seq_sent' \in [Ends -> [Legs -> Nat]] /\ last_seq_sent'[e][to] = t + 1
       /\ \A k \in Legs : k # to => last_seq_sent'[e][k] = last_seq_sent[e][k]
       /\ last_seq_sent'[p] = last_seq_sent[p]
  <2>1. last_seq_sent' = [last_seq_sent EXCEPT ![e][to] = t + 1]
    BY <1>2, <1>4, <1>5 DEF conflux_note_cell_sent
  <2>2. last_seq_sent \in [Ends -> [Legs -> Nat]]
    BY <1>1 DEF TypeOK
  <2> QED BY <1>0, <1>4, <2>1, <2>2, PerLegExcept
<1>15. PICK one \in {0, 1} : one = IF cmd = "DATA" THEN 1 ELSE 0
  OBVIOUS
<1>16. /\ inflight' \in [Ends -> [Legs -> Nat]] /\ inflight'[e][to] = inflight[e][to] + one
       /\ \A k \in Legs : k # to => inflight'[e][k] = inflight[e][k]
       /\ inflight'[p] = inflight[p]
  <2>1. inflight \in [Ends -> [Legs -> Nat]] /\ inflight[e][to] \in Nat
    BY <1>1, <1>4 DEF TypeOK
  <2>2. PICK m \in Nat : m = inflight[e][to] + one
    BY <2>1
  <2>3. inflight' = [inflight EXCEPT ![e][to] = m]
    <3>1. m = IF cmd = "DATA" THEN inflight[e][to] + 1 ELSE inflight[e][to]
      BY <1>15, <2>1, <2>2
    <3> QED BY <1>2, <3>1
  <2> QED BY <1>0, <1>4, <2>1, <2>2, <2>3, PerLegExcept
<1>17. /\ sent' \in [Ends -> Nat] /\ sent'[e] = t + 1 /\ sent'[p] = sent[p]
       /\ curr_leg' \in [Ends -> Legs \cup {NoLeg}] /\ curr_leg'[e] = to
       /\ curr_leg'[p] = curr_leg[p]
  <2>1. sent' \in [Ends -> Nat] /\ sent'[e] = t + 1 /\ sent'[p] = sent[p]
    <3>1. sent \in [Ends -> Nat] /\ sent' = [sent EXCEPT ![e] = t + 1]
      BY <1>1, <1>3, <1>5 DEF TypeOK
    <3> QED BY <1>0, <3>1
  <2>2. curr_leg \in [Ends -> Legs \cup {NoLeg}] /\ curr_leg' = [curr_leg EXCEPT ![e] = to]
    BY <1>1, <1>2 DEF TypeOK
  <2>3. /\ curr_leg' \in [Ends -> Legs \cup {NoLeg}] /\ curr_leg'[e] = to
        /\ curr_leg'[p] = curr_leg[p]
    BY <1>0, <1>4, <2>2
  <2> QED BY <2>1, <2>3
<1>18. TypeOK'
  <2>1. data' \in [Ends -> SUBSET Nat]
    <3>1. data' = [data EXCEPT ![e] = IF cmd = "DATA" THEN data[e] \cup {t + 1} ELSE data[e]]
      BY <1>5, <1>17 DEF conflux_decide_circ_for_send
    <3>2. data \in [Ends -> SUBSET Nat] /\ t + 1 \in Nat
      BY <1>1, <1>5 DEF TypeOK
    <3> QED BY <3>1, <3>2
  <2> QED BY <1>1, <1>3, <1>13, <1>14, <1>16, <1>17, <2>1 DEF TypeOK, receiver
<1>19. Lines(p)'
  <2>1. Lines(p) /\ Order(p)
    BY DEF IInv
  <2>2. QueuedSeqs(p)' = QueuedSeqs(p)
    BY <1>3 DEF QueuedSeqs, receiver
  <2>3. ASSUME NEW l \in legs[p], NEW n
        PROVE  /\ IsNum(wire'[e][l], n) => IsNum(wire[e][l], n) \/ (l = to /\ n = t + 1)
               /\ IsNum(wire[e][l], n) => n \in last_seq_delivered[p] + 1 .. t
    <3>1. CASE l = to
      BY <1>0, <1>5, <1>7, <1>11, <1>13, <2>1, <3>1 DEF Lines
    <3>2. CASE l # to
      BY <1>0, <1>1, <1>5, <1>13, <2>1, <3>2 DEF Lines
    <3> QED BY <3>1, <3>2
  <2>4. last_seq_delivered[p] \in Nat /\ t + 1 \notin last_seq_delivered[p] + 1 .. t
    BY <1>1 DEF TypeOK
  <2>5. t + 1 \notin QueuedSeqs(p) /\ t + 1 \in last_seq_delivered[p] + 1 .. t + 1
    <3>1. \A c \in ooo_q[p] : c.seq <= t
      BY <1>0, <1>5, <2>1 DEF Order
    <3>2. last_seq_delivered[p] <= t
      BY <1>0, <1>5, <2>1 DEF Order
    <3>3. \A c \in ooo_q[p] : c.seq \in Nat
      BY <1>1 DEF TypeOK
    <3>4. \A c \in ooo_q[p] : c.seq # t + 1
      BY <3>1, <3>3
    <3> QED BY <2>4, <3>2, <3>4 DEF QueuedSeqs
  <2>6. ASSUME NEW l \in legs[p]
        PROVE  /\ Numbered(wire'[e][l], last_seq_recv[p][l], last_seq_sent'[e][l])
               /\ Fresh(wire'[e][l])
    <3>0. /\ Numbered(wire[e][l], last_seq_recv[p][l], last_seq_sent[e][l])
          /\ Fresh(wire[e][l])
      BY <1>0, <2>1 DEF Lines
    <3>1. CASE l = to
      <4>1. ~IsNum(w, t + 1)
        BY <1>7, <2>3, <2>4, <3>1
      <4> QED BY <1>6, <1>7, <1>11, <1>13, <1>14, <3>0, <3>1, <4>1
    <3>2. CASE l # to
      BY <1>1, <1>13, <1>14, <3>0, <3>2
    <3> QED BY <3>1, <3>2
  <2>7. ASSUME NEW l \in legs[p], NEW n, IsNum(wire'[e][l], n)
        PROVE  /\ n \in last_seq_delivered[p] + 1 .. t + 1 /\ n \notin QueuedSeqs(p)
               /\ \A k \in legs[p] \ {l} : ~IsNum(wire'[e][k], n)
    <3>1. CASE IsNum(wire[e][l], n)
      <4>a. n \in last_seq_delivered[p] + 1 .. t
        BY <2>3, <3>1
      <4>1. n \in last_seq_delivered[p] + 1 .. t /\ n \in last_seq_delivered[p] + 1 .. t + 1
        BY <2>4, <4>a
      <4>2. /\ n \notin QueuedSeqs(p)
            /\ \A k \in legs[p] \ {l} : ~IsNum(wire[e][k], n)
        BY <1>0, <2>1, <3>1 DEF Lines
      <4>3. n # t + 1
        BY <2>4, <4>1
      <4> QED BY <2>3, <4>1, <4>2, <4>3
    <3>2. CASE l = to /\ n = t + 1
      <4>1. \A k \in legs[p] \ {l} : ~IsNum(wire[e][k], n)
        BY <2>3, <2>4, <3>2
      <4> QED BY <2>3, <2>5, <3>2, <4>1
    <3> QED BY <2>3, <2>7, <3>1, <3>2
  <2>8. UNCHANGED <<legs, last_seq_recv, last_seq_delivered>>
    BY <1>3 DEF receiver
  <2> QED BY ZenonT(60), <1>0, <1>17, <2>2, <2>6, <2>7, <2>8 DEF Lines
<1>20. Lines(e)'
  <2>1. Lines(e) /\ UNCHANGED <<legs, last_seq_delivered[e], ooo_q[e], sent[p]>>
    BY <1>3, <1>17 DEF IInv, receiver
  <2>2. \A l \in legs'[e] : /\ wire'[p][l] = wire[p][l]
                            /\ last_seq_recv'[e][l] = last_seq_recv[e][l]
                            /\ last_seq_sent'[p][l] = last_seq_sent[p][l]
    BY <1>3, <1>13, <1>14
  <2> QED BY <1>0, <1>1, <2>1, <2>2, LinesKept
<1>21. ASSUME NEW f \in Ends PROVE Order(f)'
  <2>1. Order(f) /\ sent[Peer(f)] \in Nat /\ sent'[Peer(f)] >= sent[Peer(f)]
    <3>1. sent[e] \in Nat /\ sent[p] \in Nat
      BY <1>1 DEF TypeOK
    <3>2. sent'[e] >= sent[e] /\ sent'[p] >= sent[p]
      BY <1>5, <1>17, <3>1
    <3> QED BY <1>0, <3>1, <3>2 DEF IInv
  <2>2. last_seq_delivered[f] \in Nat /\ sent'[Peer(f)] \in Nat
    BY <1>1, <1>17, PeerFacts DEF TypeOK
  <2>3. \A c \in ooo_q[f] : c.seq \in Nat
    BY <1>1 DEF TypeOK
  <2>4. UNCHANGED <<last_seq_delivered, ooo_q, delivered, bug>>
    BY <1>3 DEF receiver
  <2>5. \A c \in ooo_q[f] : c.seq <= sent'[Peer(f)]
    BY <2>1, <2>2, <2>3 DEF Order
  <2>6. last_seq_delivered[f] <= sent'[Peer(f)]
    BY <2>1, <2>2 DEF Order
  <2> QED BY <2>1, <2>4, <2>5, <2>6 DEF Order
<1>22. ASSUME NEW f \in Ends PROVE Leads(f)'
  <2>1. Leads(f)
    BY DEF IInv
  <2>2. CASE f = p
    BY <1>3, <1>14, <1>17, <2>1, <2>2 DEF Leads
  <2>3. CASE f = e
    <3>1. \A l \in Legs : last_seq_sent'[e][l] <= t + 1
      <4> SUFFICES ASSUME NEW l \in Legs PROVE last_seq_sent'[e][l] <= t + 1
        OBVIOUS
      <4>1. last_seq_sent[e][l] <= t /\ last_seq_sent[e][l] \in Nat
        BY <1>1, <1>5, <2>1, <2>3 DEF Leads, TypeOK
      <4>2. CASE l = to
        BY <1>14, <4>2
      <4>3. CASE l # to
        <5>1. last_seq_sent'[e][l] = last_seq_sent[e][l]
          BY <1>14, <4>3
        <5> QED BY <4>1, <5>1
      <4> QED BY <4>2, <4>3
    <3>2. to # NoLeg
      BY <1>4, ConfluxConstants DEF NoLeg
    <3> QED BY <1>3, <1>4, <1>14, <1>17, <2>3, <3>1, <3>2 DEF Leads
  <2> QED BY <1>0, <2>2, <2>3
<1>23. ASSUME NEW f \in Ends, NEW k \in legs'[f] PROVE Acked(f, k)'
  <2>1. k \in legs[f] /\ k \in Legs /\ Acked(f, k)
    BY <1>1, <1>3 DEF IInv, Acks, TypeOK
  <2>2. /\ unacked' = unacked /\ inflight[f][k] \in Nat /\ inflight'[f][k] \in Nat
        /\ wire[f][k] \in Seq(Cells) /\ wire[Peer(f)][k] \in Seq(Cells)
    <3>1. unacked' = unacked
      BY <1>3 DEF receiver
    <3>2. inflight[f][k] \in Nat /\ inflight'[f][k] \in Nat
      BY <1>1, <1>16, <2>1 DEF TypeOK
    <3>3. wire[f][k] \in Seq(Cells) /\ wire[Peer(f)][k] \in Seq(Cells)
      BY <1>1, <2>1, PeerFacts DEF TypeOK
    <3> QED BY <3>1, <3>2, <3>3
  <2>3. CASE f = e /\ k = to
    <3>1. PICK d \in Nat, s \in Nat :
            /\ Counted(wire[e][k], "DATA", d) /\ Counted(wire[p][k], "SENDME", s)
            /\ inflight[e][k] >= d + unacked[p][k] + sendme_inc * s
      BY <1>0, <2>1, <2>3 DEF Acked
    <3>2. Counted(wire'[e][k], "DATA", d + one) /\ Counted(wire'[p][k], "SENDME", s)
      BY <1>7, <1>11, <1>13, <1>15, <2>3, <3>1
    <3>3. /\ unacked[p][k] \in Nat /\ sendme_inc * s \in Nat /\ d + one \in Nat
      <4>1. sendme_inc \in Nat
        BY ConfluxConstants
      <4>2. unacked[p][k] \in Nat
        BY <1>1, <2>1, <4>1 DEF TypeOK
      <4>3. sendme_inc * s \in Nat
        <5>1. PICK inc \in Nat : inc = sendme_inc
          BY <4>1
        <5>2. inc * s \in Nat
          BY ProductMono
        <5> QED BY <5>1, <5>2
      <4>4. d + one \in Nat
        OBVIOUS
      <4> QED BY <4>2, <4>3, <4>4
    <3>4. inflight'[e][k] >= (d + one) + unacked'[p][k] + sendme_inc * s
      <4>1. PICK b \in Nat : b = sendme_inc * s
        BY <3>3
      <4>2. PICK u \in Nat : u = unacked[p][k] /\ u = unacked'[p][k]
        BY <2>2, <3>3
      <4>3. PICK i \in Nat : i = inflight[e][k] /\ inflight'[e][k] = i + one
        BY <1>16, <2>2, <2>3
      <4>4. i >= d + u + b
        BY <3>1, <4>1, <4>2, <4>3
      <4>5. i + one >= (d + one) + u + b
        BY <4>4
      <4> QED BY <4>1, <4>2, <4>3, <4>5
    <3>5. /\ Counted(wire'[e][k], "DATA", d + one) /\ Counted(wire'[p][k], "SENDME", s)
          /\ inflight'[e][k] >= (d + one) + unacked'[p][k] + sendme_inc * s
      BY <3>2, <3>4
    <3> QED BY <1>0, <2>3, <3>3, <3>5, Zenon DEF Acked
  <2>4. CASE f = e /\ k # to
    <3>1. /\ inflight'[f][k] = inflight[f][k] /\ wire'[f][k] = wire[f][k]
          /\ wire'[Peer(f)][k] = wire[Peer(f)][k]
      BY <1>0, <1>13, <1>16, <2>1, <2>4
    <3>2. inflight'[f][k] >= inflight[f][k]
      BY <2>2, <3>1
    <3>3. NoMore(wire'[f][k], wire[f][k], "DATA")
          /\ NoMore(wire'[Peer(f)][k], wire[Peer(f)][k], "SENDME")
      BY <2>2, <3>1, NoMoreCells
    <3> QED BY <1>1, <2>1, <2>2, <3>2, <3>3, AckedKept
  <2>5. CASE f = p
    <3>1. inflight'[f][k] = inflight[f][k] /\ wire'[f][k] = wire[f][k]
      BY <1>13, <1>16, <2>5
    <3>2. inflight'[f][k] >= inflight[f][k]
      BY <2>2, <3>1
    <3>3. NoMore(wire'[f][k], wire[f][k], "DATA")
      BY <2>2, <3>1, NoMoreCells
    <3>4. NoMore(wire'[e][k], wire[e][k], "SENDME")
      <4>1. CASE k = to
        BY <1>7, <1>11, <1>13, <4>1
      <4>2. CASE k # to
        <5>1. wire'[e][k] = wire[e][k] /\ wire[e][k] \in Seq(Cells)
          BY <1>0, <1>13, <2>1, <2>2, <2>5, <4>2
        <5> QED BY <5>1, NoMoreCells
      <4> QED BY <4>1, <4>2
    <3> QED BY <1>0, <1>1, <2>1, <2>2, <2>5, <3>2, <3>3, <3>4, AckedKept
  <2> QED BY <1>0, <2>3, <2>4, <2>5
<1>24. ASSUME NEW f \in Ends PROVE Lines(f)'
  BY <1>0, <1>19, <1>20
<1> QED BY <1>18, <1>21, <1>22, <1>23, <1>24 DEF IInv, Acks

(* The queue supplies the cells behind the one that is delivered, up to    *)
(* the next gap: each comes out as the number it was sent as.              *)
LEMMA DeliverFacts ==
  ASSUME TypeOK, NEW e \in Ends, Order(e), NEW seq \in Nat,
         seq = last_seq_delivered[e] + 1, seq <= sent[Peer(e)],
         DeliverInOrder(e, seq, seq)
  PROVE  \E n \in Nat :
           /\ n >= seq /\ n <= sent[Peer(e)]
           /\ \A k \in seq + 1 .. n : k \in QueuedSeqs(e)
           /\ n + 1 \notin QueuedSeqs(e)
           /\ last_seq_delivered' = [last_seq_delivered EXCEPT ![e] = n]
           /\ delivered' = [delivered EXCEPT ![e] = [i \in 1 .. n |-> i]]
           /\ ooo_q' = [ooo_q EXCEPT ![e] = {c \in ooo_q[e] : c.seq > n}]
<1>1. Cardinality(ooo_q[e]) \in Nat
  BY FS_CardinalityType DEF Order
<1>2. PICK n \in seq .. seq + Cardinality(ooo_q[e]) :
        /\ conflux_dequeue_cell(e, seq, n)
        /\ last_seq_delivered' = [last_seq_delivered EXCEPT ![e] = n]
        /\ delivered' = [delivered EXCEPT ![e] =
             Append(delivered[e], seq) \o [i \in 1 .. n - seq |-> Queued(e, seq + i)]]
        /\ ooo_q' = [ooo_q EXCEPT ![e] = {c \in ooo_q[e] : c.seq > n}]
  BY DEF DeliverInOrder
<1>3. n \in Nat /\ n >= seq /\ n - seq \in Nat
  BY <1>1, <1>2
<1>4. /\ \A k \in seq + 1 .. n : k \in QueuedSeqs(e)
      /\ n + 1 \notin QueuedSeqs(e)
  BY <1>2 DEF conflux_dequeue_cell
<1>5. ASSUME NEW k \in QueuedSeqs(e)
      PROVE  Queued(e, k) = k /\ k <= sent[Peer(e)]
  <2>1. PICK c : c = CHOOSE q \in ooo_q[e] : q.seq = k
    OBVIOUS
  <2>2. c \in ooo_q[e] /\ c.seq = k
    BY <1>5, <2>1 DEF QueuedSeqs
  <2>3. Queued(e, k) = c.id
    BY <2>1 DEF Queued
  <2> QED BY <2>2, <2>3 DEF Order
<1>6. n <= sent[Peer(e)]
  <2>1. CASE n = seq
    BY <2>1
  <2>2. CASE n # seq
    <3>1. n \in seq + 1 .. n
      BY <1>3, <2>2
    <3> QED BY <1>4, <1>5, <3>1
  <2> QED BY <2>1, <2>2
<1>7. PICK q : q = [i \in 1 .. n - seq |-> seq + i]
  OBVIOUS
<1>8. [i \in 1 .. n - seq |-> Queued(e, seq + i)] = q
  <2>1. ASSUME NEW i \in 1 .. n - seq PROVE Queued(e, seq + i) = seq + i
    <3>1. seq + i \in seq + 1 .. n
      BY <1>3
    <3> QED BY <1>4, <1>5, <3>1
  <2> QED BY <1>7, <2>1
<1>9. PICK d : d = Append(delivered[e], seq)
  OBVIOUS
<1>10. d \in Seq(Nat) /\ Len(d) = seq /\ \A i \in 1 .. seq : d[i] = i
  <2>1. PICK m \in Nat : m = last_seq_delivered[e] /\ seq = m + 1
    BY DEF TypeOK
  <2>2. delivered[e] \in Seq(Nat) /\ delivered[e] = [i \in 1 .. m |-> i]
    BY <2>1 DEF TypeOK, Order
  <2>3. Len(delivered[e]) = m /\ \A i \in 1 .. m : delivered[e][i] = i
    BY <2>1, <2>2
  <2>4. /\ d \in Seq(Nat) /\ Len(d) = m + 1 /\ d[m + 1] = seq
        /\ \A i \in 1 .. m : d[i] = delivered[e][i]
    BY <1>9, <2>2, <2>3, AppendProperties
  <2>5. ASSUME NEW i \in 1 .. seq PROVE d[i] = i
    <3>1. CASE i \in 1 .. m
      BY <2>3, <2>4, <3>1
    <3>2. CASE i = m + 1
      BY <2>1, <2>4, <3>2
    <3> QED BY <2>1, <3>1, <3>2
  <2>6. d \in Seq(Nat) /\ Len(d) = seq
    BY <2>1, <2>4
  <2> QED BY <2>5, <2>6
<1>11. q \in Seq(Nat) /\ Len(q) = n - seq /\ \A i \in 1 .. n - seq : q[i] = seq + i
  <2>1. \A i \in 1 .. n - seq : seq + i \in Nat
    OBVIOUS
  <2> QED BY SMTT(30), <1>3, <1>7, <2>1
<1>12. d \o q = [i \in 1 .. n |-> i]
  <2>1. /\ d \o q \in Seq(Nat) /\ Len(d \o q) = Len(d) + Len(q)
        /\ \A i \in 1 .. Len(d) + Len(q) :
             (d \o q)[i] = IF i <= Len(d) THEN d[i] ELSE q[i - Len(d)]
    BY <1>10, <1>11, ConcatProperties, Zenon
  <2>2. PICK r : r = d \o q
    OBVIOUS
  <2>3. Len(d) + Len(q) = n
    BY <1>3, <1>10, <1>11
  <2>4. /\ r \in Seq(Nat) /\ Len(r) = n
        /\ \A i \in 1 .. n : r[i] = IF i <= seq THEN d[i] ELSE q[i - seq]
    BY <1>10, <2>1, <2>2, <2>3, Zenon
  <2>5. ASSUME NEW i \in 1 .. n PROVE r[i] = i
    <3>1. CASE i <= seq
      <4>1. i \in 1 .. seq /\ r[i] = d[i]
        BY <1>3, <2>4, <3>1
      <4> QED BY <1>10, <4>1
    <3>2. CASE ~(i <= seq)
      <4>1. i - seq \in 1 .. n - seq /\ seq + (i - seq) = i
        BY <1>3, <3>2
      <4> QED BY <1>11, <2>4, <3>2, <4>1
    <3> QED BY <3>1, <3>2
  <2>6. r = [i \in 1 .. n |-> r[i]]
    BY <2>4
  <2>7. r = [i \in 1 .. n |-> i]
    BY <2>5, <2>6
  <2> QED BY <2>2, <2>7
<1>13. delivered' = [delivered EXCEPT ![e] = [i \in 1 .. n |-> i]]
  BY <1>2, <1>8, <1>9, <1>12
<1> QED BY <1>2, <1>3, <1>4, <1>6, <1>13

(* A cell of the stream that is handled has the number it was sent as,     *)
(* which is new; it is delivered with what the queue has behind it, or     *)
(* joins the queue.                                                        *)
LEMMA CellFacts ==
  ASSUME IInv, NEW e \in Ends, NEW l \in Legs, conflux_process_cell(e, l),
         NEW h, h = Head(wire[Peer(e)][l]), NEW seq, seq = last_seq_recv[e][l] + 1
  PROVE  /\ l \in legs[e] /\ wire[Peer(e)][l] # <<>> /\ h \in Cells
         /\ Mux(h) /\ h.num = seq /\ seq \in Nat
         /\ seq \in last_seq_delivered[e] + 1 .. sent[Peer(e)] /\ seq \notin QueuedSeqs(e)
         /\ unacked' = [unacked EXCEPT ![e][l] = Unacked(e, l, h.cmd) % sendme_inc]
         /\ last_seq_recv' = [last_seq_recv EXCEPT ![e][l] = seq]
         /\ bug' = bug
         /\ wire' = sendme_circuit_consider_sending(e, l, h.cmd)
         /\ UNCHANGED <<legs, in_full_teardown, curr_leg, last_seq_sent, schedule, sent, data>>
         /\ IF seq = last_seq_delivered[e] + 1
            THEN DeliverInOrder(e, seq, seq)
            ELSE /\ ooo_q' = [ooo_q EXCEPT ![e] = ooo_q[e] \cup {[seq |-> seq, id |-> seq]}]
                 /\ UNCHANGED <<last_seq_delivered, delivered>>
<1> DEFINE p == Peer(e)
<1>1. /\ l \in legs[e] /\ wire[p][l] # <<>> /\ h.cmd \in {"DATA", "OTHER"} /\ Mux(h)
  BY DEF conflux_process_cell, CellReady, Mux
<1>2. TypeOK /\ Lines(e) /\ Order(e) /\ p \in Ends /\ wire[p][l] \in Seq(Cells)
  BY ZenonT(60), PeerFacts DEF IInv, TypeOK
<1>3. h \in Cells /\ h.num = seq /\ seq \in Nat
  <2>1. Numbered(wire[p][l], last_seq_recv[e][l], last_seq_sent[p][l])
    BY <1>1, <1>2 DEF Lines
  <2>2. h.num = last_seq_recv[e][l] + 1
    BY <1>1, <1>2, <2>1, TakeNumbered
  <2>3. last_seq_recv[e][l] \in Nat
    BY <1>2 DEF TypeOK
  <2>4. h \in Cells
    BY <1>1, <1>2, TakeFresh
  <2> QED BY <2>2, <2>3, <2>4
<1>4. IsNum(wire[p][l], h.num)
  BY <1>1, <1>2, TakeFresh
<1>5. seq \in last_seq_delivered[e] + 1 .. sent[p] /\ seq \notin QueuedSeqs(e)
  BY <1>1, <1>2, <1>3, <1>4 DEF Lines
<1>6. last_seq_delivered[e] \in Nat
  BY <1>2 DEF TypeOK
<1>7. ~(seq < last_seq_delivered[e] + 1)
      /\ (seq # last_seq_delivered[e] + 1 => seq > last_seq_delivered[e] + 1)
  BY <1>3, <1>5, <1>6
<1>8. /\ unacked' = [unacked EXCEPT ![e][l] = Unacked(e, l, h.cmd) % sendme_inc]
      /\ last_seq_recv' = [last_seq_recv EXCEPT ![e][l] = seq]
      /\ UNCHANGED <<last_seq_sent, schedule, sent, data>>
  BY DEF conflux_process_cell
<1>9. /\ wire' = sendme_circuit_consider_sending(e, l, h.cmd)
      /\ UNCHANGED <<legs, in_full_teardown, curr_leg>>
  BY <1>7 DEF conflux_process_cell
<1>10. bug' = bug
  <2>1. bug' = [bug EXCEPT ![e] = bug[e] \/ seq < last_seq_delivered[e] + 1]
    BY DEF conflux_process_cell
  <2>2. (bug[e] \/ seq < last_seq_delivered[e] + 1) = bug[e]
    <3>1. bug[e] \in BOOLEAN
      BY <1>2 DEF TypeOK
    <3> QED BY <1>7, <3>1, Zenon
  <2>3. bug \in [Ends -> BOOLEAN]
    BY <1>2 DEF TypeOK
  <2> QED BY <2>1, <2>2, <2>3, Zenon
<1>11. CASE seq = last_seq_delivered[e] + 1
  <2>1. DeliverInOrder(e, seq, seq)
    BY <1>3, <1>11 DEF conflux_process_cell
  <2> QED BY <1>1, <1>3, <1>5, <1>8, <1>9, <1>10, <1>11, <2>1
<1>12. CASE seq # last_seq_delivered[e] + 1
  <2>1. /\ ooo_q' = [ooo_q EXCEPT ![e] = ooo_q[e] \cup {[seq |-> seq, id |-> h.num]}]
        /\ UNCHANGED <<last_seq_delivered, delivered>>
    BY <1>7, <1>12 DEF conflux_process_cell
  <2>2. ooo_q' = [ooo_q EXCEPT ![e] = ooo_q[e] \cup {[seq |-> seq, id |-> seq]}]
    BY <1>3, <2>1
  <2> QED BY <1>1, <1>3, <1>5, <1>8, <1>9, <1>10, <1>12, <2>1, <2>2
<1> QED BY <1>11, <1>12

(* The wires once a cell of the stream is taken and acknowledged.          *)
LEMMA CellWires ==
  ASSUME TypeOK, NEW e \in Ends, NEW l \in Legs, wire[Peer(e)][l] # <<>>, NEW cmd,
         wire' = sendme_circuit_consider_sending(e, l, cmd)
  PROVE  /\ wire' \in [Ends -> [Legs -> Seq(Cells)]]
         /\ wire'[Peer(e)][l] = Tail(wire[Peer(e)][l])
         /\ wire'[e][l] = IF Unacked(e, l, cmd) >= sendme_inc
                          THEN Append(wire[e][l], Cell("SENDME", 0)) ELSE wire[e][l]
         /\ \A f \in Ends, k \in Legs : k # l => wire'[f][k] = wire[f][k]
<1>0. PICK p \in Ends : p = Peer(e) /\ p # e /\ \A f \in Ends : f = e \/ f = p
  BY PeerFacts
<1>1. PICK S : S = Seq(Cells)
  OBVIOUS
<1>2. PICK v : v = Tail(wire[p][l])
  OBVIOUS
<1>3. PICK u : u = IF Unacked(e, l, cmd) >= sendme_inc
                   THEN Append(wire[e][l], Cell("SENDME", 0)) ELSE wire[e][l]
  OBVIOUS
<1>4. /\ wire \in [Ends -> [Legs -> S]] /\ wire[p][l] \in Seq(Cells) /\ wire[e][l] \in Seq(Cells)
  BY SMTT(30), <1>0, <1>1 DEF TypeOK
<1>5. v \in S /\ u \in S
  <2>1. v \in Seq(Cells)
    BY <1>0, <1>2, <1>4, TakeFresh
  <2>2. Cell("SENDME", 0) \in Cells
    BY DEF Cell, Cells
  <2>3. Append(wire[e][l], Cell("SENDME", 0)) \in Seq(Cells)
    BY <1>4, <2>2, AppendProperties
  <2>4. u \in Seq(Cells)
    BY <1>3, <1>4, <2>3
  <2> QED BY <1>1, <2>1, <2>4, Zenon
<1>6. PICK a : a = [wire EXCEPT ![p][l] = v]
  OBVIOUS
<1>7. /\ a \in [Ends -> [Legs -> S]] /\ a[p][l] = v
      /\ \A k \in Legs : k # l => a[p][k] = wire[p][k]
      /\ \A d \in Ends : d # p => a[d] = wire[d]
  BY <1>4, <1>5, <1>6, PerLegExcept
<1>8. PICK g : g = [a EXCEPT ![e][l] = u]
  OBVIOUS
<1>9. /\ g \in [Ends -> [Legs -> S]] /\ g[e][l] = u
      /\ \A k \in Legs : k # l => g[e][k] = a[e][k]
      /\ \A d \in Ends : d # e => g[d] = a[d]
  BY <1>5, <1>7, <1>8, PerLegExcept
<1>10. wire' = g
  <2>1. a[e][l] = wire[e][l]
    BY <1>0, <1>7
  <2>2. wire' = [a EXCEPT ![e][l] = IF Unacked(e, l, cmd) >= sendme_inc
                   THEN Append(a[e][l], Cell("SENDME", 0)) ELSE a[e][l]]
    BY <1>0, <1>2, <1>6 DEF sendme_circuit_consider_sending
  <2> QED BY <1>3, <1>8, <2>1, <2>2
<1>11. ASSUME NEW f \in Ends, NEW k \in Legs, k # l PROVE g[f][k] = wire[f][k]
  BY <1>0, <1>7, <1>9, <1>11
<1>12. g[p][l] = v
  BY <1>0, <1>7, <1>9
<1> QED BY SMTT(30), <1>0, <1>1, <1>2, <1>3, <1>9, <1>10, <1>11, <1>12, Zenon

(* A data cell that was in flight is counted as received, and a whole      *)
(* increment of them as acknowledged.                                      *)
LEMMA AckedMoves ==
  ASSUME TypeOK, NEW e \in Ends, NEW l \in legs[Peer(e)], Acked(Peer(e), l),
         wire[Peer(e)][l] # <<>>, NEW h, h = Head(wire[Peer(e)][l]),
         wire' = sendme_circuit_consider_sending(e, l, h.cmd),
         unacked'[e][l] = Unacked(e, l, h.cmd) % sendme_inc,
         inflight'[Peer(e)][l] = inflight[Peer(e)][l]
  PROVE  Acked(Peer(e), l)'
<1>0. PICK p \in Ends : p = Peer(e) /\ p # e /\ Peer(p) = e
  BY PeerFacts
<1>1. l \in Legs /\ wire[p][l] \in Seq(Cells) /\ wire[e][l] \in Seq(Cells)
  BY <1>0 DEF TypeOK
<1>2. PICK d \in Nat, s \in Nat :
        /\ Counted(wire[p][l], "DATA", d) /\ Counted(wire[e][l], "SENDME", s)
        /\ inflight[p][l] >= d + unacked[e][l] + sendme_inc * s
  BY <1>0 DEF Acked
<1>3. PICK one \in {0, 1} : one = IF h.cmd = "DATA" THEN 1 ELSE 0
  OBVIOUS
<1>4. /\ wire'[p][l] = Tail(wire[p][l])
      /\ wire'[e][l] = IF Unacked(e, l, h.cmd) >= sendme_inc
                       THEN Append(wire[e][l], Cell("SENDME", 0)) ELSE wire[e][l]
  BY <1>0, <1>1, CellWires
<1>5. d - one \in Nat /\ Counted(wire'[p][l], "DATA", d - one)
  <2>1. /\ d - (IF h.cmd = "DATA" THEN 1 ELSE 0) \in Nat
        /\ Counted(Tail(wire[p][l]), "DATA", d - (IF h.cmd = "DATA" THEN 1 ELSE 0))
    BY <1>0, <1>1, <1>2, TakeCounted
  <2> QED BY <1>3, <1>4, <2>1
<1>6. PICK b \in Nat : b = sendme_inc /\ b # 0
  BY ConfluxConstants
<1>7. PICK u \in 0 .. b - 1 : u = unacked[e][l]
  BY <1>1, <1>6 DEF TypeOK
<1>8. Unacked(e, l, h.cmd) = u + one
  BY <1>3, <1>7 DEF Unacked
<1>9. PICK i \in Nat : i = inflight[p][l]
  BY <1>0, <1>1 DEF TypeOK
<1>10. PICK bs \in Nat : bs = b * s
  BY ProductMono
<1>11. i >= d + u + bs
  BY <1>2, <1>6, <1>7, <1>9, <1>10
<1>12. CASE u + one >= b
  <2>1. u + one = b /\ one = 1
    BY <1>12
  <2>2. (u + one) % b = 0
    BY <1>6, <2>1
  <2>3. wire'[e][l] = Append(wire[e][l], Cell("SENDME", 0))
    BY <1>4, <1>6, <1>8, <1>12
  <2>4. Counted(wire'[e][l], "SENDME", s + 1)
    <3>1. Cell("SENDME", 0) \in Cells /\ Cell("SENDME", 0).cmd = "SENDME"
      BY DEF Cell, Cells
    <3>2. s + (IF Cell("SENDME", 0).cmd = "SENDME" THEN 1 ELSE 0) = s + 1
      BY <3>1
    <3> QED BY <1>1, <1>2, <2>3, <3>1, <3>2, SendCounted
  <2>5. b * (s + 1) = bs + b
    BY <1>10
  <2>6. i >= (d - one) + 0 + (bs + b)
    BY <1>11, <2>1
  <2>7. inflight'[p][l] >= (d - one) + unacked'[e][l] + sendme_inc * (s + 1)
    BY <1>0, <1>6, <1>8, <1>9, <2>2, <2>5, <2>6
  <2>8. s + 1 \in Nat
    OBVIOUS
  <2> QED BY <1>0, <1>5, <2>4, <2>7, <2>8, Zenon DEF Acked
<1>13. CASE ~(u + one >= b)
  <2>1. (u + one) % b = u + one
    BY <1>6, <1>13
  <2>2. wire'[e][l] = wire[e][l]
    BY <1>4, <1>6, <1>8, <1>13
  <2>3. i >= (d - one) + (u + one) + bs
    BY <1>11
  <2>4. inflight'[p][l] >= (d - one) + unacked'[e][l] + sendme_inc * s
    BY <1>0, <1>6, <1>8, <1>9, <1>10, <2>1, <2>3
  <2>5. Counted(wire'[e][l], "SENDME", s)
    BY <1>2, <2>2
  <2> QED BY <1>0, <1>5, <2>4, <2>5, Zenon DEF Acked
<1> QED BY <1>12, <1>13

(* After a cell of the stream, in order or not: what is delivered is a     *)
(* longer prefix, and the queue is behind a gap again.                     *)
LEMMA CellOutcome ==
  ASSUME IInv, NEW e \in Ends, NEW l \in Legs, conflux_process_cell(e, l)
  PROVE  \E n \in Nat, q \in SUBSET [seq : Nat, id : Nat] :
           /\ last_seq_delivered' = [last_seq_delivered EXCEPT ![e] = n]
           /\ delivered' = [delivered EXCEPT ![e] = [i \in 1 .. n |-> i]]
           /\ ooo_q' = [ooo_q EXCEPT ![e] = q]
           /\ n >= last_seq_delivered[e] /\ n <= sent[Peer(e)]
           /\ IsFiniteSet(q)
           /\ \A c \in q : c.seq = c.id /\ c.seq > n + 1 /\ c.seq <= sent[Peer(e)]
           /\ \A m \in last_seq_delivered[e] + 1 .. sent[Peer(e)] :
                m \notin QueuedSeqs(e) /\ m # last_seq_recv[e][l] + 1 =>
                  m > n /\ \A c \in q : c.seq # m
<1>0. TypeOK /\ Order(e) /\ Peer(e) \in Ends
  BY PeerFacts DEF IInv
<1>1. PICK h, seq : h = Head(wire[Peer(e)][l]) /\ seq = last_seq_recv[e][l] + 1
  OBVIOUS
<1>2. /\ seq \in Nat
      /\ seq \in last_seq_delivered[e] + 1 .. sent[Peer(e)] /\ seq \notin QueuedSeqs(e)
      /\ IF seq = last_seq_delivered[e] + 1
         THEN DeliverInOrder(e, seq, seq)
         ELSE /\ ooo_q' = [ooo_q EXCEPT ![e] = ooo_q[e] \cup {[seq |-> seq, id |-> seq]}]
              /\ UNCHANGED <<last_seq_delivered, delivered>>
  BY <1>1, CellFacts
<1>3. PICK o \in Nat, t \in Nat : o = last_seq_delivered[e] /\ t = sent[Peer(e)]
  BY <1>0 DEF TypeOK
<1>4. /\ ooo_q[e] \in SUBSET [seq : Nat, id : Nat] /\ IsFiniteSet(ooo_q[e])
      /\ \A c \in ooo_q[e] : c.seq \in Nat /\ c.seq = c.id /\ c.seq > o + 1 /\ c.seq <= t
      /\ \A m : m \notin QueuedSeqs(e) => \A c \in ooo_q[e] : c.seq # m
  BY SMTT(30), <1>0, <1>3 DEF TypeOK, Order, QueuedSeqs
<1>5. CASE seq = o + 1
  <2>1. PICK n \in Nat :
          /\ n >= seq /\ n <= t
          /\ \A k \in seq + 1 .. n : k \in QueuedSeqs(e)
          /\ n + 1 \notin QueuedSeqs(e)
          /\ last_seq_delivered' = [last_seq_delivered EXCEPT ![e] = n]
          /\ delivered' = [delivered EXCEPT ![e] = [i \in 1 .. n |-> i]]
          /\ ooo_q' = [ooo_q EXCEPT ![e] = {c \in ooo_q[e] : c.seq > n}]
    BY SMTT(30), <1>0, <1>2, <1>3, <1>5, DeliverFacts
  <2>2. PICK q : q = {c \in ooo_q[e] : c.seq > n}
    OBVIOUS
  <2>3. q \subseteq ooo_q[e] /\ q \in SUBSET [seq : Nat, id : Nat] /\ IsFiniteSet(q)
    BY <1>4, <2>2, FS_Subset
  <2>4. ASSUME NEW c \in q PROVE c.seq = c.id /\ c.seq > n + 1 /\ c.seq <= t
    <3>1. c \in ooo_q[e] /\ c.seq > n /\ c.seq # n + 1
      BY <1>4, <2>1, <2>2
    <3> QED BY <1>4, <2>1, <3>1
  <2>5. ASSUME NEW m \in o + 1 .. t, m \notin QueuedSeqs(e), m # seq
        PROVE  m > n /\ \A c \in q : c.seq # m
    <3>1. m \notin seq + 1 .. n
      BY <2>1, <2>5
    <3>2. m > n
      BY <1>5, <2>1, <2>5, <3>1
    <3> QED BY <1>4, <2>3, <2>5, <3>2
  <2>6. n >= o
    BY <1>5, <2>1
  <2>7. ooo_q' = [ooo_q EXCEPT ![e] = q]
    BY <2>1, <2>2
  <2>8. /\ n >= last_seq_delivered[e] /\ n <= sent[Peer(e)]
        /\ \A c \in q : c.seq = c.id /\ c.seq > n + 1 /\ c.seq <= sent[Peer(e)]
    BY <1>3, <2>1, <2>4, <2>6
  <2>9. \A m \in last_seq_delivered[e] + 1 .. sent[Peer(e)] :
          m \notin QueuedSeqs(e) /\ m # last_seq_recv[e][l] + 1 =>
            m > n /\ \A c \in q : c.seq # m
    BY <1>1, <1>3, <2>5
  <2> QED BY <2>1, <2>3, <2>7, <2>8, <2>9
<1>6. CASE seq # o + 1
  <2>1. PICK c0 : c0 = [seq |-> seq, id |-> seq]
    OBVIOUS
  <2>2. PICK q : q = ooo_q[e] \cup {c0}
    OBVIOUS
  <2>3. c0 \in [seq : Nat, id : Nat] /\ c0.seq = seq /\ c0.id = seq
    BY <1>2, <2>1
  <2>4. q \in SUBSET [seq : Nat, id : Nat] /\ IsFiniteSet(q)
    BY <1>4, <2>2, <2>3, FS_AddElement
  <2>5. seq > o + 1 /\ seq <= t
    BY <1>2, <1>3, <1>6
  <2>6. \A c \in q : c.seq = c.id /\ c.seq > o + 1 /\ c.seq <= t
    BY <1>4, <2>2, <2>3, <2>5
  <2>7. ASSUME NEW m \in o + 1 .. t, m \notin QueuedSeqs(e), m # seq
        PROVE  m > o /\ \A c \in q : c.seq # m
    BY <1>4, <2>2, <2>3, <2>7
  <2>8. ooo_q' = [ooo_q EXCEPT ![e] = q] /\ UNCHANGED <<last_seq_delivered, delivered>>
    BY <1>2, <1>3, <1>6, <2>1, <2>2
  <2>9. last_seq_delivered' = [last_seq_delivered EXCEPT ![e] = o]
    BY <1>0, <1>3, <2>8 DEF TypeOK
  <2>10. delivered' = [delivered EXCEPT ![e] = [i \in 1 .. o |-> i]]
    BY <1>0, <1>3, <2>8 DEF TypeOK, Order
  <2>11. o >= o /\ o <= t
    BY <1>0, <1>3 DEF Order
  <2> QED BY ZenonT(60), <1>1, <1>3, <2>4, <2>6, <2>7, <2>8, <2>9, <2>10, <2>11
<1> QED BY <1>5, <1>6

(* A cell of the stream is handled.                                        *)
LEMMA CellStep ==
  ASSUME IInv, NEW e \in Ends, NEW l \in Legs, conflux_process_cell(e, l)
  PROVE  IInv'
<1>0. PICK p \in Ends : p = Peer(e) /\ p # e /\ Peer(p) = e /\ \A f \in Ends : f = e \/ f = p
  BY PeerFacts
<1>1. TypeOK /\ legs[e] \subseteq Legs /\ legs[p] \subseteq Legs
  BY DEF IInv, TypeOK
<1>2. PICK h, seq : h = Head(wire[p][l]) /\ seq = last_seq_recv[e][l] + 1
  OBVIOUS
<1>3. /\ l \in legs[e] /\ wire[p][l] # <<>> /\ h \in Cells
      /\ Mux(h) /\ h.num = seq /\ seq \in Nat
      /\ unacked' = [unacked EXCEPT ![e][l] = Unacked(e, l, h.cmd) % sendme_inc]
      /\ last_seq_recv' = [last_seq_recv EXCEPT ![e][l] = seq]
      /\ bug' = bug
      /\ wire' = sendme_circuit_consider_sending(e, l, h.cmd)
      /\ UNCHANGED <<legs, in_full_teardown, curr_leg, last_seq_sent, schedule, sent, data>>
  BY <1>0, <1>2, CellFacts
<1>4. PICK n \in Nat, q \in SUBSET [seq : Nat, id : Nat] :
        /\ last_seq_delivered' = [last_seq_delivered EXCEPT ![e] = n]
        /\ delivered' = [delivered EXCEPT ![e] = [i \in 1 .. n |-> i]]
        /\ ooo_q' = [ooo_q EXCEPT ![e] = q]
        /\ n >= last_seq_delivered[e] /\ n <= sent[p]
        /\ IsFiniteSet(q)
        /\ \A c \in q : c.seq = c.id /\ c.seq > n + 1 /\ c.seq <= sent[p]
        /\ \A m \in last_seq_delivered[e] + 1 .. sent[p] :
             m \notin QueuedSeqs(e) /\ m # seq => m > n /\ \A c \in q : c.seq # m
  BY <1>0, <1>2, CellOutcome
<1>5. /\ wire' \in [Ends -> [Legs -> Seq(Cells)]] /\ wire'[p][l] = Tail(wire[p][l])
      /\ wire'[e][l] = IF Unacked(e, l, h.cmd) >= sendme_inc
                       THEN Append(wire[e][l], Cell("SENDME", 0)) ELSE wire[e][l]
      /\ \A f \in Ends, k \in Legs : k # l => wire'[f][k] = wire[f][k]
  BY <1>0, <1>1, <1>3, CellWires
<1>6. PICK u \in 0 .. sendme_inc - 1 : u = Unacked(e, l, h.cmd) % sendme_inc
  <2>1. PICK b \in Nat : b = sendme_inc /\ b # 0
    BY ConfluxConstants
  <2>2. PICK one \in {0, 1} : one = IF h.cmd = "DATA" THEN 1 ELSE 0
    OBVIOUS
  <2>3. PICK v \in Nat : v = unacked[e][l]
    BY <1>1, <2>1 DEF TypeOK
  <2>4. (v + one) % b \in 0 .. b - 1
    BY <2>1
  <2> QED BY <2>1, <2>2, <2>3, <2>4 DEF Unacked
<1>7. /\ unacked' \in [Ends -> [Legs -> 0 .. sendme_inc - 1]] /\ unacked'[e][l] = u
      /\ \A k \in Legs : k # l => unacked'[e][k] = unacked[e][k]
      /\ unacked'[p] = unacked[p]
  <2>1. PICK S : S = 0 .. sendme_inc - 1
    OBVIOUS
  <2>2. PICK g : g = [unacked EXCEPT ![e][l] = u]
    OBVIOUS
  <2>3. unacked \in [Ends -> [Legs -> S]] /\ u \in S
    BY <1>1, <2>1 DEF TypeOK
  <2>4. /\ g \in [Ends -> [Legs -> S]] /\ g[e][l] = u
        /\ \A k \in Legs : k # l => g[e][k] = unacked[e][k]
        /\ \A d \in Ends : d # e => g[d] = unacked[d]
    BY <2>2, <2>3, PerLegExcept
  <2> QED BY <1>0, <1>3, <1>6, <2>1, <2>2, <2>4
<1>8. /\ last_seq_recv' \in [Ends -> [Legs -> Nat]] /\ last_seq_recv'[e][l] = seq
      /\ \A k \in Legs : k # l => last_seq_recv'[e][k] = last_seq_recv[e][k]
      /\ last_seq_recv'[p] = last_seq_recv[p]
  <2>1. last_seq_recv \in [Ends -> [Legs -> Nat]]
    BY <1>1 DEF TypeOK
  <2> QED BY <1>0, <1>3, <2>1, PerLegExcept
<1>9. /\ last_seq_delivered' \in [Ends -> Nat] /\ last_seq_delivered'[e] = n
      /\ last_seq_delivered'[p] = last_seq_delivered[p]
      /\ ooo_q' \in [Ends -> SUBSET [seq : Nat, id : Nat]] /\ ooo_q'[e] = q
      /\ ooo_q'[p] = ooo_q[p]
      /\ delivered' \in [Ends -> Seq(Nat)] /\ delivered'[e] = [i \in 1 .. n |-> i]
      /\ delivered'[p] = delivered[p]
  <2>1. last_seq_delivered \in [Ends -> Nat]
    BY <1>1 DEF TypeOK
  <2>2. PICK Q : Q = SUBSET [seq : Nat, id : Nat]
    OBVIOUS
  <2>3. ooo_q \in [Ends -> Q] /\ q \in Q
    BY <1>1, <2>2 DEF TypeOK
  <2>4. PICK D : D = Seq(Nat)
    OBVIOUS
  <2>5. PICK d : d = [i \in 1 .. n |-> i]
    OBVIOUS
  <2>6. delivered \in [Ends -> D]
    BY <1>1, <2>4 DEF TypeOK
  <2>7. d \in D
    BY <2>4, <2>5
  <2>8. /\ last_seq_delivered' \in [Ends -> Nat] /\ last_seq_delivered'[e] = n
        /\ last_seq_delivered'[p] = last_seq_delivered[p]
    BY <1>0, <1>4, <2>1
  <2>9. ooo_q' \in [Ends -> Q] /\ ooo_q'[e] = q /\ ooo_q'[p] = ooo_q[p]
    BY <1>0, <1>4, <2>3
  <2>10. delivered' \in [Ends -> D] /\ delivered'[e] = d /\ delivered'[p] = delivered[p]
    BY <1>0, <1>4, <2>5, <2>6, <2>7
  <2> QED BY <2>2, <2>4, <2>5, <2>8, <2>9, <2>10
<1>10. TypeOK'
  BY <1>1, <1>3, <1>5, <1>7, <1>8, <1>9 DEF TypeOK, schedule
<1>11. Lines(e)'
  <2>1. Step(h) = 1 /\ last_seq_recv'[e][l] = last_seq_recv[e][l] + Step(h)
    BY <1>2, <1>3, <1>8 DEF Step
  <2>2. QueuedSeqs(e)' = {c.seq : c \in q}
    BY <1>9 DEF QueuedSeqs
  <2>3. ASSUME NEW m \in last_seq_delivered[e] + 1 .. sent[p],
               m \notin QueuedSeqs(e), Mux(h) => m # h.num
        PROVE  /\ m \in last_seq_delivered'[e] + 1 .. sent[p]
               /\ m \notin QueuedSeqs(e)'
    <3>1. m > n /\ \A c \in q : c.seq # m
      BY <1>3, <1>4, <2>3
    <3>2. sent[p] \in Nat /\ m \in Nat /\ m <= sent[p]
      <4>1. sent[p] \in Nat /\ last_seq_delivered[e] \in Nat
        BY <1>1 DEF TypeOK
      <4> QED BY <2>3, <4>1
    <3>3. m \in n + 1 .. sent[p]
      BY <3>1, <3>2
    <3> QED BY <1>9, <2>2, <3>1, <3>3
  <2>4. \A k \in legs[e] \ {l} : /\ wire'[p][k] = wire[p][k]
                                 /\ last_seq_recv'[e][k] = last_seq_recv[e][k]
    BY <1>1, <1>5, <1>8
  <2>5. Lines(e) /\ legs'[e] = legs[e] /\ sent'[p] = sent[p]
        /\ \A k \in legs[e] : last_seq_sent'[p][k] = last_seq_sent[p][k]
    BY <1>3 DEF IInv
  <2> QED BY <1>0, <1>1, <1>2, <1>3, <1>5, <2>1, <2>3, <2>4, <2>5, LinesTaken
<1>12. Lines(p)'
  <2>1. Lines(p) /\ legs'[p] \subseteq legs[p]
        /\ UNCHANGED <<last_seq_delivered[p], ooo_q[p], sent[Peer(p)]>>
    BY <1>0, <1>3, <1>9 DEF IInv
  <2>2. ASSUME NEW k \in legs'[p]
        PROVE  /\ \/ wire'[e][k] = wire[e][k]
                  \/ wire'[e][k] = Append(wire[e][k], Cell("SENDME", 0))
               /\ last_seq_recv'[p][k] = last_seq_recv[p][k]
               /\ last_seq_sent'[e][k] = last_seq_sent[e][k]
    <3>1. k \in Legs
      BY <1>1, <2>1
    <3>2. CASE k = l
      BY <1>3, <1>5, <1>8, <3>2
    <3>3. CASE k # l
      BY <1>3, <1>5, <1>8, <3>1, <3>3
    <3> QED BY <3>2, <3>3
  <2> QED BY <1>0, <1>1, <2>1, <2>2, LinesKept
<1>13. ASSUME NEW f \in Ends PROVE Order(f)'
  <2>1. CASE f = e
    BY <1>0, <1>3, <1>4, <1>9, <2>1 DEF IInv, Order
  <2>2. CASE f = p
    BY <1>0, <1>3, <1>9, <2>2 DEF IInv, Order
  <2> QED BY <1>0, <2>1, <2>2
<1>14. ASSUME NEW f \in Ends PROVE Leads(f)'
  BY <1>3 DEF IInv, Leads
<1>15. ASSUME NEW f \in Ends, NEW k \in legs'[f] PROVE Acked(f, k)'
  <2>1. k \in legs[f] /\ k \in Legs /\ Acked(f, k)
    BY <1>1, <1>3 DEF IInv, Acks, TypeOK
  <2>2. /\ inflight'[f][k] = inflight[f][k] /\ inflight[f][k] \in Nat
    BY <1>1, <1>3, <2>1 DEF TypeOK, schedule
  <2>3. inflight'[f][k] >= inflight[f][k]
    BY <2>2
  <2>4. wire[f][k] \in Seq(Cells) /\ wire[Peer(f)][k] \in Seq(Cells)
    BY <1>1, <2>1, PeerFacts DEF TypeOK
  <2>5. CASE f = p /\ k = l
    <3>1. Acked(Peer(e), l) /\ l \in legs[Peer(e)] /\ inflight'[Peer(e)][l] = inflight[Peer(e)][l]
      BY <1>0, <2>1, <2>2, <2>5, Zenon
    <3>2. wire[Peer(e)][l] # <<>> /\ h = Head(wire[Peer(e)][l])
      BY <1>0, <1>2, <1>3, Zenon
    <3>3. /\ wire' = sendme_circuit_consider_sending(e, l, h.cmd)
          /\ unacked'[e][l] = Unacked(e, l, h.cmd) % sendme_inc
      BY <1>3, <1>6, <1>7, Zenon
    <3>4. Acked(Peer(e), l)'
      BY <1>1, <3>1, <3>2, <3>3, AckedMoves, Zenon
    <3> QED BY <1>0, <2>5, <3>4, Zenon
  <2>6. CASE f = e /\ k = l
    <3>1. NoMore(wire'[e][l], wire[e][l], "DATA")
      <4>1. Cell("SENDME", 0) \in Cells /\ Cell("SENDME", 0).cmd # "DATA"
        BY DEF Cell, Cells
      <4>2. CASE Unacked(e, l, h.cmd) >= sendme_inc
        BY <1>5, <2>4, <2>6, <4>1, <4>2, NoMoreCells
      <4>3. CASE ~(Unacked(e, l, h.cmd) >= sendme_inc)
        BY <1>5, <2>4, <2>6, <4>3, NoMoreCells
      <4> QED BY <4>2, <4>3
    <3>2. NoMore(wire'[p][l], wire[p][l], "SENDME")
      BY <1>0, <1>3, <1>5, <2>4, <2>6, NoMoreCells
    <3>3. unacked'[p][l] = unacked[p][l]
      BY <1>7
    <3> QED BY <1>0, <1>1, <2>1, <2>2, <2>3, <2>6, <3>1, <3>2, <3>3, AckedKept
  <2>7. CASE k # l
    <3>1. wire'[f][k] = wire[f][k] /\ wire'[Peer(f)][k] = wire[Peer(f)][k]
      BY <1>5, <2>1, <2>7, PeerFacts
    <3>2. NoMore(wire'[f][k], wire[f][k], "DATA")
          /\ NoMore(wire'[Peer(f)][k], wire[Peer(f)][k], "SENDME")
      BY <2>4, <3>1, NoMoreCells
    <3>3. unacked'[Peer(f)][k] = unacked[Peer(f)][k]
      BY <1>0, <1>7, <2>1, <2>7
    <3> QED BY <1>1, <2>1, <2>2, <2>3, <3>2, <3>3, AckedKept
  <2> QED BY <1>0, <2>5, <2>6, <2>7
<1>16. ASSUME NEW f \in Ends PROVE Lines(f)'
  BY <1>0, <1>11, <1>12
<1> QED BY <1>10, <1>13, <1>14, <1>15, <1>16 DEF IInv, Acks

(* A cell that is none of the stream continues the count as it is.         *)
LEMMA SendOther ==
  ASSUME NEW z \in Seq(Cells), NEW a \in Cells, ~Mux(a), Step(a) = 0, NEW r \in Nat
  PROVE  /\ Numbered(z, r, r) => Numbered(Append(z, a), r, r)
         /\ \A cmd : a.cmd # cmd /\ Counted(z, cmd, 0) => Counted(Append(z, a), cmd, 0)
<1>1. ASSUME Numbered(z, r, r) PROVE Numbered(Append(z, a), r, r)
  <2>1. r + Step(a) = r
    OBVIOUS
  <2> QED BY <1>1, <2>1, SendNumbered
<1>2. ASSUME NEW cmd, a.cmd # cmd, Counted(z, cmd, 0) PROVE Counted(Append(z, a), cmd, 0)
  <2>1. 0 + (IF a.cmd = cmd THEN 1 ELSE 0) = 0 /\ 0 \in Nat
    BY <1>2
  <2> QED BY <1>2, <2>1, SendCounted
<1> QED BY <1>1, <1>2

(* It holds when the client has linked the legs.                           *)
LEMMA InitStep == Init => IInv
<1> SUFFICES ASSUME Init PROVE IInv
  OBVIOUS
<1>1. PICK f \in [Legs -> RTTs], c \in Cwnds :
        /\ circ_rtts_usec = [e \in Ends |-> IF e = "client" THEN f ELSE [l \in Legs |-> 0]]
        /\ cwnd = PerLeg(c)
  BY DEF Init
<1>2. PICK a : a = Cell("LINKED_ACK", 0)
  OBVIOUS
<1>3. a \in Cells /\ ~Mux(a) /\ Step(a) = 0 /\ a.cmd # "DATA" /\ a.cmd # "SENDME"
  BY <1>2 DEF Cell, Cells, Mux, Step
<1>4. ASSUME NEW e \in Ends, NEW l \in Legs PROVE wire[e][l] = <<a>> \/ wire[e][l] = <<>>
  BY <1>2 DEF Init
<1>5. <<>> \in Seq(Cells) /\ <<a>> = Append(<<>>, a) /\ <<a>> \in Seq(Cells)
  BY <1>3
<1>6. wire \in [Ends -> [Legs -> Seq(Cells)]]
  BY <1>2, <1>5 DEF Init
<1>7. TypeOK
  <2>1. /\ legs \in [Ends -> SUBSET Legs]
        /\ in_full_teardown \in [Ends -> BOOLEAN]
        /\ curr_leg \in [Ends -> Legs \cup {NoLeg}]
        /\ last_seq_sent \in [Ends -> [Legs -> Nat]]
        /\ last_seq_recv \in [Ends -> [Legs -> Nat]]
        /\ inflight \in [Ends -> [Legs -> Nat]]
        /\ blocked \in [Ends -> [Legs -> BOOLEAN]]
    BY DEF Init, PerLeg
  <2>2. circ_rtts_usec \in [Ends -> [Legs -> Nat]] /\ cwnd \in [Ends -> [Legs -> Cwnds]]
    BY <1>1, ConfluxConstants DEF PerLeg
  <2>3. unacked \in [Ends -> [Legs -> 0 .. sendme_inc - 1]]
    <3>1. 0 \in 0 .. sendme_inc - 1
      BY ConfluxConstants
    <3> QED BY <3>1 DEF Init, PerLeg
  <2>4. /\ ooo_q \in [Ends -> SUBSET [seq : Nat, id : Nat]]
        /\ last_seq_delivered \in [Ends -> Nat]
        /\ sent \in [Ends -> Nat] /\ data \in [Ends -> SUBSET Nat]
        /\ bug \in [Ends -> BOOLEAN]
    BY DEF Init
  <2>5. delivered \in [Ends -> Seq(Nat)]
    BY DEF Init
  <2> QED BY <1>6, <2>1, <2>2, <2>3, <2>4, <2>5 DEF TypeOK
<1>z. PICK z \in Seq(Cells) : z = <<>> /\ <<a>> = Append(z, a)
  BY <1>5
<1>8. ASSUME NEW w, w = <<a>> \/ w = <<>>
      PROVE  /\ Numbered(w, 0, 0) /\ Fresh(w) /\ \A n : ~IsNum(w, n)
             /\ Counted(w, "DATA", 0) /\ Counted(w, "SENDME", 0)
  <2>1. /\ Numbered(<<>>, 0, 0) /\ Fresh(<<>>) /\ \A n : ~IsNum(<<>>, n)
        /\ Counted(<<>>, "DATA", 0) /\ Counted(<<>>, "SENDME", 0)
    BY EmptyWire
  <2>2. Numbered(<<a>>, 0, 0) /\ Counted(<<a>>, "DATA", 0) /\ Counted(<<a>>, "SENDME", 0)
    <3>1. Numbered(z, 0, 0) /\ Counted(z, "DATA", 0) /\ Counted(z, "SENDME", 0)
      BY <1>z, <2>1, Zenon
    <3>2. 0 \in Nat
      OBVIOUS
    <3>3. /\ Numbered(Append(z, a), 0, 0)
          /\ Counted(Append(z, a), "DATA", 0) /\ Counted(Append(z, a), "SENDME", 0)
      BY <1>3, <3>1, <3>2, SendOther, Zenon
    <3> QED BY <1>z, <3>3, Zenon
  <2>3. Fresh(<<a>>) /\ \A n : ~IsNum(<<a>>, n)
    BY <1>3, <1>5, <2>1, SendFresh
  <2> QED BY <1>8, <2>1, <2>2, <2>3, Zenon
<1>9. ASSUME NEW e \in Ends PROVE Lines(e)
  <2>1. ASSUME NEW l \in legs[e]
        PROVE  /\ Numbered(wire[Peer(e)][l], last_seq_recv[e][l], last_seq_sent[Peer(e)][l])
               /\ Fresh(wire[Peer(e)][l])
               /\ \A n : ~IsNum(wire[Peer(e)][l], n)
    <3>1. l \in Legs /\ Peer(e) \in Ends
      BY PeerFacts DEF Init
    <3>2. last_seq_recv[e][l] = 0 /\ last_seq_sent[Peer(e)][l] = 0
      BY <3>1 DEF Init, PerLeg
    <3> QED BY <1>4, <1>8, <3>1, <3>2
  <2> QED BY <2>1 DEF Lines
<1>10. ASSUME NEW e \in Ends PROVE Order(e)
  <2>1. Peer(e) \in Ends
    BY PeerFacts
  <2>2. ooo_q[e] = {} /\ last_seq_delivered[e] = 0 /\ sent[Peer(e)] = 0 /\ ~bug[e]
        /\ delivered[e] = <<>>
    BY <2>1 DEF Init
  <2>3. delivered[e] = [i \in 1 .. 0 |-> i]
    BY <2>2
  <2> QED BY <2>2, <2>3, FS_EmptySet DEF Order
<1>11. ASSUME NEW e \in Ends PROVE Leads(e)
  BY DEF Init, PerLeg, Leads
<1>12. ASSUME NEW e \in Ends, NEW l \in legs[e] PROVE Acked(e, l)
  <2>1. l \in Legs /\ Peer(e) \in Ends
    BY PeerFacts DEF Init
  <2>2. inflight[e][l] = 0 /\ unacked[Peer(e)][l] = 0
    BY <2>1 DEF Init, PerLeg
  <2>3. Counted(wire[e][l], "DATA", 0) /\ Counted(wire[Peer(e)][l], "SENDME", 0)
    BY <1>4, <1>8, <2>1
  <2>4. 0 >= 0 + 0 + sendme_inc * 0 /\ 0 \in Nat
    BY ConfluxConstants
  <2> QED BY <2>2, <2>3, <2>4 DEF Acked
<1> QED BY <1>7, <1>9, <1>10, <1>11, <1>12 DEF IInv, Acks

(* Every step keeps it.                                                    *)
LEMMA NextStep == IInv /\ [Next]_vars => IInv'
<1> SUFFICES ASSUME IInv, [Next]_vars PROVE IInv'
  OBVIOUS
<1>1. CASE UNCHANGED vars
  <2>1. TypeOK'
    BY <1>1 DEF IInv, TypeOK, vars, schedule, receiver
  <2>2. \A e \in Ends : Leads(e)'
    BY <1>1 DEF IInv, Leads, vars
  <2> QED BY <1>1, <2>1, <2>2, QuietStep DEF vars, schedule
<1>2. ASSUME NEW e \in Ends, conflux_can_send(e) PROVE IInv'
  BY <1>2, CanSendStep
<1>3. ASSUME NEW e \in Ends, NEW cmd \in Commands[e], conflux_decide_circ_for_send(e, cmd)
      PROVE  IInv'
  <2>1. cmd \in {"DATA", "OTHER"}
    BY ConfluxConstants
  <2> QED BY <1>3, <2>1, SendStep
<1>4. ASSUME NEW e \in Ends, NEW l \in Legs, set_circuit_blocked_on_chan(e, l) PROVE IInv'
  BY <1>4, BlockStep
<1>5. ASSUME NEW e \in Ends, NEW l \in Legs, Receive(e, l) PROVE IInv'
  BY <1>5, SwitchStep, CellStep, SendmeStep, LinkedAckStep DEF Receive
<1>6. ASSUME NEW e \in Ends, NEW l \in Legs, LegCloses(e, l) PROVE IInv'
  BY <1>6, CloseStep
<1> QED BY <1>1, <1>2, <1>3, <1>4, <1>5, <1>6 DEF Next

(* The invariant is one of the specification: for any set of legs and any  *)
(* failures of them, the cells on their way carry the numbers they were    *)
(* sent with, each once.                                                   *)
THEOREM Invariance == Spec => []IInv
  BY InitStep, NextStep, PTL DEF Spec

(* What both ends rely on: types and counts that stay natural, a current   *)
(* leg that leads (the tor_assert of conflux_decide_circ_for_send), no     *)
(* cell with an old number (the BUG of conflux_process_cell), numbers that *)
(* agree, and a queue that waits for an earlier cell.                      *)
THEOREM SequencesAlwaysAgree == Spec => []SequencesAgree
<1>1. IInv => SequencesAgree
  <2> SUFFICES ASSUME IInv PROVE SequencesAgree
    OBVIOUS
  <2>1. TypeOK
    BY DEF IInv
  <2>2. CurrentLegLeads
    BY <2>1 DEF CurrentLegLeads, IInv, Leads, TypeOK
  <2>3. NoBug /\ NumbersAgree /\ QueueWaits
    BY DEF NoBug, NumbersAgree, QueueWaits, IInv, Order
  <2> QED BY <2>1, <2>2, <2>3 DEF SequencesAgree
<1> QED BY <1>1, Invariance, PTL

(* The set implements one ordered stream in each direction: cells are      *)
(* handed to the streams as a growing prefix of what was sent, whatever    *)
(* the legs overtake and lose.                                             *)
THEOREM ImplementsOrderedStream == Spec => IsOrderedStream
<1>1. Init => Stream!Init
  BY DEF Init, Stream!Init
<1>2. IInv /\ [Next]_vars => [Stream!Next]_<<sent, delivered>>
  <2> SUFFICES ASSUME IInv, [Next]_vars, ~UNCHANGED <<sent, delivered>>
               PROVE  Stream!Next
    OBVIOUS
  <2>1. CASE UNCHANGED vars
    BY <2>1 DEF vars, receiver
  <2>2. ASSUME NEW e \in Ends, conflux_can_send(e) PROVE Stream!Next
    BY <2>2 DEF conflux_can_send, receiver
  <2>3. ASSUME NEW e \in Ends, NEW cmd \in Commands[e], conflux_decide_circ_for_send(e, cmd)
        PROVE  Stream!Next
    <3>1. sent' = [sent EXCEPT ![e] = @ + 1] /\ UNCHANGED delivered
      BY <2>3 DEF conflux_decide_circ_for_send, receiver
    <3> QED BY <3>1 DEF Stream!Next, Stream!Send
  <2>4. ASSUME NEW e \in Ends, NEW l \in Legs, set_circuit_blocked_on_chan(e, l)
        PROVE  Stream!Next
    BY <2>4 DEF set_circuit_blocked_on_chan, receiver
  <2>5. ASSUME NEW e \in Ends, NEW l \in Legs, conflux_process_cell(e, l)
        PROVE  Stream!Next
    <3>1. PICK n \in Nat :
            /\ delivered' = [delivered EXCEPT ![e] = [i \in 1 .. n |-> i]]
            /\ n >= last_seq_delivered[e] /\ n <= sent[Peer(e)]
      BY <2>5, CellOutcome
    <3>2. sent' = sent
      BY <2>5 DEF conflux_process_cell
    <3>3. PICK m \in Nat : m = last_seq_delivered[e] /\ delivered[e] = [i \in 1 .. m |-> i]
      BY DEF IInv, TypeOK, Order
    <3>4. Len(delivered[e]) = m
      BY <3>3
    <3>5. n # m
      <4>1. delivered \in [Ends -> Seq(Nat)]
        BY DEF IInv, TypeOK
      <4>2. ASSUME n = m PROVE FALSE
        <5>1. delivered' = [delivered EXCEPT ![e] = delivered[e]]
          BY <3>1, <3>3, <4>2
        <5> QED BY <3>2, <4>1, <5>1
      <4> QED BY <4>2
    <3>6. n \in Len(delivered[e]) + 1 .. sent[Peer(e)]
      <4>1. sent[Peer(e)] \in Nat
        BY PeerFacts DEF IInv, TypeOK
      <4> QED BY <3>1, <3>3, <3>4, <3>5, <4>1
    <3>7. Stream!Deliver(e)
      BY <3>1, <3>2, <3>6 DEF Stream!Deliver
    <3> QED BY <3>7 DEF Stream!Next
  <2>6. ASSUME NEW e \in Ends, NEW l \in Legs,
               \/ conflux_process_switch_command(e, l) \/ ReceiveSendme(e, l)
               \/ conflux_process_linked_ack(e, l) \/ LegCloses(e, l)
        PROVE  Stream!Next
    BY <2>6 DEF conflux_process_switch_command, ReceiveSendme, conflux_process_linked_ack,
                LegCloses, receiver
  <2> QED BY <2>1, <2>2, <2>3, <2>4, <2>5, <2>6 DEF Next, Receive
<1> QED BY <1>1, <1>2, Invariance, PTL DEF Spec, IsOrderedStream, Stream!Spec
=============================================================================
