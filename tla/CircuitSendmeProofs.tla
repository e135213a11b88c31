------------------------- MODULE CircuitSendmeProofs -------------------------
(***************************************************************************)
(* Proofs about CircuitSendme, for every window size, increment, number of *)
(* cells and choice of congestion window.                                  *)
(***************************************************************************)
EXTENDS CircuitSendme, TLAPS

(* The types of the variables, without the ranges of the windows: those    *)
(* follow from EndsAgree.                                                  *)
Types ==
  /\ status \in [Ends -> {"open", "protocol", "closed"}]
  /\ package_window \in [Ends -> Int] /\ deliver_window \in [Ends -> Int]
  /\ inflight \in [Ends -> Int] /\ cwnd \in [Ends -> Nat \ {0}]
  /\ sendme_pending_timestamps \in [Ends -> Int]
  /\ sendme_last_digests \in [Ends -> Seq(Digests)]
  /\ sendme_digest \in [Ends -> Digests]
  /\ inbuf \in [Ends -> Nat]
  /\ reading \in [Ends -> BOOLEAN] /\ packaging \in [Ends -> BOOLEAN]
  /\ wire \in [Ends -> Seq(Cells)] /\ nrecv \in [Ends -> Nat]

(* The inductive invariant.                                                *)
IInv == Types /\ EndsAgree

-----------------------------------------------------------------------------
(* Facts about one direction of the circuit.                               *)

(* The peer is the other end.                                              *)
LEMMA PeerFacts ==
  \A e \in Ends : Peer(e) \in Ends /\ Peer(e) # e /\ Peer(Peer(e)) = e
  BY DEF Ends, Peer

(* Sending a cell leaves the earlier cells and their counts alone.         *)
LEMMA AppendFacts ==
  ASSUME NEW s \in Seq(Cells), NEW c \in Cells
  PROVE  /\ Append(s, c) \in Seq(Cells)
         /\ Len(Append(s, c)) = Len(s) + 1
         /\ \A i \in 1 .. Len(s) : Append(s, c)[i] = s[i]
         /\ Append(s, c)[Len(s) + 1] = c
         /\ \A n \in 0 .. Len(s) : /\ NData(Append(s, c), n) = NData(s, n)
                                   /\ NSendme(Append(s, c), n) = NSendme(s, n)
         /\ NData(Append(s, c), Len(s) + 1) = c.ndata
         /\ NSendme(Append(s, c), Len(s) + 1) = c.nsendme
  BY DEF NData, NSendme

(* The counts of the first n cells are natural numbers.                    *)
LEMMA CountTypes ==
  ASSUME NEW s \in Seq(Cells), NEW n \in 0 .. Len(s)
  PROVE  NData(s, n) \in Nat /\ NSendme(s, n) \in Nat
<1>1. CASE n = 0
  BY <1>1 DEF NData, NSendme
<1>2. CASE n \in 1 .. Len(s)
  <2>1. s[n] \in Cells
    BY <1>2
  <2> QED BY <1>2, <2>1 DEF NData, NSendme, Cells
<1> QED BY <1>1, <1>2

(* Counts grow along a direction.                                          *)
LEMMA WireMono ==
  ASSUME NEW s \in Seq(Cells), WireOK(s),
         NEW i \in 0 .. Len(s), NEW j \in 0 .. Len(s), i <= j
  PROVE  NData(s, i) <= NData(s, j) /\ NSendme(s, i) <= NSendme(s, j)
<1>1. NData(s, j) \in Nat /\ NSendme(s, j) \in Nat
  BY CountTypes
<1>2. CASE i = 0
  BY <1>1, <1>2 DEF NData, NSendme
<1>3. CASE i = j
  BY <1>1, <1>3
<1>4. CASE i \in 1 .. Len(s) /\ i < j
  BY <1>4 DEF WireOK, NData, NSendme
<1> QED BY <1>2, <1>3, <1>4

(* A DATA cell is known by its count.                                      *)
LEMMA DataUnique ==
  ASSUME NEW s \in Seq(Cells), WireOK(s),
         NEW i \in 1 .. Len(s), NEW j \in 1 .. Len(s),
         s[i].cmd = "DATA", s[j].cmd = "DATA", s[i].ndata = s[j].ndata
  PROVE  i = j
<1>1. s[i].ndata \in Nat /\ s[j].ndata \in Nat
  <2>1. s[i] \in Cells /\ s[j] \in Cells
    OBVIOUS
  <2> QED BY <2>1 DEF Cells
<1>2. ~(i < j) /\ ~(j < i)
  BY <1>1 DEF WireOK
<1> QED BY <1>2

(* A cell with the right counts keeps the counts of its direction right.   *)
LEMMA WireAppend ==
  ASSUME NEW s \in Seq(Cells), NEW c \in Cells, WireOK(s),
         c.ndata = NData(s, Len(s)) + (IF c.cmd = "DATA" THEN 1 ELSE 0),
         c.nsendme = NSendme(s, Len(s)) + (IF c.cmd = "SENDME" THEN 1 ELSE 0)
  PROVE  WireOK(Append(s, c))
<1> DEFINE t == Append(s, c)
<1>1. /\ t \in Seq(Cells) /\ Len(t) = Len(s) + 1 /\ t[Len(s) + 1] = c
      /\ \A i \in 1 .. Len(s) : t[i] = s[i]
      /\ \A n \in 0 .. Len(s) : /\ NData(t, n) = NData(s, n)
                                /\ NSendme(t, n) = NSendme(s, n)
  BY AppendFacts
<1>2. ASSUME NEW i \in 1 .. Len(t)
      PROVE  /\ t[i].ndata = NData(t, i - 1)
                             + (IF t[i].cmd = "DATA" THEN 1 ELSE 0)
             /\ t[i].nsendme = NSendme(t, i - 1)
                               + (IF t[i].cmd = "SENDME" THEN 1 ELSE 0)
  <2>1. CASE i = Len(s) + 1
    BY <2>1, <1>1
  <2>2. CASE i \in 1 .. Len(s)
    BY <2>2, <1>1 DEF WireOK
  <2> QED BY <2>1, <2>2, <1>1
<1>3. ASSUME NEW i \in 1 .. Len(t), NEW j \in 1 .. Len(t), i < j
      PROVE  /\ t[i].ndata <= t[j].ndata
             /\ t[j].cmd = "DATA" => t[i].ndata < t[j].ndata
             /\ t[i].nsendme <= t[j].nsendme
  <2>1. CASE j \in 1 .. Len(s)
    BY <2>1, <1>1, <1>3 DEF WireOK
  <2>2. CASE j = Len(s) + 1
    <3>1. i \in 1 .. Len(s) /\ t[i] = s[i] /\ t[j] = c
      BY <2>2, <1>1, <1>3
    <3>2. NData(s, i) <= NData(s, Len(s)) /\ NSendme(s, i) <= NSendme(s, Len(s))
      BY <3>1, WireMono
    <3>3. NData(s, i) = s[i].ndata /\ NSendme(s, i) = s[i].nsendme
      BY <3>1 DEF NData, NSendme
    <3>4. /\ NData(s, i) \in Nat /\ NSendme(s, i) \in Nat
          /\ NData(s, Len(s)) \in Nat /\ NSendme(s, Len(s)) \in Nat
      BY <3>1, CountTypes
    <3> QED BY SMTT(30), <3>1, <3>2, <3>3, <3>4
  <2> QED BY <2>1, <2>2, <1>1
<1> QED BY <1>2, <1>3 DEF WireOK

(* What is known of one end is not disturbed when the other end sends.     *)
LEMMA GrowIn ==
  ASSUME NEW in \in Seq(Cells), NEW c \in Cells, NEW out \in Seq(Cells),
         NEW n \in Nat, NEW e, NEW fifo, NEW dw, NEW pw, NEW infl, NEW stamps,
         DeliverOK(in, n, out, dw), FifoOK(e, out, in, n, fifo),
         WindowOK(out, in, n, fifo, pw, infl, stamps), SendmesOK(e, out, in, n)
  PROVE  /\ DeliverOK(Append(in, c), n, out, dw)
         /\ FifoOK(e, out, Append(in, c), n, fifo)
         /\ WindowOK(out, Append(in, c), n, fifo, pw, infl, stamps)
         /\ SendmesOK(e, out, Append(in, c), n)
<1>1. n \in 0 .. Len(in) /\ Len(in) \in Nat
  BY DEF DeliverOK
<1>2. /\ Len(Append(in, c)) = Len(in) + 1
      /\ NData(Append(in, c), n) = NData(in, n)
      /\ NSendme(Append(in, c), n) = NSendme(in, n)
      /\ \A i \in 1 .. n : Append(in, c)[i] = in[i]
  BY <1>1, AppendFacts
<1>3. DeliverOK(Append(in, c), n, out, dw)
  BY <1>1, <1>2 DEF DeliverOK
<1>4. FifoOK(e, out, Append(in, c), n, fifo)
  BY <1>2 DEF FifoOK
<1>5. WindowOK(out, Append(in, c), n, fifo, pw, infl, stamps)
  BY <1>2 DEF WindowOK
<1>6. SendmesOK(e, out, Append(in, c), n)
  BY <1>2 DEF SendmesOK
<1> QED BY <1>3, <1>4, <1>5, <1>6

(* What is known of an end when it sends a cell itself.                    *)
LEMMA GrowOut ==
  ASSUME NEW in \in Seq(Cells), NEW c \in Cells, NEW out \in Seq(Cells),
         NEW n \in Nat, NEW e, NEW fifo, NEW dw, NEW pw, NEW infl, NEW stamps,
         FifoOK(e, out, in, n, fifo),
         WindowOK(out, in, n, fifo, pw, infl, stamps), SendmesOK(e, out, in, n)
  PROVE  /\ c.nsendme = NSendme(out, Len(out)) /\ DeliverOK(in, n, out, dw) =>
              DeliverOK(in, n, Append(out, c), dw)
         /\ c.ndata = NData(out, Len(out)) =>
              /\ FifoOK(e, Append(out, c), in, n, fifo)
              /\ WindowOK(Append(out, c), in, n, fifo, pw, infl, stamps)
         /\ c.cmd # "SENDME" => SendmesOK(e, Append(out, c), in, n)
<1> DEFINE t == Append(out, c)
<1>1. /\ Len(t) = Len(out) + 1 /\ Len(out) \in Nat /\ t[Len(out) + 1] = c
      /\ NData(t, Len(t)) = c.ndata /\ NSendme(t, Len(t)) = c.nsendme
      /\ \A i \in 1 .. Len(out) : t[i] = out[i]
  BY AppendFacts
<1> HIDE DEF t
<1>2. c.nsendme = NSendme(out, Len(out)) /\ DeliverOK(in, n, out, dw)
        => DeliverOK(in, n, t, dw)
  BY <1>1 DEF DeliverOK
<1>3. c.ndata = NData(out, Len(out)) => FifoOK(e, t, in, n, fifo)
  <2> SUFFICES ASSUME c.ndata = NData(out, Len(out)) PROVE FifoOK(e, t, in, n, fifo)
    OBVIOUS
  <2>1. NData(t, Len(t)) = NData(out, Len(out))
    BY <1>1
  <2>2. ASSUME NEW k \in 1 .. Len(fifo)
        PROVE  /\ fifo[k].from = e /\ fifo[k].pos \in 1 .. Len(t)
               /\ t[fifo[k].pos].cmd = "DATA"
               /\ t[fifo[k].pos].ndata = sendme_inc * (NSendme(in, n) + k)
    BY <1>1 DEF FifoOK
  <2> QED BY <2>1, <2>2 DEF FifoOK
<1>4. c.ndata = NData(out, Len(out)) => WindowOK(t, in, n, fifo, pw, infl, stamps)
  BY <1>1 DEF WindowOK
<1>5. c.cmd # "SENDME" => SendmesOK(e, t, in, n)
  BY SMTT(30), <1>1 DEF SendmesOK
<1> QED BY <1>2, <1>3, <1>4, <1>5 DEF t

(* What is known of an end when it handles one more cell.                  *)
LEMMA StepIn ==
  ASSUME NEW in \in Seq(Cells), WireOK(in), NEW out \in Seq(Cells),
         NEW n \in Nat, n + 1 <= Len(in),
         NEW e, NEW fifo, NEW dw, NEW pw, NEW infl, NEW stamps,
         DeliverOK(in, n, out, dw), FifoOK(e, out, in, n, fifo),
         WindowOK(out, in, n, fifo, pw, infl, stamps), SendmesOK(e, out, in, n)
  PROVE  /\ in[n + 1].cmd # "DATA" => DeliverOK(in, n + 1, out, dw)
         /\ in[n + 1].cmd # "SENDME" =>
              /\ FifoOK(e, out, in, n + 1, fifo)
              /\ WindowOK(out, in, n + 1, fifo, pw, infl, stamps)
         /\ SendmesOK(e, out, in, n + 1)
         /\ in[n + 1].cmd = "DATA" => NData(in, n + 1) = NData(in, n) + 1
         /\ in[n + 1].cmd = "SENDME" => NSendme(in, n + 1) = NSendme(in, n) + 1
<1>1. /\ NData(in, n + 1) = NData(in, n)
                             + (IF in[n + 1].cmd = "DATA" THEN 1 ELSE 0)
      /\ NSendme(in, n + 1) = NSendme(in, n)
                               + (IF in[n + 1].cmd = "SENDME" THEN 1 ELSE 0)
  BY DEF WireOK, NData, NSendme
<1>2. NData(in, n) \in Nat /\ NSendme(in, n) \in Nat
  BY CountTypes
<1>3. in[n + 1].cmd # "DATA" => DeliverOK(in, n + 1, out, dw)
  BY <1>1, <1>2 DEF DeliverOK
<1>4. in[n + 1].cmd # "SENDME" => NSendme(in, n + 1) = NSendme(in, n)
  BY <1>1, <1>2
<1>5. in[n + 1].cmd # "SENDME" =>
        /\ FifoOK(e, out, in, n + 1, fifo)
        /\ WindowOK(out, in, n + 1, fifo, pw, infl, stamps)
  BY <1>4 DEF FifoOK, WindowOK
<1>6. SendmesOK(e, out, in, n + 1)
  BY DEF SendmesOK
<1> QED BY <1>1, <1>3, <1>5, <1>6

(* Remainders: a whole number of increments and r more.                    *)
LEMMA ModUnique ==
  ASSUME NEW b \in Nat \ {0}, NEW q \in Int, NEW r \in Int, 0 <= r, r < b
  PROVE  (b * q + r) % b = r
  OBVIOUS

(* The arithmetic of both boundary tests: x cells are sent, a SENDMEs are  *)
(* received, and l more whole increments are on their way.                 *)
Sent(inc, x, a, l) ==
  /\ inc \in Nat /\ inc > 1 /\ x \in Nat /\ a \in Nat /\ l \in Nat
  /\ x >= inc * (a + l) /\ x < inc * (a + l) + inc
LastOfIncrement(inc, x, a, l) == x + 1 = inc * (a + l) + inc

(* inflight finds the last cell of an increment: the test of congestion    *)
(* control.                                                                *)
LEMMA BoundaryCC ==
  ASSUME NEW inc, NEW x, NEW a, NEW l, Sent(inc, x, a, l),
         NEW f \in Int, f = x - inc * a
  PROVE  (f # 0 /\ (f + 1) % inc = 0) <=> LastOfIncrement(inc, x, a, l)
<1> USE DEF Sent, LastOfIncrement
<1>1. inc * (a + l) = inc * a + inc * l /\ inc * l \in Nat /\ inc * a \in Nat
  OBVIOUS
<1>2. PICK r \in Nat : x = inc * a + inc * l + r /\ r < inc
  <2>1. x - (inc * a + inc * l) \in Nat
    BY <1>1
  <2> QED BY <1>1, <2>1
<1>3. f = inc * l + r
  BY <1>1, <1>2
<1>4. CASE r = inc - 1
  <2>1. f + 1 = inc * (l + 1) + 0
    BY <1>1, <1>3, <1>4
  <2>2. (f + 1) % inc = 0
    BY <2>1, ModUnique
  <2>3. f # 0
    BY <1>1, <1>3, <1>4
  <2> QED BY <1>1, <1>2, <1>4, <2>2, <2>3
<1>5. CASE r + 1 < inc
  <2>1. f + 1 = inc * l + (r + 1)
    BY <1>1, <1>3
  <2>2. (f + 1) % inc = r + 1
    <3>1. inc \in Nat \ {0} /\ l \in Int /\ r + 1 \in Int /\ 0 <= r + 1
      OBVIOUS
    <3>2. (inc * l + (r + 1)) % inc = r + 1
      BY <3>1, <1>5, ModUnique, Zenon
    <3> QED BY <2>1, <3>2
  <2> QED BY <1>1, <1>2, <1>5, <2>2
<1> QED BY <1>2, <1>4, <1>5

FixedWindow(inc, x, a, cw, start, pw) ==
  /\ cw \in Nat /\ cw % inc = 0 /\ start \in Nat /\ cw <= start
  /\ pw \in Int /\ pw = cw - (x - inc * a)

(* The package window finds it too, when it starts at whole increments.    *)
LEMMA BoundaryFixed ==
  ASSUME NEW inc, NEW x, NEW a, NEW l, Sent(inc, x, a, l),
         NEW cw, NEW start, NEW pw, FixedWindow(inc, x, a, cw, start, pw)
  PROVE  (pw # start /\ (pw - 1) % inc = 0) <=> LastOfIncrement(inc, x, a, l)
<1> USE DEF Sent, LastOfIncrement, FixedWindow
<1>1. inc * (a + l) = inc * a + inc * l /\ inc * l \in Nat /\ inc * a \in Nat
  OBVIOUS
<1>2. PICK r \in Nat : x = inc * a + inc * l + r /\ r < inc
  <2>1. x - (inc * a + inc * l) \in Nat
    BY <1>1
  <2> QED BY <1>1, <2>1
<1>3. PICK c \in Nat : cw = inc * c
  <2>1. cw = inc * (cw \div inc) /\ cw \div inc \in Nat
    OBVIOUS
  <2> QED BY <2>1
<1>4. pw = inc * c - inc * l - r /\ inc * c \in Nat
  BY <1>1, <1>2, <1>3
<1>5. pw - 1 = inc * (c - l - 1) + (inc - 1 - r)
  <2>1. inc * (c - l - 1) = inc * c - inc * l - inc
    BY <1>3
  <2> QED BY <2>1, <1>1, <1>2, <1>4
<1>6. (pw - 1) % inc = inc - 1 - r
  <2>1. /\ inc \in Nat \ {0} /\ c - l - 1 \in Int /\ inc - 1 - r \in Int
        /\ 0 <= inc - 1 - r /\ inc - 1 - r < inc
    BY <1>2, <1>3
  <2>2. (inc * (c - l - 1) + (inc - 1 - r)) % inc = inc - 1 - r
    BY <2>1, ModUnique, Zenon
  <2> QED BY <2>2, <1>5
<1>7. r = inc - 1 => pw # start
  BY <1>1, <1>3, <1>4
<1> QED BY <1>1, <1>2, <1>6, <1>7

(* In a well configured circuit, circuit_sent_cell_for_sendme is right:    *)
(* it holds exactly when the next DATA cell is the last of an increment.   *)
LEMMA RecordingExact ==
  ASSUME WellConfigured, IInv, NEW e \in Ends
  PROVE  circuit_sent_cell_for_sendme(e) <=>
           LastOfIncrement(sendme_inc, DataSent(e), SendmesRecv(e),
                           Len(sendme_last_digests[e]))
<1> DEFINE n == DataSent(e)
           a == SendmesRecv(e)
           l == Len(sendme_last_digests[e])
<1>1. /\ Peer(e) \in Ends /\ wire[e] \in Seq(Cells) /\ wire[Peer(e)] \in Seq(Cells)
      /\ nrecv[e] \in Nat /\ sendme_last_digests[e] \in Seq(Digests)
      /\ inflight[e] \in Int /\ package_window[e] \in Int
      /\ sendme_inc \in Nat /\ sendme_inc > 1
      /\ CIRCWINDOW_START \in Nat /\ circwindow \in Nat
      /\ circwindow <= CIRCWINDOW_START
  BY PeerFacts, ConstantsOK DEF IInv, Types, WellConfigured
<1>2. /\ DeliverOK(wire[Peer(e)], nrecv[e], wire[e], deliver_window[e])
      /\ FifoOK(e, wire[e], wire[Peer(e)], nrecv[e], sendme_last_digests[e])
      /\ WindowOK(wire[e], wire[Peer(e)], nrecv[e], sendme_last_digests[e],
                  package_window[e], inflight[e], sendme_pending_timestamps[e])
  BY DEF IInv, EndsAgree, EndAgrees
<1>3. n \in Nat /\ a \in Nat /\ l \in Nat
  <2>1. nrecv[e] \in 0 .. Len(wire[Peer(e)]) /\ Len(wire[e]) \in 0 .. Len(wire[e])
    BY <1>1, <1>2 DEF DeliverOK
  <2>2. n \in Nat
    BY <1>1, <2>1, CountTypes DEF DataSent
  <2>3. a \in Nat
    BY <1>1, <2>1, CountTypes DEF SendmesRecv
  <2>4. l \in Nat
    BY <1>1
  <2> QED BY <2>2, <2>3, <2>4
<1>4. Sent(sendme_inc, n, a, l)
  <2>1. n >= sendme_inc * (a + l) /\ n < sendme_inc * (a + l) + sendme_inc
    BY <1>2 DEF FifoOK, DataSent, SendmesRecv
  <2> QED BY <2>1, <1>1, <1>3 DEF Sent
<1>5. CASE UseCC
  <2>1. inflight[e] = n - sendme_inc * a
    BY <1>2, <1>5 DEF WindowOK, DataSent, SendmesRecv
  <2> HIDE DEF n, a, l
  <2>2. (inflight[e] # 0 /\ (inflight[e] + 1) % sendme_inc = 0)
          <=> LastOfIncrement(sendme_inc, n, a, l)
    BY <2>1, <1>1, <1>4, BoundaryCC
  <2> QED BY <2>2, <1>5 DEF circuit_sent_cell_for_sendme, n, a, l
<1>6. CASE ~UseCC
  <2>1. package_window[e] = circwindow - (n - sendme_inc * a)
    BY <1>2, <1>6 DEF WindowOK, DataSent, SendmesRecv
  <2> HIDE DEF n, a, l
  <2>2. FixedWindow(sendme_inc, n, a, circwindow, CIRCWINDOW_START,
                    package_window[e])
    BY <2>1, <1>1, <1>6 DEF FixedWindow, WellConfigured
  <2>3. (package_window[e] # CIRCWINDOW_START
           /\ (package_window[e] - 1) % sendme_inc = 0)
          <=> LastOfIncrement(sendme_inc, n, a, l)
    BY <2>2, <1>4, BoundaryFixed
  <2> QED BY <2>3, <1>6 DEF circuit_sent_cell_for_sendme, n, a, l
<1> QED BY <1>5, <1>6

-----------------------------------------------------------------------------
(* Types.                                                                  *)

(* The types hold at the start.                                            *)
LEMMA TypesInit == Init => Types
  BY ConstantsOK, SMT DEF Init, Types, Ends, NoDigest, Digests

(* Every cell an end builds is a cell.                                     *)
LEMMA CellTypes ==
  ASSUME Types, NEW e \in Ends, NEW cmd \in {"DATA", "SENDME", "OTHER"},
         NEW ver \in {0, 1}, NEW d \in Digests
  PROVE  Cell(e, cmd, ver, d) \in Cells
<1>1. wire[e] \in Seq(Cells) /\ Len(wire[e]) \in 0 .. Len(wire[e])
  BY DEF Types
<1>2. DataSent(e) \in Nat /\ SendmesSent(e) \in Nat
  BY <1>1, CountTypes DEF DataSent, SendmesSent
<1> QED BY <1>2 DEF Cell, Cells

(* What the digest slot is given is a digest.                              *)
LEMMA DigestTypes ==
  ASSUME Types, NEW e \in Ends
  PROVE  /\ sendme_record_sending_cell_digest(e) \in Digests
         /\ sendme_record_received_cell_digest(e) \in Digests
         /\ NoDigest \in Digests
<1>1. Len(wire[e]) + 1 \in Nat /\ nrecv[e] + 1 \in Nat /\ Peer(e) \in Ends
  BY PeerFacts DEF Types
<1>2. sendme_digest[e] \in Digests
  BY DEF Types
<1>3. NoDigest \in Digests
  BY DEF NoDigest, Digests, Ends
<1> QED BY <1>1, <1>2, <1>3 DEF sendme_record_sending_cell_digest,
          sendme_record_received_cell_digest, Digests

(* Every step keeps the types.                                             *)
LEMMA TypesStep == Types /\ [Next]_vars => Types'
<1> SUFFICES ASSUME Types, [Next]_vars PROVE Types'
  OBVIOUS
<1>1. CASE UNCHANGED vars
  BY <1>1 DEF Types, vars, windows, edge
<1>2. ASSUME NEW e \in Ends, ReadFromEdge(e) PROVE Types'
  <2>1. /\ inbuf' = [inbuf EXCEPT ![e] = @ + 1]
        /\ packaging' = [packaging EXCEPT ![e] = TRUE]
        /\ UNCHANGED <<status, windows, deliver_window, sendme_last_digests,
                       sendme_digest, reading, wire, nrecv>>
    BY <1>2 DEF ReadFromEdge
  <2>2. inbuf' \in [Ends -> Nat]
    BY <2>1 DEF Types
  <2>3. packaging' \in [Ends -> BOOLEAN]
    BY <2>1, Zenon DEF Types
  <2> QED BY <2>1, <2>2, <2>3 DEF Types, windows
<1>3. ASSUME NEW e \in Ends, PackageData(e) PROVE Types'
  <2>1. /\ Cell(e, "DATA", 0, NoDigest) \in Cells
        /\ sendme_record_sending_cell_digest(e) \in Digests
    BY CellTypes, DigestTypes
  <2>2. sendme_record_cell_digest_on_circ(e, sendme_record_sending_cell_digest(e))
          \in Seq(Digests)
    BY <2>1 DEF Types, sendme_record_cell_digest_on_circ
  <2>3. /\ package_window' \in [Ends -> Int] /\ inflight' \in [Ends -> Int]
        /\ cwnd' \in [Ends -> Nat \ {0}]
        /\ sendme_pending_timestamps' \in [Ends -> Int]
    <3>1. sendme_note_circuit_data_packaged(e)
      BY <1>3 DEF PackageData
    <3>2. CASE UseCC
      <4>1. /\ inflight' = [inflight EXCEPT ![e] = @ + 1]
            /\ UNCHANGED <<package_window, cwnd>>
        BY <3>1, <3>2 DEF sendme_note_circuit_data_packaged
      <4>2. PICK x \in Int : sendme_pending_timestamps' =
                               [sendme_pending_timestamps EXCEPT ![e] = x]
        <5>1. sendme_pending_timestamps[e] \in Int
          BY DEF Types
        <5> QED BY <5>1, <3>1, <3>2 DEF sendme_note_circuit_data_packaged
      <4>3. inflight' \in [Ends -> Int] /\ sendme_pending_timestamps' \in [Ends -> Int]
        BY <4>1, <4>2 DEF Types
      <4> QED BY <4>1, <4>3 DEF Types
    <3>3. CASE ~UseCC
      BY <3>1, <3>3 DEF Types, sendme_note_circuit_data_packaged
    <3> QED BY <3>2, <3>3
  <2>4. /\ inbuf' = [inbuf EXCEPT ![e] = @ - 1] /\ inbuf[e] > 0
        /\ sendme_digest' = [sendme_digest EXCEPT
                               ![e] = sendme_record_sending_cell_digest(e)]
        /\ wire' = [wire EXCEPT ![e] = Append(@, Cell(e, "DATA", 0, NoDigest))]
        /\ UNCHANGED <<deliver_window, reading, packaging, nrecv>>
    BY <1>3 DEF PackageData
  <2>5. sendme_last_digests' \in [Ends -> Seq(Digests)]
    BY <1>3, <2>2 DEF PackageData, Types
  <2>6. status' \in [Ends -> {"open", "protocol", "closed"}]
    BY <1>3 DEF PackageData, Types
  <2>7. inbuf' \in [Ends -> Nat] /\ sendme_digest' \in [Ends -> Digests]
    BY <2>1, <2>4 DEF Types
  <2>8. wire' \in [Ends -> Seq(Cells)]
    BY <2>1, <2>4 DEF Types
  <2> QED BY <2>3, <2>4, <2>5, <2>6, <2>7, <2>8 DEF Types
<1>4. ASSUME NEW e \in Ends, StopPackaging(e) PROVE Types'
  BY <1>4 DEF Types, StopPackaging, windows
<1>5. ASSUME NEW e \in Ends, SendOther(e) PROVE Types'
  <2>1. /\ Cell(e, "OTHER", 0, NoDigest) \in Cells
        /\ sendme_record_sending_cell_digest(e) \in Digests
    BY CellTypes, DigestTypes
  <2> QED BY SMTT(30), <1>5, <2>1 DEF Types, SendOther, windows, edge
<1>6. ASSUME NEW e \in Ends, ReceiveData(e) PROVE Types'
  <2> DEFINE d == sendme_record_received_cell_digest(e)
  <2>1. /\ d \in Digests /\ sendme_record_sending_cell_digest(e) \in Digests
        /\ NoDigest \in Digests
    BY DigestTypes
  <2>2. EmitVersion[e] \in {0, 1}
    BY ConstantsOK
  <2>3. send_circuit_level_sendme(e, d) \in Cells
    BY <2>1, <2>2, CellTypes DEF send_circuit_level_sendme
  <2> HIDE DEF d
  <2>4. sendme_inc \in Int
    BY ConstantsOK
  <2>5. /\ nrecv' = [nrecv EXCEPT ![e] = @ + 1]
        /\ UNCHANGED <<windows, sendme_last_digests, edge>>
    BY <1>6 DEF ReceiveData
  <2>6. /\ status' \in [Ends -> {"open", "protocol", "closed"}]
        /\ deliver_window' \in [Ends -> Int]
        /\ sendme_digest' \in [Ends -> Digests]
        /\ wire' \in [Ends -> Seq(Cells)]
    <3>1. CASE deliver_window[e] - 1 < 0
      <4>1. /\ status' = [status EXCEPT ![e] = "protocol"]
            /\ deliver_window' = [deliver_window EXCEPT ![e] = deliver_window[e] - 1]
            /\ sendme_digest' = [sendme_digest EXCEPT ![e] = d]
            /\ wire' = wire
        BY <1>6, <3>1 DEF ReceiveData, d
      <4> QED BY <4>1, <2>1 DEF Types
    <3>2. CASE ~(deliver_window[e] - 1 < 0) /\ SendmeDue(deliver_window[e] - 1)
      <4>1. /\ status' = status
            /\ deliver_window' = [deliver_window EXCEPT
                                    ![e] = deliver_window[e] - 1 + sendme_inc]
            /\ wire' = [wire EXCEPT
                          ![e] = Append(@, send_circuit_level_sendme(e, d))]
        BY <1>6, <3>2 DEF ReceiveData, d
      <4>2. PICK x \in Digests : sendme_digest' = [sendme_digest EXCEPT ![e] = x]
        BY <1>6, <3>2, <2>1 DEF ReceiveData, d
      <4> QED BY <4>1, <4>2, <2>3, <2>4 DEF Types
    <3>3. CASE ~(deliver_window[e] - 1 < 0) /\ ~SendmeDue(deliver_window[e] - 1)
      <4>1. /\ status' = status /\ wire' = wire
            /\ deliver_window' = [deliver_window EXCEPT ![e] = deliver_window[e] - 1]
            /\ sendme_digest' = [sendme_digest EXCEPT ![e] = d]
        BY <1>6, <3>3 DEF ReceiveData, d
      <4> QED BY <4>1, <2>1 DEF Types
    <3> QED BY <3>1, <3>2, <3>3
  <2>7. /\ UNCHANGED <<package_window, inflight, cwnd, inbuf, reading, packaging>>
        /\ UNCHANGED <<sendme_pending_timestamps, sendme_last_digests>>
    BY <2>5 DEF windows, edge
  <2>8. nrecv' \in [Ends -> Nat]
    BY <2>5 DEF Types
  <2> QED BY <2>6, <2>7, <2>8 DEF Types
<1>7. ASSUME NEW e \in Ends, ReceiveSendme(e) PROVE Types'
  <2> DEFINE cell == wire[Peer(e)][nrecv[e] + 1]
             ok == /\ sendme_is_valid(e, cell)
                   /\ UseCC \/ sendme_process_circuit_level_impl(e)
  <2>1. sendme_record_received_cell_digest(e) \in Digests
    BY DigestTypes
  <2>2. pop_first_cell_digest(e) \in Seq(Digests)
    BY DEF Types, pop_first_cell_digest
  <2>3. /\ package_window' \in [Ends -> Int] /\ inflight' \in [Ends -> Int]
        /\ cwnd' \in [Ends -> Nat \ {0}]
        /\ sendme_pending_timestamps' \in [Ends -> Int]
        /\ status' \in [Ends -> {"open", "protocol", "closed"}]
        /\ reading' \in [Ends -> BOOLEAN] /\ packaging' \in [Ends -> BOOLEAN]
    <3>1. CASE ok
      <4>1. AcceptSendme(e) /\ UNCHANGED status
            /\ reading' = [reading EXCEPT ![e] = TRUE]
            /\ packaging' = [packaging EXCEPT ![e] = inbuf[e] > 0]
        BY <3>1, <1>7 DEF ReceiveSendme
      <4>2. sendme_inc \in Int /\ Cwnds \subseteq Nat \ {0}
        BY ConstantsOK
      <4>3. /\ reading' \in [Ends -> BOOLEAN] /\ packaging' \in [Ends -> BOOLEAN]
            /\ status' \in [Ends -> {"open", "protocol", "closed"}]
        BY <4>1 DEF Types
      <4>4. CASE UseCC
        <5>1. /\ inflight' = [inflight EXCEPT ![e] = @ - sendme_inc]
              /\ sendme_pending_timestamps' =
                   [sendme_pending_timestamps EXCEPT ![e] = @ - 1]
              /\ UNCHANGED package_window
          BY <4>1, <4>4 DEF AcceptSendme
        <5>2. PICK c \in Cwnds : cwnd' = [cwnd EXCEPT ![e] = c]
          BY <4>1, <4>4 DEF AcceptSendme
        <5>3. inflight' \in [Ends -> Int] /\ sendme_pending_timestamps' \in [Ends -> Int]
          BY <5>1, <4>2 DEF Types
        <5>4. cwnd' \in [Ends -> Nat \ {0}]
          BY <5>2, <4>2 DEF Types
        <5> QED BY <5>1, <5>3, <5>4, <4>3 DEF Types
      <4>5. CASE ~UseCC
        <5>1. /\ package_window' = [package_window EXCEPT ![e] = @ + sendme_inc]
              /\ UNCHANGED <<inflight, cwnd, sendme_pending_timestamps>>
          BY <4>1, <4>5 DEF AcceptSendme
        <5>2. package_window' \in [Ends -> Int]
          BY <5>1, <4>2 DEF Types
        <5> QED BY <5>1, <5>2, <4>3 DEF Types
      <4> QED BY <4>4, <4>5
    <3>2. CASE ~ok
      BY <3>2, <1>7 DEF Types, ReceiveSendme, windows
    <3> QED BY <3>1, <3>2
  <2>4. /\ nrecv' = [nrecv EXCEPT ![e] = @ + 1]
        /\ sendme_digest' = [sendme_digest EXCEPT
                               ![e] = sendme_record_received_cell_digest(e)]
        /\ UNCHANGED <<deliver_window, inbuf, wire>>
    BY <1>7 DEF ReceiveSendme
  <2>5. sendme_last_digests' \in [Ends -> Seq(Digests)]
    BY <1>7, <2>2 DEF ReceiveSendme, Types
  <2>6. nrecv' \in [Ends -> Nat] /\ sendme_digest' \in [Ends -> Digests]
    BY <2>1, <2>4 DEF Types
  <2> QED BY <2>3, <2>4, <2>5, <2>6 DEF Types
<1>8. ASSUME NEW e \in Ends, ReceiveOther(e) PROVE Types'
  <2>1. sendme_record_received_cell_digest(e) \in Digests
    BY DigestTypes
  <2> QED BY SMTT(30), <1>8, <2>1 DEF Types, ReceiveOther, windows, edge
<1>9. ASSUME NEW e \in Ends, circuit_mark_for_close(e) PROVE Types'
  BY <1>9 DEF Types, circuit_mark_for_close, windows, edge
<1>10. ASSUME NEW e \in Ends, ReceiveDestroy(e) PROVE Types'
  BY <1>10 DEF Types, ReceiveDestroy, windows, edge
<1> QED BY <1>1, <1>2, <1>3, <1>4, <1>5, <1>6, <1>7, <1>8, <1>9, <1>10
       DEF Next, EndStep

-----------------------------------------------------------------------------
(* EndsAgree is preserved, one lemma per action that sends or handles a    *)
(* cell.                                                                   *)

(* What the invariant says of one end.                                     *)
LEMMA EndFacts ==
  ASSUME IInv, NEW e \in Ends
  PROVE  /\ Peer(e) \in Ends /\ Peer(e) # e /\ Peer(Peer(e)) = e
         /\ wire[e] \in Seq(Cells) /\ nrecv[e] \in Nat
         /\ sendme_last_digests[e] \in Seq(Digests)
         /\ WireOK(wire[e])
         /\ DeliverOK(wire[Peer(e)], nrecv[e], wire[e], deliver_window[e])
         /\ FifoOK(e, wire[e], wire[Peer(e)], nrecv[e], sendme_last_digests[e])
         /\ WindowOK(wire[e], wire[Peer(e)], nrecv[e], sendme_last_digests[e],
                     package_window[e], inflight[e], sendme_pending_timestamps[e])
         /\ SendmesOK(e, wire[e], wire[Peer(e)], nrecv[e])
         /\ status[e] # "protocol"
         /\ \A f \in Ends : f = e \/ f = Peer(e)
  BY PeerFacts DEF IInv, Types, EndsAgree, EndAgrees, Ends, Peer

(* The peer of an end that sends a cell.                                   *)
LEMMA PeerGrow ==
  ASSUME IInv, NEW e \in Ends, NEW c \in Cells,
         wire' = [wire EXCEPT ![e] = Append(@, c)],
         \A f \in Ends : f # e =>
           /\ nrecv'[f] = nrecv[f] /\ deliver_window'[f] = deliver_window[f]
           /\ sendme_last_digests'[f] = sendme_last_digests[f]
           /\ package_window'[f] = package_window[f]
           /\ inflight'[f] = inflight[f] /\ status'[f] = status[f]
           /\ sendme_pending_timestamps'[f] = sendme_pending_timestamps[f]
  PROVE  EndAgrees(Peer(e))'
<1> DEFINE p == Peer(e)
<1>1. p \in Ends /\ p # e /\ Peer(p) = e /\ wire[e] \in Seq(Cells)
  BY EndFacts
<1>2. /\ wire[p] \in Seq(Cells) /\ nrecv[p] \in Nat /\ WireOK(wire[p])
      /\ DeliverOK(wire[e], nrecv[p], wire[p], deliver_window[p])
      /\ FifoOK(p, wire[p], wire[e], nrecv[p], sendme_last_digests[p])
      /\ WindowOK(wire[p], wire[e], nrecv[p], sendme_last_digests[p],
                  package_window[p], inflight[p], sendme_pending_timestamps[p])
      /\ SendmesOK(p, wire[p], wire[e], nrecv[p])
      /\ status[p] # "protocol"
  BY <1>1, EndFacts
<1>3. /\ DeliverOK(Append(wire[e], c), nrecv[p], wire[p], deliver_window[p])
      /\ FifoOK(p, wire[p], Append(wire[e], c), nrecv[p], sendme_last_digests[p])
      /\ WindowOK(wire[p], Append(wire[e], c), nrecv[p], sendme_last_digests[p],
                  package_window[p], inflight[p], sendme_pending_timestamps[p])
      /\ SendmesOK(p, wire[p], Append(wire[e], c), nrecv[p])
  BY <1>1, <1>2, GrowIn
<1>4. wire'[p] = wire[p] /\ wire'[e] = Append(wire[e], c)
  BY <1>1 DEF IInv, Types
<1> QED BY <1>1, <1>2, <1>3, <1>4 DEF EndAgrees

(* A cell that is not DATA leaves the two ends agreed.                     *)
LEMMA SendOtherStep ==
  ASSUME IInv, NEW e \in Ends, SendOther(e)
  PROVE  EndsAgree'
<1> DEFINE c == Cell(e, "OTHER", 0, NoDigest)
<1>1. /\ wire' = [wire EXCEPT ![e] = Append(@, c)]
      /\ UNCHANGED <<status, package_window, inflight, deliver_window, nrecv>>
      /\ UNCHANGED <<sendme_pending_timestamps, sendme_last_digests>>
  BY DEF SendOther, windows
<1>2. c \in Cells
  BY CellTypes, DigestTypes DEF IInv
<1>3. /\ c.cmd = "OTHER"
      /\ c.ndata = NData(wire[e], Len(wire[e]))
      /\ c.nsendme = NSendme(wire[e], Len(wire[e]))
  <2>1. NData(wire[e], Len(wire[e])) \in Nat /\ NSendme(wire[e], Len(wire[e])) \in Nat
    <3>1. wire[e] \in Seq(Cells) /\ Len(wire[e]) \in 0 .. Len(wire[e])
      BY EndFacts
    <3> QED BY <3>1, CountTypes
  <2> QED BY <2>1 DEF Cell, DataSent, SendmesSent
<1> HIDE DEF c
<1>4. EndAgrees(Peer(e))'
  BY <1>1, <1>2, PeerGrow
<1>5. EndAgrees(e)'
  <2>1. WireOK(Append(wire[e], c))
    <3>1. wire[e] \in Seq(Cells) /\ WireOK(wire[e])
      BY EndFacts
    <3>2. NData(wire[e], Len(wire[e])) \in Nat /\ NSendme(wire[e], Len(wire[e])) \in Nat
      <4>1. Len(wire[e]) \in 0 .. Len(wire[e])
        BY <3>1
      <4> QED BY <3>1, <4>1, CountTypes
    <3> QED BY <3>1, <3>2, <1>2, <1>3, WireAppend
  <2>2. /\ DeliverOK(wire[Peer(e)], nrecv[e], Append(wire[e], c), deliver_window[e])
        /\ FifoOK(e, Append(wire[e], c), wire[Peer(e)], nrecv[e],
                  sendme_last_digests[e])
        /\ WindowOK(Append(wire[e], c), wire[Peer(e)], nrecv[e],
                    sendme_last_digests[e], package_window[e], inflight[e],
                    sendme_pending_timestamps[e])
        /\ SendmesOK(e, Append(wire[e], c), wire[Peer(e)], nrecv[e])
    <3>1. wire[Peer(e)] \in Seq(Cells)
      BY EndFacts
    <3> QED BY <1>2, <1>3, <3>1, EndFacts, GrowOut
  <2>3. wire'[e] = Append(wire[e], c) /\ wire'[Peer(e)] = wire[Peer(e)]
    BY <1>1, EndFacts DEF IInv, Types
  <2>4. status[e] # "protocol"
    BY EndFacts
  <2> QED BY <1>1, <2>1, <2>2, <2>3, <2>4 DEF EndAgrees
<1> QED BY <1>4, <1>5, EndFacts DEF EndsAgree

(* The peer of an end that sends nothing.                                  *)
LEMMA PeerIdle ==
  ASSUME IInv, NEW e \in Ends, wire' = wire,
         \A f \in Ends : f # e =>
           /\ nrecv'[f] = nrecv[f] /\ deliver_window'[f] = deliver_window[f]
           /\ sendme_last_digests'[f] = sendme_last_digests[f]
           /\ package_window'[f] = package_window[f]
           /\ inflight'[f] = inflight[f] /\ status'[f] = status[f]
           /\ sendme_pending_timestamps'[f] = sendme_pending_timestamps[f]
  PROVE  EndAgrees(Peer(e))'
<1>1. Peer(e) \in Ends /\ Peer(e) # e
  BY EndFacts
<1>2. EndAgrees(Peer(e))
  BY <1>1 DEF IInv, EndsAgree
<1> QED BY <1>1, <1>2 DEF EndAgrees

(* The cell that an end is about to handle.                                *)
LEMMA ReadyFacts ==
  ASSUME IInv, NEW e \in Ends, NEW cmd, CellReady(e, cmd)
  PROVE  /\ nrecv[e] + 1 \in 1 .. Len(wire[Peer(e)])
         /\ wire[Peer(e)][nrecv[e] + 1].cmd = cmd
         /\ wire[Peer(e)] \in Seq(Cells) /\ WireOK(wire[Peer(e)])
  BY EndFacts DEF CellReady

(* So does receiving it.                                                   *)
LEMMA ReceiveOtherStep ==
  ASSUME IInv, NEW e \in Ends, ReceiveOther(e)
  PROVE  EndsAgree'
<1> DEFINE in == wire[Peer(e)]
           n  == nrecv[e]
<1>1. /\ nrecv' = [nrecv EXCEPT ![e] = @ + 1]
      /\ UNCHANGED <<status, package_window, inflight, deliver_window, wire>>
      /\ UNCHANGED <<sendme_pending_timestamps, sendme_last_digests>>
  BY DEF ReceiveOther, windows
<1>2. /\ n + 1 <= Len(in) /\ in[n + 1].cmd = "OTHER" /\ in \in Seq(Cells)
      /\ WireOK(in) /\ n \in Nat
  BY ReadyFacts, EndFacts DEF ReceiveOther
<1>3. nrecv'[e] = n + 1 /\ \A f \in Ends : f # e => nrecv'[f] = nrecv[f]
  BY <1>1 DEF IInv, Types
<1>4. EndAgrees(Peer(e))'
  BY <1>1, <1>3, PeerIdle
<1>5. /\ DeliverOK(in, n + 1, wire[e], deliver_window[e])
      /\ FifoOK(e, wire[e], in, n + 1, sendme_last_digests[e])
      /\ WindowOK(wire[e], in, n + 1, sendme_last_digests[e], package_window[e],
                  inflight[e], sendme_pending_timestamps[e])
      /\ SendmesOK(e, wire[e], in, n + 1)
  BY <1>2, EndFacts, StepIn
<1>6. EndAgrees(e)'
  <2>1. WireOK(wire[e]) /\ status[e] # "protocol"
    BY EndFacts
  <2> QED BY <1>1, <1>3, <1>5, <2>1 DEF EndAgrees
<1> QED BY <1>4, <1>6, EndFacts DEF EndsAgree

(* A data cell that is packaged takes one cell off the window, and is the  *)
(* newest entry of the FIFO if it ends an increment.                       *)
LEMMA PackageDataStep ==
  ASSUME WellConfigured, IInv, NEW e \in Ends, PackageData(e)
  PROVE  EndsAgree'
<1> DEFINE c    == Cell(e, "DATA", 0, NoDigest)
           out  == wire[e]
           in   == wire[Peer(e)]
           n    == nrecv[e]
           fifo == sendme_last_digests[e]
           x    == NData(out, Len(out))
           a    == NSendme(in, n)
           l    == Len(fifo)
           last == LastOfIncrement(sendme_inc, x, a, l)
<1>1. /\ in \in Seq(Cells) /\ out \in Seq(Cells) /\ n \in 0 .. Len(in) /\ n \in Nat
      /\ fifo \in Seq(Digests) /\ l \in Nat /\ Len(out) \in Nat
      /\ sendme_inc \in Nat /\ sendme_inc > 1
      /\ WireOK(out) /\ DeliverOK(in, n, out, deliver_window[e])
      /\ FifoOK(e, out, in, n, fifo)
      /\ WindowOK(out, in, n, fifo, package_window[e], inflight[e],
                  sendme_pending_timestamps[e])
      /\ SendmesOK(e, out, in, n)
  BY EndFacts, ConstantsOK DEF DeliverOK, WellConfigured
<1>2. x \in Nat /\ a \in Nat /\ NSendme(out, Len(out)) \in Nat
  <2>1. Len(out) \in 0 .. Len(out)
    BY <1>1
  <2> QED BY <1>1, <2>1, CountTypes
<1>3. /\ c \in Cells /\ c.cmd = "DATA" /\ c.ndata = x + 1
      /\ c.nsendme = NSendme(out, Len(out))
  <2>1. c \in Cells
    BY CellTypes, DigestTypes DEF IInv
  <2> QED BY <2>1, <1>2 DEF Cell, DataSent, SendmesSent
<1>4. /\ wire' = [wire EXCEPT ![e] = Append(@, c)]
      /\ UNCHANGED <<deliver_window, nrecv>>
      /\ sendme_note_circuit_data_packaged(e)
      /\ sendme_last_digests' = [sendme_last_digests EXCEPT
           ![e] = sendme_record_cell_digest_on_circ(e,
                    sendme_record_sending_cell_digest(e))]
      /\ congestion_control_get_package_window(e) > 0
      /\ status' = [status EXCEPT
           ![e] = IF congestion_control_get_package_window(e)' < 0
                  THEN "protocol" ELSE @]
  BY DEF PackageData
<1>5. circuit_sent_cell_for_sendme(e) <=> last
  BY RecordingExact DEF DataSent, SendmesRecv
<1> HIDE DEF c
<1>6. /\ wire'[e] = Append(out, c) /\ wire'[Peer(e)] = in
      /\ \A f \in Ends : f # e => /\ sendme_last_digests'[f] = sendme_last_digests[f]
                                  /\ status'[f] = status[f]
  BY <1>4, EndFacts DEF IInv, Types
<1>7. sendme_last_digests'[e] =
        IF last THEN Append(fifo, [from |-> e, pos |-> Len(out) + 1]) ELSE fifo
  BY <1>4, <1>5 DEF sendme_record_cell_digest_on_circ,
       sendme_record_sending_cell_digest, IInv, Types
<1>8. \A f \in Ends : f # e =>
        /\ package_window'[f] = package_window[f] /\ inflight'[f] = inflight[f]
        /\ sendme_pending_timestamps'[f] = sendme_pending_timestamps[f]
  BY <1>4 DEF sendme_note_circuit_data_packaged, IInv, Types
<1>9. EndAgrees(Peer(e))'
  BY <1>3, <1>4, <1>6, <1>8, PeerGrow
<1>10. WireOK(Append(out, c))
  BY <1>1, <1>2, <1>3, WireAppend
<1>11. DeliverOK(in, n, Append(out, c), deliver_window[e])
       /\ SendmesOK(e, Append(out, c), in, n)
  BY <1>1, <1>3, GrowOut
<1>12. /\ Append(out, c) \in Seq(Cells) /\ Len(Append(out, c)) = Len(out) + 1
       /\ NData(Append(out, c), Len(out) + 1) = x + 1
       /\ Append(out, c)[Len(out) + 1] = c
       /\ \A i \in 1 .. Len(out) : Append(out, c)[i] = out[i]
  BY <1>1, <1>3, AppendFacts
<1>13. FifoOK(e, Append(out, c), in, n, sendme_last_digests'[e])
  <2>1. x >= sendme_inc * (a + l) /\ x < sendme_inc * (a + l) + sendme_inc
    BY <1>1 DEF FifoOK
  <2>2. sendme_inc * (a + (l + 1)) = sendme_inc * (a + l) + sendme_inc
        /\ sendme_inc * (a + l) \in Nat
    BY SMTT(30), <1>1, <1>2
  <2>3. ASSUME NEW k \in 1 .. l
        PROVE  /\ fifo[k].from = e /\ fifo[k].pos \in 1 .. Len(Append(out, c))
               /\ Append(out, c)[fifo[k].pos].cmd = "DATA"
               /\ Append(out, c)[fifo[k].pos].ndata = sendme_inc * (a + k)
    <3>1. /\ fifo[k].from = e /\ fifo[k].pos \in 1 .. Len(out)
          /\ out[fifo[k].pos].cmd = "DATA"
          /\ out[fifo[k].pos].ndata = sendme_inc * (a + k)
      BY <1>1 DEF FifoOK
    <3> QED BY <3>1, <1>12, <1>1
  <2>4. CASE ~last
    <3>1. /\ x + 1 < sendme_inc * (a + l) + sendme_inc
          /\ x + 1 >= sendme_inc * (a + l)
      <4>1. x + 1 # sendme_inc * (a + l) + sendme_inc
        BY <2>4 DEF LastOfIncrement
      <4> HIDE DEF x, a, l
      <4>2. PICK y \in Nat : y = sendme_inc * (a + l)
        BY <2>2
      <4>3. x \in Int /\ sendme_inc \in Int
        BY <1>1, <1>2
      <4>4. x >= y /\ x < y + sendme_inc /\ x + 1 # y + sendme_inc
        BY <4>1, <4>2, <2>1
      <4>5. x + 1 < y + sendme_inc /\ x + 1 >= y
        BY <4>3, <4>4
      <4> QED BY <4>2, <4>5
    <3>2. sendme_last_digests'[e] = fifo
      BY <2>4, <1>7
    <3>3. FifoOK(e, Append(out, c), in, n, fifo)
      BY <3>1, <2>3, <1>12 DEF FifoOK
    <3> QED BY <3>2, <3>3
  <2>5. CASE last
    <3> DEFINE d == [from |-> e, pos |-> Len(out) + 1]
               g == Append(fifo, d)
    <3>1. sendme_last_digests'[e] = g
      BY <2>5, <1>7
    <3>2. d \in Digests
      BY <1>1 DEF Digests
    <3>3. Len(g) = l + 1 /\ g[l + 1] = d /\ \A k \in 1 .. l : g[k] = fifo[k]
      BY <3>2, <1>1
    <3>4. x + 1 = sendme_inc * (a + (l + 1))
      BY <2>2, <2>5 DEF LastOfIncrement
    <3>5. x + 1 < sendme_inc * (a + (l + 1)) + sendme_inc
      BY <3>4, <1>1, <1>2
    <3>6. d.from = e /\ d.pos = Len(out) + 1
      OBVIOUS
    <3> HIDE DEF d, g
    <3>7. ASSUME NEW k \in 1 .. l + 1
          PROVE  /\ g[k].from = e /\ g[k].pos \in 1 .. Len(Append(out, c))
                 /\ Append(out, c)[g[k].pos].cmd = "DATA"
                 /\ Append(out, c)[g[k].pos].ndata = sendme_inc * (a + k)
      <4>1. CASE k = l + 1
        BY <4>1, <3>3, <3>4, <3>6, <1>1, <1>3, <1>12
      <4>2. CASE k \in 1 .. l
        BY <4>2, <3>3, <2>3
      <4>3. k = l + 1 \/ k \in 1 .. l
        <5> HIDE DEF l
        <5> QED BY <1>1
      <4> QED BY <4>1, <4>2, <4>3
    <3>8. x + 1 >= sendme_inc * (a + (l + 1))
      BY <3>4, <1>2
    <3>9. FifoOK(e, Append(out, c), in, n, g)
      BY <3>3, <3>5, <3>7, <3>8, <1>12 DEF FifoOK
    <3> QED BY <3>9, <3>1
  <2> QED BY <2>4, <2>5
<1>14. /\ WindowOK(Append(out, c), in, n, sendme_last_digests'[e],
                   package_window'[e], inflight'[e], sendme_pending_timestamps'[e])
       /\ ~(congestion_control_get_package_window(e)' < 0)
  <2>1. /\ package_window[e] \in Int /\ inflight[e] \in Int /\ cwnd[e] \in Nat
        /\ sendme_pending_timestamps[e] \in Int /\ sendme_inc * a \in Nat
    <3>1. sendme_inc * a \in Nat
      <4> HIDE DEF a
      <4> QED BY <1>1, <1>2
    <3> QED BY <3>1 DEF IInv, Types
  <2>2. CASE UseCC
    <3>1. /\ inflight'[e] = inflight[e] + 1 /\ cwnd'[e] = cwnd[e]
          /\ package_window'[e] = package_window[e]
          /\ sendme_pending_timestamps'[e] =
               IF last THEN sendme_pending_timestamps[e] + 1
                       ELSE sendme_pending_timestamps[e]
      BY <1>4, <1>5, <2>2 DEF sendme_note_circuit_data_packaged, IInv, Types
    <3>2. /\ inflight[e] = x - sendme_inc * a
          /\ sendme_pending_timestamps[e] = l /\ package_window[e] = circwindow
      BY <1>1, <2>2 DEF WindowOK
    <3>3. Len(sendme_last_digests'[e]) = IF last THEN l + 1 ELSE l
      BY <1>7, <1>1
    <3>4. (x + 1) - sendme_inc * a = inflight[e] + 1
      BY <3>2, <2>1, <1>2
    <3>5. WindowOK(Append(out, c), in, n, sendme_last_digests'[e],
                   package_window'[e], inflight'[e], sendme_pending_timestamps'[e])
      BY <3>1, <3>2, <3>3, <3>4, <1>12, <2>2 DEF WindowOK
    <3>6. ~(congestion_control_get_package_window(e)' < 0)
      BY <3>1, <2>1, <2>2 DEF congestion_control_get_package_window
    <3> QED BY <3>5, <3>6
  <2>3. CASE ~UseCC
    <3>1. /\ package_window'[e] = package_window[e] - 1
          /\ inflight'[e] = inflight[e]
          /\ sendme_pending_timestamps'[e] = sendme_pending_timestamps[e]
      BY <1>4, <2>3 DEF sendme_note_circuit_data_packaged, IInv, Types
    <3>2. /\ package_window[e] = circwindow - (x - sendme_inc * a)
          /\ inflight[e] = 0 /\ sendme_pending_timestamps[e] = 0
      BY <1>1, <2>3 DEF WindowOK
    <3>3. package_window[e] > 0
      BY <1>4, <2>3 DEF congestion_control_get_package_window
    <3>4. circwindow \in Nat
      BY ConstantsOK
    <3>5. package_window'[e] = circwindow - ((x + 1) - sendme_inc * a)
      BY <3>1, <3>2, <3>4, <2>1, <1>2
    <3>6. package_window'[e] >= 0
      BY <3>1, <3>3, <2>1
    <3>7. WindowOK(Append(out, c), in, n, sendme_last_digests'[e],
                   package_window'[e], inflight'[e], sendme_pending_timestamps'[e])
      BY <3>1, <3>2, <3>5, <3>6, <1>12, <2>3 DEF WindowOK
    <3>8. ~(congestion_control_get_package_window(e)' < 0)
      BY <3>1, <3>3, <2>1, <2>3 DEF congestion_control_get_package_window
    <3> QED BY <3>7, <3>8
  <2> QED BY <2>2, <2>3
<1>15. status'[e] # "protocol"
  BY <1>4, <1>14, EndFacts DEF IInv, Types
<1>16. EndAgrees(e)'
  BY <1>4, <1>6, <1>10, <1>11, <1>13, <1>14, <1>15 DEF EndAgrees
<1> QED BY <1>9, <1>16, EndFacts DEF EndsAgree

(* A data cell that is handled is the one the next SENDME acknowledges, if *)
(* it ends an increment.                                                   *)
LEMMA ReceiveDataStep ==
  ASSUME WellConfigured, IInv, NEW e \in Ends, ReceiveData(e)
  PROVE  EndsAgree'
<1> DEFINE out  == wire[e]
           in   == wire[Peer(e)]
           n    == nrecv[e]
           fifo == sendme_last_digests[e]
           dw   == deliver_window[e]
           w    == deliver_window[e] - 1
           m    == NSendme(out, Len(out))
           d    == sendme_record_received_cell_digest(e)
           c    == send_circuit_level_sendme(e, d)
<1>1. /\ in \in Seq(Cells) /\ out \in Seq(Cells) /\ n \in Nat /\ n + 1 <= Len(in)
      /\ in[n + 1].cmd = "DATA" /\ WireOK(in) /\ WireOK(out)
      /\ DeliverOK(in, n, out, dw) /\ FifoOK(e, out, in, n, fifo)
      /\ WindowOK(out, in, n, fifo, package_window[e], inflight[e],
                  sendme_pending_timestamps[e])
      /\ SendmesOK(e, out, in, n) /\ status[e] # "protocol"
      /\ Len(out) \in Nat /\ dw \in Int
  <2>1. CellReady(e, "DATA")
    BY DEF ReceiveData
  <2>2. /\ n + 1 \in 1 .. Len(in) /\ in[n + 1].cmd = "DATA"
        /\ in \in Seq(Cells) /\ WireOK(in)
    BY <2>1, ReadyFacts
  <2>3. deliver_window[e] \in Int
    BY DEF IInv, Types
  <2> QED BY <2>2, <2>3, EndFacts
<1>2. /\ sendme_inc \in Nat /\ sendme_inc > 1 /\ CIRCWINDOW_START \in Nat
      /\ sendme_inc <= CIRCWINDOW_START /\ EmitVersion[e] \in {0, 1}
  BY ConstantsOK DEF WellConfigured
<1>3. m \in Nat /\ NData(out, Len(out)) \in Nat /\ NData(in, n) \in Nat
  <2>1. Len(out) \in 0 .. Len(out) /\ n \in 0 .. Len(in)
    BY <1>1
  <2> QED BY <1>1, <2>1, CountTypes
<1>4. /\ NData(in, n) = sendme_inc * m + (CIRCWINDOW_START - dw)
      /\ dw <= CIRCWINDOW_START /\ dw > CIRCWINDOW_START - sendme_inc
  BY <1>1 DEF DeliverOK
<1>5. /\ FifoOK(e, out, in, n + 1, fifo)
      /\ WindowOK(out, in, n + 1, fifo, package_window[e], inflight[e],
                  sendme_pending_timestamps[e])
      /\ SendmesOK(e, out, in, n + 1) /\ NData(in, n + 1) = NData(in, n) + 1
  BY <1>1, StepIn
<1>6. w \in Int /\ ~(w < 0)
  BY <1>1, <1>2, <1>4
<1>7. /\ nrecv' = [nrecv EXCEPT ![e] = @ + 1] /\ status' = status
      /\ UNCHANGED <<package_window, inflight, sendme_pending_timestamps>>
      /\ sendme_last_digests' = sendme_last_digests
  <2>1. /\ nrecv' = [nrecv EXCEPT ![e] = @ + 1]
        /\ UNCHANGED <<windows, sendme_last_digests>>
    BY DEF ReceiveData
  <2>2. status' = status
    <3>1. CASE SendmeDue(w)
      BY <3>1, <1>6 DEF ReceiveData
    <3>2. CASE ~SendmeDue(w)
      BY <3>2, <1>6 DEF ReceiveData
    <3> QED BY <3>1, <3>2
  <2> QED BY <2>1, <2>2 DEF windows
<1>8. nrecv'[e] = n + 1 /\ \A f \in Ends : f # e => nrecv'[f] = nrecv[f]
  BY <1>7 DEF IInv, Types
<1>9. CASE ~SendmeDue(w)
  <2>1. wire' = wire /\ deliver_window' = [deliver_window EXCEPT ![e] = w]
    BY <1>6, <1>9 DEF ReceiveData
  <2>2. deliver_window'[e] = w
        /\ \A f \in Ends : f # e => deliver_window'[f] = deliver_window[f]
    BY <2>1 DEF IInv, Types
  <2>3. EndAgrees(Peer(e))'
    BY <1>7, <1>8, <2>1, <2>2, PeerIdle
  <2>4. DeliverOK(in, n + 1, out, w)
    <3> HIDE DEF in, n, out, m
    <3>1. NData(in, n + 1) = sendme_inc * m + (CIRCWINDOW_START - w)
      BY SMTT(30), <1>1, <1>2, <1>3, <1>4, <1>5
    <3>2. w <= CIRCWINDOW_START /\ w > CIRCWINDOW_START - sendme_inc
      BY <1>1, <1>2, <1>4, <1>9 DEF SendmeDue
    <3> QED BY <3>1, <3>2, <1>1 DEF DeliverOK, m
  <2>5. EndAgrees(e)'
    BY <1>1, <1>5, <1>7, <1>8, <2>1, <2>2, <2>4 DEF EndAgrees
  <2> QED BY <2>3, <2>5, EndFacts DEF EndsAgree
<1>10. CASE SendmeDue(w)
  <2>1. /\ wire' = [wire EXCEPT ![e] = Append(@, c)]
        /\ deliver_window' = [deliver_window EXCEPT ![e] = w + sendme_inc]
    BY <1>6, <1>10 DEF ReceiveData
  <2>2. deliver_window'[e] = w + sendme_inc
        /\ \A f \in Ends : f # e => deliver_window'[f] = deliver_window[f]
    BY <2>1 DEF IInv, Types
  <2>3. w = CIRCWINDOW_START - sendme_inc /\ CIRCWINDOW_START - dw + 1 = sendme_inc
    <3>1. w <= CIRCWINDOW_START - sendme_inc
      BY <1>10 DEF SendmeDue
    <3>2. w = dw - 1
      OBVIOUS
    <3>3. dw \in Int
      BY <1>1
    <3> HIDE DEF dw, w, in, out, n, m, fifo
    <3> QED BY <3>1, <3>2, <3>3, <1>2, <1>4
  <2>4. d = [from |-> Peer(e), pos |-> n + 1]
    <3>1. CIRCWINDOW_START - (dw - 1) = sendme_inc * 1 + 0
      BY <2>3, <1>1, <1>2
    <3>2. (sendme_inc * 1 + 0) % sendme_inc = 0
      BY <1>2, ModUnique
    <3> QED BY <3>1, <3>2 DEF sendme_record_received_cell_digest,
              circuit_sendme_cell_is_next
  <2>5. /\ c \in Cells /\ c.cmd = "SENDME" /\ c.ver = EmitVersion[e]
        /\ c.ndata = NData(out, Len(out)) /\ c.nsendme = m + 1
        /\ c.ver = 1 => c.digest = d
    <3>1. d \in Digests /\ NoDigest \in Digests
      BY DigestTypes DEF IInv
    <3>2. c \in Cells
      BY <3>1, <1>2, CellTypes DEF send_circuit_level_sendme, IInv
    <3> QED BY <3>2, <1>3 DEF send_circuit_level_sendme, Cell, DataSent, SendmesSent
  <2> HIDE DEF c
  <2>6. EndAgrees(Peer(e))'
    <3>1. \A f \in Ends : f # e =>
            /\ nrecv'[f] = nrecv[f] /\ deliver_window'[f] = deliver_window[f]
            /\ sendme_last_digests'[f] = sendme_last_digests[f]
            /\ package_window'[f] = package_window[f]
            /\ inflight'[f] = inflight[f] /\ status'[f] = status[f]
            /\ sendme_pending_timestamps'[f] = sendme_pending_timestamps[f]
      BY <1>7, <1>8, <2>2
    <3>2. c \in Cells
      BY <2>5
    <3> QED BY <3>1, <3>2, <2>1, PeerGrow
  <2>7. wire'[e] = Append(out, c) /\ wire'[Peer(e)] = in
    BY <2>1, EndFacts DEF IInv, Types
  <2>8. WireOK(Append(out, c))
    BY <1>1, <1>3, <2>5, WireAppend
  <2>9. /\ FifoOK(e, Append(out, c), in, n + 1, fifo)
        /\ WindowOK(Append(out, c), in, n + 1, fifo, package_window[e],
                    inflight[e], sendme_pending_timestamps[e])
    <3>1. n + 1 \in Nat
      BY <1>1
    <3> QED BY <3>1, <1>1, <1>5, <2>5, GrowOut
  <2>10. /\ Len(Append(out, c)) = Len(out) + 1 /\ Append(out, c)[Len(out) + 1] = c
         /\ NSendme(Append(out, c), Len(out) + 1) = m + 1
         /\ \A i \in 1 .. Len(out) : Append(out, c)[i] = out[i]
    BY <1>1, <2>5, AppendFacts
  <2>11. NData(in, n + 1) = sendme_inc * (m + 1)
    <3> HIDE DEF in, n, m, dw
    <3>1. NData(in, n + 1) = sendme_inc * m + (CIRCWINDOW_START - dw) + 1
      BY <1>3, <1>4, <1>5
    <3>2. CIRCWINDOW_START - dw + 1 = sendme_inc
      BY <2>3
    <3>3. PICK y \in Int : y = sendme_inc * m
      BY <1>2, <1>3
    <3>4. sendme_inc * (m + 1) = y + sendme_inc
      BY <3>3, <1>2, <1>3
    <3>5. dw \in Int
      BY <1>1
    <3> HIDE DEF w, out, fifo
    <3> QED BY <3>1, <3>2, <3>3, <3>4, <3>5, <1>2
  <2>12. DeliverOK(in, n + 1, Append(out, c), w + sendme_inc)
    <3>1. w + sendme_inc = CIRCWINDOW_START
      BY <2>3, <1>1, <1>2
    <3>2. NData(in, n + 1) = sendme_inc * NSendme(Append(out, c), Len(Append(out, c)))
                             + (CIRCWINDOW_START - CIRCWINDOW_START)
      <4>1. sendme_inc * (m + 1) \in Int
        <5> HIDE DEF m
        <5> QED BY <1>2, <1>3
      <4>2. NSendme(Append(out, c), Len(Append(out, c))) = m + 1
        BY <2>10
      <4> HIDE DEF m, in, n, out
      <4> QED BY <2>11, <4>1, <4>2, <1>2
    <3> QED BY <3>1, <3>2, <1>1, <1>2 DEF DeliverOK
  <2>13. SendmesOK(e, Append(out, c), in, n + 1)
    <3> SUFFICES ASSUME NEW i \in 1 .. Len(Append(out, c)),
                        Append(out, c)[i].cmd = "SENDME"
                 PROVE  /\ Append(out, c)[i].ver = EmitVersion[e]
                        /\ Append(out, c)[i].ver = 1 =>
                             /\ Append(out, c)[i].digest.from = Peer(e)
                             /\ Append(out, c)[i].digest.pos \in 1 .. n + 1
                             /\ in[Append(out, c)[i].digest.pos].cmd = "DATA"
                             /\ in[Append(out, c)[i].digest.pos].ndata
                                  = sendme_inc * Append(out, c)[i].nsendme
      BY DEF SendmesOK
    <3>1. CASE i \in 1 .. Len(out)
      BY <3>1, <2>10, <1>5 DEF SendmesOK
    <3>2. CASE i = Len(out) + 1
      <4>1. Append(out, c)[i] = c
        BY <3>2, <2>10
      <4>2. d.from = Peer(e) /\ d.pos = n + 1
        BY <2>4
      <4>3. in[n + 1].ndata = sendme_inc * (m + 1)
        BY <2>11, <1>1 DEF NData
      <4>4. /\ c.ver = EmitVersion[e] /\ c.nsendme = m + 1
            /\ c.ver = 1 => c.digest = d
        BY <2>5
      <4>5. in[n + 1].cmd = "DATA" /\ n + 1 \in 1 .. n + 1
        BY <1>1
      <4> HIDE DEF c, d, m
      <4>6. c.ver = 1 => c.digest.from = Peer(e) /\ c.digest.pos = n + 1
        BY <4>2, <4>4, Zenon
      <4>7. in[n + 1].ndata = sendme_inc * c.nsendme
        BY <4>3, <4>4, Zenon
      <4> QED BY <4>1, <4>4, <4>5, <4>6, <4>7, Zenon
    <3>3. i \in 1 .. Len(out) \/ i = Len(out) + 1
      BY <2>10, <1>1
    <3> QED BY <3>1, <3>2, <3>3, Zenon
  <2>14. EndAgrees(e)'
    BY <1>1, <1>7, <1>8, <2>2, <2>7, <2>8, <2>9, <2>12, <2>13 DEF EndAgrees
  <2> QED BY <2>6, <2>14, EndFacts DEF EndsAgree
<1> QED BY <1>9, <1>10

(* Comparing products of an increment.                                     *)
LEMMA ProductLess ==
  ASSUME NEW b \in Nat, NEW u \in Int, NEW v \in Int, b * u < b * v
  PROVE  u < v
  OBVIOUS

(* A SENDME on its way to an end is one it expects: counted from the last  *)
(* one handled, the s-th SENDME carries the s-th digest of the FIFO.       *)
LEMMA SendmeOnItsWay ==
  ASSUME WellConfigured, IInv, NEW e \in Ends,
         NEW i \in nrecv[e] + 1 .. Len(wire[Peer(e)]),
         wire[Peer(e)][i].cmd = "SENDME"
  PROVE  LET cell == wire[Peer(e)][i]
             fifo == sendme_last_digests[e]
             s    == cell.nsendme - SendmesRecv(e)
         IN  /\ cell_version_can_be_handled(e, cell.ver)
             /\ s \in 1 .. Len(fifo)
             /\ cell.ver = 1 => cell.digest = fifo[s]
             /\ DataSent(e) >= sendme_inc * (SendmesRecv(e) + s)
<1> DEFINE p    == Peer(e)
           out  == wire[e]
           in   == wire[p]
           n    == nrecv[e]
           np   == nrecv[p]
           fifo == sendme_last_digests[e]
           cell == in[i]
           x    == NData(out, Len(out))
           a    == NSendme(in, n)
           m    == NSendme(in, Len(in))
           l    == Len(fifo)
           s    == cell.nsendme - a
<1>1. /\ n \in Nat /\ np \in Nat /\ n <= Len(in)
      /\ in \in Seq(Cells) /\ out \in Seq(Cells) /\ fifo \in Seq(Digests)
      /\ WireOK(in) /\ WireOK(out) /\ p \in Ends /\ Peer(p) = e
      /\ Len(out) \in Nat /\ Len(in) \in Nat /\ l \in Nat
  BY EndFacts DEF DeliverOK
<1>2. /\ DeliverOK(in, n, out, deliver_window[e])
      /\ FifoOK(e, out, in, n, fifo)
      /\ SendmesOK(e, out, in, n)
  BY EndFacts
<1>3. DeliverOK(out, np, in, deliver_window[p]) /\ SendmesOK(p, in, out, np)
  BY <1>1, EndFacts
<1>4. /\ sendme_inc \in Nat /\ sendme_inc > 1 /\ CIRCWINDOW_START \in Nat
      /\ deliver_window[p] \in Int
  BY <1>1, ConstantsOK DEF WellConfigured, IInv, Types
<1>5. /\ x \in Nat /\ a \in Nat /\ m \in Nat
      /\ NData(out, np) \in Nat /\ np \in 0 .. Len(out)
  <2>1. /\ Len(out) \in 0 .. Len(out) /\ Len(in) \in 0 .. Len(in)
        /\ n \in 0 .. Len(in) /\ np \in 0 .. Len(out)
    BY <1>1, <1>3 DEF DeliverOK
  <2> QED BY <1>1, <2>1, CountTypes
<1>6. i \in 1 .. Len(in) /\ i - 1 \in n .. Len(in) /\ i - 1 \in 0 .. Len(in)
  BY <1>1
<1>7. /\ cell.nsendme = NSendme(in, i) /\ cell.nsendme \in Nat
      /\ a + 1 <= cell.nsendme /\ cell.nsendme <= m
  <2>1. cell.nsendme = NSendme(in, i - 1) + 1 /\ cell.nsendme = NSendme(in, i)
    BY <1>1, <1>6 DEF WireOK, NSendme
  <2>2. NSendme(in, i - 1) \in Nat /\ NSendme(in, i) \in Nat
    BY SMTT(30), <1>1, <1>6, CountTypes
  <2>3. a <= NSendme(in, i - 1)
    <3>1. n \in 0 .. Len(in) /\ n <= i - 1
      BY <1>1, <1>6
    <3> QED BY <1>1, <1>6, <3>1, WireMono
  <2>4. NSendme(in, i) <= m
    <3>1. i \in 0 .. Len(in) /\ Len(in) \in 0 .. Len(in) /\ i <= Len(in)
      BY <1>1, <1>6
    <3> QED BY <1>1, <3>1, WireMono
  <2> HIDE DEF a, m, in, cell
  <2> QED BY <2>1, <2>2, <2>3, <2>4, <1>5
<1>8. NData(out, np) <= x
  <2>1. Len(out) \in 0 .. Len(out) /\ np <= Len(out)
    BY <1>1, <1>5
  <2> QED BY <2>1, <1>1, <1>5, WireMono
<1>9. NData(out, np) >= sendme_inc * m
  <2>1. NData(out, np) = sendme_inc * m + (CIRCWINDOW_START - deliver_window[p])
        /\ deliver_window[p] <= CIRCWINDOW_START
    BY <1>3 DEF DeliverOK
  <2> HIDE DEF out, in, np, m
  <2>2. PICK y \in Int : y = sendme_inc * m
    BY <1>4, <1>5
  <2> QED BY <2>1, <2>2, <1>4, <1>5
<1>10. x >= sendme_inc * (a + s) /\ s \in Nat /\ s > 0 /\ a + s = cell.nsendme
  <2> HIDE DEF x, a, m, out, np, cell
  <2>1. s \in Nat /\ s > 0 /\ a + s = cell.nsendme /\ a + s <= m
    BY <1>5, <1>7
  <2> HIDE DEF s
  <2>2. sendme_inc * m >= sendme_inc * (a + s)
    BY <1>4, <1>5, <2>1
  <2>3. sendme_inc * m \in Int /\ sendme_inc * (a + s) \in Int
    BY <1>4, <1>5, <2>1
  <2> QED BY <2>1, <2>2, <2>3, <1>5, <1>8, <1>9
<1>11. s \in 1 .. l
  <2>1. x < sendme_inc * (a + l) + sendme_inc
    BY <1>2 DEF FifoOK
  <2> HIDE DEF x, a, l, s, cell
  <2>2. sendme_inc * (a + l) + sendme_inc = sendme_inc * (a + l + 1)
    BY <1>1, <1>4, <1>5
  <2>3. sendme_inc * (a + l + 1) \in Int /\ sendme_inc * (a + s) \in Int
    BY <1>1, <1>4, <1>5, <1>10
  <2>4. sendme_inc * (a + s) < sendme_inc * (a + l + 1)
    BY <2>1, <2>2, <2>3, <1>5, <1>10
  <2>5. a + s \in Int /\ a + l + 1 \in Int
    BY <1>1, <1>5, <1>10
  <2>6. a + s < a + l + 1
    BY <2>4, <2>5, <1>4, ProductLess
  <2> QED BY <2>6, <1>1, <1>5, <1>10
<1>12. cell_version_can_be_handled(e, cell.ver)
  <2>1. cell.ver = EmitVersion[p]
    BY <1>3, <1>6 DEF SendmesOK
  <2> QED BY <2>1 DEF cell_version_can_be_handled, WellConfigured
<1>13. ASSUME cell.ver = 1 PROVE cell.digest = fifo[s]
  <2>2. /\ cell.digest.from = e /\ cell.digest.pos \in 1 .. np
        /\ out[cell.digest.pos].cmd = "DATA"
        /\ out[cell.digest.pos].ndata = sendme_inc * cell.nsendme
    BY <1>1, <1>3, <1>6, <1>13 DEF SendmesOK
  <2>3. /\ fifo[s].from = e /\ fifo[s].pos \in 1 .. Len(out)
        /\ out[fifo[s].pos].cmd = "DATA"
        /\ out[fifo[s].pos].ndata = sendme_inc * (a + s)
    <3> HIDE DEF s, a, l, fifo, out, in, n
    <3> QED BY <1>2, <1>11 DEF FifoOK, a, l
  <2>4. cell.digest.pos \in 1 .. Len(out)
    <3>1. Len(out) \in Nat /\ np \in Nat /\ np <= Len(out)
      BY <1>1, <1>5
    <3>2. PICK j \in 1 .. np : cell.digest.pos = j
      BY <2>2
    <3> HIDE DEF out, np, cell
    <3> QED BY <3>1, <3>2
  <2>5. cell.digest.pos = fifo[s].pos
    <3>1. a + s = cell.nsendme
      BY <1>10
    <3> HIDE DEF out, cell, fifo, a, s
    <3> QED BY <2>2, <2>3, <2>4, <3>1, <1>1, DataUnique
  <2>6. fifo[s] \in Digests
    <3> HIDE DEF s
    <3> QED BY <1>1, <1>11
  <2>7. cell.digest \in Digests
    <3>1. cell \in Cells
      BY <1>1, <1>6
    <3> QED BY <3>1 DEF Cells
  <2> HIDE DEF cell, fifo, s
  <2> QED BY <2>2, <2>3, <2>5, <2>6, <2>7 DEF Digests
<1> QED BY <1>10, <1>11, <1>12, <1>13 DEF DataSent, SendmesRecv

(* The SENDME that an end is about to handle is one it expects: its FIFO   *)
(* is not empty, and the digest at its head is the one the SENDME carries. *)
LEMMA ExpectedSendme ==
  ASSUME WellConfigured, IInv, NEW e \in Ends, CellReady(e, "SENDME")
  PROVE  LET cell == wire[Peer(e)][nrecv[e] + 1]
             fifo == sendme_last_digests[e]
         IN  /\ cell_version_can_be_handled(e, cell.ver)
             /\ Len(fifo) > 0 /\ fifo # <<>>
             /\ cell.ver = 1 => cell.digest = Head(fifo)
             /\ DataSent(e) >= sendme_inc * (SendmesRecv(e) + 1)
             /\ NSendme(wire[Peer(e)], nrecv[e] + 1) = SendmesRecv(e) + 1
<1> DEFINE in   == wire[Peer(e)]
           n    == nrecv[e]
           fifo == sendme_last_digests[e]
           cell == in[n + 1]
<1>1. /\ n + 1 \in 1 .. Len(in) /\ n \in Nat /\ n + 1 \in n + 1 .. Len(in)
      /\ cell.cmd = "SENDME" /\ in \in Seq(Cells) /\ fifo \in Seq(Digests)
      /\ WireOK(in) /\ Len(in) \in Nat /\ Len(fifo) \in Nat
  BY ReadyFacts, EndFacts
<1>2. NSendme(in, n + 1) = SendmesRecv(e) + 1 /\ SendmesRecv(e) \in Nat
  <2>1. cell.nsendme = NSendme(in, n) + 1
    BY <1>1 DEF WireOK
  <2>2. NSendme(in, n) \in Nat
    BY <1>1, CountTypes
  <2> QED BY <1>1, <2>1, <2>2 DEF SendmesRecv, NSendme
<1>3. cell.nsendme - SendmesRecv(e) = 1
  BY <1>1, <1>2 DEF NSendme
<1>4. /\ cell_version_can_be_handled(e, cell.ver)
      /\ 1 \in 1 .. Len(fifo)
      /\ cell.ver = 1 => cell.digest = fifo[1]
      /\ DataSent(e) >= sendme_inc * (SendmesRecv(e) + 1)
  <2> HIDE DEF n
  <2>1. LET s == cell.nsendme - SendmesRecv(e)
        IN  /\ cell_version_can_be_handled(e, cell.ver)
            /\ s \in 1 .. Len(fifo)
            /\ cell.ver = 1 => cell.digest = fifo[s]
            /\ DataSent(e) >= sendme_inc * (SendmesRecv(e) + s)
    BY <1>1, SendmeOnItsWay DEF n
  <2> HIDE DEF cell, fifo
  <2> QED BY <2>1, <1>3
<1> QED BY <1>1, <1>2, <1>4

(* A SENDME is accepted and takes one increment off what is outstanding.   *)
LEMMA ReceiveSendmeStep ==
  ASSUME WellConfigured, IInv, NEW e \in Ends, ReceiveSendme(e)
  PROVE  EndsAgree'
<1> DEFINE out  == wire[e]
           in   == wire[Peer(e)]
           n    == nrecv[e]
           fifo == sendme_last_digests[e]
           cell == in[n + 1]
           x    == NData(out, Len(out))
           a    == NSendme(in, n)
           l    == Len(fifo)
<1>1. CellReady(e, "SENDME")
  BY DEF ReceiveSendme
<1>2. /\ n + 1 \in 1 .. Len(in) /\ n \in Nat /\ cell.cmd = "SENDME"
      /\ in \in Seq(Cells) /\ out \in Seq(Cells) /\ fifo \in Seq(Digests)
      /\ WireOK(in) /\ WireOK(out) /\ Peer(e) \in Ends /\ l \in Nat
      /\ DeliverOK(in, n, out, deliver_window[e])
      /\ FifoOK(e, out, in, n, fifo)
      /\ WindowOK(out, in, n, fifo, package_window[e], inflight[e],
                  sendme_pending_timestamps[e])
      /\ SendmesOK(e, out, in, n) /\ status[e] # "protocol"
  BY <1>1, ReadyFacts, EndFacts
<1>3. /\ cell_version_can_be_handled(e, cell.ver) /\ l > 0 /\ fifo # <<>>
      /\ cell.ver = 1 => cell.digest = Head(fifo)
      /\ x >= sendme_inc * (a + 1) /\ NSendme(in, n + 1) = a + 1
  BY <1>1, ExpectedSendme DEF DataSent, SendmesRecv
<1>4. /\ sendme_inc \in Nat /\ sendme_inc > 1 /\ CIRCWINDOW_START \in Nat
      /\ circwindow \in Nat /\ circwindow <= CIRCWINDOW_START
      /\ package_window[e] \in Int /\ inflight[e] \in Int
      /\ sendme_pending_timestamps[e] \in Int
  BY ConstantsOK DEF WellConfigured, IInv, Types
<1>5. x \in Nat /\ a \in Nat
  <2>1. Len(out) \in 0 .. Len(out) /\ n \in 0 .. Len(in)
    BY <1>2
  <2> QED BY <1>2, <2>1, CountTypes
<1>6. sendme_inc * (a + 1) = sendme_inc * a + sendme_inc /\ sendme_inc * a \in Nat
  <2> HIDE DEF a
  <2> QED BY <1>4, <1>5
<1>7. sendme_is_valid(e, cell)
  BY <1>3 DEF sendme_is_valid
<1>8. ~UseCC => sendme_process_circuit_level_impl(e)
  <2> SUFFICES ASSUME ~UseCC PROVE package_window[e] + sendme_inc <= CIRCWINDOW_START
    BY DEF sendme_process_circuit_level_impl
  <2>1. package_window[e] = circwindow - (x - sendme_inc * a)
    BY <1>2 DEF WindowOK
  <2>2. x >= sendme_inc * a + sendme_inc
    BY <1>3, <1>6
  <2> HIDE DEF x, a, out, in, n, fifo, cell, l
  <2>3. PICK y \in Nat : y = sendme_inc * a
    BY <1>6
  <2> QED BY <2>1, <2>2, <2>3, <1>4, <1>5
<1>9. /\ nrecv' = [nrecv EXCEPT ![e] = @ + 1] /\ AcceptSendme(e)
      /\ UNCHANGED <<status, deliver_window, wire>>
      /\ sendme_last_digests' = [sendme_last_digests EXCEPT ![e] = Tail(fifo)]
  <2>1. /\ nrecv' = [nrecv EXCEPT ![e] = @ + 1]
        /\ UNCHANGED <<deliver_window, wire>>
    BY DEF ReceiveSendme
  <2>2. sendme_last_digests' = [sendme_last_digests EXCEPT
                                  ![e] = pop_first_cell_digest(e)]
    BY <1>3 DEF ReceiveSendme
  <2>3. AcceptSendme(e) /\ status' = status
    BY <1>7, <1>8 DEF ReceiveSendme
  <2> QED BY <2>1, <2>2, <2>3, <1>3 DEF pop_first_cell_digest
<1>10. /\ nrecv'[e] = n + 1 /\ sendme_last_digests'[e] = Tail(fifo)
       /\ \A f \in Ends : f # e =>
            /\ nrecv'[f] = nrecv[f]
            /\ sendme_last_digests'[f] = sendme_last_digests[f]
  BY <1>9 DEF IInv, Types
<1>11. \A f \in Ends : f # e =>
         /\ package_window'[f] = package_window[f] /\ inflight'[f] = inflight[f]
         /\ sendme_pending_timestamps'[f] = sendme_pending_timestamps[f]
  BY <1>9 DEF AcceptSendme, IInv, Types
<1>12. EndAgrees(Peer(e))'
  BY <1>9, <1>10, <1>11, PeerIdle
<1>13. DeliverOK(in, n + 1, out, deliver_window[e]) /\ SendmesOK(e, out, in, n + 1)
  <2>1. n + 1 <= Len(in)
    BY <1>2
  <2> QED BY <2>1, <1>2, StepIn
<1>14. Len(Tail(fifo)) = l - 1 /\ \A k \in 1 .. l - 1 : Tail(fifo)[k] = fifo[k + 1]
  BY <1>2, <1>3
<1>15. FifoOK(e, out, in, n + 1, Tail(fifo))
  <2>1. /\ x >= sendme_inc * (a + l) /\ x < sendme_inc * (a + l) + sendme_inc
        /\ \A k \in 1 .. l : /\ fifo[k].from = e /\ fifo[k].pos \in 1 .. Len(out)
                             /\ out[fifo[k].pos].cmd = "DATA"
                             /\ out[fifo[k].pos].ndata = sendme_inc * (a + k)
    BY <1>2 DEF FifoOK
  <2>2. (a + 1) + (l - 1) = a + l
    <3> HIDE DEF a, l
    <3> QED BY <1>2, <1>5
  <2>3. ASSUME NEW k \in 1 .. l - 1
        PROVE  /\ Tail(fifo)[k].from = e /\ Tail(fifo)[k].pos \in 1 .. Len(out)
               /\ out[Tail(fifo)[k].pos].cmd = "DATA"
               /\ out[Tail(fifo)[k].pos].ndata = sendme_inc * ((a + 1) + k)
    <3>1. k + 1 \in 1 .. l /\ a + (k + 1) = (a + 1) + k
      <4> HIDE DEF a, l
      <4> QED BY <1>2, <1>5
    <3> QED BY <3>1, <2>1, <1>14
  <2> QED BY <2>1, <2>2, <2>3, <1>3, <1>14 DEF FifoOK
<1>16. WindowOK(out, in, n + 1, Tail(fifo), package_window'[e], inflight'[e],
                sendme_pending_timestamps'[e])
  <2>1. CASE UseCC
    <3>1. /\ inflight'[e] = inflight[e] - sendme_inc
          /\ sendme_pending_timestamps'[e] = sendme_pending_timestamps[e] - 1
          /\ package_window'[e] = package_window[e]
      BY <1>9, <2>1 DEF AcceptSendme, IInv, Types
    <3>2. /\ inflight[e] = x - sendme_inc * a
          /\ sendme_pending_timestamps[e] = l /\ package_window[e] = circwindow
      BY <1>2, <2>1 DEF WindowOK
    <3>3. inflight'[e] = x - sendme_inc * (a + 1)
      <4> HIDE DEF x, a
      <4> QED BY <3>1, <3>2, <1>4, <1>5, <1>6
    <3> QED BY <3>1, <3>2, <3>3, <2>1, <1>3, <1>14 DEF WindowOK
  <2>2. CASE ~UseCC
    <3>1. /\ package_window'[e] = package_window[e] + sendme_inc
          /\ inflight'[e] = inflight[e]
          /\ sendme_pending_timestamps'[e] = sendme_pending_timestamps[e]
      BY <1>9, <2>2 DEF AcceptSendme, IInv, Types
    <3>2. /\ package_window[e] = circwindow - (x - sendme_inc * a)
          /\ package_window[e] >= 0
          /\ inflight[e] = 0 /\ sendme_pending_timestamps[e] = 0
      BY <1>2, <2>2 DEF WindowOK
    <3>3. package_window'[e] = circwindow - (x - sendme_inc * (a + 1))
          /\ package_window'[e] >= 0
      <4> HIDE DEF x, a
      <4> QED BY <3>1, <3>2, <1>4, <1>5, <1>6
    <3> QED BY <3>1, <3>2, <3>3, <2>2, <1>3, <1>14 DEF WindowOK
  <2> QED BY <2>1, <2>2
<1>17. EndAgrees(e)'
  BY <1>2, <1>9, <1>10, <1>13, <1>15, <1>16 DEF EndAgrees
<1> QED BY <1>12, <1>17, EndFacts DEF EndsAgree

(* Steps that leave cells, windows and digests alone, and close no circuit *)
(* for a protocol error.                                                   *)
LEMMA QuietStep ==
  ASSUME IInv, UNCHANGED <<wire, nrecv, deliver_window, sendme_last_digests>>,
         UNCHANGED <<package_window, inflight, sendme_pending_timestamps>>,
         \A f \in Ends : status'[f] = status[f] \/ status'[f] # "protocol"
  PROVE  EndsAgree'
<1> SUFFICES ASSUME NEW e \in Ends PROVE EndAgrees(e)'
  BY DEF EndsAgree
<1>1. EndAgrees(e)
  BY DEF IInv, EndsAgree
<1>2. status'[e] # "protocol"
  BY <1>1 DEF EndAgrees
<1> QED BY <1>1, <1>2 DEF EndAgrees

(* The start of a circuit: nothing is sent and nothing is expected.        *)
LEMMA InitAgrees == Init => EndsAgree
<1> SUFFICES ASSUME Init, NEW e \in Ends PROVE EndAgrees(e)
  BY DEF EndsAgree
<1>1. /\ wire[e] = <<>> /\ wire[Peer(e)] = <<>> /\ nrecv[e] = 0
      /\ sendme_last_digests[e] = <<>> /\ deliver_window[e] = CIRCWINDOW_START
      /\ package_window[e] = circwindow /\ inflight[e] = 0
      /\ sendme_pending_timestamps[e] = 0 /\ status[e] = "open"
  BY PeerFacts DEF Init
<1>2. /\ sendme_inc \in Nat /\ sendme_inc > 0 /\ CIRCWINDOW_START \in Nat
      /\ circwindow \in Nat
  BY ConstantsOK
<1>3. WireOK(<<>>) /\ SendmesOK(e, <<>>, <<>>, 0)
  BY DEF WireOK, SendmesOK
<1>4. DeliverOK(<<>>, 0, <<>>, CIRCWINDOW_START)
  BY <1>2 DEF DeliverOK, NData, NSendme
<1>5. FifoOK(e, <<>>, <<>>, 0, <<>>)
  BY <1>2 DEF FifoOK, NData, NSendme
<1>6. WindowOK(<<>>, <<>>, 0, <<>>, circwindow, 0, 0)
  BY <1>2 DEF WindowOK, NData, NSendme
<1> QED BY <1>1, <1>3, <1>4, <1>5, <1>6 DEF EndAgrees

(* EndsAgree is inductive, with the types.                                 *)
LEMMA AgreesStep == WellConfigured /\ IInv /\ [Next]_vars => EndsAgree'
<1> SUFFICES ASSUME WellConfigured, IInv, [Next]_vars PROVE EndsAgree'
  OBVIOUS
<1>1. CASE UNCHANGED vars
  BY <1>1, QuietStep DEF vars, windows
<1>2. ASSUME NEW e \in Ends, ReadFromEdge(e) PROVE EndsAgree'
  BY <1>2, QuietStep DEF ReadFromEdge, windows
<1>3. ASSUME NEW e \in Ends, StopPackaging(e) PROVE EndsAgree'
  BY <1>3, QuietStep DEF StopPackaging, windows
<1>4. ASSUME NEW e \in Ends, circuit_mark_for_close(e) \/ ReceiveDestroy(e)
      PROVE  EndsAgree'
  <2>1. status' = [status EXCEPT ![e] = "closed"]
        /\ UNCHANGED <<windows, wire, nrecv, deliver_window, sendme_last_digests>>
    BY <1>4 DEF circuit_mark_for_close, ReceiveDestroy
  <2>2. \A f \in Ends : status'[f] = status[f] \/ status'[f] # "protocol"
    BY <2>1 DEF IInv, Types
  <2> QED BY <2>1, <2>2, QuietStep DEF windows
<1>5. ASSUME NEW e \in Ends, EndStep(e) PROVE EndsAgree'
  BY <1>2, <1>3, <1>4, <1>5, PackageDataStep, SendOtherStep, ReceiveDataStep,
     ReceiveSendmeStep, ReceiveOtherStep DEF EndStep
<1> QED BY <1>1, <1>5 DEF Next

-----------------------------------------------------------------------------
(* The theorems.  WellConfigured speaks of constants only; it is what      *)
(* networkstatus parameters must satisfy for the two ends to agree.        *)

(* The inductive invariant holds in every state: at each end the FIFO of   *)
(* digests, the windows and the timestamps are exactly those of the cells  *)
(* that are sent and not yet acknowledged.                                 *)
THEOREM Agreement ==
  ASSUME WellConfigured
  PROVE  Spec => []IInv
<1>1. Init => IInv
  BY TypesInit, InitAgrees DEF IInv
<1>2. IInv /\ [Next]_vars => IInv'
  BY TypesStep, AgreesStep DEF IInv
<1> QED BY <1>1, <1>2, PTL DEF Spec

(* The same for the part that the model checker evaluates as an invariant. *)
THEOREM EndsAlwaysAgree ==
  ASSUME WellConfigured
  PROVE  Spec => []EndsAgree
<1>1. IInv => EndsAgree
  BY DEF IInv
<1> QED BY <1>1, Agreement, PTL

(* Neither end ever closes the circuit for a protocol error.               *)
THEOREM NeverProtocolClose ==
  ASSUME WellConfigured
  PROVE  Spec => []NoProtocolClose
<1>1. EndsAgree => NoProtocolClose
  BY DEF EndsAgree, EndAgrees, NoProtocolClose
<1> QED BY <1>1, EndsAlwaysAgree, PTL

(* sendme_circuit_consider_sending sends at most one SENDME per cell.      *)
THEOREM NeverTwoSendmes ==
  ASSUME WellConfigured
  PROVE  Spec => []OneSendmePerCell
<1>1. EndsAgree => OneSendmePerCell
  BY DEF EndsAgree, EndAgrees, DeliverOK, OneSendmePerCell
<1> QED BY <1>1, EndsAlwaysAgree, PTL

(* One timestamp is queued per expected SENDME.                            *)
THEOREM TimestampsMatch ==
  ASSUME WellConfigured
  PROVE  Spec => []TimestampPerDigest
<1>1. EndsAgree => TimestampPerDigest
  BY DEF EndsAgree, EndAgrees, WindowOK, TimestampPerDigest
<1> QED BY <1>1, EndsAlwaysAgree, PTL

(* circuit_sent_cell_for_sendme never errs.                                *)
THEOREM RecordsRightCells ==
  ASSUME WellConfigured
  PROVE  Spec => []SentCellForSendmeExact
<1>1. IInv => SentCellForSendmeExact
  <2> SUFFICES ASSUME IInv, NEW e \in Ends
               PROVE  circuit_sent_cell_for_sendme(e)
                        <=> (DataSent(e) + 1) % sendme_inc = 0
    BY DEF SentCellForSendmeExact
  <2> DEFINE x == DataSent(e)
             q == SendmesRecv(e) + Len(sendme_last_digests[e])
  <2>1. circuit_sent_cell_for_sendme(e) <=> x + 1 = sendme_inc * q + sendme_inc
    BY RecordingExact DEF LastOfIncrement
  <2>2. x >= sendme_inc * q /\ x < sendme_inc * q + sendme_inc
    BY EndFacts DEF FifoOK, DataSent, SendmesRecv
  <2>3. x \in Nat /\ q \in Nat
    <3>1. /\ wire[e] \in Seq(Cells) /\ wire[Peer(e)] \in Seq(Cells)
          /\ nrecv[e] \in 0 .. Len(wire[Peer(e)])
          /\ Len(wire[e]) \in 0 .. Len(wire[e])
          /\ Len(sendme_last_digests[e]) \in Nat
      BY EndFacts DEF DeliverOK
    <3>2. x \in Nat /\ SendmesRecv(e) \in Nat
      BY <3>1, CountTypes DEF DataSent, SendmesRecv
    <3> QED BY <3>1, <3>2
  <2>4. sendme_inc \in Nat \ {0}
    BY ConstantsOK
  <2> HIDE DEF x, q
  <2>5. PICK r \in Int : x = sendme_inc * q + r /\ 0 <= r /\ r < sendme_inc
    <3>1. sendme_inc * q \in Int
      BY <2>3, <2>4
    <3>2. x - sendme_inc * q \in Int
      BY <3>1, <2>3
    <3> QED BY <3>1, <3>2, <2>2, <2>3, <2>4
  <2>6. CASE r + 1 = sendme_inc
    <3>1. x + 1 = sendme_inc * (q + 1) + 0
      BY <2>3, <2>4, <2>5, <2>6
    <3>2. (x + 1) % sendme_inc = 0
      <4>1. q + 1 \in Int /\ 0 < sendme_inc
        BY <2>3, <2>4
      <4> QED BY <3>1, <4>1, <2>4, ModUnique
    <3>3. x + 1 = sendme_inc * q + sendme_inc
      BY <2>3, <2>4, <2>5, <2>6
    <3> QED BY <3>2, <3>3, <2>1 DEF x
  <2>7. CASE r + 1 < sendme_inc
    <3>1. x + 1 = sendme_inc * q + (r + 1)
      BY <2>3, <2>4, <2>5
    <3>2. (sendme_inc * q + (r + 1)) % sendme_inc = r + 1
      <4>1. q \in Int /\ r + 1 \in Int /\ 0 <= r + 1
        BY <2>3, <2>5
      <4> QED BY <4>1, <2>4, <2>7, ModUnique, Zenon
    <3>3. (x + 1) % sendme_inc # 0
      BY <3>1, <3>2, <2>5
    <3>4. x + 1 # sendme_inc * q + sendme_inc
      <4>1. sendme_inc * q \in Int
        BY <2>3, <2>4
      <4> QED BY <3>1, <4>1, <2>4, <2>5, <2>7
    <3> QED BY <3>3, <3>4, <2>1 DEF x
  <2> QED BY <2>4, <2>5, <2>6, <2>7
<1> QED BY <1>1, Agreement, PTL

(* The variables keep their types and the windows their ranges.            *)
THEOREM TypeCorrect ==
  ASSUME WellConfigured
  PROVE  Spec => []TypeOK
<1>1. IInv => TypeOK
  <2> SUFFICES ASSUME IInv PROVE TypeOK
    OBVIOUS
  <2>1. ASSUME NEW e \in Ends
        PROVE  /\ package_window[e] \in 0 .. CIRCWINDOW_START
               /\ deliver_window[e] \in 0 .. CIRCWINDOW_START
               /\ inflight[e] \in Nat /\ sendme_pending_timestamps[e] \in Nat
    <3> DEFINE out == wire[e]
               a   == NSendme(wire[Peer(e)], nrecv[e])
               x   == NData(out, Len(out))
               l   == Len(sendme_last_digests[e])
    <3>1. /\ package_window[e] \in Int /\ deliver_window[e] \in Int
          /\ inflight[e] \in Int /\ sendme_pending_timestamps[e] \in Int
      BY DEF IInv, Types
    <3>2. /\ sendme_inc \in Nat /\ CIRCWINDOW_START \in Nat
          /\ sendme_inc <= CIRCWINDOW_START /\ circwindow \in Nat
          /\ circwindow <= CIRCWINDOW_START
      BY ConstantsOK
    <3>3. deliver_window[e] \in 0 .. CIRCWINDOW_START
      <4>1. deliver_window[e] <= CIRCWINDOW_START
            /\ deliver_window[e] > CIRCWINDOW_START - sendme_inc
        BY EndFacts DEF DeliverOK
      <4> QED BY <4>1, <3>1, <3>2
    <3>4. x \in Nat /\ a \in Nat /\ l \in Nat
      <4>1. /\ wire[e] \in Seq(Cells) /\ wire[Peer(e)] \in Seq(Cells)
            /\ nrecv[e] \in 0 .. Len(wire[Peer(e)])
            /\ Len(wire[e]) \in 0 .. Len(wire[e]) /\ l \in Nat
        BY EndFacts DEF DeliverOK
      <4> QED BY <4>1, CountTypes
    <3>5. x >= sendme_inc * (a + l)
      BY EndFacts DEF FifoOK
    <3>6. x - sendme_inc * a \in Nat
      <4> HIDE DEF x, a, l
      <4>1. sendme_inc * (a + l) = sendme_inc * a + sendme_inc * l
        BY <3>2, <3>4
      <4>2. sendme_inc * a \in Nat /\ sendme_inc * l \in Nat
        BY <3>2, <3>4
      <4> QED BY <3>4, <3>5, <4>1, <4>2
    <3>7. CASE UseCC
      <4>1. /\ inflight[e] = x - sendme_inc * a
            /\ sendme_pending_timestamps[e] = l /\ package_window[e] = circwindow
        BY <3>7, EndFacts DEF WindowOK
      <4> HIDE DEF x, a, l
      <4> QED BY <4>1, <3>2, <3>3, <3>4, <3>6
    <3>8. CASE ~UseCC
      <4>1. /\ package_window[e] = circwindow - (x - sendme_inc * a)
            /\ package_window[e] >= 0
            /\ inflight[e] = 0 /\ sendme_pending_timestamps[e] = 0
        BY <3>8, EndFacts DEF WindowOK
      <4> HIDE DEF x, a, l
      <4>2. PICK y \in Nat : y = x - sendme_inc * a
        BY <3>6
      <4> QED BY <4>1, <4>2, <3>1, <3>2, <3>3
    <3> QED BY <3>7, <3>8
  <2> QED BY <2>1 DEF IInv, Types, TypeOK
<1> QED BY <1>1, Agreement, PTL

(* No cell is created or lost by the accounting of the two ends.           *)
THEOREM WindowsConserved ==
  ASSUME WellConfigured
  PROVE  Spec => []WindowConservation
<1>1. IInv => WindowConservation
  <2> SUFFICES ASSUME IInv, NEW e \in Ends
               PROVE  LET outstanding ==
                            DataInFlight(e)
                            + (CIRCWINDOW_START - deliver_window[Peer(e)])
                            + sendme_inc * SendmesInFlight(Peer(e))
                      IN  IF UseCC THEN inflight[e] = outstanding
                          ELSE circwindow - package_window[e] = outstanding
    BY DEF WindowConservation
  <2> DEFINE p  == Peer(e)
             x  == DataSent(e)
             y  == NData(wire[e], nrecv[p])
             a  == SendmesRecv(e)
             m  == SendmesSent(p)
             dw == deliver_window[p]
             unacked == x - sendme_inc * a
  <2>1. DataInFlight(e) = x - y /\ SendmesInFlight(p) = m - a
    BY EndFacts DEF DataInFlight, SendmesInFlight, DataRecv
  <2>2. y = sendme_inc * m + (CIRCWINDOW_START - dw)
    BY EndFacts DEF DeliverOK, SendmesSent
  <2>3. x \in Nat /\ y \in Nat /\ a \in Nat /\ m \in Nat
    <3>1. p \in Ends /\ Peer(p) = e /\ wire[e] \in Seq(Cells) /\ wire[p] \in Seq(Cells)
      BY EndFacts
    <3>2. /\ nrecv[e] \in 0 .. Len(wire[p]) /\ nrecv[p] \in 0 .. Len(wire[e])
          /\ Len(wire[e]) \in 0 .. Len(wire[e])
          /\ Len(wire[p]) \in 0 .. Len(wire[p])
      BY <3>1, EndFacts DEF DeliverOK
    <3>3. x \in Nat /\ y \in Nat
      BY <3>1, <3>2, CountTypes DEF DataSent
    <3>4. a \in Nat /\ m \in Nat
      BY <3>1, <3>2, CountTypes DEF SendmesRecv, SendmesSent
    <3> QED BY <3>3, <3>4
  <2>4. /\ sendme_inc \in Nat /\ CIRCWINDOW_START \in Nat /\ circwindow \in Nat
        /\ dw \in Int /\ package_window[e] \in Int
    <3>1. p \in Ends
      BY PeerFacts
    <3> QED BY <3>1, ConstantsOK DEF IInv, Types
  <2>5. IF UseCC THEN inflight[e] = unacked
                 ELSE package_window[e] = circwindow - unacked
    BY EndFacts DEF WindowOK, DataSent, SendmesRecv
  <2>6. (x - y) + (CIRCWINDOW_START - dw) + sendme_inc * (m - a) = unacked
    <3> HIDE DEF x, y, a, m, dw
    <3>1. sendme_inc * (m - a) = sendme_inc * m - sendme_inc * a
      BY <2>3, <2>4
    <3>2. sendme_inc * m \in Int /\ sendme_inc * a \in Int
      BY <2>3, <2>4
    <3> QED BY <2>2, <2>3, <2>4, <3>1, <3>2
  <2>7. unacked \in Int
    <3> HIDE DEF x, a
    <3> QED BY <2>3, <2>4
  <2> HIDE DEF x, y, a, m, unacked
  <2>8. ~UseCC => circwindow - package_window[e] = unacked
    BY <2>4, <2>5, <2>7
  <2> QED BY <2>1, <2>5, <2>6, <2>8
<1> QED BY <1>1, Agreement, PTL

(* The SENDMEs on their way carry the digests of the FIFO, in its order.   *)
THEOREM SendmesAlwaysMatch ==
  ASSUME WellConfigured
  PROVE  Spec => []SendmesMatchDigests
<1>1. IInv => SendmesMatchDigests
  <2> SUFFICES ASSUME IInv, NEW e \in Ends, NEW i \in nrecv[e] + 1 .. Len(wire[Peer(e)]),
                      wire[Peer(e)][i].cmd = "SENDME"
               PROVE  LET k == wire[Peer(e)][i].nsendme - SendmesRecv(e)
                      IN  /\ k \in DOMAIN sendme_last_digests[e]
                          /\ wire[Peer(e)][i].ver = 1 =>
                               wire[Peer(e)][i].digest = sendme_last_digests[e][k]
    BY DEF SendmesMatchDigests
  <2> DEFINE k == wire[Peer(e)][i].nsendme - SendmesRecv(e)
  <2>1. /\ k \in 1 .. Len(sendme_last_digests[e])
        /\ wire[Peer(e)][i].ver = 1 =>
             wire[Peer(e)][i].digest = sendme_last_digests[e][k]
    BY SendmeOnItsWay
  <2>2. sendme_last_digests[e] \in Seq(Digests)
    BY DEF IInv, Types
  <2>3. DOMAIN sendme_last_digests[e] = 1 .. Len(sendme_last_digests[e])
    BY <2>2
  <2> QED BY <2>1, <2>3
<1> QED BY <1>1, Agreement, PTL

-----------------------------------------------------------------------------
(* The edge is read again when the window opens.                           *)

(* While an end packages, its edge is being read.                          *)
Awake ==
  /\ Types /\ NoLostWakeup
  /\ \A e \in Ends : status[e] = "open" /\ packaging[e] => reading[e]

(* What a step of one end leaves alone of an end: its window, what is read *)
(* and packaged; it may close.                                             *)
Undisturbed(f) ==
  /\ package_window'[f] = package_window[f] /\ inflight'[f] = inflight[f]
  /\ cwnd'[f] = cwnd[f] /\ inbuf'[f] = inbuf[f]
  /\ reading'[f] = reading[f] /\ packaging'[f] = packaging[f]
  /\ status'[f] = "open" => status[f] = "open"

(* An end that keeps its window and its edge loses no wakeup.              *)
LEMMA StaysAwake ==
  ASSUME Awake, NEW f \in Ends, Undisturbed(f)
  PROVE  /\ /\ status'[f] = "open" /\ ~packaging'[f]
            /\ ~reading'[f] \/ inbuf'[f] > 0
            => congestion_control_get_package_window(f)' <= 0
         /\ status'[f] = "open" /\ packaging'[f] => reading'[f]
<1>1. congestion_control_get_package_window(f)' = congestion_control_get_package_window(f)
  BY DEF congestion_control_get_package_window, Undisturbed
<1> QED BY <1>1 DEF Awake, NoLostWakeup, Undisturbed

(* An edge that is not read has no window: no wakeup is lost between the   *)
(* last packaged cell and the SENDME that reopens the window.  This needs  *)
(* no agreement between the ends.                                          *)
THEOREM WakeupsAreNotLost == Spec => []NoLostWakeup
<1>1. Init => Awake
  <2> SUFFICES ASSUME Init PROVE Awake
    OBVIOUS
  <2>1. /\ reading = [e \in Ends |-> TRUE] /\ packaging = [e \in Ends |-> FALSE]
        /\ inbuf = [e \in Ends |-> 0]
    BY DEF Init
  <2> QED BY <2>1, TypesInit DEF Awake, NoLostWakeup
<1>2. Awake /\ [Next]_vars => Awake'
  <2> SUFFICES ASSUME Awake, [Next]_vars PROVE Awake'
    OBVIOUS
  <2>0. Types /\ Types'
    BY TypesStep DEF Awake
  <2>1. ASSUME \A f \in Ends : Undisturbed(f) PROVE Awake'
    BY <2>0, <2>1, StaysAwake DEF Awake, NoLostWakeup
  <2>2. ASSUME NEW e \in Ends, \A f \in Ends \ {e} : Undisturbed(f),
               status'[e] = "open" /\ ~packaging'[e] /\ (~reading'[e] \/ inbuf'[e] > 0)
                 => congestion_control_get_package_window(e)' <= 0,
               status'[e] = "open" /\ packaging'[e] => reading'[e]
        PROVE  Awake'
    BY <2>0, <2>2, StaysAwake DEF Awake, NoLostWakeup
  <2>3. ASSUME NEW e \in Ends, ReadFromEdge(e) PROVE Awake'
    BY <2>0, <2>2, <2>3 DEF ReadFromEdge, Types, windows, Undisturbed
  <2>4. ASSUME NEW e \in Ends, PackageData(e) PROVE Awake'
    <3>1. /\ status[e] = "open" /\ packaging[e] /\ reading[e]
          /\ packaging'[e] /\ reading'[e]
      BY <2>4 DEF PackageData, Awake
    <3>2. \A f \in Ends \ {e} : Undisturbed(f)
      <4>1. /\ inbuf' = [inbuf EXCEPT ![e] = @ - 1]
            /\ UNCHANGED <<cwnd, reading, packaging>>
            /\ \E v : status' = [status EXCEPT ![e] = v]
        BY <2>4 DEF PackageData, sendme_note_circuit_data_packaged
      <4>2. \A f \in Ends \ {e} : /\ package_window'[f] = package_window[f]
                                 /\ inflight'[f] = inflight[f]
        <5>1. CASE UseCC
          <6>1. /\ package_window' = package_window
                /\ inflight' = [inflight EXCEPT ![e] = @ + 1]
            BY <2>4, <5>1 DEF PackageData, sendme_note_circuit_data_packaged
          <6> QED BY <2>0, <6>1 DEF Types
        <5>2. CASE ~UseCC
          <6>1. /\ inflight' = inflight
                /\ package_window' = [package_window EXCEPT ![e] = @ - 1]
            BY <2>4, <5>2 DEF PackageData, sendme_note_circuit_data_packaged
          <6> QED BY <2>0, <6>1 DEF Types
        <5> QED BY <5>1, <5>2
      <4> QED BY <2>0, <4>1, <4>2 DEF Types, Undisturbed
    <3> QED BY <2>2, <3>1, <3>2
  <2>5. ASSUME NEW e \in Ends, StopPackaging(e) PROVE Awake'
    <3>1. /\ status[e] = "open" /\ packaging[e] /\ reading[e] /\ ~packaging'[e]
          /\ inbuf' = inbuf
          /\ congestion_control_get_package_window(e) <= 0 \/ inbuf[e] = 0
          /\ reading'[e] = (congestion_control_get_package_window(e) > 0)
      BY <2>0, <2>5 DEF StopPackaging, Awake, Types
    <3>2. congestion_control_get_package_window(e)' = congestion_control_get_package_window(e)
      BY <2>5 DEF StopPackaging, windows, congestion_control_get_package_window
    <3>3. congestion_control_get_package_window(e) \in Int
      BY SMTT(30), <2>0 DEF congestion_control_get_package_window, Types
    <3>4. \A f \in Ends \ {e} : Undisturbed(f)
      BY <2>0, <2>5 DEF StopPackaging, Types, windows, Undisturbed
    <3> QED BY SMTT(30), <2>0, <2>2, <3>1, <3>2, <3>3, <3>4 DEF Types
  <2>6. ASSUME NEW e \in Ends, SendOther(e) PROVE Awake'
    BY <2>1, <2>6 DEF SendOther, windows, edge, Undisturbed
  <2>7. ASSUME NEW e \in Ends, ReceiveData(e) PROVE Awake'
    <3>1. status' = status \/ status' = [status EXCEPT ![e] = "protocol"]
      BY <2>7 DEF ReceiveData
    <3>2. UNCHANGED <<windows, edge>>
      BY <2>7 DEF ReceiveData
    <3> QED BY <2>0, <2>1, <3>1, <3>2 DEF windows, edge, Undisturbed, Types
  <2>8. ASSUME NEW e \in Ends, ReceiveSendme(e) PROVE Awake'
    <3>1. CASE status' = [status EXCEPT ![e] = "protocol"] /\ UNCHANGED <<windows, reading, packaging>>
      BY <2>0, <2>1, <2>8, <3>1 DEF ReceiveSendme, windows, Undisturbed, Types
    <3>2. CASE /\ AcceptSendme(e)
               /\ reading' = [reading EXCEPT ![e] = TRUE]
               /\ packaging' = [packaging EXCEPT ![e] = inbuf[e] > 0]
               /\ UNCHANGED status
      <4>1. inbuf' = inbuf
        BY <2>8 DEF ReceiveSendme
      <4>2. \A f \in Ends \ {e} : Undisturbed(f)
        <5>1. \A f \in Ends \ {e} : /\ reading'[f] = reading[f]
                                   /\ packaging'[f] = packaging[f]
          BY <2>0, <3>2, Zenon DEF Types
        <5>2. \A f \in Ends \ {e} : /\ package_window'[f] = package_window[f]
                                   /\ inflight'[f] = inflight[f] /\ cwnd'[f] = cwnd[f]
          <6>1. CASE UseCC
            <7>1. PICK c : cwnd' = [cwnd EXCEPT ![e] = c]
              BY <3>2, <6>1 DEF AcceptSendme
            <7>2. /\ package_window' = package_window
                  /\ inflight' = [inflight EXCEPT ![e] = @ - sendme_inc]
              BY <3>2, <6>1 DEF AcceptSendme
            <7> QED BY <2>0, <7>1, <7>2 DEF Types
          <6>2. CASE ~UseCC
            <7>1. /\ UNCHANGED <<inflight, cwnd>>
                  /\ package_window' = [package_window EXCEPT ![e] = @ + sendme_inc]
              BY <3>2, <6>2 DEF AcceptSendme
            <7> QED BY <2>0, <7>1 DEF Types
          <6> QED BY <6>1, <6>2
        <5> QED BY <3>2, <4>1, <5>1, <5>2 DEF Undisturbed
      <4>3. reading'[e] /\ (packaging'[e] <=> inbuf[e] > 0)
        <5>1. reading'[e] = TRUE
          BY <2>0, <3>2 DEF Types
        <5>2. packaging'[e] = (inbuf[e] > 0)
          <6>1. e \in DOMAIN packaging
            BY <2>0 DEF Types
          <6> QED BY <3>2, <6>1, Zenon
        <5> QED BY <5>1, <5>2
      <4> QED BY <2>2, <4>1, <4>2, <4>3
    <3> QED BY <2>8, <3>1, <3>2 DEF ReceiveSendme
  <2>9. ASSUME NEW e \in Ends, ReceiveOther(e) PROVE Awake'
    BY <2>1, <2>9 DEF ReceiveOther, windows, edge, Undisturbed
  <2>10. ASSUME NEW e \in Ends, circuit_mark_for_close(e) \/ ReceiveDestroy(e) PROVE Awake'
    BY <2>0, <2>1, <2>10 DEF circuit_mark_for_close, ReceiveDestroy, windows, edge,
                             Undisturbed, Types
  <2>11. CASE UNCHANGED vars
    BY <2>1, <2>11 DEF vars, windows, edge, Undisturbed
  <2> QED BY <2>3, <2>4, <2>5, <2>6, <2>7, <2>8, <2>9, <2>10, <2>11 DEF Next, EndStep
<1>3. Awake => NoLostWakeup
  BY DEF Awake
<1> QED BY <1>1, <1>2, <1>3, PTL DEF Spec
=============================================================================
