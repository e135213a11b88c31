------------------------- MODULE CircuitBuildProofs --------------------------
(***************************************************************************)
(* Proofs about building and tearing down circuits (CircuitBuild), for any *)
(* number of circuits, relays, channels and failures: a node never keeps a *)
(* half of a circuit that its neighbour has forgotten unless the news is   *)
(* on its way, and whoever waits for a channel has one coming; and origin  *)
(* and relays agree on how far a circuit reaches unless the news that it   *)
(* has failed is on its way.                                               *)
(*                                                                         *)
(* The first invariant (IInv) speaks of one circuit on one link at a time  *)
(* (Link): what the node at either end keeps, the cells in both directions *)
(* and the channel.  An action touches a link at its near end or at its    *)
(* far end, and there is a lemma for each way it may do so.  The second    *)
(* (PathInv) speaks of a circuit from end to end: where its one question   *)
(* or answer is.  It needs the first one, and that news is never lost      *)
(* (NewsStay).                                                             *)
(***************************************************************************)
EXTENDS CircuitBuild, TLAPS, FiniteSetTheorems, WellFoundedInduction

Records == [state : CircuitStates, p_chan : BOOLEAN, n_chan : BOOLEAN, marked : BOOLEAN]
Cells == [cmd : {"CREATE", "CREATED", "EXTEND", "EXTENDED", "DESTROY"}, hop : Links]
ChannelRecords ==
  [near : {"none", "opening", "open", "closing", "closed"},
   far : {"none", "open", "closed"},
   addr : {Canonical} \cup {Addr[k] : k \in Circuits}, bad : BOOLEAN]

(* A CREATE comes first on a link, if at all.                              *)
CreateFirst(w) == w # <<>> => ~Has(Tail(w), "CREATE")

Kept(c) == c.state \notin {"none", "freed"}
Alive(c) == Kept(c) /\ ~c.marked
Cut(x, C) == C[x].near # "open" \/ C[x].far # "open"

(* The far end of a channel opens with the near end, and closes once.      *)
Ends(h) ==
  /\ h.near \in {"none", "opening"} => h.far = "none"
  /\ h.far = "none" => h.near \in {"none", "opening", "closing"}

(* A circuit that is to be freed or was, and the news of that, of a broken *)
(* channel, or of what happened further on.                                *)
Sick(c) == c.state = "freed" \/ (Kept(c) /\ c.marked)
Alarm(c, B, x, C) == Has(B, "DESTROY") \/ (c.n_chan /\ Cut(x, C)) \/ Sick(c)

(* Circuit c at the near and d at the far end of a link, cells F on their  *)
(* way out and B on their way back, by channel x of C.  What the proof     *)
(* needs besides the three parts of NobodyIsOrphaned: a circuit uses a     *)
(* link once, the far node has made no circuit before the CREATE arrives,  *)
(* and a DESTROY is sent by a node that has forgotten the circuit.         *)
Link(c, d, F, B, x, C) ==
  /\ x = 0 => ~c.n_chan /\ F = <<>> /\ B = <<>> /\ d.state = "none"
  /\ x # 0 => x \in DOMAIN C /\ C[x].near \notin {"none", "opening"} /\ C[x].far # "none"
  /\ c.state = "none" \/ (Alive(c) /\ ~c.n_chan) => x = 0
  /\ c.state = "chan_wait" => ~c.n_chan
  /\ CreateFirst(F)
  /\ Has(F, "CREATE") =>
       /\ d.state = "none" /\ B = <<>>
       /\ Cut(x, C) \/ c.n_chan \/ Has(F, "DESTROY")
  /\ Has(F, "DESTROY") => c.state = "freed"
  /\ Has(B, "DESTROY") => ~Kept(d)
  /\ Alive(c) /\ c.n_chan =>
       Cut(x, C) \/ Has(F, "CREATE") \/ d.p_chan \/ Has(B, "DESTROY")
  /\ d.state = "freed" \/ (Kept(d) /\ ~d.p_chan) => Alarm(c, B, x, C)
  /\ Alive(d) => Cut(x, C) \/ c.n_chan \/ Has(F, "DESTROY")
  /\ Alive(c) /\ c.state = "chan_wait" =>
       \E y \in DOMAIN C : C[y].near \in {"opening", "closing"} /\ C[y].far = "none"

NodesOK == node \in [Circuits -> [Nodes -> Records]]

Wires == [Circuits -> [Links -> Seq(Cells)]]
WiresOK == fwd \in Wires /\ bwd \in Wires /\ on \in [Circuits -> [Links -> Nat]]

Paths == [len : 0..MaxLen, most : 0..MaxLen, open : Nat, awaiting : BOOLEAN]
PathsOK == path \in [Circuits -> Paths]

ChannelsOK ==
  /\ chan = [i \in Links |-> chan[i]]
  /\ \A i \in Links : /\ chan[i] \in [Chans(i) -> ChannelRecords]
                      /\ Chans(i) \subseteq Nat \ {0}
                      /\ \A x \in Chans(i) : Ends(chan[i][x])

LinkOf(k, i) == Link(node[k][i], node[k][i + 1], fwd[k][i], bwd[k][i], on[k][i], chan[i])

(* The origin has a channel once it has sent a cell.                       *)
Origin(k) == node[k][0].state \in {"building", "guard_wait", "open"} => on[k][0] # 0

IInv ==
  /\ NodesOK /\ WiresOK /\ PathsOK /\ ChannelsOK
  /\ \A k \in Circuits : Origin(k)
  /\ \A k \in Circuits, i \in Links : LinkOf(k, i)

-----------------------------------------------------------------------------
(* Cells on their way.                                                     *)

LEMMA NoCells == ~Has(<<>>, "CREATE") /\ ~Has(<<>>, "DESTROY") /\ CreateFirst(<<>>)
  BY DEF Has, CreateFirst

(* The cell that is taken first.                                           *)
LEMMA CellTaken ==
  ASSUME NEW w \in Seq(Cells), w # <<>>
  PROVE  /\ Head(w) \in Cells /\ Tail(w) \in Seq(Cells)
         /\ \A cmd : Has(w, cmd) <=> Head(w).cmd = cmd \/ Has(Tail(w), cmd)
         /\ CreateFirst(w) => ~Has(Tail(w), "CREATE") /\ CreateFirst(Tail(w))
<1> DEFINE r == Tail(w)
           h == Head(w)
<1>1. /\ r \in Seq(Cells) /\ Len(r) = Len(w) - 1 /\ Len(w) \in Nat \ {0}
      /\ \A n \in 1 .. Len(w) - 1 : r[n] = w[n + 1]
      /\ h = w[1] /\ h \in Cells
  OBVIOUS
<1> HIDE DEF r, h
<1>2. ASSUME NEW cmd PROVE Has(w, cmd) <=> h.cmd = cmd \/ Has(r, cmd)
  <2>1. ASSUME NEW n \in 1 .. Len(w), w[n].cmd = cmd PROVE h.cmd = cmd \/ Has(r, cmd)
    <3>1. CASE n = 1
      BY <1>1, <2>1, <3>1
    <3>2. CASE n # 1
      <4>1. n - 1 \in 1 .. Len(r) /\ r[n - 1] = w[n]
        BY <1>1, <2>1, <3>2
      <4> QED BY <2>1, <4>1 DEF Has
    <3> QED BY <3>1, <3>2
  <2>2. ASSUME NEW n \in 1 .. Len(r), r[n].cmd = cmd PROVE Has(w, cmd)
    <3>1. n + 1 \in 1 .. Len(w) /\ w[n + 1] = r[n]
      BY <1>1, <2>2
    <3> QED BY <2>2, <3>1 DEF Has
  <2>3. h.cmd = cmd => Has(w, cmd)
    BY <1>1 DEF Has
  <2> QED BY <2>1, <2>2, <2>3 DEF Has
<1>3. CreateFirst(w) => ~Has(r, "CREATE") /\ CreateFirst(r)
  <2> HAVE CreateFirst(w)
  <2>1. ~Has(r, "CREATE")
    BY DEF CreateFirst, r
  <2>2. ASSUME r # <<>>, Has(Tail(r), "CREATE") PROVE FALSE
    <3>1. PICK n \in 1 .. Len(Tail(r)) : Tail(r)[n].cmd = "CREATE"
      BY <2>2 DEF Has
    <3>2. Len(r) \in Nat \ {0} /\ Len(Tail(r)) = Len(r) - 1
      BY <1>1, <2>2
    <3>3. n + 1 \in 1 .. Len(r) /\ Tail(r)[n] = r[n + 1]
      BY <1>1, <2>2, <3>2
    <3> QED BY <2>1, <3>1, <3>3 DEF Has
  <2> QED BY <2>1, <2>2 DEF CreateFirst
<1> QED BY <1>1, <1>2, <1>3 DEF r, h

(* The cell that is sent last.                                             *)
LEMMA CellSent ==
  ASSUME NEW w \in Seq(Cells), NEW c \in Cells
  PROVE  /\ Append(w, c) \in Seq(Cells) /\ Append(w, c) # <<>>
         /\ \A cmd : Has(Append(w, c), cmd) <=> Has(w, cmd) \/ c.cmd = cmd
         /\ CreateFirst(w) /\ c.cmd # "CREATE" => CreateFirst(Append(w, c))
<1> DEFINE r == Append(w, c)
<1>1. /\ r \in Seq(Cells) /\ Len(r) = Len(w) + 1 /\ Len(w) \in Nat
      /\ \A n \in 1 .. Len(w) : r[n] = w[n]
      /\ r[Len(w) + 1] = c
  OBVIOUS
<1> HIDE DEF r
<1>2. r # <<>>
  BY <1>1
<1>3. ASSUME NEW cmd PROVE Has(r, cmd) <=> Has(w, cmd) \/ c.cmd = cmd
  <2>1. 1 .. Len(r) = (1 .. Len(w)) \cup {Len(w) + 1}
    BY <1>1
  <2> QED BY <1>1, <2>1, Zenon DEF Has
<1>4. ASSUME CreateFirst(w), c.cmd # "CREATE", Has(Tail(r), "CREATE") PROVE FALSE
  <2>1. PICK n \in 1 .. Len(Tail(r)) : Tail(r)[n].cmd = "CREATE"
    BY <1>4 DEF Has
  <2>2. Len(Tail(r)) = Len(w) /\ Tail(r)[n] = r[n + 1] /\ n \in Nat \ {0} /\ n <= Len(w)
    BY <1>1, <1>2, <2>1
  <2>3. n # Len(w)
    BY <1>1, <1>4, <2>1, <2>2
  <2>4. n + 1 \in 1 .. Len(w) /\ r[n + 1] = w[n + 1]
    BY <1>1, <2>2, <2>3
  <2>5. w # <<>> /\ Tail(w) \in Seq(Cells) /\ n \in 1 .. Len(Tail(w)) /\ Tail(w)[n] = w[n + 1]
    BY <1>1, <2>2, <2>4
  <2>6. Has(Tail(w), "CREATE")
    BY <2>1, <2>2, <2>4, <2>5 DEF Has
  <2> QED BY <1>4, <2>5, <2>6 DEF CreateFirst
<1> QED BY <1>1, <1>2, <1>3, <1>4 DEF r, CreateFirst

(* The first cell of a link.                                               *)
LEMMA OneCell ==
  ASSUME NEW c \in Cells
  PROVE  /\ <<c>> \in Seq(Cells) /\ <<c>> # <<>> /\ CreateFirst(<<c>>)
         /\ \A cmd : Has(<<c>>, cmd) <=> c.cmd = cmd
<1>1. <<c>> = Append(<<>>, c) /\ <<>> \in Seq(Cells)
  OBVIOUS
<1>2. \A cmd : ~Has(<<>>, cmd)
  BY DEF Has
<1>3. Tail(<<c>>) = <<>>
  OBVIOUS
<1>4. CreateFirst(<<c>>)
  BY <1>2, <1>3 DEF CreateFirst
<1>5. PICK e : e = <<>>
  OBVIOUS
<1>6. e \in Seq(Cells) /\ (\A cmd : ~Has(e, cmd)) /\ <<c>> = Append(e, c)
  BY <1>1, <1>2, <1>5
<1>7. /\ Append(e, c) \in Seq(Cells)
      /\ \A cmd : Has(Append(e, c), cmd) <=> Has(e, cmd) \/ c.cmd = cmd
  BY <1>6, CellSent
<1> QED BY <1>4, <1>6, <1>7

(* The cells of the code.                                                  *)
LEMMA CellKinds ==
  /\ \A cmd \in {"CREATE", "CREATED", "EXTENDED", "DESTROY"} :
        Cell(cmd) \in Cells /\ Cell(cmd).cmd = cmd
  /\ DESTROY \in Cells /\ DESTROY.cmd = "DESTROY"
  /\ \A r \in Links : Extend(r) \in Cells /\ Extend(r).cmd = "EXTEND"
<1>1. 0 \in Links
  BY CircuitBuildAssumption DEF Links
<1> QED BY <1>1 DEF Cell, DESTROY, Extend, Cells

(* What one side of circuit_about_to_free() leaves on its way.             *)
LEMMA CellsOfFreed ==
  ASSUME NEW w \in Seq(Cells), NEW linked \in BOOLEAN, NEW sending \in BOOLEAN,
         NEW keep \in BOOLEAN, sending => linked,
         NEW r, r = circuit_about_to_free(w, linked, sending, keep)
  PROVE  /\ r \in Seq(Cells) /\ (CreateFirst(w) => CreateFirst(r))
         /\ \A cmd : Has(r, cmd) => Has(w, cmd) \/ (sending /\ cmd = "DESTROY")
         /\ sending => Has(r, "DESTROY")
         /\ ~linked => r = w
<1>1. PICK e : e = <<>>
  OBVIOUS
<1>2. e \in Seq(Cells) /\ (\A cmd : ~Has(e, cmd)) /\ CreateFirst(e)
  BY <1>1 DEF Has, CreateFirst
<1>3. PICK D : D = DESTROY
  OBVIOUS
<1>4. D \in Cells /\ D.cmd = "DESTROY"
  BY <1>3, CellKinds
<1>5. PICK v \in {w, e} : v = IF keep THEN w ELSE e
  OBVIOUS
<1>6. ~linked => r = w
  BY DEF circuit_about_to_free
<1>7. linked => r = v \o (IF sending THEN <<D>> ELSE <<>>)
  BY <1>1, <1>3, <1>5 DEF circuit_about_to_free
<1>8. v \in Seq(Cells) /\ (CreateFirst(w) => CreateFirst(v)) /\ \A cmd : Has(v, cmd) => Has(w, cmd)
  BY <1>2, <1>5
<1>9. CASE ~linked
  BY <1>6, <1>9
<1>10. CASE linked /\ ~sending
  <2>1. r = v \o <<>>
    BY <1>7, <1>10, Zenon
  <2>2. v \o <<>> = v
    BY <1>8
  <2>3. r = v
    BY <2>1, <2>2, Zenon
  <2> QED BY <1>8, <1>10, <2>3
<1>11. CASE linked /\ sending
  <2>1. r = Append(v, D)
    <3>1. r = v \o <<D>>
      BY <1>7, <1>11, Zenon
    <3>2. v \o <<D>> = Append(v, D)
      BY <1>4, <1>8
    <3> QED BY <3>1, <3>2, Zenon
  <2>2. /\ Append(v, D) \in Seq(Cells)
        /\ \A cmd : Has(Append(v, D), cmd) <=> Has(v, cmd) \/ D.cmd = cmd
        /\ CreateFirst(v) /\ D.cmd # "CREATE" => CreateFirst(Append(v, D))
    BY <1>4, <1>8, CellSent
  <2>3. D.cmd # "CREATE"
    BY <1>4
  <2>4. /\ r \in Seq(Cells) /\ (CreateFirst(v) => CreateFirst(r))
        /\ \A cmd : Has(r, cmd) <=> Has(v, cmd) \/ D.cmd = cmd
    BY <1>8, <2>1, <2>2, <2>3
  <2> QED BY <1>4, <1>8, <1>11, <2>4
<1> QED BY <1>9, <1>10, <1>11

-----------------------------------------------------------------------------
(* What one end of a link does to it.                                      *)

(* A circuit that is there stays there and keeps its channels, and one     *)
(* that is not does not come.                                              *)
Alike(c, e) ==
  /\ c.state = "none" <=> e.state = "none"
  /\ Kept(c) <=> Kept(e)
  /\ c.marked => e.marked

LEMMA NearStays ==
  ASSUME NEW c, NEW d, NEW F, NEW B, NEW x, NEW C, Link(c, d, F, B, x, C),
         NEW e, Alike(c, e), e.state = "chan_wait" => c.state = "chan_wait",
         e.n_chan = c.n_chan
  PROVE  Link(e, d, F, B, x, C)
  BY DEF Link, Kept, Alive, Alike, Alarm, Sick

LEMMA FarStays ==
  ASSUME NEW c, NEW d, NEW F, NEW B, NEW x, NEW C, Link(c, d, F, B, x, C),
         NEW e, Alike(d, e), e.p_chan = d.p_chan
  PROVE  Link(c, e, F, B, x, C)
  BY DEF Link, Kept, Alive, Alike

(* What happens to a channel leaves a broken one broken, and somebody who  *)
(* waits with another to wait for.                                         *)
LEMMA ChannelChanges ==
  ASSUME NEW c, NEW d, NEW F, NEW B, NEW x, NEW C, Link(c, d, F, B, x, C),
         NEW D, DOMAIN D = DOMAIN C,
         x # 0 => /\ D[x].near \notin {"none", "opening"} /\ D[x].far # "none"
                  /\ Cut(x, C) => Cut(x, D),
         Alive(c) /\ c.state = "chan_wait" =>
           \E y \in DOMAIN D : D[y].near \in {"opening", "closing"} /\ D[y].far = "none"
  PROVE  Link(c, d, F, B, x, D)
<1>1. x = 0 => F = <<>> /\ d.state = "none"
  BY DEF Link
<1>2. Has(F, "CREATE") \/ Alive(d) \/ (Alive(c) /\ c.n_chan) => x # 0
  BY <1>1, NoCells DEF Alive, Kept, Link
<1> QED BY <1>2 DEF Link, Alarm, Sick

(* A circuit without a next hop goes on without one: it waits for a        *)
(* channel, or is closed.                                                  *)
LEMMA NearWaits ==
  ASSUME NEW c, NEW d, NEW F, NEW B, NEW x, NEW C, Link(c, d, F, B, x, C),
         c.state = "none" \/ (Alive(c) /\ ~c.n_chan),
         NEW e, Kept(e), ~e.n_chan,
         Alive(e) /\ e.state = "chan_wait" =>
           \E y \in DOMAIN C : C[y].near \in {"opening", "closing"} /\ C[y].far = "none"
  PROVE  Link(e, d, F, B, x, C)
<1>1. x = 0 /\ F = <<>> /\ B = <<>> /\ d.state = "none"
  BY DEF Link
<1>2. ~Has(F, "CREATE") /\ ~Has(F, "DESTROY") /\ ~Has(B, "DESTROY") /\ CreateFirst(F)
  BY <1>1, NoCells
<1> QED BY <1>1, <1>2 DEF Link, Kept, Alive

(* A circuit sends its CREATE cell on channel y.                           *)
LEMMA NearConnects ==
  ASSUME NEW c, NEW d, NEW F, NEW B, NEW x, NEW C, Link(c, d, F, B, x, C),
         c.state = "none" \/ (Alive(c) /\ ~c.n_chan),
         NEW e, e.n_chan, Kept(e), e.state # "chan_wait",
         NEW D, NEW y \in DOMAIN D, y # 0,
         D[y].near \notin {"none", "opening"}, D[y].far # "none"
  PROVE  Link(e, d, <<Cell("CREATE")>>, B, y, D)
<1>1. x = 0 /\ F = <<>> /\ B = <<>> /\ d.state = "none"
  BY DEF Link
<1>2. PICK G : G = <<Cell("CREATE")>>
  OBVIOUS
<1>3. /\ Has(G, "CREATE") /\ ~Has(G, "DESTROY") /\ CreateFirst(G) /\ G # <<>>
      /\ ~Has(B, "DESTROY")
  <2>1. Cell("CREATE") \in Cells /\ Cell("CREATE").cmd = "CREATE"
    BY CellKinds
  <2> QED BY <1>1, <1>2, <2>1, OneCell, NoCells
<1>4. Link(e, d, G, B, y, D)
  BY <1>1, <1>3 DEF Link, Kept, Alive
<1> QED BY <1>2, <1>4

(* A cell that is no CREATE follows the others.                            *)
LEMMA ForwardSent ==
  ASSUME NEW c, NEW d, NEW F \in Seq(Cells), NEW B, NEW x, NEW C, Link(c, d, F, B, x, C),
         x # 0, NEW cell \in Cells, cell.cmd \notin {"CREATE", "DESTROY"}
  PROVE  Link(c, d, Append(F, cell), B, x, C)
<1>1. PICK G : G = Append(F, cell)
  OBVIOUS
<1>2. /\ Has(G, "CREATE") <=> Has(F, "CREATE")
      /\ Has(G, "DESTROY") <=> Has(F, "DESTROY")
      /\ CreateFirst(F) => CreateFirst(G)
  BY <1>1, CellSent
<1>3. Link(c, d, G, B, x, C)
  BY <1>2 DEF Link
<1> QED BY <1>1, <1>3

LEMMA BackSent ==
  ASSUME NEW c, NEW d, NEW F, NEW B \in Seq(Cells), NEW x, NEW C, Link(c, d, F, B, x, C),
         Kept(d), NEW cell \in Cells, cell.cmd # "DESTROY"
  PROVE  Link(c, d, F, Append(B, cell), x, C)
<1>1. PICK G : G = Append(B, cell)
  OBVIOUS
<1>2. Has(G, "DESTROY") <=> Has(B, "DESTROY")
  BY <1>1, CellSent
<1>3. Link(c, d, F, G, x, C)
  BY <1>2 DEF Link, Kept, Alarm, Sick
<1> QED BY <1>1, <1>3

(* A cell that is no CREATE and no DESTROY is taken.                       *)
LEMMA ForwardTaken ==
  ASSUME NEW c, NEW d, NEW F \in Seq(Cells), NEW B, NEW x, NEW C, Link(c, d, F, B, x, C),
         F # <<>>, Head(F).cmd \notin {"CREATE", "DESTROY"}
  PROVE  Link(c, d, Tail(F), B, x, C)
<1>1. PICK G : G = Tail(F)
  OBVIOUS
<1>2. /\ Has(G, "CREATE") <=> Has(F, "CREATE")
      /\ Has(G, "DESTROY") <=> Has(F, "DESTROY")
      /\ CreateFirst(F) => CreateFirst(G)
  BY <1>1, CellTaken
<1>3. Link(c, d, G, B, x, C)
  BY <1>2 DEF Link
<1> QED BY <1>1, <1>3

LEMMA BackTaken ==
  ASSUME NEW c, NEW d, NEW F, NEW B \in Seq(Cells), NEW x, NEW C, Link(c, d, F, B, x, C),
         B # <<>>, Head(B).cmd # "DESTROY"
  PROVE  Link(c, d, F, Tail(B), x, C)
<1>1. PICK G : G = Tail(B)
  OBVIOUS
<1>2. Has(G, "DESTROY") <=> Has(B, "DESTROY")
  BY <1>1, CellTaken
<1>3. Link(c, d, F, G, x, C)
  BY <1>2 DEF Link, Alarm, Sick
<1> QED BY <1>1, <1>3

(* A CREATE is taken: a circuit is made, or a DESTROY answers.             *)
LEMMA CreateServed ==
  ASSUME NEW c, NEW d, NEW F \in Seq(Cells), NEW B, NEW x, NEW C, Link(c, d, F, B, x, C),
         F # <<>>, Head(F).cmd = "CREATE", NEW e, Kept(e), e.p_chan
  PROVE  Link(c, e, Tail(F), B, x, C)
<1>1. PICK G : G = Tail(F)
  OBVIOUS
<1>2. /\ Has(F, "CREATE") /\ (CreateFirst(F) => ~Has(G, "CREATE") /\ CreateFirst(G))
      /\ Has(G, "DESTROY") <=> Has(F, "DESTROY")
  BY <1>1, CellTaken
<1>3. x # 0 /\ ~Has(B, "DESTROY")
  BY <1>2, NoCells DEF Link
<1>4. Link(c, e, G, B, x, C)
  BY <1>2, <1>3 DEF Link, Kept, Alive
<1> QED BY <1>1, <1>4

LEMMA CreateRefused ==
  ASSUME NEW c, NEW d, NEW F \in Seq(Cells), NEW B \in Seq(Cells), NEW x, NEW C,
         Link(c, d, F, B, x, C), F # <<>>, Head(F).cmd = "CREATE"
  PROVE  Link(c, d, Tail(F), Append(B, DESTROY), x, C)
<1>1. PICK G : G = Tail(F)
  OBVIOUS
<1>2. /\ Has(F, "CREATE") /\ (CreateFirst(F) => ~Has(G, "CREATE") /\ CreateFirst(G))
      /\ Has(G, "DESTROY") <=> Has(F, "DESTROY")
  BY <1>1, CellTaken
<1>3. PICK H : H = Append(B, DESTROY)
  OBVIOUS
<1>4. Has(H, "DESTROY")
  BY <1>3, CellSent, CellKinds
<1>5. x # 0 /\ d.state = "none"
  BY <1>2, NoCells DEF Link
<1>6. Link(c, d, G, H, x, C)
  BY <1>2, <1>4, <1>5 DEF Link, Kept, Alive
<1> QED BY <1>1, <1>3, <1>6

(* A DESTROY is taken: the circuit is closed, if it was not.               *)
LEMMA DestroyTakenByFar ==
  ASSUME NEW c, NEW d, NEW F \in Seq(Cells), NEW B, NEW x, NEW C, Link(c, d, F, B, x, C),
         F # <<>>, Head(F).cmd = "DESTROY", NEW e, e.state = d.state, ~Alive(e)
  PROVE  Link(c, e, Tail(F), B, x, C)
<1>1. PICK G : G = Tail(F)
  OBVIOUS
<1>2. /\ Has(F, "DESTROY") /\ (CreateFirst(F) => ~Has(G, "CREATE") /\ CreateFirst(G))
  BY <1>1, CellTaken
<1>3. x # 0
  BY <1>2, NoCells DEF Link
<1>4. Link(c, e, G, B, x, C)
  BY <1>2, <1>3 DEF Link, Kept, Alive, Alarm, Sick
<1> QED BY <1>1, <1>4

LEMMA DestroyTakenByNear ==
  ASSUME NEW c, NEW d, NEW F, NEW B \in Seq(Cells), NEW x, NEW C, Link(c, d, F, B, x, C),
         B # <<>>, Head(B).cmd = "DESTROY", NEW e, e.state = c.state, ~Alive(e),
         e.n_chan => c.n_chan
  PROVE  Link(e, d, F, Tail(B), x, C)
<1>1. PICK G : G = Tail(B)
  OBVIOUS
<1>2. Has(B, "DESTROY") /\ (Has(G, "DESTROY") => Has(B, "DESTROY"))
  BY <1>1, CellTaken
<1>3. ~Kept(d) /\ B # <<>> /\ x # 0
  BY <1>2 DEF Link
<1>4. Link(e, d, F, G, x, C)
  BY <1>2, <1>3 DEF Link, Kept, Alive, Alarm, Sick
<1> QED BY <1>1, <1>4

(* The channel of the link has ended at one side: what was on its way to   *)
(* that side is lost, and the circuit there is closed.                     *)
LEMMA Severed ==
  ASSUME NEW c, NEW d, NEW F, NEW B, NEW x, NEW C, Link(c, d, F, B, x, C), x # 0,
         NEW D, DOMAIN D = DOMAIN C, D[x].near \notin {"none", "opening"}, D[x].far # "none",
         Cut(x, D),
         NEW e, e.state = c.state, c.marked => e.marked, e.n_chan => c.n_chan,
         c.n_chan /\ ~e.n_chan => e.marked,
         NEW f, f.state = d.state,
         NEW G \in {F, <<>>}, NEW H \in {B, <<>>}
  PROVE  Link(e, f, G, H, x, D)
<1>1. /\ Has(G, "CREATE") => Has(F, "CREATE")
      /\ Has(G, "DESTROY") => Has(F, "DESTROY")
      /\ Has(H, "DESTROY") => Has(B, "DESTROY")
      /\ CreateFirst(F) => CreateFirst(G)
      /\ B = <<>> => H = <<>>
  BY NoCells
<1>2. Alive(e) => Alive(c) /\ (c.n_chan => e.n_chan)
  BY DEF Alive, Kept
<1>3. c.state # "none" /\ (Alive(c) => c.n_chan)
  BY DEF Link
<1>4. Alarm(e, H, x, D)
  BY <1>3 DEF Alarm, Sick, Kept, Alive
<1> QED BY <1>1, <1>2, <1>3, <1>4 DEF Link, Kept

(* The circuit at one end is freed.                                        *)
LEMMA NearFreed ==
  ASSUME NEW c \in Records, NEW d, NEW F \in Seq(Cells), NEW B, NEW x, NEW C,
         Link(c, d, F, B, x, C), Kept(c), NEW keep \in BOOLEAN,
         NEW sending \in BOOLEAN, sending <=> c.n_chan /\ C[x].near = "open",
         NEW G, G = circuit_about_to_free(F, c.n_chan, sending, keep),
         NEW e, e.state = "freed", ~e.n_chan
  PROVE  Link(e, d, G, B, x, C) /\ G \in Seq(Cells)
<1>1. c.n_chan \in BOOLEAN
  BY DEF Records
<1>2. CreateFirst(F) /\ (sending => c.n_chan)
  BY DEF Link
<1>3. /\ G \in Seq(Cells) /\ (CreateFirst(F) => CreateFirst(G))
      /\ \A cmd : Has(G, cmd) => Has(F, cmd) \/ (sending /\ cmd = "DESTROY")
      /\ sending => Has(G, "DESTROY")
      /\ ~c.n_chan => G = F
  <2>1. PICK l \in BOOLEAN : l = c.n_chan
    BY <1>1
  <2>2. sending => l
    BY <1>2, <2>1
  <2>3. G = circuit_about_to_free(F, l, sending, keep)
    BY <2>1
  <2>4. /\ G \in Seq(Cells) /\ (CreateFirst(F) => CreateFirst(G))
        /\ \A cmd : Has(G, cmd) => Has(F, cmd) \/ (sending /\ cmd = "DESTROY")
        /\ sending => Has(G, "DESTROY")
        /\ ~l => G = F
    BY <2>2, <2>3, CellsOfFreed
  <2> QED BY <2>1, <2>4
<1>4. /\ Has(G, "CREATE") => Has(F, "CREATE")
      /\ c.n_chan => Cut(x, C) \/ Has(G, "DESTROY")
  BY <1>3 DEF Cut
<1> QED BY <1>3, <1>4 DEF Link, Kept, Alive, Alarm, Sick

LEMMA FarFreed ==
  ASSUME NEW c, NEW d \in Records, NEW F, NEW B \in Seq(Cells), NEW x, NEW C,
         Link(c, d, F, B, x, C), Kept(d), NEW keep \in BOOLEAN,
         NEW H, H = circuit_about_to_free(B, d.p_chan, d.p_chan, keep),
         NEW e, e.state = "freed", ~e.p_chan
  PROVE  Link(c, e, F, H, x, C) /\ H \in Seq(Cells)
<1>1. PICK l \in BOOLEAN : l = d.p_chan
  BY DEF Records
<1>2. /\ H \in Seq(Cells)
      /\ d.p_chan => Has(H, "DESTROY")
      /\ ~d.p_chan => H = B
  <2>1. H = circuit_about_to_free(B, l, l, keep) /\ (l => l)
    BY <1>1
  <2>2. H \in Seq(Cells) /\ (l => Has(H, "DESTROY")) /\ (~l => H = B)
    BY <2>1, CellsOfFreed
  <2> QED BY <1>1, <2>2
<1>3. x # 0 /\ ~Has(F, "CREATE") /\ ~Has(B, "DESTROY")
  BY DEF Link, Kept
<1> QED BY <1>2, <1>3 DEF Link, Kept, Alive, Alarm, Sick

-----------------------------------------------------------------------------
(* What one node does to its links.                                        *)

(* Neighbours.                                                             *)
LEMMA Neighbours ==
  /\ MaxLen \in Nat /\ 0 \in Links /\ 0 \in Nodes /\ 0 \notin Relays
  /\ \A i \in Links : /\ i \in Nodes /\ i + 1 \in Nodes /\ i + 1 \in Relays
                      /\ i \in Nat /\ i # i + 1
                      /\ i = 0 \/ i \in Relays
  /\ \A r \in Relays : /\ r \in Nodes /\ r - 1 \in Links /\ r - 1 + 1 = r /\ r # 0
                       /\ r \in Nat /\ r # r - 1
  /\ \A r \in Nodes : r = 0 \/ r \in Relays
  /\ \A i, j \in Links : i + 1 = j + 1 => i = j
  /\ \A i \in Links, r \in Relays : i + 1 = r <=> i = r - 1
  BY CircuitBuildAssumption DEF Links, Nodes, Relays

(* One wire is changed.                                                    *)
Put(w, k, i, t) == [w EXCEPT ![k][i] = t]

LEMMA WirePut ==
  ASSUME NEW w \in Wires, NEW k \in Circuits, NEW i \in Links, NEW t \in Seq(Cells),
         NEW v, v = Put(w, k, i, t)
  PROVE  /\ v \in Wires /\ v[k][i] = t
         /\ \A q \in Circuits, j \in Links : q # k \/ j # i => v[q][j] = w[q][j]
  BY DEF Wires, Put

LEMMA WireTail ==
  ASSUME NEW w \in Wires, NEW k \in Circuits, NEW i \in Links, w[k][i] # <<>>,
         NEW v, v = Put(w, k, i, Tail(w[k][i]))
  PROVE  /\ v \in Wires /\ v[k][i] = Tail(w[k][i])
         /\ \A q \in Circuits, j \in Links : q # k \/ j # i => v[q][j] = w[q][j]
<1>1. w[k][i] \in Seq(Cells)
  BY DEF Wires
<1>2. PICK t : t = Tail(w[k][i])
  OBVIOUS
<1>3. t \in Seq(Cells) /\ v = Put(w, k, i, t)
  BY <1>1, <1>2
<1>4. /\ v \in Wires /\ v[k][i] = t
      /\ \A q \in Circuits, j \in Links : q # k \/ j # i => v[q][j] = w[q][j]
  BY <1>3, WirePut
<1> QED BY <1>2, <1>4

LEMMA WireSent ==
  ASSUME NEW w \in Wires, NEW k \in Circuits, NEW i \in Links, NEW c \in Cells,
         NEW v, v = Put(w, k, i, Append(w[k][i], c))
  PROVE  /\ v \in Wires /\ v[k][i] = Append(w[k][i], c)
         /\ \A q \in Circuits, j \in Links : q # k \/ j # i => v[q][j] = w[q][j]
<1>1. w[k][i] \in Seq(Cells)
  BY DEF Wires
<1>2. PICK t : t = Append(w[k][i], c)
  OBVIOUS
<1>3. t \in Seq(Cells) /\ v = Put(w, k, i, t)
  BY <1>1, <1>2, CellSent
<1>4. /\ v \in Wires /\ v[k][i] = t
      /\ \A q \in Circuits, j \in Links : q # k \/ j # i => v[q][j] = w[q][j]
  BY <1>3, WirePut
<1> QED BY <1>2, <1>4

LEMMA SentForwardCells ==
  ASSUME NEW w \in Wires, NEW k \in Circuits, NEW i \in Links, NEW c \in Cells,
         NEW v, v = SentForward(w, k, i, c)
  PROVE  /\ v \in Wires /\ v[k][i] \in {w[k][i], Append(w[k][i], c)}
         /\ \A q \in Circuits, j \in Links : q # k \/ j # i => v[q][j] = w[q][j]
         /\ chan[i][on[k][i]].near = "open" => v[k][i] = Append(w[k][i], c)
<1>1. CASE chan[i][on[k][i]].near = "open"
  <2>1. v = Put(w, k, i, Append(w[k][i], c))
    BY <1>1 DEF SentForward, Put
  <2> QED BY <2>1, WireSent
<1>2. CASE chan[i][on[k][i]].near # "open"
  BY <1>2 DEF SentForward
<1> QED BY <1>1, <1>2

LEMMA SentBackCells ==
  ASSUME NEW w \in Wires, NEW k \in Circuits, NEW i \in Links, NEW c \in Cells,
         NEW v, v = SentBack(w, k, i, c)
  PROVE  /\ v \in Wires /\ v[k][i] \in {w[k][i], Append(w[k][i], c)}
         /\ \A q \in Circuits, j \in Links : q # k \/ j # i => v[q][j] = w[q][j]
         /\ chan[i][on[k][i]].far = "open" => v[k][i] = Append(w[k][i], c)
<1>1. CASE chan[i][on[k][i]].far = "open"
  <2>1. v = Put(w, k, i, Append(w[k][i], c))
    BY <1>1 DEF SentBack, Put
  <2> QED BY <2>1, WireSent
<1>2. CASE chan[i][on[k][i]].far # "open"
  BY <1>2 DEF SentBack
<1> QED BY <1>1, <1>2

(* The cells v of all links after cell c was sent, or not, on one of them. *)
SentTo(w, k, i, c, v, end) ==
  /\ v \in Wires /\ v[k][i] \in {w[k][i], Append(w[k][i], c)}
  /\ \A q \in Circuits, j \in Links : q # k \/ j # i => v[q][j] = w[q][j]
  /\ end = "open" => v[k][i] = Append(w[k][i], c)

LEMMA SentForwardTo ==
  ASSUME NEW w \in Wires, NEW k \in Circuits, NEW i \in Links, NEW c \in Cells
  PROVE  SentTo(w, k, i, c, SentForward(w, k, i, c), chan[i][on[k][i]].near)
<1>1. PICK v : v = SentForward(w, k, i, c)
  OBVIOUS
<1>2. SentTo(w, k, i, c, v, chan[i][on[k][i]].near)
  BY <1>1, SentForwardCells DEF SentTo
<1> QED BY <1>1, <1>2

LEMMA SentBackTo ==
  ASSUME NEW w \in Wires, NEW k \in Circuits, NEW i \in Links, NEW c \in Cells
  PROVE  SentTo(w, k, i, c, SentBack(w, k, i, c), chan[i][on[k][i]].far)
<1>1. PICK v : v = SentBack(w, k, i, c)
  OBVIOUS
<1>2. SentTo(w, k, i, c, v, chan[i][on[k][i]].far)
  BY <1>1, SentBackCells DEF SentTo
<1> QED BY <1>1, <1>2


(* The two ends of one circuit at a node and its cells change; chan may    *)
(* have changed before.                                                    *)
LEMMA OneNode ==
  ASSUME NodesOK, NEW k \in Circuits, NEW r \in Nodes, NEW e \in Records,
         node' = [node EXCEPT ![k][r] = e],
         \A q \in Circuits, i \in Links :
            Link(node[q][i], node[q][i + 1], fwd[q][i], bwd[q][i], on[q][i], chan'[i]),
         \A q \in Circuits : Origin(q),
         \A q \in Circuits, i \in Links : q # k \/ (i # r /\ i + 1 # r) =>
            fwd'[q][i] = fwd[q][i] /\ bwd'[q][i] = bwd[q][i] /\ on'[q][i] = on[q][i],
         \A q \in Circuits, i \in Links : on'[q][i] = 0 => on[q][i] = 0,
         r = 0 /\ e.state \in {"building", "guard_wait", "open"} => on'[k][0] # 0,
         r \in Links =>
            Link(e, node[k][r + 1], fwd'[k][r], bwd'[k][r], on'[k][r], chan'[r]),
         r \in Relays =>
            Link(node[k][r - 1], e, fwd'[k][r - 1], bwd'[k][r - 1], on'[k][r - 1], chan'[r - 1])
  PROVE  /\ NodesOK'
         /\ \A q \in Circuits : Origin(q)'
         /\ \A q \in Circuits, i \in Links : LinkOf(q, i)'
<1>1. /\ NodesOK' /\ node'[k][r] = e
      /\ \A q \in Circuits, i \in Nodes : q # k \/ i # r => node'[q][i] = node[q][i]
  BY DEF NodesOK
<1>2. ASSUME NEW q \in Circuits PROVE Origin(q)'
  <2>1. CASE q = k /\ r = 0
    BY <1>1, <2>1 DEF Origin
  <2>2. CASE q # k \/ r # 0
    <3>1. 0 \in Nodes /\ 0 \in Links
      BY Neighbours
    <3>2. node'[q][0] = node[q][0]
      BY <1>1, <2>2, <3>1
    <3>3. (on'[q][0] = 0 => on[q][0] = 0) /\ Origin(q)
      BY <3>1
    <3> QED BY <3>2, <3>3 DEF Origin
  <2> QED BY <2>1, <2>2
<1>3. ASSUME NEW q \in Circuits, NEW i \in Links PROVE LinkOf(q, i)'
  <2>1. i \in Nodes /\ i + 1 \in Nodes /\ i # i + 1 /\ i + 1 \in Relays
    BY Neighbours
  <2>2. CASE q = k /\ i = r
    <3>1. node'[q][i] = e /\ node'[q][i + 1] = node[k][r + 1]
      BY <1>1, <2>1, <2>2
    <3>2. Link(e, node[k][r + 1], fwd'[k][r], bwd'[k][r], on'[k][r], chan'[r])
      BY <2>2
    <3> QED BY <2>2, <3>1, <3>2 DEF LinkOf
  <2>3. CASE q = k /\ i + 1 = r
    <3>1. node'[q][i + 1] = e /\ node'[q][i] = node[k][i]
      BY <1>1, <2>1, <2>3
    <3>3. i = r - 1 /\ r \in Relays
      BY <2>1, <2>3, Neighbours
    <3>2. Link(node[k][i], e, fwd'[k][i], bwd'[k][i], on'[k][i], chan'[i])
      BY <3>3
    <3> QED BY <2>3, <3>1, <3>2 DEF LinkOf
  <2>4. CASE q # k \/ (i # r /\ i + 1 # r)
    <3>1. node'[q][i] = node[q][i] /\ node'[q][i + 1] = node[q][i + 1]
      BY <1>1, <2>1, <2>4
    <3>2. fwd'[q][i] = fwd[q][i] /\ bwd'[q][i] = bwd[q][i] /\ on'[q][i] = on[q][i]
      BY <2>4
    <3>3. Link(node[q][i], node[q][i + 1], fwd[q][i], bwd[q][i], on[q][i], chan'[i])
      OBVIOUS
    <3> QED BY <3>1, <3>2, <3>3 DEF LinkOf
  <2> QED BY <2>2, <2>3, <2>4
<1> QED BY <1>1, <1>2, <1>3

(* The same while the channels stay as they are.                           *)
LEMMA Turn ==
  ASSUME IInv, NEW k \in Circuits, NEW r \in Nodes, NEW e \in Records,
         node' = [node EXCEPT ![k][r] = e], UNCHANGED chan, WiresOK', PathsOK',
         \A q \in Circuits, i \in Links : q # k \/ (i # r /\ i + 1 # r) =>
            fwd'[q][i] = fwd[q][i] /\ bwd'[q][i] = bwd[q][i] /\ on'[q][i] = on[q][i],
         \A q \in Circuits, i \in Links : on'[q][i] = 0 => on[q][i] = 0,
         r = 0 /\ e.state \in {"building", "guard_wait", "open"} => on'[k][0] # 0,
         r \in Links =>
            Link(e, node[k][r + 1], fwd'[k][r], bwd'[k][r], on'[k][r], chan[r]),
         r \in Relays =>
            Link(node[k][r - 1], e, fwd'[k][r - 1], bwd'[k][r - 1], on'[k][r - 1], chan[r - 1])
  PROVE  IInv'
<1>1. NodesOK /\ WiresOK /\ ChannelsOK /\ \A q \in Circuits : Origin(q)
  BY DEF IInv
<1>2. \A q \in Circuits, i \in Links :
         Link(node[q][i], node[q][i + 1], fwd[q][i], bwd[q][i], on[q][i], chan'[i])
  BY DEF IInv, LinkOf
<1>3. ChannelsOK'
  BY <1>1 DEF ChannelsOK, Chans
<1>4. r \in Links =>
         Link(e, node[k][r + 1], fwd'[k][r], bwd'[k][r], on'[k][r], chan'[r])
  OBVIOUS
<1>5. r \in Relays =>
         Link(node[k][r - 1], e, fwd'[k][r - 1], bwd'[k][r - 1], on'[k][r - 1], chan'[r - 1])
  OBVIOUS
<1>6. /\ NodesOK'
      /\ \A q \in Circuits : Origin(q)'
      /\ \A q \in Circuits, i \in Links : LinkOf(q, i)'
  BY <1>1, <1>2, <1>4, <1>5, OneNode
<1> QED BY <1>3, <1>6 DEF IInv

(* What is known of a circuit at a node and of its links.                  *)
LEMMA Known ==
  ASSUME IInv, NEW k \in Circuits
  PROVE  /\ NodesOK /\ WiresOK /\ PathsOK /\ ChannelsOK /\ Origin(k)
         /\ \A r \in Nodes : node[k][r] \in Records
         /\ \A i \in Links :
              /\ fwd[k][i] \in Seq(Cells) /\ bwd[k][i] \in Seq(Cells) /\ on[k][i] \in Nat
              /\ Link(node[k][i], node[k][i + 1], fwd[k][i], bwd[k][i], on[k][i], chan[i])
         /\ \A r \in Relays :
              Link(node[k][r - 1], node[k][r], fwd[k][r - 1], bwd[k][r - 1], on[k][r - 1],
                   chan[r - 1])
<1>1. \A i \in Links :
        Link(node[k][i], node[k][i + 1], fwd[k][i], bwd[k][i], on[k][i], chan[i])
  BY DEF IInv, LinkOf
<1>2. ASSUME NEW r \in Relays
      PROVE  Link(node[k][r - 1], node[k][r], fwd[k][r - 1], bwd[k][r - 1], on[k][r - 1],
                  chan[r - 1])
  <2>1. PICK i \in Links : i = r - 1 /\ i + 1 = r
    BY Neighbours
  <2> QED BY <1>1, <2>1
<1> QED BY <1>1, <1>2 DEF IInv, NodesOK, WiresOK, Wires

(* A node changes its circuit and no cell moves.                           *)
LEMMA NodeOnly ==
  ASSUME IInv, NEW k \in Circuits, NEW r \in Nodes, NEW e \in Records,
         node' = [node EXCEPT ![k][r] = e], UNCHANGED <<path, fwd, bwd, on, chan>>,
         Alike(node[k][r], e), e.state = "chan_wait" => node[k][r].state = "chan_wait",
         e.n_chan = node[k][r].n_chan, e.p_chan = node[k][r].p_chan,
         r = 0 /\ e.state \in {"building", "guard_wait", "open"} => on[k][0] # 0
  PROVE  IInv'
<1>1. WiresOK' /\ PathsOK'
  BY DEF IInv, WiresOK, PathsOK
<1>2. /\ \A q \in Circuits, i \in Links : q # k \/ (i # r /\ i + 1 # r) =>
            fwd'[q][i] = fwd[q][i] /\ bwd'[q][i] = bwd[q][i] /\ on'[q][i] = on[q][i]
      /\ \A q \in Circuits, i \in Links : on'[q][i] = 0 => on[q][i] = 0
  OBVIOUS
<1>3. ASSUME r \in Links
      PROVE  Link(e, node[k][r + 1], fwd'[k][r], bwd'[k][r], on'[k][r], chan[r])
  <2>1. Link(node[k][r], node[k][r + 1], fwd[k][r], bwd[k][r], on[k][r], chan[r])
    BY <1>3, Known
  <2> QED BY <2>1, NearStays
<1>4. ASSUME r \in Relays
      PROVE  Link(node[k][r - 1], e, fwd'[k][r - 1], bwd'[k][r - 1], on'[k][r - 1], chan[r - 1])
  <2>1. Link(node[k][r - 1], node[k][r], fwd[k][r - 1], bwd[k][r - 1], on[k][r - 1], chan[r - 1])
    BY <1>4, Known
  <2> QED BY <2>1, FarStays
<1> QED BY <1>1, <1>2, <1>3, <1>4, Turn

(* Marking a circuit changes nothing else.                                 *)
LEMMA MarkedAlike ==
  ASSUME NEW c \in Records, NEW e, e = Marked(c)
  PROVE  /\ e \in Records /\ Alike(c, e) /\ e.state = c.state
         /\ e.n_chan = c.n_chan /\ e.p_chan = c.p_chan /\ e.marked
  BY DEF Marked, Records, Alike, Kept

LEMMA MarkOnly ==
  ASSUME IInv, NEW k \in Circuits, NEW r \in Nodes,
         node' = [node EXCEPT ![k][r] = Marked(@)], UNCHANGED <<path, fwd, bwd, on, chan>>
  PROVE  IInv'
<1>1. node[k][r] \in Records
  BY Known
<1>2. PICK e : e = Marked(node[k][r])
  OBVIOUS
<1>3. node' = [node EXCEPT ![k][r] = e]
  BY <1>2
<1>4. /\ e \in Records /\ Alike(node[k][r], e) /\ e.state = node[k][r].state
      /\ e.n_chan = node[k][r].n_chan /\ e.p_chan = node[k][r].p_chan
  BY <1>1, <1>2, MarkedAlike
<1>5. r = 0 /\ e.state \in {"building", "guard_wait", "open"} => on[k][0] # 0
  BY <1>4, Known DEF Origin
<1>6. e.state = "chan_wait" => node[k][r].state = "chan_wait"
  BY <1>4
<1> QED BY <1>3, <1>4, <1>5, <1>6, NodeOnly

-----------------------------------------------------------------------------
(* The actions of one node.                                                *)

LEMMA MarkStep ==
  ASSUME IInv, NEW k \in Circuits, NEW i \in Nodes, circuit_mark_for_close(k, i)
  PROVE  IInv'
  BY MarkOnly DEF circuit_mark_for_close

LEMMA ExpireStep ==
  ASSUME IInv, NEW k \in Circuits, circuit_expire_building(k)
  PROVE  IInv'
  BY MarkOnly, Neighbours DEF circuit_expire_building

LEMMA UpgradeStep ==
  ASSUME IInv, NEW k \in Circuits, circuit_upgrade_circuits_from_guard_wait(k)
  PROVE  IInv'
<1>1. /\ 0 \in Nodes /\ node[k][0] \in Records /\ node[k][0].state = "guard_wait"
      /\ UNCHANGED <<path, fwd, bwd, on, chan>>
      /\ Origin(k) /\ NodesOK
  BY Known, Neighbours DEF circuit_upgrade_circuits_from_guard_wait
<1>2. PICK e : e = [node[k][0] EXCEPT !.state = "open"]
  OBVIOUS
<1>3. node' = [node EXCEPT ![k][0] = e]
  BY <1>1, <1>2 DEF circuit_upgrade_circuits_from_guard_wait, NodesOK
<1>4. /\ e \in Records /\ Alike(node[k][0], e) /\ e.state = "open"
      /\ e.n_chan = node[k][0].n_chan /\ e.p_chan = node[k][0].p_chan
  BY <1>1, <1>2 DEF Records, CircuitStates, Alike, Kept
<1>5. on[k][0] # 0
  BY <1>1 DEF Origin
<1>6. e.state # "chan_wait"
  BY <1>4
<1> QED BY <1>1, <1>3, <1>4, <1>5, <1>6, NodeOnly

(* A cell from behind is taken by relay r.                                 *)
LEMMA TakenFromBehind ==
  ASSUME IInv, NEW k \in Circuits, NEW r \in Relays, NEW cmd, FromBehind(k, r, cmd),
         NEW w, w = PoppedFwd(k, r)
  PROVE  /\ w \in Wires /\ w[k][r - 1] = Tail(fwd[k][r - 1])
         /\ \A q \in Circuits, j \in Links : q # k \/ j # r - 1 => w[q][j] = fwd[q][j]
<1>1. r - 1 \in Links /\ fwd \in Wires
  BY Known, Neighbours DEF WiresOK
<1>2. fwd[k][r - 1] # <<>> /\ w = Put(fwd, k, r - 1, Tail(fwd[k][r - 1]))
  BY DEF FromBehind, PoppedFwd, Put
<1> QED BY <1>1, <1>2, WireTail

LEMMA TakenFromAhead ==
  ASSUME IInv, NEW k \in Circuits, NEW i \in Links, NEW cmd, FromAhead(k, i, cmd),
         NEW w, w = PoppedBwd(k, i)
  PROVE  /\ w \in Wires /\ w[k][i] = Tail(bwd[k][i])
         /\ \A q \in Circuits, j \in Links : q # k \/ j # i => w[q][j] = bwd[q][j]
<1>1. bwd \in Wires
  BY Known DEF WiresOK
<1>2. bwd[k][i] # <<>> /\ w = Put(bwd, k, i, Tail(bwd[k][i]))
  BY DEF FromAhead, PoppedBwd, Put
<1> QED BY <1>1, <1>2, WireTail

LEMMA CreateStep ==
  ASSUME IInv, NEW k \in Circuits, NEW r \in Relays, command_process_create_cell(k, r)
  PROVE  IInv'
<1> DEFINE j == r - 1
<1>1. /\ j \in Links /\ r \in Nodes /\ r # j /\ r # 0 /\ j + 1 = r
      /\ \A i \in Links : i + 1 = r => i = j
  BY Neighbours
<1>2. /\ FromBehind(k, r, "CREATE") /\ fwd' = PoppedFwd(k, r)
      /\ UNCHANGED <<path, on, chan>>
  BY DEF command_process_create_cell
<1>3. /\ fwd[k][j] # <<>> /\ Head(fwd[k][j]).cmd = "CREATE" /\ chan[j][on[k][j]].far = "open"
  BY <1>2 DEF FromBehind
<1>4. /\ fwd' \in Wires /\ fwd'[k][j] = Tail(fwd[k][j])
      /\ \A q \in Circuits, i \in Links : q # k \/ i # j => fwd'[q][i] = fwd[q][i]
  BY <1>2, TakenFromBehind
<1>5. /\ node[k][r] \in Records /\ NodesOK /\ WiresOK /\ PathsOK
      /\ fwd[k][j] \in Seq(Cells) /\ bwd[k][j] \in Seq(Cells)
      /\ Link(node[k][j], node[k][r], fwd[k][j], bwd[k][j], on[k][j], chan[j])
      /\ r \in Links =>
           Link(node[k][r], node[k][r + 1], fwd[k][r], bwd[k][r], on[k][r], chan[r])
  BY <1>1, Known
<1>6. node[k][r].state = "none"
  <2>1. Has(fwd[k][j], "CREATE")
    BY <1>3, <1>5, CellTaken
  <2> QED BY <1>5, <2>1 DEF Link
<1> HIDE DEF j
<1>7. CASE bwd' = SentBack(bwd, k, j, DESTROY) /\ UNCHANGED node
  <2>1. /\ bwd' \in Wires /\ bwd'[k][j] = Append(bwd[k][j], DESTROY)
        /\ \A q \in Circuits, i \in Links : q # k \/ i # j => bwd'[q][i] = bwd[q][i]
    <3>1. DESTROY \in Cells /\ bwd \in Wires
      BY <1>5, CellKinds DEF WiresOK, PathsOK
    <3> QED BY <1>1, <1>3, <1>7, <3>1, SentBackCells
  <2>2. Link(node[k][j], node[k][r], fwd'[k][j], bwd'[k][j], on'[k][j], chan[j])
    BY <1>2, <1>3, <1>4, <1>5, <2>1, CreateRefused
  <2>3. r \in Links =>
          Link(node[k][r], node[k][r + 1], fwd'[k][r], bwd'[k][r], on'[k][r], chan[r])
    BY <1>1, <1>2, <1>4, <1>5, <2>1
  <2>4. node' = [node EXCEPT ![k][r] = node[k][r]]
    BY <1>1, <1>5, <1>7 DEF NodesOK
  <2>5. WiresOK' /\ PathsOK'
    BY <1>2, <1>4, <1>5, <2>1 DEF WiresOK, PathsOK
  <2>6. /\ \A q \in Circuits, i \in Links : q # k \/ (i # r /\ i + 1 # r) =>
              fwd'[q][i] = fwd[q][i] /\ bwd'[q][i] = bwd[q][i] /\ on'[q][i] = on[q][i]
        /\ \A q \in Circuits, i \in Links : on'[q][i] = 0 => on[q][i] = 0
    BY <1>1, <1>2, <1>4, <2>1
  <2> QED BY <1>1, <1>2, <1>5, <2>2, <2>3, <2>4, <2>5, <2>6, Turn DEF j
<1>8. CASE /\ \E refused \in BOOLEAN : node' = [node EXCEPT ![k][r] =
                [NoCircuit EXCEPT !.state = "onionskin_pending", !.p_chan = TRUE,
                                  !.marked = refused]]
           /\ UNCHANGED bwd
  <2>1. PICK refused \in BOOLEAN : node' = [node EXCEPT ![k][r] =
                [NoCircuit EXCEPT !.state = "onionskin_pending", !.p_chan = TRUE,
                                  !.marked = refused]]
    BY <1>8
  <2>2. PICK e : e = [NoCircuit EXCEPT !.state = "onionskin_pending", !.p_chan = TRUE,
                                       !.marked = refused]
    OBVIOUS
  <2>3. /\ e \in Records /\ Kept(e) /\ e.p_chan /\ ~e.n_chan /\ e.state = "onionskin_pending"
    BY <2>2 DEF Records, NoCircuit, Kept, CircuitStates
  <2>4. node' = [node EXCEPT ![k][r] = e]
    BY <2>1, <2>2
  <2>5. Link(node[k][j], e, fwd'[k][j], bwd'[k][j], on'[k][j], chan[j])
    BY <1>2, <1>3, <1>4, <1>5, <1>8, <2>3, CreateServed
  <2>6. ASSUME r \in Links
        PROVE  Link(e, node[k][r + 1], fwd'[k][r], bwd'[k][r], on'[k][r], chan[r])
    <3>1. Link(node[k][r], node[k][r + 1], fwd[k][r], bwd[k][r], on[k][r], chan[r])
      BY <1>5, <2>6
    <3>2. e.state # "chan_wait"
      BY <2>3
    <3>3. Link(e, node[k][r + 1], fwd[k][r], bwd[k][r], on[k][r], chan[r])
      BY <1>6, <2>3, <3>1, <3>2, NearWaits
    <3> QED BY <1>1, <1>2, <1>4, <1>8, <2>6, <3>3
  <2>7. WiresOK' /\ PathsOK'
    BY <1>2, <1>4, <1>5, <1>8 DEF WiresOK, PathsOK
  <2>8. /\ \A q \in Circuits, i \in Links : q # k \/ (i # r /\ i + 1 # r) =>
              fwd'[q][i] = fwd[q][i] /\ bwd'[q][i] = bwd[q][i] /\ on'[q][i] = on[q][i]
        /\ \A q \in Circuits, i \in Links : on'[q][i] = 0 => on[q][i] = 0
    BY <1>1, <1>2, <1>4, <1>8
  <2> QED BY <1>1, <1>2, <2>3, <2>4, <2>5, <2>6, <2>7, <2>8, Turn DEF j
<1> QED BY <1>7, <1>8 DEF command_process_create_cell, j

(* A node that has the circuit may send a cell back.                       *)
LEMMA LinkAfterSentBack ==
  ASSUME IInv, NEW k \in Circuits, NEW r \in Relays, Kept(node[k][r]),
         NEW B \in {bwd[k][r - 1], Append(bwd[k][r - 1], Cell("CREATED")),
                    Append(bwd[k][r - 1], Cell("EXTENDED"))}
  PROVE  Link(node[k][r - 1], node[k][r], fwd[k][r - 1], B, on[k][r - 1], chan[r - 1])
<1>1. /\ Link(node[k][r - 1], node[k][r], fwd[k][r - 1], bwd[k][r - 1], on[k][r - 1], chan[r - 1])
      /\ bwd[k][r - 1] \in Seq(Cells)
  BY Known, Neighbours
<1>2. ASSUME NEW cmd \in {"CREATED", "EXTENDED"}
      PROVE  Link(node[k][r - 1], node[k][r], fwd[k][r - 1], Append(bwd[k][r - 1], Cell(cmd)),
                  on[k][r - 1], chan[r - 1])
  <2>1. PICK cell : cell = Cell(cmd)
    OBVIOUS
  <2>2. cell \in Cells /\ cell.cmd # "DESTROY"
    BY <2>1, CellKinds
  <2>3. Link(node[k][r - 1], node[k][r], fwd[k][r - 1], Append(bwd[k][r - 1], cell),
             on[k][r - 1], chan[r - 1])
    BY <1>1, <2>2, BackSent
  <2> QED BY <2>1, <2>3
<1> QED BY <1>1, <1>2

LEMMA OnionskinStep ==
  ASSUME IInv, NEW k \in Circuits, NEW r \in Relays, onionskin_answer(k, r)
  PROVE  IInv'
<1> DEFINE j == r - 1
<1>1. /\ j \in Links /\ r \in Nodes /\ r # j /\ r # 0 /\ j + 1 = r
      /\ \A i \in Links : i + 1 = r => i = j
  BY Neighbours
<1>2. /\ Live(k, r) /\ node[k][r].state = "onionskin_pending"
      /\ UNCHANGED <<path, fwd, on, chan>>
  BY DEF onionskin_answer
<1>3. /\ node[k][r] \in Records /\ NodesOK /\ WiresOK /\ PathsOK /\ bwd[k][j] \in Seq(Cells)
      /\ r \in Links =>
           Link(node[k][r], node[k][r + 1], fwd[k][r], bwd[k][r], on[k][r], chan[r])
  BY <1>1, Known
<1>4. Kept(node[k][r])
  BY <1>2 DEF Live, Exists, Kept
<1>5. CASE node' = [node EXCEPT ![k][r] = Marked(@)] /\ UNCHANGED bwd
  BY <1>1, <1>2, <1>5, MarkOnly
<1>6. CASE /\ node' = [node EXCEPT ![k][r].state = "open"]
           /\ bwd' = SentBack(bwd, k, j, Cell("CREATED"))
  <2>1. PICK e : e = [node[k][r] EXCEPT !.state = "open"]
    OBVIOUS
  <2>2. /\ e \in Records /\ Alike(node[k][r], e) /\ e.state = "open"
        /\ e.n_chan = node[k][r].n_chan /\ e.p_chan = node[k][r].p_chan
    BY <1>2, <1>3, <2>1 DEF Records, CircuitStates, Alike, Kept
  <2>3. node' = [node EXCEPT ![k][r] = e]
    BY <1>1, <1>3, <1>6, <2>1 DEF NodesOK
  <2>4. PICK cell : cell = Cell("CREATED")
    OBVIOUS
  <2>5. /\ bwd' \in Wires /\ bwd'[k][j] \in {bwd[k][j], Append(bwd[k][j], cell)}
        /\ \A q \in Circuits, i \in Links : q # k \/ i # j => bwd'[q][i] = bwd[q][i]
    <3>1. cell \in Cells /\ bwd \in Wires /\ bwd' = SentBack(bwd, k, j, cell)
      BY <1>3, <1>6, <2>4, CellKinds DEF WiresOK, PathsOK
    <3> HIDE DEF j
    <3> QED BY <1>1, <3>1, SentBackCells
  <2>6. Link(node[k][j], e, fwd'[k][j], bwd'[k][j], on'[k][j], chan[j])
    <3>1. bwd'[k][j] \in {bwd[k][j], Append(bwd[k][j], Cell("CREATED")),
                          Append(bwd[k][j], Cell("EXTENDED"))}
      BY <2>4, <2>5
    <3>2. Link(node[k][j], node[k][r], fwd[k][j], bwd'[k][j], on[k][j], chan[j])
      BY <1>4, <3>1, LinkAfterSentBack
    <3>3. Link(node[k][j], e, fwd[k][j], bwd'[k][j], on[k][j], chan[j])
      BY <2>2, <3>2, FarStays
    <3> QED BY <1>2, <3>3
  <2>7. ASSUME r \in Links
        PROVE  Link(e, node[k][r + 1], fwd'[k][r], bwd'[k][r], on'[k][r], chan[r])
    <3>1. Link(node[k][r], node[k][r + 1], fwd[k][r], bwd[k][r], on[k][r], chan[r])
      BY <1>3, <2>7
    <3>2. e.state # "chan_wait"
      BY <2>2
    <3>3. Link(e, node[k][r + 1], fwd[k][r], bwd[k][r], on[k][r], chan[r])
      BY <2>2, <3>1, <3>2, NearStays
    <3> QED BY <1>1, <1>2, <2>5, <2>7, <3>3
  <2>8. WiresOK' /\ PathsOK'
    BY <1>2, <1>3, <2>5 DEF WiresOK, PathsOK
  <2>9. /\ \A q \in Circuits, i \in Links : q # k \/ (i # r /\ i + 1 # r) =>
              fwd'[q][i] = fwd[q][i] /\ bwd'[q][i] = bwd[q][i] /\ on'[q][i] = on[q][i]
        /\ \A q \in Circuits, i \in Links : on'[q][i] = 0 => on[q][i] = 0
    BY <1>1, <1>2, <2>5
  <2> QED BY <1>1, <1>2, <2>2, <2>3, <2>6, <2>7, <2>8, <2>9, Turn
<1> QED BY <1>5, <1>6 DEF onionskin_answer

LEMMA DestroyFromBehindStep ==
  ASSUME IInv, NEW k \in Circuits, NEW r \in Relays, DestroyFromBehind(k, r)
  PROVE  IInv'
<1> DEFINE j == r - 1
<1>1. /\ j \in Links /\ r \in Nodes /\ r # j /\ r # 0 /\ j + 1 = r
      /\ \A i \in Links : i + 1 = r => i = j
  BY Neighbours
<1>2. /\ FromBehind(k, r, "DESTROY") /\ fwd' = PoppedFwd(k, r)
      /\ UNCHANGED <<path, bwd, on, chan>>
  BY DEF DestroyFromBehind
<1>3. fwd[k][j] # <<>> /\ Head(fwd[k][j]).cmd = "DESTROY"
  BY <1>2 DEF FromBehind
<1>4. /\ fwd' \in Wires /\ fwd'[k][j] = Tail(fwd[k][j])
      /\ \A q \in Circuits, i \in Links : q # k \/ i # j => fwd'[q][i] = fwd[q][i]
  BY <1>2, TakenFromBehind
<1>5. /\ node[k][r] \in Records /\ NodesOK /\ WiresOK /\ PathsOK /\ fwd[k][j] \in Seq(Cells)
      /\ Link(node[k][j], node[k][r], fwd[k][j], bwd[k][j], on[k][j], chan[j])
      /\ r \in Links =>
           Link(node[k][r], node[k][r + 1], fwd[k][r], bwd[k][r], on[k][r], chan[r])
  BY <1>1, Known
<1>6. PICK e : e = IF Live(k, r) THEN [Marked(node[k][r]) EXCEPT !.p_chan = FALSE]
                   ELSE node[k][r]
  OBVIOUS
<1>7. /\ e \in Records /\ Alike(node[k][r], e) /\ e.state = node[k][r].state
      /\ e.n_chan = node[k][r].n_chan /\ ~Alive(e)
  BY <1>5, <1>6 DEF Records, Alike, Kept, Alive, Live, Exists, Marked
<1>8. node' = [node EXCEPT ![k][r] = e]
  <2>1. CASE Live(k, r)
    BY <1>6, <2>1 DEF DestroyFromBehind
  <2>2. CASE ~Live(k, r)
    BY <1>1, <1>5, <1>6, <2>2 DEF DestroyFromBehind, NodesOK
  <2> QED BY <2>1, <2>2
<1>9. Link(node[k][j], e, fwd'[k][j], bwd'[k][j], on'[k][j], chan[j])
  <2> HIDE DEF j
  <2>1. Link(node[k][j], e, Tail(fwd[k][j]), bwd[k][j], on[k][j], chan[j])
    BY <1>3, <1>5, <1>7, DestroyTakenByFar
  <2> QED BY <1>2, <1>4, <2>1
<1>10. ASSUME r \in Links
       PROVE  Link(e, node[k][r + 1], fwd'[k][r], bwd'[k][r], on'[k][r], chan[r])
  <2>1. Link(node[k][r], node[k][r + 1], fwd[k][r], bwd[k][r], on[k][r], chan[r])
    BY <1>5, <1>10
  <2>2. e.state = "chan_wait" => node[k][r].state = "chan_wait"
    BY <1>7
  <2>3. Link(e, node[k][r + 1], fwd[k][r], bwd[k][r], on[k][r], chan[r])
    BY <1>7, <2>1, <2>2, NearStays
  <2> QED BY <1>1, <1>2, <1>4, <1>10, <2>3
<1>11. WiresOK' /\ PathsOK'
  BY <1>2, <1>4, <1>5 DEF WiresOK, PathsOK
<1>12. /\ \A q \in Circuits, i \in Links : q # k \/ (i # r /\ i + 1 # r) =>
              fwd'[q][i] = fwd[q][i] /\ bwd'[q][i] = bwd[q][i] /\ on'[q][i] = on[q][i]
       /\ \A q \in Circuits, i \in Links : on'[q][i] = 0 => on[q][i] = 0
  BY <1>1, <1>2, <1>4
<1> QED BY <1>1, <1>2, <1>7, <1>8, <1>9, <1>10, <1>11, <1>12, Turn

LEMMA DestroyFromAheadStep ==
  ASSUME IInv, NEW k \in Circuits, NEW i \in Links, DestroyFromAhead(k, i)
  PROVE  IInv'
<1>1. i \in Nodes /\ i # i + 1 /\ (i \in Relays => i - 1 \in Links /\ i # i - 1)
  BY Neighbours
<1>2. /\ FromAhead(k, i, "DESTROY") /\ bwd' = PoppedBwd(k, i)
      /\ UNCHANGED <<path, fwd, on, chan>>
  BY DEF DestroyFromAhead
<1>3. bwd[k][i] # <<>> /\ Head(bwd[k][i]).cmd = "DESTROY"
  BY <1>2 DEF FromAhead
<1>4. /\ bwd' \in Wires /\ bwd'[k][i] = Tail(bwd[k][i])
      /\ \A q \in Circuits, j \in Links : q # k \/ j # i => bwd'[q][j] = bwd[q][j]
  BY <1>2, TakenFromAhead
<1>5. /\ node[k][i] \in Records /\ NodesOK /\ WiresOK /\ PathsOK /\ bwd[k][i] \in Seq(Cells)
      /\ Origin(k)
      /\ Link(node[k][i], node[k][i + 1], fwd[k][i], bwd[k][i], on[k][i], chan[i])
      /\ i \in Relays =>
           Link(node[k][i - 1], node[k][i], fwd[k][i - 1], bwd[k][i - 1], on[k][i - 1],
                chan[i - 1])
  BY <1>1, Known
<1>6. PICK e : e = IF Live(k, i) THEN [Marked(node[k][i]) EXCEPT !.n_chan = FALSE]
                   ELSE node[k][i]
  OBVIOUS
<1>7. /\ e \in Records /\ Alike(node[k][i], e) /\ e.state = node[k][i].state
      /\ e.p_chan = node[k][i].p_chan /\ ~Alive(e) /\ (e.n_chan => node[k][i].n_chan)
  BY <1>5, <1>6 DEF Records, Alike, Kept, Alive, Live, Exists, Marked
<1>8. node' = [node EXCEPT ![k][i] = e]
  <2>1. CASE Live(k, i)
    BY <1>6, <2>1 DEF DestroyFromAhead
  <2>2. CASE ~Live(k, i)
    BY <1>1, <1>5, <1>6, <2>2 DEF DestroyFromAhead, NodesOK
  <2> QED BY <2>1, <2>2
<1>9. Link(e, node[k][i + 1], fwd'[k][i], bwd'[k][i], on'[k][i], chan[i])
  <2>1. Link(e, node[k][i + 1], fwd[k][i], Tail(bwd[k][i]), on[k][i], chan[i])
    BY <1>3, <1>5, <1>7, DestroyTakenByNear
  <2> QED BY <1>2, <1>4, <2>1
<1>10. ASSUME i \in Relays
       PROVE  Link(node[k][i - 1], e, fwd'[k][i - 1], bwd'[k][i - 1], on'[k][i - 1], chan[i - 1])
  <2>1. Link(node[k][i - 1], e, fwd[k][i - 1], bwd[k][i - 1], on[k][i - 1], chan[i - 1])
    BY <1>5, <1>7, <1>10, FarStays
  <2> QED BY <1>1, <1>2, <1>4, <1>10, <2>1
<1>11. WiresOK' /\ PathsOK'
  BY <1>2, <1>4, <1>5 DEF WiresOK, PathsOK
<1>12. /\ \A q \in Circuits, j \in Links : q # k \/ (j # i /\ j + 1 # i) =>
              fwd'[q][j] = fwd[q][j] /\ bwd'[q][j] = bwd[q][j] /\ on'[q][j] = on[q][j]
       /\ \A q \in Circuits, j \in Links : on'[q][j] = 0 => on[q][j] = 0
       /\ i = 0 /\ e.state \in {"building", "guard_wait", "open"} => on'[k][0] # 0
  BY <1>2, <1>4, <1>5, <1>7 DEF Origin
<1> QED BY <1>1, <1>2, <1>7, <1>8, <1>9, <1>10, <1>11, <1>12, Turn

(* The origin asks the next hop or is done.  B: the cells on their way     *)
(* back to it, less the answer that was taken.                             *)
LEMMA NextOnionSkin ==
  ASSUME IInv, NEW k \in Circuits, Live(k, 0), node[k][0].state # "chan_wait",
         on[k][0] # 0,
         NEW p \in Paths,
         circuit_send_next_onion_skin(k, p), UNCHANGED <<on, chan>>,
         bwd' \in Wires,
         \A q \in Circuits, i \in Links : q # k \/ i # 0 => bwd'[q][i] = bwd[q][i],
         Link(node[k][0], node[k][1], fwd[k][0], bwd'[k][0], on[k][0], chan[0])
  PROVE  IInv'
<1>1. /\ 0 \in Links /\ 0 \in Nodes /\ 0 + 1 = 1 /\ 0 \notin Relays
      /\ \A i \in Links : i + 1 # 0
  BY Neighbours
<1>2. /\ node[k][0] \in Records /\ NodesOK /\ WiresOK /\ PathsOK /\ fwd[k][0] \in Seq(Cells)
  BY <1>1, Known
<1>3. PICK usable \in {"open", "guard_wait", "building"} :
        /\ node' = [node EXCEPT ![k][0].state = usable]
        /\ \/ p.open < p.len /\ fwd' = SentForward(fwd, k, 0, Extend(p.open))
           \/ UNCHANGED fwd
  BY DEF circuit_send_next_onion_skin
<1>4. PathsOK'
  <2>1. \/ path' = [path EXCEPT ![k] = p]
        \/ path' = [path EXCEPT ![k] = [p EXCEPT !.awaiting = TRUE]]
    BY DEF circuit_send_next_onion_skin
  <2>2. PICK t : t = [p EXCEPT !.awaiting = TRUE]
    OBVIOUS
  <2>3. t \in Paths
    BY <2>2 DEF Paths
  <2> QED BY <1>2, <2>1, <2>2, <2>3 DEF PathsOK
<1>5. PICK e : e = [node[k][0] EXCEPT !.state = usable]
  OBVIOUS
<1>6. /\ e \in Records /\ Alike(node[k][0], e) /\ e.state # "chan_wait"
      /\ e.n_chan = node[k][0].n_chan /\ node' = [node EXCEPT ![k][0] = e]
  <2>1. e \in Records /\ e.state = usable /\ e.n_chan = node[k][0].n_chan
        /\ e.marked = node[k][0].marked
    BY <1>2, <1>5 DEF Records, CircuitStates
  <2>2. Alike(node[k][0], e)
    BY <2>1 DEF Alike, Kept, Live, Exists
  <2>3. node' = [node EXCEPT ![k][0] = e]
    BY <1>1, <1>2, <1>3, <1>5 DEF NodesOK
  <2> QED BY <2>1, <2>2, <2>3
<1>7. PICK hop \in Links : p.open < p.len => hop = p.open
  <2>1. p.open < p.len => p.open \in Links
    BY CircuitBuildAssumption DEF Paths, Links
  <2> QED BY <1>1, <2>1
<1>13. PICK cell : cell = Extend(hop)
  OBVIOUS
<1>8. cell \in Cells /\ cell.cmd = "EXTEND"
  BY <1>13, CellKinds
<1>9. /\ fwd' \in Wires /\ fwd'[k][0] \in {fwd[k][0], Append(fwd[k][0], cell)}
      /\ \A q \in Circuits, i \in Links : q # k \/ i # 0 => fwd'[q][i] = fwd[q][i]
  <2>1. CASE UNCHANGED fwd
    BY <1>2, <2>1 DEF WiresOK
  <2>2. CASE fwd' = SentForward(fwd, k, 0, cell)
    <3>1. fwd \in Wires
      BY <1>2 DEF WiresOK
    <3> QED BY <1>1, <1>8, <2>2, <3>1, SentForwardCells
  <2> QED BY <1>3, <1>7, <1>13, <2>1, <2>2
<1>10. Link(e, node[k][0 + 1], fwd'[k][0], bwd'[k][0], on'[k][0], chan[0])
  <2>1. Link(e, node[k][1], fwd[k][0], bwd'[k][0], on[k][0], chan[0])
    BY <1>6, NearStays
  <2>2. cell.cmd \notin {"CREATE", "DESTROY"}
    BY <1>8
  <2>3. Link(e, node[k][1], Append(fwd[k][0], cell), bwd'[k][0], on[k][0], chan[0])
    BY <1>2, <1>8, <2>1, <2>2, ForwardSent
  <2>4. Link(e, node[k][1], fwd'[k][0], bwd'[k][0], on'[k][0], chan[0])
    BY <1>9, <2>1, <2>3
  <2> QED BY <1>1, <2>4
<1>11. WiresOK'
  BY <1>2, <1>9 DEF WiresOK
<1>12. /\ \A q \in Circuits, i \in Links : q # k \/ (i # 0 /\ i + 1 # 0) =>
              fwd'[q][i] = fwd[q][i] /\ bwd'[q][i] = bwd[q][i] /\ on'[q][i] = on[q][i]
       /\ \A q \in Circuits, i \in Links : on'[q][i] = 0 => on[q][i] = 0
       /\ on'[k][0] # 0
  BY <1>1, <1>9
<1> QED BY <1>1, <1>4, <1>6, <1>10, <1>11, <1>12, Turn

(* The two handlers of answers differ in the cell only.                    *)
Answer(k, i, cmd) ==
  /\ FromAhead(k, i, cmd)
  /\ IF ~Live(k, i) THEN bwd' = PoppedBwd(k, i) /\ UNCHANGED <<node, path, fwd>>
     ELSE IF i = 0 THEN bwd' = PoppedBwd(k, i) /\ HopAnswered(k)
     ELSE /\ bwd' = SentBack(PoppedBwd(k, i), k, i - 1, Cell("EXTENDED"))
          /\ UNCHANGED <<node, path, fwd>>
  /\ UNCHANGED <<on, chan>>

LEMMA AnswerStep ==
  ASSUME IInv, NEW k \in Circuits, NEW i \in Links, NEW cmd \in {"CREATED", "EXTENDED"},
         Answer(k, i, cmd)
  PROVE  IInv'
<1>1. /\ i \in Nodes /\ i # i + 1 /\ (i \in Relays => i - 1 \in Links /\ i # i - 1)
      /\ (i = 0 \/ i \in Relays) /\ 0 \notin Relays
      /\ \A j \in Links : i \in Relays => (j + 1 = i <=> j = i - 1)
  BY Neighbours
<1>2. FromAhead(k, i, cmd) /\ UNCHANGED <<on, chan>>
  BY DEF Answer
<1>3. bwd[k][i] # <<>> /\ Head(bwd[k][i]).cmd # "DESTROY"
  BY <1>2 DEF FromAhead
<1>4. PICK w : w = PoppedBwd(k, i)
  OBVIOUS
<1>5. /\ w \in Wires /\ w[k][i] = Tail(bwd[k][i])
      /\ \A q \in Circuits, j \in Links : q # k \/ j # i => w[q][j] = bwd[q][j]
  BY <1>2, <1>4, TakenFromAhead
<1>6. /\ node[k][i] \in Records /\ NodesOK /\ WiresOK /\ PathsOK /\ bwd[k][i] \in Seq(Cells)
      /\ Origin(k)
      /\ Link(node[k][i], node[k][i + 1], fwd[k][i], bwd[k][i], on[k][i], chan[i])
      /\ i \in Relays =>
           Link(node[k][i - 1], node[k][i], fwd[k][i - 1], bwd[k][i - 1], on[k][i - 1],
                chan[i - 1])
  BY <1>1, Known
<1>7. Link(node[k][i], node[k][i + 1], fwd[k][i], w[k][i], on[k][i], chan[i])
  <2>1. Link(node[k][i], node[k][i + 1], fwd[k][i], Tail(bwd[k][i]), on[k][i], chan[i])
    BY <1>3, <1>6, BackTaken
  <2> QED BY <1>5, <2>1
<1>8. node[k][i].state # "none" /\ on[k][i] # 0
  BY <1>3, <1>6 DEF Link
(* The node stays as it is, and bwd' is good at its links.                 *)
<1>9. ASSUME UNCHANGED <<node, path, fwd>>, bwd' \in Wires, bwd'[k][i] = w[k][i],
             \A q \in Circuits, j \in Links : q # k \/ (j # i /\ j + 1 # i) =>
                bwd'[q][j] = bwd[q][j],
             i \in Relays =>
               Link(node[k][i - 1], node[k][i], fwd[k][i - 1], bwd'[k][i - 1], on[k][i - 1],
                    chan[i - 1])
      PROVE  IInv'
  <2>1. node' = [node EXCEPT ![k][i] = node[k][i]]
    BY <1>1, <1>6, <1>9 DEF NodesOK
  <2>2. WiresOK' /\ PathsOK'
    BY <1>2, <1>6, <1>9 DEF WiresOK, PathsOK
  <2>3. /\ \A q \in Circuits, j \in Links : q # k \/ (j # i /\ j + 1 # i) =>
              fwd'[q][j] = fwd[q][j] /\ bwd'[q][j] = bwd[q][j] /\ on'[q][j] = on[q][j]
        /\ \A q \in Circuits, j \in Links : on'[q][j] = 0 => on[q][j] = 0
        /\ i = 0 => on'[k][0] # 0
    BY <1>2, <1>8, <1>9
  <2>4. Link(node[k][i], node[k][i + 1], fwd'[k][i], bwd'[k][i], on'[k][i], chan[i])
    BY <1>2, <1>7, <1>9
  <2>5. i \in Relays =>
          Link(node[k][i - 1], node[k][i], fwd'[k][i - 1], bwd'[k][i - 1], on'[k][i - 1],
               chan[i - 1])
    BY <1>2, <1>9
  <2> QED BY <1>1, <1>2, <1>6, <2>1, <2>2, <2>3, <2>4, <2>5, Turn
<1>10. CASE ~Live(k, i)
  <2>1. bwd' = w /\ UNCHANGED <<node, path, fwd>>
    BY <1>4, <1>10 DEF Answer
  <2>2. i \in Relays =>
          Link(node[k][i - 1], node[k][i], fwd[k][i - 1], bwd'[k][i - 1], on[k][i - 1],
               chan[i - 1])
    BY <1>1, <1>5, <1>6, <2>1
  <2>3. /\ bwd' \in Wires /\ bwd'[k][i] = w[k][i]
        /\ \A q \in Circuits, j \in Links : q # k \/ (j # i /\ j + 1 # i) =>
              bwd'[q][j] = bwd[q][j]
    BY <1>5, <2>1
  <2> QED BY <1>9, <2>1, <2>2, <2>3
<1>11. CASE Live(k, i) /\ i # 0
  <2>1. i \in Relays /\ i - 1 \in Links
    BY <1>1, <1>11
  <2>2. PICK cell : cell = Cell("EXTENDED")
    OBVIOUS
  <2>3. bwd' = SentBack(w, k, i - 1, cell) /\ UNCHANGED <<node, path, fwd>>
    BY <1>4, <1>11, <2>2 DEF Answer
  <2>4. /\ bwd' \in Wires /\ bwd'[k][i - 1] \in {w[k][i - 1], Append(w[k][i - 1], cell)}
        /\ \A q \in Circuits, j \in Links : q # k \/ j # i - 1 => bwd'[q][j] = w[q][j]
    <3>1. cell \in Cells
      BY <2>2, CellKinds
    <3> QED BY <1>5, <2>1, <2>3, <3>1, SentBackCells
  <2>5. w[k][i - 1] = bwd[k][i - 1]
    BY <1>1, <1>5, <2>1
  <2>6. Kept(node[k][i])
    BY <1>11 DEF Live, Exists, Kept
  <2>7. Link(node[k][i - 1], node[k][i], fwd[k][i - 1], bwd'[k][i - 1], on[k][i - 1],
             chan[i - 1])
    <3>1. bwd'[k][i - 1] \in {bwd[k][i - 1], Append(bwd[k][i - 1], Cell("CREATED")),
                              Append(bwd[k][i - 1], Cell("EXTENDED"))}
      BY <2>2, <2>4, <2>5
    <3> QED BY <2>1, <2>6, <3>1, LinkAfterSentBack
  <2>8. /\ bwd'[k][i] = w[k][i]
        /\ \A q \in Circuits, j \in Links : q # k \/ (j # i /\ j + 1 # i) =>
              bwd'[q][j] = bwd[q][j]
    BY <1>1, <1>5, <2>1, <2>4
  <2> QED BY <1>9, <2>3, <2>4, <2>7, <2>8
<1>12. CASE Live(k, i) /\ i = 0
  <2>1. bwd' = w /\ HopAnswered(k)
    BY <1>4, <1>12 DEF Answer
  <2>2. /\ bwd' \in Wires
        /\ \A q \in Circuits, j \in Links : q # k \/ j # 0 => bwd'[q][j] = bwd[q][j]
        /\ Link(node[k][0], node[k][1], fwd[k][0], bwd'[k][0], on[k][0], chan[0])
    BY <1>5, <1>7, <1>12, <2>1
  <2>3. CASE circuit_send_next_onion_skin(k, [path[k] EXCEPT !.open = @ + 1, !.awaiting = FALSE])
    <3>1. PICK p : p = [path[k] EXCEPT !.open = @ + 1, !.awaiting = FALSE]
      OBVIOUS
    <3>2. p \in Paths
      <4>1. PICK q \in Paths : q = path[k]
        BY <1>6 DEF PathsOK
      <4>2. PICK n \in Nat : n = q.open + 1
        BY <4>1 DEF Paths
      <4>3. p = [q EXCEPT !.open = n, !.awaiting = FALSE]
        BY <3>1, <4>1, <4>2
      <4> QED BY <4>1, <4>2, <4>3 DEF Paths
    <3>3. node[k][0].state # "chan_wait"
      BY <1>6, <1>8, <1>12 DEF Link, Live, Exists, Alive, Kept
    <3> QED BY <1>2, <1>8, <1>12, <2>2, <2>3, <3>1, <3>2, <3>3, NextOnionSkin
  <2>4. CASE node' = [node EXCEPT ![k][0] = Marked(@)] /\ UNCHANGED <<path, fwd>>
    <3>1. PICK e : e = Marked(node[k][0])
      OBVIOUS
    <3>2. /\ e \in Records /\ Alike(node[k][0], e) /\ e.state = node[k][0].state
          /\ e.n_chan = node[k][0].n_chan /\ e.p_chan = node[k][0].p_chan
      BY <1>6, <1>12, <3>1, MarkedAlike
    <3>3. e.state = "chan_wait" => node[k][0].state = "chan_wait"
      BY <3>2
    <3>4. Link(e, node[k][1], fwd[k][0], bwd'[k][0], on[k][0], chan[0])
      BY <2>2, <3>2, <3>3, NearStays
    <3>5. node' = [node EXCEPT ![k][0] = e]
      BY <2>4, <3>1
    <3>6. WiresOK' /\ PathsOK'
      BY <1>2, <1>6, <2>2, <2>4 DEF WiresOK, PathsOK
    <3>7. /\ \A q \in Circuits, j \in Links : q # k \/ (j # 0 /\ j + 1 # 0) =>
                fwd'[q][j] = fwd[q][j] /\ bwd'[q][j] = bwd[q][j] /\ on'[q][j] = on[q][j]
          /\ \A q \in Circuits, j \in Links : on'[q][j] = 0 => on[q][j] = 0
          /\ on'[k][0] # 0
      BY <1>2, <1>8, <1>12, <2>2, <2>4
    <3>8. Link(e, node[k][0 + 1], fwd'[k][0], bwd'[k][0], on'[k][0], chan[0])
      BY <1>2, <2>4, <3>4
    <3>9. 0 \in Nodes /\ 0 \notin Relays
      BY <1>1, <1>12
    <3> QED BY <1>2, <3>2, <3>5, <3>6, <3>7, <3>8, <3>9, Turn
  <2> QED BY <2>1, <2>3, <2>4 DEF HopAnswered
<1> QED BY <1>10, <1>11, <1>12

LEMMA CreatedStep ==
  ASSUME IInv, NEW k \in Circuits, NEW i \in Links, command_process_created_cell(k, i)
  PROVE  IInv'
<1>1. Answer(k, i, "CREATED")
  BY DEF command_process_created_cell, Answer
<1> QED BY <1>1, AnswerStep

LEMMA ExtendedStep ==
  ASSUME IInv, NEW k \in Circuits, NEW i \in Links, command_process_relay_cell_in(k, i)
  PROVE  IInv'
<1>1. Answer(k, i, "EXTENDED")
  BY DEF command_process_relay_cell_in, Answer
<1> QED BY <1>1, AnswerStep

LEMMA NewExitStep ==
  ASSUME IInv, NEW k \in Circuits, circuit_extend_to_new_exit(k)
  PROVE  IInv'
<1>1. /\ Live(k, 0) /\ node[k][0].state = "open" /\ UNCHANGED <<bwd, on, chan>>
      /\ circuit_send_next_onion_skin(k, [path[k] EXCEPT !.len = @ + 1])
  BY DEF circuit_extend_to_new_exit
<1>2. 0 \in Links /\ 0 + 1 = 1
  BY Neighbours
<1>3. /\ Origin(k) /\ PathsOK /\ WiresOK
      /\ Link(node[k][0], node[k][1], fwd[k][0], bwd[k][0], on[k][0], chan[0])
  BY <1>2, Known
<1>4. PICK p : p = [path[k] EXCEPT !.len = @ + 1]
  OBVIOUS
<1>5. p \in Paths
  <2>1. path[k] \in Paths /\ path[k].len < path[k].most
    BY <1>3 DEF PathsOK, circuit_extend_to_new_exit
  <2> QED BY <1>4, <2>1, CircuitBuildAssumption DEF Paths
<1>6. on[k][0] # 0 /\ node[k][0].state # "chan_wait"
  BY <1>1, <1>3 DEF Origin
<1>7. /\ bwd' \in Wires
      /\ \A q \in Circuits, i \in Links : q # k \/ i # 0 => bwd'[q][i] = bwd[q][i]
      /\ Link(node[k][0], node[k][1], fwd[k][0], bwd'[k][0], on[k][0], chan[0])
  BY <1>1, <1>3 DEF WiresOK
<1> QED BY <1>1, <1>4, <1>5, <1>6, <1>7, NextOnionSkin
-----------------------------------------------------------------------------
(* Channels.                                                               *)

Used(h) == h.near \notin {"none", "opening"} /\ h.far # "none"
Coming(h) == h.near \in {"opening", "closing"} /\ h.far = "none"

(* A channel that was in use stays what it was, or is broken for good.     *)
Moves(h, g) ==
  /\ g \in ChannelRecords /\ Ends(g)
  /\ Used(h) => Used(g) /\ (g.near = "open" /\ g.far = "open" => h.near = "open" /\ h.far = "open")

ChannelPutIn(i, x, g) == [chan EXCEPT ![i][x] = g]

LEMMA ChannelPut ==
  ASSUME ChannelsOK, NEW i \in Links, NEW x \in Chans(i), NEW g, Moves(chan[i][x], g),
         chan' = ChannelPutIn(i, x, g)
  PROVE  /\ ChannelsOK' /\ chan'[i][x] = g
         /\ \A j \in Links : DOMAIN chan'[j] = DOMAIN chan[j]
         /\ \A j \in Links : \A y \in Chans(j) : j # i \/ y # x => chan'[j][y] = chan[j][y]
         /\ \A j \in Links : j # i => chan'[j] = chan[j]
<1>1. /\ chan' = [j \in Links |-> chan'[j]]
      /\ \A j \in Links : j # i => chan'[j] = chan[j]
      /\ chan'[i] = [chan[i] EXCEPT ![x] = g]
  BY DEF ChannelsOK, ChannelPutIn
<1>2. chan[i] \in [Chans(i) -> ChannelRecords] /\ g \in ChannelRecords /\ Ends(g)
  BY DEF ChannelsOK, Moves
<1>3. /\ chan'[i] \in [Chans(i) -> ChannelRecords] /\ chan'[i][x] = g
      /\ \A y \in Chans(i) : y # x => chan'[i][y] = chan[i][y]
      /\ DOMAIN chan'[i] = Chans(i)
  BY <1>1, <1>2
<1>4. \A j \in Links : DOMAIN chan'[j] = DOMAIN chan[j]
  BY <1>1, <1>3 DEF Chans
<1>5. ASSUME NEW j \in Links
      PROVE  /\ chan'[j] \in [DOMAIN chan'[j] -> ChannelRecords]
             /\ DOMAIN chan'[j] \subseteq Nat \ {0}
             /\ \A y \in DOMAIN chan'[j] : Ends(chan'[j][y])
  <2>1. CASE j = i
    BY <1>2, <1>3, <2>1 DEF ChannelsOK
  <2>2. CASE j # i
    BY <1>1, <2>2 DEF ChannelsOK, Chans
  <2> QED BY <2>1, <2>2
<1>6. ChannelsOK'
  BY <1>1, <1>5 DEF ChannelsOK, Chans
<1> QED BY <1>1, <1>3, <1>4, <1>6

(* A link after that, if whoever waits at it has a channel coming.         *)
LEMMA LinkAfter ==
  ASSUME ChannelsOK, NEW i \in Links, NEW x \in Chans(i), NEW g, Moves(chan[i][x], g),
         chan' = ChannelPutIn(i, x, g), NEW j \in Links,
         NEW c, NEW d, NEW F, NEW B, NEW y, Link(c, d, F, B, y, chan[j]),
         j = i /\ Alive(c) /\ c.state = "chan_wait" => \E z \in Chans(i) : Coming(chan'[i][z])
  PROVE  Link(c, d, F, B, y, chan'[j])
<1>1. /\ chan'[i][x] = g
      /\ \A l \in Links : DOMAIN chan'[l] = DOMAIN chan[l]
      /\ \A z \in Chans(i) : z # x => chan'[i][z] = chan[i][z]
      /\ \A l \in Links : l # i => chan'[l] = chan[l]
  BY ChannelPut
<1>2. CASE j # i
  BY <1>1, <1>2
<1>3. CASE j = i
  <2>1. y # 0 => y \in Chans(i) /\ Used(chan[i][y])
    BY <1>3 DEF Link, Chans, Used
  <2>2. y # 0 => /\ chan'[j][y].near \notin {"none", "opening"} /\ chan'[j][y].far # "none"
                 /\ Cut(y, chan[j]) => Cut(y, chan'[j])
    <3>1. CASE y = x
      BY <1>1, <1>3, <2>1, <3>1 DEF Moves, Used, Cut
    <3>2. CASE y # x
      BY <1>1, <1>3, <2>1, <3>2 DEF Used, Cut
    <3> QED BY <3>1, <3>2
  <2>3. Alive(c) /\ c.state = "chan_wait" =>
          \E z \in DOMAIN chan'[j] : /\ chan'[j][z].near \in {"opening", "closing"}
                                     /\ chan'[j][z].far = "none"
    BY <1>1, <1>3 DEF Coming, Chans
  <2>4. DOMAIN chan'[j] = DOMAIN chan[j]
    BY <1>1
  <2> QED BY <2>2, <2>3, <2>4, ChannelChanges
<1> QED BY <1>2, <1>3

LEMMA LinkMoved ==
  ASSUME IInv, NEW i \in Links, NEW x \in Chans(i), NEW g, Moves(chan[i][x], g),
         chan' = ChannelPutIn(i, x, g), NEW q \in Circuits, NEW j \in Links,
         j = i /\ Alive(node[q][i]) /\ node[q][i].state = "chan_wait" =>
           \E y \in Chans(i) : Coming(chan'[i][y])
  PROVE  Link(node[q][j], node[q][j + 1], fwd[q][j], bwd[q][j], on[q][j], chan'[j])
<1>1. /\ ChannelsOK
      /\ Link(node[q][j], node[q][j + 1], fwd[q][j], bwd[q][j], on[q][j], chan[j])
  BY Known
<1>2. PICK c : c = node[q][j]
  OBVIOUS
<1>3. Link(c, node[q][j + 1], fwd[q][j], bwd[q][j], on[q][j], chan[j])
  BY <1>1, <1>2
<1>4. j = i /\ Alive(c) /\ c.state = "chan_wait" => \E y \in Chans(i) : Coming(chan'[i][y])
  BY <1>2
<1>5. Link(c, node[q][j + 1], fwd[q][j], bwd[q][j], on[q][j], chan'[j])
  BY <1>1, <1>3, <1>4, LinkAfter
<1> QED BY <1>2, <1>5

(* A circuit that waits has a channel coming.                              *)
LEMMA Waiting ==
  ASSUME IInv, NEW q \in Circuits, NEW i \in Links, Alive(node[q][i]),
         node[q][i].state = "chan_wait"
  PROVE  \E y \in Chans(i) : Coming(chan[i][y])
  BY Known DEF Link, Coming, Chans

LEMMA StillWaiting ==
  ASSUME IInv, NEW i \in Links, NEW x \in Chans(i), NEW g, Moves(chan[i][x], g),
         chan' = ChannelPutIn(i, x, g), Coming(chan[i][x]) => Coming(g),
         NEW q \in Circuits, Alive(node[q][i]), node[q][i].state = "chan_wait"
  PROVE  \E y \in Chans(i) : Coming(chan'[i][y])
<1>1. PICK y \in Chans(i) : Coming(chan[i][y])
  BY Waiting
<1>2. ChannelsOK
  BY DEF IInv
<1>3. chan'[i][x] = g /\ \A z \in Chans(i) : z # x => chan'[i][z] = chan[i][z]
  BY <1>2, ChannelPut
<1>4. Coming(chan'[i][y])
  BY <1>1, <1>3
<1> QED BY <1>4

(* Nothing but a channel moves.                                            *)
LEMMA ChannelOnly ==
  ASSUME IInv, NEW i \in Links, NEW x \in Chans(i), NEW g, Moves(chan[i][x], g),
         chan' = ChannelPutIn(i, x, g), Coming(chan[i][x]) => Coming(g),
         UNCHANGED <<node, path, fwd, bwd, on>>
  PROVE  IInv'
<1>1. ChannelsOK
  BY DEF IInv
<1>2. ChannelsOK'
  BY <1>1, ChannelPut
<1>3. ASSUME NEW q \in Circuits, NEW j \in Links PROVE LinkOf(q, j)'
  <2>1. j = i /\ Alive(node[q][i]) /\ node[q][i].state = "chan_wait" =>
          \E y \in Chans(i) : Coming(chan'[i][y])
    BY StillWaiting
  <2>2. Link(node[q][j], node[q][j + 1], fwd[q][j], bwd[q][j], on[q][j], chan'[j])
    BY <2>1, LinkMoved
  <2> QED BY <2>2 DEF LinkOf
<1>4. NodesOK' /\ WiresOK' /\ PathsOK' /\ \A q \in Circuits : Origin(q)'
  BY DEF IInv, NodesOK, WiresOK, PathsOK, Origin
<1> QED BY <1>2, <1>3, <1>4 DEF IInv

LEMMA ChannelMarkedStep ==
  ASSUME IInv, NEW i \in Links, NEW x \in Chans(i), channel_mark_for_close(i, x)
  PROVE  IInv'
<1>1. ChannelsOK
  BY DEF IInv
<1>2. chan[i][x] \in ChannelRecords /\ Ends(chan[i][x])
  BY <1>1 DEF ChannelsOK
<1>3. /\ chan[i][x].near \in {"opening", "open"}
      /\ chan' = [chan EXCEPT ![i][x].near = "closing"]
      /\ UNCHANGED <<node, path, fwd, bwd, on>>
  BY DEF channel_mark_for_close
<1>4. PICK g : g = [chan[i][x] EXCEPT !.near = "closing"]
  OBVIOUS
<1>5. chan' = ChannelPutIn(i, x, g)
  BY <1>3, <1>4 DEF ChannelPutIn
<1>6. Moves(chan[i][x], g) /\ (Coming(chan[i][x]) => Coming(g))
  BY <1>2, <1>3, <1>4 DEF Moves, Used, Coming, Ends, ChannelRecords
<1> QED BY <1>3, <1>5, <1>6, ChannelOnly

LEMMA ChannelMarkedBadStep ==
  ASSUME IInv, NEW i \in Links, NEW x \in Chans(i), channel_mark_bad_for_new_circs(i, x)
  PROVE  IInv'
<1>1. ChannelsOK
  BY DEF IInv
<1>2. chan[i][x] \in ChannelRecords /\ Ends(chan[i][x])
  BY <1>1 DEF ChannelsOK
<1>3. /\ chan' = [chan EXCEPT ![i][x].bad = TRUE]
      /\ UNCHANGED <<node, path, fwd, bwd, on>>
  BY DEF channel_mark_bad_for_new_circs
<1>4. PICK g : g = [chan[i][x] EXCEPT !.bad = TRUE]
  OBVIOUS
<1>5. chan' = ChannelPutIn(i, x, g)
  BY <1>3, <1>4 DEF ChannelPutIn
<1>6. Moves(chan[i][x], g) /\ (Coming(chan[i][x]) => Coming(g))
  BY <1>2, <1>4 DEF Moves, Used, Coming, Ends, ChannelRecords
<1> QED BY <1>3, <1>5, <1>6, ChannelOnly
-----------------------------------------------------------------------------
(* A circuit without a next hop asks for one.                              *)

(* Launching a channel leaves every link as it was.                        *)
LEMMA Launched ==
  ASSUME IInv, NEW i \in Links, NEW k \in Circuits, channel_connect_for_circuit(i, k)
  PROVE  /\ ChannelsOK'
         /\ \A q \in Circuits, j \in Links :
              Link(node[q][j], node[q][j + 1], fwd[q][j], bwd[q][j], on[q][j], chan'[j])
         /\ DOMAIN chan'[i] = DOMAIN chan[i]
         /\ \E y \in Chans(i) : Coming(chan'[i][y])
<1>1. PICK x \in Chans(i) :
        /\ chan[i][x].near = "none"
        /\ chan' = [chan EXCEPT ![i][x].near = "opening", ![i][x].addr = Addr[k]]
  BY Zenon DEF channel_connect_for_circuit
<1>2. ChannelsOK
  BY DEF IInv
<1>3. chan[i][x] \in ChannelRecords /\ Ends(chan[i][x])
  BY <1>2 DEF ChannelsOK
<1>4. PICK g : g = [chan[i][x] EXCEPT !.near = "opening", !.addr = Addr[k]]
  OBVIOUS
<1>5. chan' = ChannelPutIn(i, x, g)
  BY <1>1, <1>2, <1>4 DEF ChannelPutIn, ChannelsOK
<1>6. Moves(chan[i][x], g) /\ Coming(g)
  BY <1>1, <1>3, <1>4 DEF Moves, Used, Coming, Ends, ChannelRecords
<1>7. /\ ChannelsOK' /\ chan'[i][x] = g
      /\ \A j \in Links : DOMAIN chan'[j] = DOMAIN chan[j]
  BY <1>2, <1>5, <1>6, ChannelPut
<1>8. \E y \in Chans(i) : Coming(chan'[i][y])
  BY <1>6, <1>7
<1>9. ASSUME NEW q \in Circuits, NEW j \in Links
      PROVE  Link(node[q][j], node[q][j + 1], fwd[q][j], bwd[q][j], on[q][j], chan'[j])
  <2>1. j = i /\ Alive(node[q][i]) /\ node[q][i].state = "chan_wait" =>
          \E y \in Chans(i) : Coming(chan'[i][y])
    BY <1>8
  <2> QED BY <1>5, <1>6, <2>1, LinkMoved
<1> QED BY <1>7, <1>8, <1>9

LEMMA ConnectStep ==
  ASSUME IInv, NEW k \in Circuits, NEW i \in Links, NEW w \in Wires, Connect(k, i, w),
         UNCHANGED bwd, w[k][i] = fwd[k][i],
         \A q \in Circuits, j \in Links : q # k \/ (j # i /\ j + 1 # i) => w[q][j] = fwd[q][j],
         node[k][i].state = "none" \/ (Live(k, i) /\ ~node[k][i].n_chan),
         i \in Relays =>
           /\ Kept(node[k][i])
           /\ \A C : Link(node[k][i - 1], node[k][i], fwd[k][i - 1], bwd[k][i - 1],
                          on[k][i - 1], C) =>
                     Link(node[k][i - 1], node[k][i], w[k][i - 1], bwd[k][i - 1],
                          on[k][i - 1], C)
  PROVE  IInv'
<1>1. /\ i \in Nodes /\ i # i + 1 /\ (i \in Relays => i - 1 \in Links /\ i # i - 1)
      /\ (i = 0 \/ i \in Relays) /\ 0 \notin Relays
      /\ \A j \in Links : i \in Relays => (j + 1 = i <=> j = i - 1)
  BY Neighbours
<1>2. /\ node[k][i] \in Records /\ NodesOK /\ WiresOK /\ PathsOK /\ ChannelsOK
      /\ \A q \in Circuits : Origin(q)
      /\ Link(node[k][i], node[k][i + 1], fwd[k][i], bwd[k][i], on[k][i], chan[i])
      /\ \A q \in Circuits, j \in Links :
           Link(node[q][j], node[q][j + 1], fwd[q][j], bwd[q][j], on[q][j], chan[j])
  BY <1>1, Known DEF IInv
<1>3. node[k][i].state = "none" \/ (Alive(node[k][i]) /\ ~node[k][i].n_chan)
  BY DEF Live, Exists, Alive, Kept
<1>4. on[k][i] = 0 /\ ~node[k][i].n_chan
  BY <1>2, <1>3 DEF Link
(* What is left to show for each way to go on.                             *)
<1>5. ASSUME NEW e \in Records, node' = [node EXCEPT ![k][i] = e], Kept(e),
             e.p_chan = node[k][i].p_chan, i \in Relays => Alike(node[k][i], e),
             ChannelsOK', WiresOK', PathsOK',
             \A q \in Circuits, j \in Links :
               Link(node[q][j], node[q][j + 1], fwd[q][j], bwd[q][j], on[q][j], chan'[j]),
             \A q \in Circuits, j \in Links :
               q # k \/ j # i => fwd'[q][j] = w[q][j] /\ on'[q][j] = on[q][j],
             Link(e, node[k][i + 1], fwd'[k][i], bwd[k][i], on'[k][i], chan'[i]),
             e.state = "chan_wait" \/ i # 0 \/ on'[k][i] # 0
      PROVE  IInv'
  <2>1. ASSUME i \in Relays
        PROVE  Link(node[k][i - 1], e, fwd'[k][i - 1], bwd'[k][i - 1], on'[k][i - 1], chan'[i - 1])
    <3>1. Link(node[k][i - 1], node[k][i - 1 + 1], fwd[k][i - 1], bwd[k][i - 1], on[k][i - 1],
               chan'[i - 1])
      BY <1>1, <1>5, <2>1
    <3>2. i - 1 + 1 = i
      BY <1>1, <2>1, Neighbours
    <3>3. Link(node[k][i - 1], node[k][i], w[k][i - 1], bwd[k][i - 1], on[k][i - 1], chan'[i - 1])
      BY <2>1, <3>1, <3>2
    <3>4. Link(node[k][i - 1], e, w[k][i - 1], bwd[k][i - 1], on[k][i - 1], chan'[i - 1])
      BY <1>5, <2>1, <3>3, FarStays
    <3> QED BY <1>1, <1>5, <2>1, <3>4
  <2>2. /\ \A q \in Circuits, j \in Links : q # k \/ (j # i /\ j + 1 # i) =>
              fwd'[q][j] = fwd[q][j] /\ bwd'[q][j] = bwd[q][j] /\ on'[q][j] = on[q][j]
        /\ \A q \in Circuits, j \in Links : on'[q][j] = 0 => on[q][j] = 0
    BY <1>4, <1>5
  <2>3. i = 0 /\ e.state \in {"building", "guard_wait", "open"} => on'[k][0] # 0
    BY <1>5
  <2>4. i \in Links =>
          Link(e, node[k][i + 1], fwd'[k][i], bwd'[k][i], on'[k][i], chan'[i])
    BY <1>5
  <2>5. i \in Relays =>
          Link(node[k][i - 1], e, fwd'[k][i - 1], bwd'[k][i - 1], on'[k][i - 1], chan'[i - 1])
    BY <2>1
  <2>6. /\ NodesOK'
        /\ \A q \in Circuits : Origin(q)'
        /\ \A q \in Circuits, j \in Links : LinkOf(q, j)'
    BY <1>1, <1>2, <1>5, <2>2, <2>3, <2>4, <2>5, OneNode
  <2> QED BY <1>5, <2>6 DEF IInv
(* A channel is there.                                                     *)
<1>6. ASSUME NEW x \in channel_get_for_extend(i, k), on' = [on EXCEPT ![k][i] = x],
             fwd' = [w EXCEPT ![k][i] = <<Cell("CREATE")>>],
             path' = IF i = 0 THEN [path EXCEPT ![k].awaiting = TRUE] ELSE path,
             node' = [node EXCEPT ![k][i] = Delivered(@, i)], UNCHANGED chan
      PROVE  IInv'
  <2>1. x \in Chans(i) /\ chan[i][x].near = "open"
    BY <1>6 DEF channel_get_for_extend
  <2>2. x # 0 /\ x \in DOMAIN chan[i] /\ chan[i][x].far # "none"
    BY <1>2, <2>1 DEF ChannelsOK, Chans, Ends
  <2>3. PICK e : e = Delivered(node[k][i], i)
    OBVIOUS
  <2>4. /\ e \in Records /\ e.n_chan /\ Kept(e) /\ e.state # "chan_wait"
        /\ e.p_chan = node[k][i].p_chan /\ e.marked = node[k][i].marked
    BY <1>2, <2>3 DEF Records, CircuitStates, Delivered, Kept
  <2>5. node' = [node EXCEPT ![k][i] = e]
    BY <1>6, <2>3
  <2>6. i \in Relays => Alike(node[k][i], e)
    BY <2>4 DEF Alike, Kept
  <2>7. PICK c : c = <<Cell("CREATE")>>
    OBVIOUS
  <2>8. /\ fwd' \in Wires /\ fwd'[k][i] = c
        /\ \A q \in Circuits, j \in Links : q # k \/ j # i => fwd'[q][j] = w[q][j]
    <3>1. fwd' = Put(w, k, i, c)
      BY <1>6, <2>7 DEF Put
    <3>2. c \in Seq(Cells)
      BY <2>7, CellKinds, OneCell
    <3> QED BY <3>1, <3>2, WirePut
  <2>9. /\ on' \in [Circuits -> [Links -> Nat]] /\ on'[k][i] = x
        /\ \A q \in Circuits, j \in Links : q # k \/ j # i => on'[q][j] = on[q][j]
    <3>1. x \in Nat /\ on \in [Circuits -> [Links -> Nat]]
      BY <1>2, <2>1 DEF ChannelsOK, WiresOK
    <3> QED BY <1>6, <3>1
  <2>10. WiresOK' /\ ChannelsOK'
    BY <1>2, <1>6, <2>8, <2>9 DEF WiresOK, ChannelsOK, Chans
  <2>11. PathsOK'
    BY <1>2, <1>6 DEF PathsOK, Paths
  <2>12. Link(e, node[k][i + 1], fwd'[k][i], bwd[k][i], on'[k][i], chan'[i])
    <3>1. chan[i][x].near \notin {"none", "opening"}
      BY <2>1
    <3>2. Link(e, node[k][i + 1], <<Cell("CREATE")>>, bwd[k][i], x, chan[i])
      BY <1>2, <1>3, <2>2, <2>4, <3>1, NearConnects
    <3> QED BY <1>6, <2>7, <2>8, <2>9, <3>2
  <2>13. \A q \in Circuits, j \in Links :
           Link(node[q][j], node[q][j + 1], fwd[q][j], bwd[q][j], on[q][j], chan'[j])
    BY <1>2, <1>6
  <2>14. \A q \in Circuits, j \in Links :
           q # k \/ j # i => fwd'[q][j] = w[q][j] /\ on'[q][j] = on[q][j]
    BY <2>8, <2>9
  <2>15. e.state = "chan_wait" \/ i # 0 \/ on'[k][i] # 0
    BY <2>2, <2>9
  <2> QED BY <1>5, <2>4, <2>5, <2>6, <2>10, <2>11, <2>12, <2>13, <2>14, <2>15
(* None is there, and the circuit waits or is closed.                      *)
<1>7. ASSUME fwd' = w, UNCHANGED <<path, on>>, ChannelsOK',
             \A q \in Circuits, j \in Links :
               Link(node[q][j], node[q][j + 1], fwd[q][j], bwd[q][j], on[q][j], chan'[j]),
             NEW e \in Records, node' = [node EXCEPT ![k][i] = e], Kept(e), ~e.n_chan,
             e.p_chan = node[k][i].p_chan, node[k][i].marked => e.marked,
             e.state = "chan_wait" \/ i # 0,
             Alive(e) /\ e.state = "chan_wait" => \E y \in DOMAIN chan'[i] : Coming(chan'[i][y])
      PROVE  IInv'
  <2>1. Link(e, node[k][i + 1], fwd[k][i], bwd[k][i], on[k][i], chan'[i])
    <3>1. Link(node[k][i], node[k][i + 1], fwd[k][i], bwd[k][i], on[k][i], chan'[i])
      BY <1>7
    <3>2. Alive(e) /\ e.state = "chan_wait" =>
            \E y \in DOMAIN chan'[i] : chan'[i][y].near \in {"opening", "closing"}
                                    /\ chan'[i][y].far = "none"
      BY <1>7 DEF Coming
    <3> QED BY <1>3, <1>7, <3>1, <3>2, NearWaits
  <2>2. Link(e, node[k][i + 1], fwd'[k][i], bwd[k][i], on'[k][i], chan'[i])
    BY <1>7, <2>1
  <2>3. i \in Relays => Alike(node[k][i], e)
    BY <1>7 DEF Alike, Kept
  <2>4. WiresOK' /\ PathsOK'
    BY <1>2, <1>7 DEF WiresOK, PathsOK
  <2>5. \A q \in Circuits, j \in Links :
           q # k \/ j # i => fwd'[q][j] = w[q][j] /\ on'[q][j] = on[q][j]
    BY <1>7
  <2>6. e.state = "chan_wait" \/ i # 0 \/ on'[k][i] # 0
    BY <1>7
  <2> QED BY <1>5, <1>7, <2>2, <2>3, <2>4, <2>5, <2>6
<1>8. ASSUME node' = [node EXCEPT ![k][i].state = "chan_wait"], fwd' = w,
             UNCHANGED <<path, on>>,
             IF InProgress(i, k) THEN UNCHANGED chan ELSE channel_connect_for_circuit(i, k)
      PROVE  IInv'
  <2>1. PICK e : e = [node[k][i] EXCEPT !.state = "chan_wait"]
    OBVIOUS
  <2>2. /\ e \in Records /\ e.n_chan = node[k][i].n_chan /\ Kept(e) /\ e.state = "chan_wait"
        /\ e.p_chan = node[k][i].p_chan /\ e.marked = node[k][i].marked
    BY <1>2, <2>1 DEF Records, CircuitStates, Kept
  <2>3. node' = [node EXCEPT ![k][i] = e]
    BY <1>8, <2>1
  <2>4. /\ ChannelsOK'
        /\ \A q \in Circuits, j \in Links :
             Link(node[q][j], node[q][j + 1], fwd[q][j], bwd[q][j], on[q][j], chan'[j])
        /\ \E y \in DOMAIN chan'[i] : Coming(chan'[i][y])
    <3>1. CASE InProgress(i, k)
      <4>1. UNCHANGED chan
        BY <1>8, <3>1
      <4>2. PICK y \in Chans(i) : chan[i][y].near = "opening"
        BY <3>1 DEF InProgress
      <4>3. Coming(chan[i][y])
        BY <1>2, <4>2 DEF ChannelsOK, Ends, Coming
      <4>4. ChannelsOK'
        BY <1>2, <4>1 DEF ChannelsOK, Chans
      <4> QED BY <1>2, <4>1, <4>2, <4>3, <4>4 DEF Chans
    <3>2. CASE ~InProgress(i, k)
      <4>1. channel_connect_for_circuit(i, k)
        BY <1>8, <3>2
      <4> QED BY <4>1, Launched DEF Chans
    <3> QED BY <3>1, <3>2
  <2>5. ~e.n_chan /\ (node[k][i].marked => e.marked)
    BY <1>4, <2>2
  <2> QED BY <1>7, <1>8, <2>2, <2>3, <2>4, <2>5
<1>9. ASSUME node' = [node EXCEPT ![k][i] =
                        [Marked(@) EXCEPT !.state =
                           IF i = 0 \/ channel_get_for_extend(i, k) = {} THEN "chan_wait"
                           ELSE node[k][i].state]],
             fwd' = w, UNCHANGED <<path, on, chan>>
      PROVE  IInv'
  <2>1. PICK e : e = [Marked(node[k][i]) EXCEPT !.state =
                         IF i = 0 \/ channel_get_for_extend(i, k) = {} THEN "chan_wait"
                         ELSE node[k][i].state]
    OBVIOUS
  <2>2. /\ e.state \in {"chan_wait", node[k][i].state} /\ (i = 0 => e.state = "chan_wait")
        /\ e \in Records /\ e.n_chan = node[k][i].n_chan
        /\ e.p_chan = node[k][i].p_chan /\ e.marked
    <3>1. CASE i = 0 \/ channel_get_for_extend(i, k) = {}
      <4>1. e = [Marked(node[k][i]) EXCEPT !.state = "chan_wait"]
        BY <2>1, <3>1
      <4> QED BY <1>2, <4>1 DEF Records, CircuitStates, Marked
    <3>2. CASE ~(i = 0 \/ channel_get_for_extend(i, k) = {})
      <4>1. e = [Marked(node[k][i]) EXCEPT !.state = node[k][i].state]
        BY <2>1, <3>2
      <4>2. i # 0
        BY <3>2
      <4> QED BY <1>2, <4>1, <4>2 DEF Records, CircuitStates, Marked
    <3> QED BY <3>1, <3>2
  <2>4. node' = [node EXCEPT ![k][i] = e]
    BY <1>9, <2>1
  <2>5. Kept(e) /\ ~Alive(e)
    BY <1>1, <2>2 DEF Kept, Alive
  <2>6. ChannelsOK'
    BY <1>2, <1>9 DEF ChannelsOK, Chans
  <2>7. \A q \in Circuits, j \in Links :
          Link(node[q][j], node[q][j + 1], fwd[q][j], bwd[q][j], on[q][j], chan'[j])
    BY <1>2, <1>9
  <2>8. ~e.n_chan /\ (e.state = "chan_wait" \/ i # 0)
    BY <1>4, <2>2
  <2> QED BY <1>7, <1>9, <2>2, <2>4, <2>5, <2>6, <2>7, <2>8
<1>10. \/ \E x \in channel_get_for_extend(i, k) :
            /\ on' = [on EXCEPT ![k][i] = x]
            /\ fwd' = [w EXCEPT ![k][i] = <<Cell("CREATE")>>]
            /\ path' = IF i = 0 THEN [path EXCEPT ![k].awaiting = TRUE] ELSE path
            /\ node' = [node EXCEPT ![k][i] = Delivered(@, i)]
            /\ UNCHANGED chan
       \/ /\ node' = [node EXCEPT ![k][i].state = "chan_wait"] /\ fwd' = w
          /\ UNCHANGED <<path, on>>
          /\ IF InProgress(i, k) THEN UNCHANGED chan ELSE channel_connect_for_circuit(i, k)
       \/ /\ node' = [node EXCEPT ![k][i] =
                        [Marked(@) EXCEPT !.state =
                           IF i = 0 \/ channel_get_for_extend(i, k) = {} THEN "chan_wait"
                           ELSE node[k][i].state]]
          /\ fwd' = w /\ UNCHANGED <<path, on, chan>>
  BY Zenon DEF Connect
<1> QED BY <1>6, <1>8, <1>9, <1>10
LEMMA EstablishStep ==
  ASSUME IInv, NEW k \in Circuits, circuit_establish_circuit(k)
  PROVE  IInv'
<1>1. /\ 0 \in Links /\ 0 \notin Relays
      /\ node[k][0].state = "none" /\ Connect(k, 0, fwd) /\ UNCHANGED bwd
  BY Neighbours DEF circuit_establish_circuit
<1>2. fwd \in Wires
  BY DEF IInv, WiresOK
<1> QED BY <1>1, <1>2, ConnectStep

LEMMA RelayOutStep ==
  ASSUME IInv, NEW k \in Circuits, NEW r \in Relays, command_process_relay_cell_out(k, r)
  PROVE  IInv'
<1>1. /\ r - 1 \in Links /\ r \in Nodes /\ r # r - 1 /\ r # 0
      /\ \A i \in Links : i + 1 = r <=> i = r - 1
  BY Neighbours
<1>2. FromBehind(k, r, "EXTEND") /\ UNCHANGED bwd
  BY DEF command_process_relay_cell_out
<1>3. PICK w : w = PoppedFwd(k, r)
  OBVIOUS
<1>4. PICK cell : cell = Head(fwd[k][r - 1])
  OBVIOUS
<1>5. /\ node[k][r] \in Records /\ NodesOK /\ WiresOK /\ PathsOK
      /\ fwd[k][r - 1] \in Seq(Cells)
      /\ Link(node[k][r - 1], node[k][r], fwd[k][r - 1], bwd[k][r - 1], on[k][r - 1], chan[r - 1])
      /\ r \in Links =>
           Link(node[k][r], node[k][r + 1], fwd[k][r], bwd[k][r], on[k][r], chan[r])
  BY <1>1, Known
<1>6. fwd[k][r - 1] # <<>> /\ cell \in Cells /\ cell.cmd = "EXTEND"
      /\ Head(fwd[k][r - 1]).cmd = "EXTEND"
  <2>1. fwd[k][r - 1] # <<>> /\ Head(fwd[k][r - 1]).cmd = "EXTEND"
    BY <1>2 DEF FromBehind
  <2>2. Head(fwd[k][r - 1]) \in Cells
    BY <1>5, <2>1, CellTaken
  <2> QED BY <1>4, <2>1, <2>2
<1>7. /\ w \in Wires /\ w[k][r - 1] = Tail(fwd[k][r - 1])
      /\ \A q \in Circuits, j \in Links : q # k \/ j # r - 1 => w[q][j] = fwd[q][j]
  BY <1>2, <1>3, TakenFromBehind
<1>8. Head(fwd[k][r - 1]).cmd \notin {"CREATE", "DESTROY"}
  BY <1>6
<1>9. ASSUME NEW C, Link(node[k][r - 1], node[k][r], fwd[k][r - 1], bwd[k][r - 1], on[k][r - 1], C)
      PROVE  Link(node[k][r - 1], node[k][r], w[k][r - 1], bwd[k][r - 1], on[k][r - 1], C)
  <2>1. Link(node[k][r - 1], node[k][r], Tail(fwd[k][r - 1]), bwd[k][r - 1], on[k][r - 1], C)
    BY <1>5, <1>6, <1>8, <1>9, ForwardTaken
  <2> QED BY <1>7, <2>1
<1>10. Link(node[k][r - 1], node[k][r], w[k][r - 1], bwd[k][r - 1], on[k][r - 1], chan[r - 1])
  BY <1>5, <1>9
(* The circuit stays, or is closed.                                        *)
<1>11. ASSUME UNCHANGED <<path, on, chan>>, NEW e \in Records,
              node' = [node EXCEPT ![k][r] = e],
              Alike(node[k][r], e), e.state = node[k][r].state,
              e.n_chan = node[k][r].n_chan, e.p_chan = node[k][r].p_chan,
              fwd' \in Wires,
              \A q \in Circuits, j \in Links : q # k \/ j # r => fwd'[q][j] = w[q][j],
              r \in Links =>
                Link(node[k][r], node[k][r + 1], fwd'[k][r], bwd[k][r], on[k][r], chan[r])
       PROVE  IInv'
  <2>1. Link(node[k][r - 1], e, fwd'[k][r - 1], bwd'[k][r - 1], on'[k][r - 1], chan[r - 1])
    <3>1. Link(node[k][r - 1], e, w[k][r - 1], bwd[k][r - 1], on[k][r - 1], chan[r - 1])
      BY <1>10, <1>11, FarStays
    <3> QED BY <1>1, <1>2, <1>11, <3>1
  <2>2. ASSUME r \in Links
        PROVE  Link(e, node[k][r + 1], fwd'[k][r], bwd'[k][r], on'[k][r], chan[r])
    <3>1. Link(node[k][r], node[k][r + 1], fwd'[k][r], bwd[k][r], on[k][r], chan[r])
      BY <1>11, <2>2
    <3>2. e.state = "chan_wait" => node[k][r].state = "chan_wait"
      BY <1>11
    <3>3. Link(e, node[k][r + 1], fwd'[k][r], bwd[k][r], on[k][r], chan[r])
      BY <1>11, <3>1, <3>2, NearStays
    <3> QED BY <1>2, <1>11, <3>3
  <2>3. WiresOK' /\ PathsOK'
    BY <1>2, <1>5, <1>11 DEF WiresOK, PathsOK
  <2>4. /\ \A q \in Circuits, i \in Links : q # k \/ (i # r /\ i + 1 # r) =>
              fwd'[q][i] = fwd[q][i] /\ bwd'[q][i] = bwd[q][i] /\ on'[q][i] = on[q][i]
        /\ \A q \in Circuits, i \in Links : on'[q][i] = 0 => on[q][i] = 0
    BY <1>1, <1>2, <1>7, <1>11
  <2> QED BY <1>1, <1>11, <2>1, <2>2, <2>3, <2>4, Turn
<1>12. r \in Links => w[k][r] = fwd[k][r]
  BY <1>1, <1>7
<1>13. ASSUME fwd' = w, UNCHANGED <<node, path, on, chan>>
       PROVE  IInv'
  <2>1. node' = [node EXCEPT ![k][r] = node[k][r]]
    BY <1>1, <1>5, <1>13 DEF NodesOK
  <2>2. Alike(node[k][r], node[k][r])
    BY DEF Alike
  <2>3. r \in Links =>
          Link(node[k][r], node[k][r + 1], fwd'[k][r], bwd[k][r], on[k][r], chan[r])
    BY <1>5, <1>12, <1>13
  <2> QED BY <1>5, <1>7, <1>11, <1>13, <2>1, <2>2, <2>3
<1>14. ASSUME fwd' = w, UNCHANGED <<path, on, chan>>, node' = [node EXCEPT ![k][r] = Marked(@)]
       PROVE  IInv'
  <2>1. PICK e : e = Marked(node[k][r])
    OBVIOUS
  <2>2. node' = [node EXCEPT ![k][r] = e]
    BY <1>14, <2>1
  <2>3. /\ e \in Records /\ Alike(node[k][r], e) /\ e.state = node[k][r].state
        /\ e.n_chan = node[k][r].n_chan /\ e.p_chan = node[k][r].p_chan
    BY <1>5, <2>1, MarkedAlike
  <2>4. r \in Links =>
          Link(node[k][r], node[k][r + 1], fwd'[k][r], bwd[k][r], on[k][r], chan[r])
    BY <1>5, <1>12, <1>14
  <2> QED BY <1>7, <1>11, <1>14, <2>2, <2>3, <2>4
<1>15. ASSUME node[k][r].n_chan, fwd' = SentForward(w, k, r, cell),
              UNCHANGED <<node, path, on, chan>>
       PROVE  IInv'
  <2>1. CASE r \in Links
    <3>1. /\ fwd' \in Wires /\ fwd'[k][r] \in {w[k][r], Append(w[k][r], cell)}
          /\ \A q \in Circuits, j \in Links : q # k \/ j # r => fwd'[q][j] = w[q][j]
      BY <1>6, <1>7, <1>15, <2>1, SentForwardCells
    <3>2. Link(node[k][r], node[k][r + 1], fwd[k][r], bwd[k][r], on[k][r], chan[r])
      BY <1>5, <2>1
    <3>3. on[k][r] # 0 /\ fwd[k][r] \in Seq(Cells)
      BY <1>15, <2>1, <3>2, Known DEF Link
    <3>4. cell.cmd \notin {"CREATE", "DESTROY"}
      BY <1>6
    <3>5. Link(node[k][r], node[k][r + 1], Append(fwd[k][r], cell), bwd[k][r], on[k][r], chan[r])
      BY <1>6, <3>2, <3>3, <3>4, ForwardSent
    <3>6. Link(node[k][r], node[k][r + 1], fwd'[k][r], bwd[k][r], on[k][r], chan[r])
      BY <1>12, <2>1, <3>1, <3>2, <3>5
    <3>7. node' = [node EXCEPT ![k][r] = node[k][r]]
      BY <1>1, <1>5, <1>15 DEF NodesOK
    <3>8. Alike(node[k][r], node[k][r])
      BY DEF Alike
    <3> QED BY <1>5, <1>11, <1>15, <3>1, <3>6, <3>7, <3>8
  <2>2. CASE r \notin Links
    <3>1. PICK t : t = Append(w[k][r], cell)
      OBVIOUS
    <3>2. fwd' \in {w, [w EXCEPT ![k][r] = t]}
      BY <1>15, <3>1 DEF SentForward
    <3>3. [w EXCEPT ![k][r] = t] = w
      BY <1>7, <2>2 DEF Wires
    <3> QED BY <1>13, <1>15, <3>2, <3>3
  <2> QED BY <2>1, <2>2
<1>16. ASSUME Live(k, r), cell.hop = r, Connect(k, r, w), ~node[k][r].n_chan
       PROVE  IInv'
  <2>1. r \in Links
    BY <1>6, <1>16 DEF Cells
  <2>2. Kept(node[k][r])
    BY <1>16 DEF Live, Exists, Kept
  <2>3. \A q \in Circuits, j \in Links : q # k \/ (j # r /\ j + 1 # r) => w[q][j] = fwd[q][j]
    BY <1>1, <1>7
  <2>4. w[k][r] = fwd[k][r]
    BY <1>12, <2>1
  <2>5. \A C : Link(node[k][r - 1], node[k][r], fwd[k][r - 1], bwd[k][r - 1], on[k][r - 1], C) =>
               Link(node[k][r - 1], node[k][r], w[k][r - 1], bwd[k][r - 1], on[k][r - 1], C)
    BY <1>9
  <2> QED BY <1>2, <1>7, <1>16, <2>1, <2>2, <2>3, <2>4, <2>5, ConnectStep
<1>17. \/ fwd' = w /\ UNCHANGED <<node, path, on, chan>>
       \/ /\ Live(k, r) /\ cell.hop = r
          /\ \/ /\ node' = [node EXCEPT ![k][r] = Marked(@)]
                /\ fwd' = w /\ UNCHANGED <<path, on, chan>>
             \/ Connect(k, r, w) /\ ~node[k][r].n_chan
       \/ /\ node[k][r].n_chan /\ fwd' = SentForward(w, k, r, cell)
          /\ UNCHANGED <<node, path, on, chan>>
       \/ /\ node' = [node EXCEPT ![k][r] = Marked(@)]
          /\ fwd' = w /\ UNCHANGED <<path, on, chan>>
  BY <1>3, <1>4, Zenon DEF command_process_relay_cell_out, circuit_extend
<1> QED BY <1>13, <1>14, <1>15, <1>16, <1>17
-----------------------------------------------------------------------------
(* The actions that change a node's end of many circuits.                  *)

LEMMA EveryNode ==
  ASSUME NodesOK, NEW r \in Nodes,
         \A q \in Circuits, j \in Nodes : j # r => node'[q][j] = node[q][j],
         \A q \in Circuits, j \in Links : j # r /\ j + 1 # r =>
           Link(node[q][j], node[q][j + 1], fwd'[q][j], bwd'[q][j], on'[q][j], chan'[j]),
         r \in Links => \A q \in Circuits :
           Link(node'[q][r], node[q][r + 1], fwd'[q][r], bwd'[q][r], on'[q][r], chan'[r]),
         \A j \in Links : j + 1 = r => \A q \in Circuits :
           Link(node[q][j], node'[q][r], fwd'[q][j], bwd'[q][j], on'[q][j], chan'[j])
  PROVE  \A q \in Circuits, j \in Links : LinkOf(q, j)'
<1> SUFFICES ASSUME NEW q \in Circuits, NEW j \in Links PROVE LinkOf(q, j)'
  OBVIOUS
<1>1. j \in Nodes /\ j + 1 \in Nodes /\ j # j + 1
  BY Neighbours
<1>2. CASE j = r
  <2>1. node'[q][j + 1] = node[q][r + 1]
    BY <1>1, <1>2
  <2>2. Link(node'[q][r], node[q][r + 1], fwd'[q][r], bwd'[q][r], on'[q][r], chan'[r])
    BY <1>2
  <2> QED BY <1>2, <2>1, <2>2 DEF LinkOf
<1>3. CASE j + 1 = r
  <2>1. node'[q][j] = node[q][j] /\ node'[q][j + 1] = node'[q][r]
    BY <1>1, <1>3
  <2>2. Link(node[q][j], node'[q][r], fwd'[q][j], bwd'[q][j], on'[q][j], chan'[j])
    BY <1>3
  <2> QED BY <2>1, <2>2 DEF LinkOf
<1>4. CASE j # r /\ j + 1 # r
  <2>1. node'[q][j] = node[q][j] /\ node'[q][j + 1] = node[q][j + 1]
    BY <1>1, <1>4
  <2> QED BY <1>4, <2>1 DEF LinkOf
<1> QED BY <1>2, <1>3, <1>4

(* What becomes of the circuits at the near end of a channel that opens.   *)
Opened(i, x, served) ==
  /\ path' = [k \in Circuits |-> [path[k] EXCEPT !.awaiting = @ \/ (i = 0 /\ k \in served)]]
  /\ node' = [k \in Circuits |-> node'[k]]
  /\ fwd' = [k \in Circuits |-> fwd'[k]] /\ on' = [k \in Circuits |-> on'[k]]
  /\ \A q \in Circuits :
       /\ node'[q] \in [Nodes -> Records]
       /\ \A j \in Nodes : j # i => node'[q][j] = node[q][j]
       /\ q \in served => node'[q][i] = Delivered(node[q][i], i)
       /\ q \in Pending(i) \ served => node'[q][i] = Marked(node[q][i])
       /\ q \notin Pending(i) => node'[q][i] = node[q][i]
       /\ fwd'[q] \in [Links -> Seq(Cells)] /\ on'[q] \in [Links -> Nat]
       /\ \A j \in Links : q \notin served \/ j # i =>
            fwd'[q][j] = fwd[q][j] /\ on'[q][j] = on[q][j]
       /\ q \in served => fwd'[q][i] = <<Cell("CREATE")>> /\ on'[q][i] = x

LEMMA OpenEffects ==
  ASSUME IInv, NEW i \in Links, NEW x \in Chans(i), channel_do_open_actions(i, x)
  PROVE  \E served \in SUBSET Pending(i) : Opened(i, x, served)
<1>1. /\ NodesOK /\ WiresOK /\ ChannelsOK /\ i \in Nodes
      /\ \A q \in Circuits, j \in Nodes : node[q][j] \in Records
  BY Known, Neighbours DEF IInv, NodesOK
<1>2. PICK served \in SUBSET Pending(i) :
       /\ on' = [k \in Circuits |-> IF k \in served THEN [on[k] EXCEPT ![i] = x] ELSE on[k]]
       /\ fwd' = [k \in Circuits |->
                    IF k \in served THEN [fwd[k] EXCEPT ![i] = <<Cell("CREATE")>>] ELSE fwd[k]]
       /\ path' = [k \in Circuits |->
                     [path[k] EXCEPT !.awaiting = @ \/ (i = 0 /\ k \in served)]]
       /\ node' = [k \in Circuits |->
                     IF k \in served THEN [node[k] EXCEPT ![i] = Delivered(@, i)]
                     ELSE IF k \in Pending(i) THEN [node[k] EXCEPT ![i] = Marked(@)]
                     ELSE node[k]]
  BY Zenon DEF channel_do_open_actions
<1>3. \A q \in Circuits :
        /\ node'[q] \in [Nodes -> Records]
        /\ \A j \in Nodes : j # i => node'[q][j] = node[q][j]
        /\ q \in served => node'[q][i] = Delivered(node[q][i], i)
        /\ q \in Pending(i) \ served => node'[q][i] = Marked(node[q][i])
        /\ q \notin Pending(i) => node'[q][i] = node[q][i]
  <2> SUFFICES ASSUME NEW q \in Circuits
               PROVE  /\ node'[q] \in [Nodes -> Records]
                      /\ \A j \in Nodes : j # i => node'[q][j] = node[q][j]
                      /\ q \in served => node'[q][i] = Delivered(node[q][i], i)
                      /\ q \in Pending(i) \ served => node'[q][i] = Marked(node[q][i])
                      /\ q \notin Pending(i) => node'[q][i] = node[q][i]
    OBVIOUS
  <2>1. node[q] \in [Nodes -> Records] /\ node[q][i] \in Records
    BY <1>1 DEF NodesOK
  <2>2. Delivered(node[q][i], i) \in Records /\ Marked(node[q][i]) \in Records
    BY <2>1 DEF Records, CircuitStates, Delivered, Marked
  <2>3. CASE q \in served
    <3>1. node'[q] = [node[q] EXCEPT ![i] = Delivered(node[q][i], i)]
      BY <1>2, <2>3
    <3> QED BY <1>1, <1>2, <2>1, <2>2, <2>3, <3>1
  <2>4. CASE q \in Pending(i) \ served
    <3>1. node'[q] = [node[q] EXCEPT ![i] = Marked(node[q][i])]
      BY <1>2, <2>4
    <3> QED BY <1>1, <2>1, <2>2, <2>4, <3>1
  <2>5. CASE q \notin Pending(i)
    <3>1. node'[q] = node[q]
      BY <1>2, <2>5
    <3> QED BY <1>1, <1>2, <2>1, <2>5, <3>1
  <2> QED BY <2>3, <2>4, <2>5
<1>4. PICK c : c = <<Cell("CREATE")>>
  OBVIOUS
<1>5. \A q \in Circuits :
         /\ fwd'[q] \in [Links -> Seq(Cells)] /\ on'[q] \in [Links -> Nat]
         /\ \A j \in Links : q \notin served \/ j # i =>
              fwd'[q][j] = fwd[q][j] /\ on'[q][j] = on[q][j]
         /\ q \in served => fwd'[q][i] = c /\ on'[q][i] = x
  <2>1. c \in Seq(Cells) /\ x \in Nat
    BY <1>1, <1>4, CellKinds, OneCell DEF ChannelsOK
  <2>2. fwd \in [Circuits -> [Links -> Seq(Cells)]] /\ on \in [Circuits -> [Links -> Nat]]
    BY <1>1 DEF WiresOK, Wires
  <2>3. fwd' = [k \in Circuits |-> IF k \in served THEN [fwd[k] EXCEPT ![i] = c] ELSE fwd[k]]
    BY <1>2, <1>4
  <2>4. on' = [k \in Circuits |-> IF k \in served THEN [on[k] EXCEPT ![i] = x] ELSE on[k]]
    BY <1>2
  <2>5. ASSUME NEW q \in Circuits, q \in served
        PROVE  /\ fwd'[q] \in [Links -> Seq(Cells)] /\ on'[q] \in [Links -> Nat]
               /\ \A j \in Links : j # i => fwd'[q][j] = fwd[q][j] /\ on'[q][j] = on[q][j]
               /\ fwd'[q][i] = c /\ on'[q][i] = x
    <3>1. fwd'[q] = [fwd[q] EXCEPT ![i] = c] /\ on'[q] = [on[q] EXCEPT ![i] = x]
      BY <2>3, <2>4, <2>5
    <3>2. fwd[q] \in [Links -> Seq(Cells)] /\ on[q] \in [Links -> Nat]
      BY <2>2
    <3> QED BY <2>1, <3>1, <3>2
  <2>6. ASSUME NEW q \in Circuits, q \notin served
        PROVE  /\ fwd'[q] \in [Links -> Seq(Cells)] /\ on'[q] \in [Links -> Nat]
               /\ fwd'[q] = fwd[q] /\ on'[q] = on[q]
    BY <2>2, <2>3, <2>4, <2>6
  <2> QED BY <2>5, <2>6
<1>6. /\ node' = [k \in Circuits |-> node'[k]]
      /\ fwd' = [k \in Circuits |-> fwd'[k]] /\ on' = [k \in Circuits |-> on'[k]]
  BY <1>2
<1>7. ASSUME NEW q \in Circuits, q \in served PROVE fwd'[q][i] = <<Cell("CREATE")>>
  BY <1>4, <1>5, <1>7
<1>8. Opened(i, x, served)
  BY <1>2, <1>3, <1>5, <1>6, <1>7, Zenon DEF Opened
<1> QED BY <1>8

LEMMA OpenStep ==
  ASSUME IInv, NEW i \in Links, NEW x \in Chans(i), channel_do_open_actions(i, x)
  PROVE  IInv'
<1>1. /\ NodesOK /\ WiresOK /\ PathsOK /\ ChannelsOK /\ i \in Nodes /\ i # i + 1
      /\ \A q \in Circuits, j \in Nodes : node[q][j] \in Records
      /\ \A j \in Links : j + 1 \in Nodes /\ j \in Nodes
  BY Known, Neighbours DEF IInv, NodesOK
<1>2. /\ chan[i][x].near = "opening" /\ UNCHANGED bwd
      /\ chan' = [chan EXCEPT ![i][x].near = "open", ![i][x].far = "open"]
  BY DEF channel_do_open_actions
<1>3. PICK served \in SUBSET Pending(i) : Opened(i, x, served)
  BY OpenEffects
<1>4. PICK g : g = [chan[i][x] EXCEPT !.near = "open", !.far = "open"]
  OBVIOUS
<1>5. /\ chan' = ChannelPutIn(i, x, g) /\ Moves(chan[i][x], g)
      /\ g.near = "open" /\ g.far = "open"
  <2>1. chan[i][x] \in ChannelRecords
    BY <1>1 DEF ChannelsOK
  <2>2. chan' = ChannelPutIn(i, x, g)
    BY <1>1, <1>2, <1>4 DEF ChannelPutIn, ChannelsOK
  <2> QED BY <1>2, <1>4, <2>1, <2>2 DEF Moves, Used, Ends, ChannelRecords
<1>6. ChannelsOK' /\ chan'[i][x] = g /\ DOMAIN chan'[i] = DOMAIN chan[i]
  BY <1>1, <1>5, ChannelPut
<1>7. \A q \in Pending(i) : q \in Circuits /\ Alive(node[q][i]) /\ node[q][i].state = "chan_wait"
  BY DEF Pending, Live, Exists, Alive, Kept
<1>8. \A q \in Circuits : Alive(node[q][i]) /\ node[q][i].state = "chan_wait" => q \in Pending(i)
  BY DEF Pending, Live, Exists, Alive, Kept
<1>9. \A q \in Circuits :
        /\ node'[q] \in [Nodes -> Records]
        /\ \A j \in Nodes : j # i => node'[q][j] = node[q][j]
        /\ q \in served => node'[q][i] = Delivered(node[q][i], i)
        /\ q \in Pending(i) \ served => node'[q][i] = Marked(node[q][i])
        /\ q \notin Pending(i) => node'[q][i] = node[q][i]
  BY <1>3 DEF Opened
<1>10. PICK c : c = <<Cell("CREATE")>>
  OBVIOUS
<1>11. \A q \in Circuits :
         /\ fwd'[q] \in [Links -> Seq(Cells)] /\ on'[q] \in [Links -> Nat]
         /\ \A j \in Links : q \notin served \/ j # i =>
              fwd'[q][j] = fwd[q][j] /\ on'[q][j] = on[q][j]
         /\ q \in served => fwd'[q][i] = c /\ on'[q][i] = x
  BY <1>3, <1>10 DEF Opened
<1>12. WiresOK'
  <2>1. fwd' \in [Circuits -> [Links -> Seq(Cells)]]
    BY <1>3, <1>11 DEF Opened
  <2>2. on' \in [Circuits -> [Links -> Nat]]
    BY <1>3, <1>11 DEF Opened
  <2> QED BY <1>1, <1>2, <2>1, <2>2 DEF WiresOK, Wires
<1>13. NodesOK'
  BY <1>3, <1>9 DEF NodesOK, Opened
<1>14. PathsOK'
  <2>1. ASSUME NEW q \in Circuits PROVE path'[q] \in Paths
    <3>1. PICK p \in Paths : p = path[q]
      BY <1>1 DEF PathsOK
    <3>3. path'[q] = [p EXCEPT !.awaiting = p.awaiting \/ (i = 0 /\ q \in served)]
      BY <1>3, <3>1 DEF Opened
    <3> QED BY <3>1, <3>3 DEF Paths
  <2> QED BY <1>3, <2>1 DEF PathsOK, Opened
<1>15. \A q \in Circuits : Alike(node[q][i], node'[q][i]) /\ node'[q][i].p_chan = node[q][i].p_chan
  <2> SUFFICES ASSUME NEW q \in Circuits
               PROVE  Alike(node[q][i], node'[q][i]) /\ node'[q][i].p_chan = node[q][i].p_chan
    OBVIOUS
  <2>1. node[q][i] \in Records
    BY <1>1
  <2>2. CASE q \in served
    <3>1. node'[q][i] = Delivered(node[q][i], i) /\ node[q][i].state = "chan_wait"
      BY <1>3, <1>7, <1>9, <2>2
    <3> QED BY <2>1, <3>1 DEF Records, Delivered, Alike, Kept
  <2>3. CASE q \in Pending(i) \ served
    BY <1>9, <2>1, <2>3, MarkedAlike
  <2>4. CASE q \notin Pending(i)
    BY <1>9, <2>4 DEF Alike
  <2> QED BY <2>2, <2>3, <2>4
<1>16. ASSUME NEW q \in Circuits
       PROVE  Link(node'[q][i], node[q][i + 1], fwd'[q][i], bwd'[q][i], on'[q][i], chan'[i])
  <2>1. /\ Link(node[q][i], node[q][i + 1], fwd[q][i], bwd[q][i], on[q][i], chan[i])
        /\ node[q][i] \in Records
    BY <1>1, Known
  <2>2. CASE q \in served
    <3>1. /\ node'[q][i] = Delivered(node[q][i], i)
          /\ Alive(node[q][i]) /\ node[q][i].state = "chan_wait"
      BY <1>3, <1>7, <1>9, <2>2
    <3>2. ~node[q][i].n_chan
      BY <2>1, <3>1 DEF Link
    <3>3. /\ node'[q][i].n_chan /\ Kept(node'[q][i]) /\ node'[q][i].state # "chan_wait"
      BY <2>1, <3>1 DEF Records, Delivered, Kept
    <3>4. /\ x \in DOMAIN chan'[i] /\ x # 0
          /\ chan'[i][x].near \notin {"none", "opening"} /\ chan'[i][x].far # "none"
      BY <1>1, <1>5, <1>6 DEF ChannelsOK, Chans
    <3>5. Link(node'[q][i], node[q][i + 1], <<Cell("CREATE")>>, bwd[q][i], x, chan'[i])
      BY <2>1, <3>1, <3>2, <3>3, <3>4, NearConnects
    <3> QED BY <1>2, <1>10, <1>11, <2>2, <3>5
  <2>3. CASE q \notin served
    <3>1. node'[q][i] \in {node[q][i], Marked(node[q][i])}
      BY <1>3, <1>9, <2>3
    <3>2. ~(Alive(node'[q][i]) /\ node'[q][i].state = "chan_wait")
      <4>1. CASE q \in Pending(i)
        BY <1>9, <2>1, <2>3, <4>1, MarkedAlike DEF Alive
      <4>2. CASE q \notin Pending(i)
        BY <1>8, <1>9, <4>2
      <4> QED BY <4>1, <4>2
    <3>3. PICK e : e = node'[q][i]
      OBVIOUS
    <3>4. /\ Alike(node[q][i], e) /\ e.n_chan = node[q][i].n_chan
          /\ e.state = "chan_wait" => node[q][i].state = "chan_wait"
      BY <1>15, <2>1, <3>1, <3>3, MarkedAlike
    <3>5. Link(e, node[q][i + 1], fwd[q][i], bwd[q][i], on[q][i], chan[i])
      BY <2>1, <3>4, NearStays
    <3>6. i = i /\ Alive(e) /\ e.state = "chan_wait" => \E z \in Chans(i) : Coming(chan'[i][z])
      BY <3>2, <3>3
    <3>7. Link(e, node[q][i + 1], fwd[q][i], bwd[q][i], on[q][i], chan'[i])
      BY <1>1, <1>5, <3>5, <3>6, LinkAfter
    <3> QED BY <1>2, <1>11, <2>3, <3>3, <3>7
  <2> QED BY <2>2, <2>3
<1>17. ASSUME NEW q \in Circuits, NEW j \in Links, j # i
       PROVE  Link(node[q][j], node[q][j + 1], fwd'[q][j], bwd'[q][j], on'[q][j], chan'[j])
  <2>1. Link(node[q][j], node[q][j + 1], fwd[q][j], bwd[q][j], on[q][j], chan'[j])
    BY <1>5, <1>17, LinkMoved
  <2> QED BY <1>2, <1>11, <1>17, <2>1
<1>18. ASSUME NEW j \in Links, j + 1 = i, NEW q \in Circuits
       PROVE  Link(node[q][j], node'[q][i], fwd'[q][j], bwd'[q][j], on'[q][j], chan'[j])
  <2>1. j # i
    BY <1>18, Neighbours
  <2>2. Link(node[q][j], node[q][i], fwd'[q][j], bwd'[q][j], on'[q][j], chan'[j])
    BY <1>17, <1>18, <2>1
  <2> QED BY <1>15, <2>2, FarStays
<1>19. \A q \in Circuits, j \in Links : LinkOf(q, j)'
  BY <1>1, <1>9, <1>16, <1>17, <1>18, EveryNode
<1>20. ASSUME NEW q \in Circuits PROVE Origin(q)'
  <2>1. Origin(q) /\ 0 \in Links /\ 0 \in Nodes
    BY Known, Neighbours
  <2>2. CASE i = 0 /\ q \in served
    <3>1. x # 0
      BY <1>1 DEF ChannelsOK
    <3> QED BY <1>11, <2>2, <3>1 DEF Origin
  <2>3. CASE i # 0 \/ q \notin served
    <3>1. on'[q][0] = on[q][0]
      BY <1>11, <2>1, <2>3
    <3>2. node'[q][0].state = node[q][0].state
      <4>1. CASE i # 0
        BY <1>9, <2>1, <4>1
      <4>2. CASE i = 0 /\ q \in Pending(i) \ served
        BY <1>1, <1>9, <2>1, <4>2, MarkedAlike
      <4>3. CASE i = 0 /\ q \notin Pending(i)
        BY <1>9, <4>3
      <4> QED BY <2>3, <4>1, <4>2, <4>3
    <3> QED BY <2>1, <3>1, <3>2 DEF Origin
  <2> QED BY <2>2, <2>3
<1> QED BY <1>6, <1>12, <1>13, <1>14, <1>19, <1>20 DEF IInv
(* What becomes of them when a channel closes.                             *)
Closed(i, x) ==
  /\ node' = [k \in Circuits |-> node'[k]] /\ bwd' = [k \in Circuits |-> bwd'[k]]
  /\ \A q \in Circuits :
       /\ node'[q] \in [Nodes -> Records]
       /\ \A j \in Nodes : j # i => node'[q][j] = node[q][j]
       /\ node'[q][i].state = node[q][i].state
       /\ node'[q][i].p_chan = node[q][i].p_chan
       /\ node[q][i].marked => node'[q][i].marked
       /\ node'[q][i].n_chan => node[q][i].n_chan
       /\ node[q][i].n_chan /\ ~node'[q][i].n_chan => node'[q][i].marked
       /\ on[q][i] # x => node'[q][i].n_chan = node[q][i].n_chan
       /\ on[q][i] = x => ~node'[q][i].n_chan
       /\ on[q][i] # x /\ chan[i][x].far = "none" /\ q \in Pending(i) => node'[q][i].marked
       /\ node'[q][i] = node[q][i] \/ node'[q][i].marked
       /\ bwd'[q] \in [Links -> Seq(Cells)]
       /\ \A j \in Links : on[q][i] # x \/ j # i => bwd'[q][j] = bwd[q][j]
       /\ on[q][i] = x => bwd'[q][i] = <<>>

LEMMA ClosedEffects ==
  ASSUME IInv, NEW i \in Links, NEW x \in Chans(i), channel_closed(i, x)
  PROVE  Closed(i, x)
<1>1. /\ NodesOK /\ WiresOK /\ i \in Nodes
      /\ \A q \in Circuits, j \in Nodes : node[q][j] \in Records
  BY Known, Neighbours DEF IInv, NodesOK
<1>2. /\ chan[i][x].near = "closing" /\ UNCHANGED <<path, fwd, on>>
      /\ chan' = [chan EXCEPT ![i][x] =
                    IF @.far = "open" THEN [@ EXCEPT !.near = "closed"] ELSE Gone]
      /\ node' = [k \in Circuits |->
                    IF on[k][i] = x /\ node[k][i].n_chan
                    THEN [node[k] EXCEPT ![i] = [Marked(@) EXCEPT !.n_chan = FALSE]]
                    ELSE IF chan[i][x].far = "none" /\ k \in Pending(i)
                    THEN [node[k] EXCEPT ![i] = Marked(@)]
                    ELSE node[k]]
      /\ bwd' = [k \in Circuits |-> IF on[k][i] = x THEN [bwd[k] EXCEPT ![i] = <<>>] ELSE bwd[k]]
  BY Zenon DEF channel_closed
<1>3. ASSUME NEW q \in Circuits
      PROVE  /\ node'[q] \in [Nodes -> Records]
             /\ \A j \in Nodes : j # i => node'[q][j] = node[q][j]
             /\ node'[q][i].state = node[q][i].state
             /\ node'[q][i].p_chan = node[q][i].p_chan
             /\ node[q][i].marked => node'[q][i].marked
             /\ node'[q][i].n_chan => node[q][i].n_chan
             /\ node[q][i].n_chan /\ ~node'[q][i].n_chan => node'[q][i].marked
             /\ on[q][i] # x => node'[q][i].n_chan = node[q][i].n_chan
             /\ on[q][i] # x /\ chan[i][x].far = "none" /\ q \in Pending(i) => node'[q][i].marked
             /\ node'[q][i] = node[q][i] \/ node'[q][i].marked
             /\ on[q][i] = x => ~node'[q][i].n_chan
  <2>1. node[q] \in [Nodes -> Records] /\ node[q][i] \in Records
    BY <1>1 DEF NodesOK
  <2>2. PICK m : m = Marked(node[q][i])
    OBVIOUS
  <2>3. /\ m \in Records /\ m.state = node[q][i].state /\ m.n_chan = node[q][i].n_chan
        /\ m.p_chan = node[q][i].p_chan /\ m.marked
    BY <2>1, <2>2, MarkedAlike
  <2>4. CASE on[q][i] = x /\ node[q][i].n_chan
    <3>1. PICK e : e = [m EXCEPT !.n_chan = FALSE]
      OBVIOUS
    <3>2. /\ e \in Records /\ e.state = node[q][i].state /\ ~e.n_chan
          /\ e.p_chan = node[q][i].p_chan /\ e.marked
      BY <2>3, <3>1 DEF Records
    <3>3. node'[q] = [node[q] EXCEPT ![i] = e]
      BY <1>2, <2>2, <2>4, <3>1
    <3>4. /\ node'[q] \in [Nodes -> Records] /\ node'[q][i] = e
          /\ \A j \in Nodes : j # i => node'[q][j] = node[q][j]
      BY <1>1, <2>1, <3>2, <3>3
    <3> QED BY <2>4, <3>2, <3>4
  <2>5. CASE ~(on[q][i] = x /\ node[q][i].n_chan) /\ chan[i][x].far = "none" /\ q \in Pending(i)
    <3>1. node'[q] = [node[q] EXCEPT ![i] = m]
      BY <1>2, <2>2, <2>5
    <3>2. /\ node'[q] \in [Nodes -> Records] /\ node'[q][i] = m
          /\ \A j \in Nodes : j # i => node'[q][j] = node[q][j]
      BY <1>1, <2>1, <2>3, <3>1
    <3> QED BY <2>3, <2>5, <3>2
  <2>6. CASE ~(on[q][i] = x /\ node[q][i].n_chan) /\ ~(chan[i][x].far = "none" /\ q \in Pending(i))
    <3>1. node'[q] = node[q]
      BY <1>2, <2>6
    <3> QED BY <2>1, <2>6, <3>1
  <2> QED BY <2>4, <2>5, <2>6
<1>4. PICK empty : empty = <<>>
  OBVIOUS
<1>5. ASSUME NEW q \in Circuits
      PROVE  /\ bwd'[q] \in [Links -> Seq(Cells)]
             /\ \A j \in Links : on[q][i] # x \/ j # i => bwd'[q][j] = bwd[q][j]
             /\ on[q][i] = x => bwd'[q][i] = empty
  <2>1. empty \in Seq(Cells)
    BY <1>4
  <2>2. bwd[q] \in [Links -> Seq(Cells)]
    BY <1>1 DEF WiresOK, Wires
  <2>3. CASE on[q][i] = x
    <3>1. bwd'[q] = [bwd[q] EXCEPT ![i] = empty]
      BY <1>2, <1>4, <2>3
    <3> QED BY <2>1, <2>2, <2>3, <3>1
  <2>4. CASE on[q][i] # x
    BY <1>2, <2>2, <2>4
  <2> QED BY <2>3, <2>4
<1>6. node' = [k \in Circuits |-> node'[k]] /\ bwd' = [k \in Circuits |-> bwd'[k]]
  BY <1>2
<1>7. ASSUME NEW q \in Circuits, on[q][i] = x PROVE bwd'[q][i] = <<>>
  BY <1>4, <1>5, <1>7
<1> QED BY <1>3, <1>5, <1>6, <1>7, Zenon DEF Closed

LEMMA ClosedStep ==
  ASSUME IInv, NEW i \in Links, NEW x \in Chans(i), channel_closed(i, x)
  PROVE  IInv'
<1>1. /\ NodesOK /\ WiresOK /\ PathsOK /\ ChannelsOK /\ i \in Nodes /\ i # i + 1
      /\ \A q \in Circuits, j \in Nodes : node[q][j] \in Records
  BY Known, Neighbours DEF IInv, NodesOK
<1>2. /\ chan[i][x].near = "closing" /\ UNCHANGED <<path, fwd, on>>
      /\ chan' = [chan EXCEPT ![i][x] =
                    IF @.far = "open" THEN [@ EXCEPT !.near = "closed"] ELSE Gone]
      /\ Closed(i, x)
  BY ClosedEffects, Zenon DEF channel_closed
<1>3. PICK g : g = IF chan[i][x].far = "open" THEN [chan[i][x] EXCEPT !.near = "closed"] ELSE Gone
  OBVIOUS
<1>4. /\ chan' = ChannelPutIn(i, x, g) /\ Moves(chan[i][x], g) /\ g.near = "closed"
      /\ g.far # "none"
  <2>1. chan[i][x] \in ChannelRecords /\ Ends(chan[i][x])
    BY <1>1 DEF ChannelsOK
  <2>2. chan' = ChannelPutIn(i, x, g)
    BY <1>2, <1>3 DEF ChannelPutIn
  <2> QED BY <1>2, <1>3, <2>1, <2>2 DEF Moves, Used, Ends, ChannelRecords, Gone, NoChannel
<1>5. ChannelsOK' /\ chan'[i][x] = g /\ DOMAIN chan'[i] = DOMAIN chan[i]
  BY <1>1, <1>4, ChannelPut
<1>6. \A q \in Circuits : Alive(node[q][i]) /\ node[q][i].state = "chan_wait" => q \in Pending(i)
  BY DEF Pending, Live, Exists, Alive, Kept
<1>7. ASSUME NEW q \in Circuits
      PROVE  /\ node'[q] \in [Nodes -> Records]
             /\ \A j \in Nodes : j # i => node'[q][j] = node[q][j]
             /\ node'[q][i].state = node[q][i].state
             /\ node'[q][i].p_chan = node[q][i].p_chan
             /\ node[q][i].marked => node'[q][i].marked
             /\ node'[q][i].n_chan => node[q][i].n_chan
             /\ node[q][i].n_chan /\ ~node'[q][i].n_chan => node'[q][i].marked
             /\ on[q][i] # x => node'[q][i].n_chan = node[q][i].n_chan
             /\ on[q][i] # x /\ chan[i][x].far = "none" /\ q \in Pending(i) => node'[q][i].marked
  BY <1>2 DEF Closed
<1>8. PICK empty : empty = <<>>
  OBVIOUS
<1>9. ASSUME NEW q \in Circuits
      PROVE  /\ bwd'[q] \in [Links -> Seq(Cells)]
             /\ \A j \in Links : on[q][i] # x \/ j # i => bwd'[q][j] = bwd[q][j]
             /\ on[q][i] = x => bwd'[q][i] = empty
  BY <1>2, <1>8 DEF Closed
<1>10. WiresOK'
  <2>1. bwd' \in [Circuits -> [Links -> Seq(Cells)]]
    BY <1>2, <1>9 DEF Closed
  <2> QED BY <1>1, <1>2, <2>1 DEF WiresOK, Wires
<1>11. NodesOK'
  BY <1>2, <1>7 DEF NodesOK, Closed
<1>12. PathsOK'
  BY <1>1, <1>2 DEF PathsOK
<1>13. \A q \in Circuits : Alike(node[q][i], node'[q][i])
  BY <1>7 DEF Alike, Kept
<1>14. ASSUME NEW q \in Circuits
       PROVE  Link(node'[q][i], node[q][i + 1], fwd'[q][i], bwd'[q][i], on'[q][i], chan'[i])
  <2>1. Link(node[q][i], node[q][i + 1], fwd[q][i], bwd[q][i], on[q][i], chan[i])
    BY Known
  <2>2. PICK e : e = node'[q][i]
    OBVIOUS
  <2>3. /\ e.state = node[q][i].state /\ Alike(node[q][i], e)
        /\ node[q][i].marked => e.marked
        /\ e.n_chan => node[q][i].n_chan
        /\ node[q][i].n_chan /\ ~e.n_chan => e.marked
        /\ on[q][i] # x => e.n_chan = node[q][i].n_chan
        /\ on[q][i] # x /\ chan[i][x].far = "none" /\ q \in Pending(i) => e.marked
    BY <1>7, <1>13, <2>2
  <2>4. CASE on[q][i] = x
    <3>1. x # 0 /\ DOMAIN chan'[i] = DOMAIN chan[i]
      BY <1>1, <1>5 DEF ChannelsOK
    <3>2. chan'[i][x].near \notin {"none", "opening"} /\ chan'[i][x].far # "none"
      BY <1>4, <1>5
    <3>3. Cut(x, chan'[i])
      BY <1>4, <1>5 DEF Cut
    <3>4. Link(node[q][i], node[q][i + 1], fwd[q][i], bwd[q][i], x, chan[i])
      BY <2>1, <2>4
    <3>5. fwd[q][i] \in {fwd[q][i], <<>>} /\ empty \in {bwd[q][i], <<>>}
      BY <1>8
    <3>6. node[q][i + 1].state = node[q][i + 1].state
      OBVIOUS
    <3>7. Link(e, node[q][i + 1], fwd[q][i], empty, x, chan'[i])
      BY <2>3, <3>1, <3>2, <3>3, <3>4, <3>5, <3>6, Severed
    <3> QED BY <1>2, <1>9, <2>2, <2>4, <3>7
  <2>5. CASE on[q][i] # x
    <3>1. e.state = "chan_wait" => node[q][i].state = "chan_wait"
      BY <2>3
    <3>2. e.n_chan = node[q][i].n_chan
      BY <2>3, <2>5
    <3>3. Link(e, node[q][i + 1], fwd[q][i], bwd[q][i], on[q][i], chan[i])
      BY <2>1, <2>3, <3>1, <3>2, NearStays
    <3>4. Alive(e) /\ e.state = "chan_wait" => \E z \in Chans(i) : Coming(chan'[i][z])
      <4> HAVE Alive(e) /\ e.state = "chan_wait"
      <4>1. Alive(node[q][i]) /\ node[q][i].state = "chan_wait"
        BY <2>3 DEF Alive, Kept
      <4>2. q \in Pending(i)
        BY <1>6, <4>1
      <4>3. chan[i][x].far # "none"
        BY <2>3, <2>5, <4>2 DEF Alive
      <4>4. Coming(chan[i][x]) => Coming(g)
        BY <4>3 DEF Coming
      <4> QED BY <1>4, <4>1, <4>4, StillWaiting
    <3>5. i = i /\ Alive(e) /\ e.state = "chan_wait" => \E z \in Chans(i) : Coming(chan'[i][z])
      BY <3>4
    <3>6. Link(e, node[q][i + 1], fwd[q][i], bwd[q][i], on[q][i], chan'[i])
      BY <1>1, <1>4, <3>3, <3>5, LinkAfter
    <3> QED BY <1>2, <1>9, <2>2, <2>5, <3>6
  <2> QED BY <2>4, <2>5
<1>15. ASSUME NEW q \in Circuits, NEW j \in Links, j # i
       PROVE  Link(node[q][j], node[q][j + 1], fwd'[q][j], bwd'[q][j], on'[q][j], chan'[j])
  <2>1. Link(node[q][j], node[q][j + 1], fwd[q][j], bwd[q][j], on[q][j], chan'[j])
    BY <1>4, <1>15, LinkMoved
  <2> QED BY <1>2, <1>9, <1>15, <2>1
<1>16. ASSUME NEW j \in Links, j + 1 = i, NEW q \in Circuits
       PROVE  Link(node[q][j], node'[q][i], fwd'[q][j], bwd'[q][j], on'[q][j], chan'[j])
  <2>1. j # i
    BY <1>16, Neighbours
  <2>2. Link(node[q][j], node[q][i], fwd'[q][j], bwd'[q][j], on'[q][j], chan'[j])
    BY <1>15, <1>16, <2>1
  <2>3. Alike(node[q][i], node'[q][i]) /\ node'[q][i].p_chan = node[q][i].p_chan
    BY <1>7, <1>13
  <2> QED BY <2>2, <2>3, FarStays
<1>17. \A q \in Circuits, j \in Links : LinkOf(q, j)'
  BY <1>1, <1>7, <1>14, <1>15, <1>16, EveryNode
<1>18. ASSUME NEW q \in Circuits PROVE Origin(q)'
  <2>1. Origin(q) /\ 0 \in Nodes
    BY Known, Neighbours
  <2>2. node'[q][0].state = node[q][0].state
    BY <1>7, <2>1
  <2> QED BY <1>2, <2>1, <2>2 DEF Origin
<1> QED BY <1>5, <1>10, <1>11, <1>12, <1>17, <1>18 DEF IInv

(* What becomes of the circuits at the far end of a channel that it closes. *)
FarClosed(i, x, r) ==
  /\ node' = [k \in Circuits |-> node'[k]] /\ fwd' = [k \in Circuits |-> fwd'[k]]
  /\ \A q \in Circuits :
       /\ node'[q] \in [Nodes -> Records]
       /\ \A j \in Nodes : j # r => node'[q][j] = node[q][j]
       /\ node'[q][r].state = node[q][r].state
       /\ node'[q][r].n_chan = node[q][r].n_chan
       /\ node[q][r].marked => node'[q][r].marked
       /\ on[q][i] # x => node'[q][r] = node[q][r]
       /\ node'[q][r] = node[q][r] \/ node'[q][r].marked
       /\ fwd'[q] \in [Links -> Seq(Cells)]
       /\ \A j \in Links : on[q][i] # x \/ j # i => fwd'[q][j] = fwd[q][j]
       /\ on[q][i] = x => fwd'[q][i] = <<>>

LEMMA FarEndEffects ==
  ASSUME IInv, NEW i \in Links, NEW x \in Chans(i), FarEndCloses(i, x)
  PROVE  FarClosed(i, x, i + 1)
<1> DEFINE r == i + 1
<1>1. /\ NodesOK /\ WiresOK /\ r \in Nodes
      /\ \A q \in Circuits, j \in Nodes : node[q][j] \in Records
  BY Known, Neighbours DEF IInv, NodesOK
<1>2. /\ chan[i][x].far = "open" /\ UNCHANGED <<path, bwd, on>>
      /\ chan' = [chan EXCEPT ![i][x] =
                    IF @.near = "closed" THEN Gone ELSE [@ EXCEPT !.far = "closed"]]
      /\ node' = [k \in Circuits |->
                    IF on[k][i] = x /\ node[k][r].p_chan
                    THEN [node[k] EXCEPT ![r] = [Marked(@) EXCEPT !.p_chan = FALSE]]
                    ELSE node[k]]
      /\ fwd' = [k \in Circuits |-> IF on[k][i] = x THEN [fwd[k] EXCEPT ![i] = <<>>] ELSE fwd[k]]
  BY Zenon DEF FarEndCloses
<1> HIDE DEF r
<1>3. ASSUME NEW q \in Circuits
      PROVE  /\ node'[q] \in [Nodes -> Records]
             /\ \A j \in Nodes : j # r => node'[q][j] = node[q][j]
             /\ node'[q][r].state = node[q][r].state
             /\ node'[q][r].n_chan = node[q][r].n_chan
             /\ node[q][r].marked => node'[q][r].marked
             /\ on[q][i] # x => node'[q][r] = node[q][r]
             /\ node'[q][r] = node[q][r] \/ node'[q][r].marked
  <2>1. node[q] \in [Nodes -> Records] /\ node[q][r] \in Records
    BY <1>1 DEF NodesOK
  <2>2. PICK m : m = Marked(node[q][r])
    OBVIOUS
  <2>3. /\ m \in Records /\ m.state = node[q][r].state /\ m.n_chan = node[q][r].n_chan
        /\ m.marked
    BY <2>1, <2>2, MarkedAlike
  <2>4. CASE on[q][i] = x /\ node[q][r].p_chan
    <3>1. PICK e : e = [m EXCEPT !.p_chan = FALSE]
      OBVIOUS
    <3>2. /\ e \in Records /\ e.state = node[q][r].state /\ e.n_chan = node[q][r].n_chan
          /\ e.marked
      BY <2>3, <3>1 DEF Records
    <3>3. node'[q] = [node[q] EXCEPT ![r] = e]
      BY <1>2, <2>2, <2>4, <3>1
    <3>4. /\ node'[q] \in [Nodes -> Records] /\ node'[q][r] = e
          /\ \A j \in Nodes : j # r => node'[q][j] = node[q][j]
      BY <1>1, <2>1, <3>2, <3>3
    <3> QED BY <2>4, <3>2, <3>4
  <2>5. CASE ~(on[q][i] = x /\ node[q][r].p_chan)
    <3>1. node'[q] = node[q]
      BY <1>2, <2>5
    <3> QED BY <2>1, <3>1
  <2> QED BY <2>4, <2>5
<1>4. PICK empty : empty = <<>>
  OBVIOUS
<1>5. ASSUME NEW q \in Circuits
      PROVE  /\ fwd'[q] \in [Links -> Seq(Cells)]
             /\ \A j \in Links : on[q][i] # x \/ j # i => fwd'[q][j] = fwd[q][j]
             /\ on[q][i] = x => fwd'[q][i] = empty
  <2>1. empty \in Seq(Cells)
    BY <1>4
  <2>2. fwd[q] \in [Links -> Seq(Cells)]
    BY <1>1 DEF WiresOK, Wires
  <2>3. CASE on[q][i] = x
    <3>1. fwd'[q] = [fwd[q] EXCEPT ![i] = empty]
      BY <1>2, <1>4, <2>3
    <3> QED BY <2>1, <2>2, <2>3, <3>1
  <2>4. CASE on[q][i] # x
    BY <1>2, <2>2, <2>4
  <2> QED BY <2>3, <2>4
<1>6. node' = [k \in Circuits |-> node'[k]] /\ fwd' = [k \in Circuits |-> fwd'[k]]
  BY <1>2
<1>7. ASSUME NEW q \in Circuits, on[q][i] = x PROVE fwd'[q][i] = <<>>
  BY <1>4, <1>5, <1>7
<1>8. FarClosed(i, x, r)
  BY <1>3, <1>5, <1>6, <1>7, Zenon DEF FarClosed
<1> QED BY <1>8 DEF r

LEMMA FarEndStep ==
  ASSUME IInv, NEW i \in Links, NEW x \in Chans(i), FarEndCloses(i, x)
  PROVE  IInv'
<1> DEFINE r == i + 1
<1>1. /\ NodesOK /\ WiresOK /\ PathsOK /\ ChannelsOK /\ r \in Nodes /\ i # r /\ r \in Relays
      /\ \A q \in Circuits, j \in Nodes : node[q][j] \in Records
      /\ \A j \in Links : j + 1 = r => j = i
  BY Known, Neighbours DEF IInv, NodesOK
<1>2. /\ chan[i][x].far = "open" /\ UNCHANGED <<path, bwd, on>>
      /\ chan' = [chan EXCEPT ![i][x] =
                    IF @.near = "closed" THEN Gone ELSE [@ EXCEPT !.far = "closed"]]
      /\ FarClosed(i, x, r)
  BY FarEndEffects, Zenon DEF FarEndCloses
<1> HIDE DEF r
<1>3. PICK g : g = IF chan[i][x].near = "closed" THEN Gone ELSE [chan[i][x] EXCEPT !.far = "closed"]
  OBVIOUS
<1>4. /\ chan' = ChannelPutIn(i, x, g) /\ Moves(chan[i][x], g) /\ g.far = "closed"
      /\ g.near \notin {"none", "opening"} /\ ~Coming(chan[i][x])
  <2>1. chan[i][x] \in ChannelRecords /\ Ends(chan[i][x])
    BY <1>1 DEF ChannelsOK
  <2>2. chan' = ChannelPutIn(i, x, g)
    BY <1>2, <1>3 DEF ChannelPutIn
  <2> QED BY <1>2, <1>3, <2>1, <2>2 DEF Moves, Used, Ends, ChannelRecords, Gone, NoChannel, Coming
<1>5. ChannelsOK' /\ chan'[i][x] = g /\ DOMAIN chan'[i] = DOMAIN chan[i]
  BY <1>1, <1>4, ChannelPut
<1>7. ASSUME NEW q \in Circuits
      PROVE  /\ node'[q] \in [Nodes -> Records]
             /\ \A j \in Nodes : j # r => node'[q][j] = node[q][j]
             /\ node'[q][r].state = node[q][r].state
             /\ node'[q][r].n_chan = node[q][r].n_chan
             /\ node[q][r].marked => node'[q][r].marked
             /\ on[q][i] # x => node'[q][r] = node[q][r]
  BY <1>2 DEF FarClosed
<1>8. PICK empty : empty = <<>>
  OBVIOUS
<1>9. ASSUME NEW q \in Circuits
      PROVE  /\ fwd'[q] \in [Links -> Seq(Cells)]
             /\ \A j \in Links : on[q][i] # x \/ j # i => fwd'[q][j] = fwd[q][j]
             /\ on[q][i] = x => fwd'[q][i] = empty
  BY <1>2, <1>8 DEF FarClosed
<1>10. WiresOK'
  <2>1. fwd' \in [Circuits -> [Links -> Seq(Cells)]]
    BY <1>2, <1>9 DEF FarClosed
  <2> QED BY <1>1, <1>2, <2>1 DEF WiresOK, Wires
<1>11. NodesOK'
  BY <1>2, <1>7 DEF NodesOK, FarClosed
<1>12. PathsOK'
  BY <1>1, <1>2 DEF PathsOK
<1>13. ASSUME NEW q \in Circuits, NEW j \in Links
       PROVE  Link(node[q][j], node[q][j + 1], fwd[q][j], bwd[q][j], on[q][j], chan'[j])
  <2>1. Coming(chan[i][x]) => Coming(g)
    BY <1>4
  <2>2. j = i /\ Alive(node[q][i]) /\ node[q][i].state = "chan_wait" =>
          \E z \in Chans(i) : Coming(chan'[i][z])
    BY <1>4, <2>1, StillWaiting
  <2> QED BY <1>4, <2>2, LinkMoved
<1>14. ASSUME NEW q \in Circuits
       PROVE  Link(node[q][i], node'[q][r], fwd'[q][i], bwd'[q][i], on'[q][i], chan'[i])
  <2>1. CASE on[q][i] = x
    <3>1. x # 0 /\ DOMAIN chan'[i] = DOMAIN chan[i]
      BY <1>1, <1>5 DEF ChannelsOK
    <3>2. chan'[i][x].near \notin {"none", "opening"} /\ chan'[i][x].far # "none"
      BY <1>4, <1>5
    <3>3. Cut(x, chan'[i])
      BY <1>4, <1>5 DEF Cut
    <3>4. Link(node[q][i], node[q][r], fwd[q][i], bwd[q][i], x, chan[i])
      BY <2>1, Known DEF r
    <3>5. empty \in {fwd[q][i], <<>>} /\ bwd[q][i] \in {bwd[q][i], <<>>}
      BY <1>8
    <3>6. node'[q][r].state = node[q][r].state
      BY <1>7
    <3>7. PICK c : c = node[q][i]
      OBVIOUS
    <3>8. PICK f : f = node'[q][r]
      OBVIOUS
    <3>9. /\ c.state = c.state /\ (c.marked => c.marked) /\ (c.n_chan => c.n_chan)
          /\ c.n_chan /\ ~c.n_chan => c.marked
      OBVIOUS
    <3>10. Link(c, node[q][r], fwd[q][i], bwd[q][i], x, chan[i]) /\ f.state = node[q][r].state
      BY <3>4, <3>6, <3>7, <3>8
    <3>11. Link(c, f, empty, bwd[q][i], x, chan'[i])
      BY <3>1, <3>2, <3>3, <3>5, <3>9, <3>10, Severed
    <3> QED BY <1>2, <1>9, <2>1, <3>7, <3>8, <3>11
  <2>2. CASE on[q][i] # x
    BY <1>2, <1>7, <1>9, <1>13, <2>2 DEF r
  <2> QED BY <2>1, <2>2
<1>15. ASSUME NEW q \in Circuits, NEW j \in Links, j # i
       PROVE  Link(node[q][j], node[q][j + 1], fwd'[q][j], bwd'[q][j], on'[q][j], chan'[j])
  BY <1>2, <1>9, <1>13, <1>15
<1>16. ASSUME r \in Links, NEW q \in Circuits
       PROVE  Link(node'[q][r], node[q][r + 1], fwd'[q][r], bwd'[q][r], on'[q][r], chan'[r])
  <2>1. Link(node[q][r], node[q][r + 1], fwd'[q][r], bwd'[q][r], on'[q][r], chan'[r])
    BY <1>1, <1>15, <1>16
  <2>2. PICK e : e = node'[q][r]
    OBVIOUS
  <2>3. /\ e.state = node[q][r].state /\ e.n_chan = node[q][r].n_chan
        /\ node[q][r].marked => e.marked
    BY <1>7, <2>2
  <2>4. Alike(node[q][r], e) /\ (e.state = "chan_wait" => node[q][r].state = "chan_wait")
    BY <2>3 DEF Alike, Kept
  <2>5. Link(e, node[q][r + 1], fwd'[q][r], bwd'[q][r], on'[q][r], chan'[r])
    BY <2>1, <2>3, <2>4, NearStays
  <2> QED BY <2>2, <2>5
<1>17. \A q \in Circuits, j \in Links : j # r /\ j + 1 # r =>
         Link(node[q][j], node[q][j + 1], fwd'[q][j], bwd'[q][j], on'[q][j], chan'[j])
  BY <1>15 DEF r
<1>18. \A j \in Links : j + 1 = r => \A q \in Circuits :
         Link(node[q][j], node'[q][r], fwd'[q][j], bwd'[q][j], on'[q][j], chan'[j])
  BY <1>1, <1>14
<1>19. \A q \in Circuits, j \in Links : LinkOf(q, j)'
  BY <1>1, <1>7, <1>16, <1>17, <1>18, EveryNode
<1>20. ASSUME NEW q \in Circuits PROVE Origin(q)'
  <2>1. Origin(q) /\ 0 \in Nodes /\ r # 0
    BY <1>1, Known, Neighbours
  <2>2. node'[q][0].state = node[q][0].state
    BY <1>7, <2>1
  <2> QED BY <1>2, <2>1, <2>2 DEF Origin
<1> QED BY <1>5, <1>10, <1>11, <1>12, <1>19, <1>20 DEF IInv
(* What becomes of the circuits at a node that frees those it has marked.   *)
Doomed(i) == {k \in Circuits : Exists(k, i) /\ node[k][i].marked}
FreedCells(w, linked, sending, r) ==
  \E keep \in BOOLEAN : r = circuit_about_to_free(w, linked, sending, keep)

Freed(i) ==
  /\ node' = [k \in Circuits |-> node'[k]]
  /\ fwd' = [k \in Circuits |-> fwd'[k]] /\ bwd' = [k \in Circuits |-> bwd'[k]]
  /\ \A q \in Circuits :
       /\ node'[q] \in [Nodes -> Records]
       /\ \A j \in Nodes : j # i => node'[q][j] = node[q][j]
       /\ q \in Doomed(i) => node'[q][i] = [NoCircuit EXCEPT !.state = "freed"]
       /\ q \notin Doomed(i) => node'[q][i] = node[q][i]
       /\ fwd'[q] \in [Links -> Seq(Cells)]
       /\ \A j \in Links : q \notin Doomed(i) \/ j # i => fwd'[q][j] = fwd[q][j]
       /\ i \in Links /\ q \in Doomed(i) =>
            FreedCells(fwd[q][i], node[q][i].n_chan,
                       node[q][i].n_chan /\ chan[i][on[q][i]].near = "open", fwd'[q][i])
       /\ bwd'[q] \in [Links -> Seq(Cells)]
       /\ \A j \in Links : q \notin Doomed(i) \/ j # i - 1 => bwd'[q][j] = bwd[q][j]
       /\ i > 0 /\ q \in Doomed(i) =>
            FreedCells(bwd[q][i - 1], node[q][i].p_chan, node[q][i].p_chan, bwd'[q][i - 1])

LEMMA FreedAre ==
  ASSUME NEW w \in Seq(Cells), NEW linked \in BOOLEAN, NEW sending \in BOOLEAN,
         sending => linked, NEW r, FreedCells(w, linked, sending, r)
  PROVE  /\ r \in Seq(Cells) /\ (CreateFirst(w) => CreateFirst(r))
         /\ \A cmd : Has(r, cmd) => Has(w, cmd) \/ (sending /\ cmd = "DESTROY")
         /\ sending => Has(r, "DESTROY")
         /\ ~linked => r = w
  BY CellsOfFreed DEF FreedCells

LEMMA CloseEffects ==
  ASSUME IInv, NEW i \in Nodes, circuit_close_all_marked(i)
  PROVE  Freed(i)
<1> DEFINE gone == Doomed(i)
<1>1. /\ NodesOK /\ WiresOK /\ (i \in Links <=> i < MaxLen)
      /\ i > 0 => i - 1 \in Links
      /\ \A q \in Circuits, j \in Nodes : node[q][j] \in Records
  <2>1. \A q \in Circuits, j \in Nodes : node[q][j] \in Records
    BY Known
  <2>2. MaxLen \in Nat
    BY Neighbours
  <2>3. (i \in Links <=> i < MaxLen) /\ (i > 0 => i - 1 \in Links)
    BY <2>2 DEF Nodes, Links
  <2> QED BY <2>1, <2>3 DEF IInv
<1>2. PICK sent \in SUBSET gone :
        /\ fwd' = [k \in Circuits |->
              IF k \in gone /\ i < MaxLen
              THEN [fwd[k] EXCEPT ![i] = circuit_about_to_free(@, node[k][i].n_chan,
                       node[k][i].n_chan /\ chan[i][on[k][i]].near = "open", k \in sent)]
              ELSE fwd[k]]
        /\ bwd' = [k \in Circuits |->
              IF k \in gone /\ i > 0
              THEN [bwd[k] EXCEPT ![i - 1] =
                       circuit_about_to_free(@, node[k][i].p_chan, node[k][i].p_chan, k \in sent)]
              ELSE bwd[k]]
  BY Zenon DEF circuit_close_all_marked, Doomed
<1>3. node' = [k \in Circuits |->
              IF k \in gone THEN [node[k] EXCEPT ![i] = [NoCircuit EXCEPT !.state = "freed"]]
              ELSE node[k]]
  BY Zenon DEF circuit_close_all_marked, Doomed
<1> HIDE DEF gone
<1>4. PICK e : e = [NoCircuit EXCEPT !.state = "freed"]
  OBVIOUS
<1>5. e \in Records
  BY <1>4 DEF NoCircuit, Records, CircuitStates
<1>6. ASSUME NEW q \in Circuits
      PROVE  /\ node'[q] \in [Nodes -> Records]
             /\ \A j \in Nodes : j # i => node'[q][j] = node[q][j]
             /\ q \in gone => node'[q][i] = e
             /\ q \notin gone => node'[q][i] = node[q][i]
  <2>1. node[q] \in [Nodes -> Records]
    BY <1>1 DEF NodesOK
  <2>2. CASE q \in gone
    <3>1. node'[q] = [node[q] EXCEPT ![i] = e]
      BY <1>3, <1>4, <2>2
    <3> QED BY <1>5, <2>1, <2>2, <3>1
  <2>3. CASE q \notin gone
    <3>1. node'[q] = node[q]
      BY <1>3, <2>3
    <3> QED BY <2>1, <2>3, <3>1
  <2> QED BY <2>2, <2>3
<1>7. ASSUME NEW q \in Circuits
      PROVE  /\ fwd'[q] \in [Links -> Seq(Cells)]
             /\ \A j \in Links : q \notin gone \/ j # i => fwd'[q][j] = fwd[q][j]
             /\ i \in Links /\ q \in gone =>
                  FreedCells(fwd[q][i], node[q][i].n_chan,
                             node[q][i].n_chan /\ chan[i][on[q][i]].near = "open", fwd'[q][i])
  <2>1. fwd[q] \in [Links -> Seq(Cells)]
    BY <1>1 DEF WiresOK, Wires
  <2>2. CASE q \in gone /\ i < MaxLen
    <3>1. PICK G : G = circuit_about_to_free(fwd[q][i], node[q][i].n_chan,
                         node[q][i].n_chan /\ chan[i][on[q][i]].near = "open", q \in sent)
      OBVIOUS
    <3>2. PICK keep \in BOOLEAN : keep <=> q \in sent
      OBVIOUS
    <3>3. PICK sending \in BOOLEAN :
            sending = (node[q][i].n_chan /\ chan[i][on[q][i]].near = "open")
      OBVIOUS
    <3>4. i \in Links /\ i \in Nodes /\ fwd[q][i] \in Seq(Cells) /\ node[q][i] \in Records
      BY <1>1, <2>1, <2>2
    <3>5. G = circuit_about_to_free(fwd[q][i], node[q][i].n_chan, sending, keep)
      <4>1. G = circuit_about_to_free(fwd[q][i], node[q][i].n_chan, sending, q \in sent)
        BY <3>1, <3>3
      <4> QED BY <3>2, <4>1 DEF circuit_about_to_free
    <3>6. G \in Seq(Cells)
      <4>1. PICK linked \in BOOLEAN : linked = node[q][i].n_chan
        BY <3>4 DEF Records
      <4>2. sending => linked
        BY <3>3, <4>1
      <4>3. G = circuit_about_to_free(fwd[q][i], linked, sending, keep)
        BY <3>5, <4>1
      <4> QED BY <3>4, <4>2, <4>3, CellsOfFreed
    <3>7. fwd'[q] = [fwd[q] EXCEPT ![i] = G]
      BY <1>2, <2>2, <3>1
    <3>8. /\ fwd'[q] \in [Links -> Seq(Cells)] /\ fwd'[q][i] = G
          /\ \A j \in Links : j # i => fwd'[q][j] = fwd[q][j]
      BY <2>1, <3>4, <3>6, <3>7
    <3>9. FreedCells(fwd[q][i], node[q][i].n_chan,
                     node[q][i].n_chan /\ chan[i][on[q][i]].near = "open", fwd'[q][i])
      BY <3>3, <3>5, <3>8 DEF FreedCells
    <3> QED BY <2>2, <3>8, <3>9
  <2>3. CASE ~(q \in gone /\ i < MaxLen)
    <3>1. fwd'[q] = fwd[q]
      BY <1>2, <2>3
    <3>2. ~(i \in Links /\ q \in gone)
      BY <1>1, <2>3
    <3> QED BY <2>1, <3>1, <3>2
  <2> QED BY <2>2, <2>3
<1>8. ASSUME NEW q \in Circuits
      PROVE  /\ bwd'[q] \in [Links -> Seq(Cells)]
             /\ \A j \in Links : q \notin gone \/ j # i - 1 => bwd'[q][j] = bwd[q][j]
             /\ i > 0 /\ q \in gone =>
                  FreedCells(bwd[q][i - 1], node[q][i].p_chan, node[q][i].p_chan, bwd'[q][i - 1])
  <2>1. bwd[q] \in [Links -> Seq(Cells)]
    BY <1>1 DEF WiresOK, Wires
  <2>2. CASE q \in gone /\ i > 0
    <3>1. PICK j \in Links : j = i - 1
      BY <1>1, <2>2
    <3>2. PICK H : H = circuit_about_to_free(bwd[q][j], node[q][i].p_chan, node[q][i].p_chan, q \in sent)
      OBVIOUS
    <3>3. PICK keep \in BOOLEAN : keep <=> q \in sent
      OBVIOUS
    <3>4. bwd[q][j] \in Seq(Cells) /\ node[q][i].p_chan \in BOOLEAN
      BY <1>1, <2>1 DEF Records
    <3>5. H = circuit_about_to_free(bwd[q][j], node[q][i].p_chan, node[q][i].p_chan, keep)
      BY <3>2, <3>3 DEF circuit_about_to_free
    <3>6. H \in Seq(Cells)
      BY <3>4, <3>5, CellsOfFreed
    <3>7. bwd'[q] = [bwd[q] EXCEPT ![j] = H]
      BY <1>2, <2>2, <3>1, <3>2
    <3>8. /\ bwd'[q] \in [Links -> Seq(Cells)] /\ bwd'[q][j] = H
          /\ \A l \in Links : l # j => bwd'[q][l] = bwd[q][l]
      BY <2>1, <3>6, <3>7
    <3>9. FreedCells(bwd[q][j], node[q][i].p_chan, node[q][i].p_chan, bwd'[q][j])
      BY <3>5, <3>8 DEF FreedCells
    <3>10. \A l \in Links : q \notin gone \/ l # i - 1 => bwd'[q][l] = bwd[q][l]
      BY <2>2, <3>1, <3>8
    <3> QED BY <3>1, <3>8, <3>9, <3>10
  <2>3. CASE ~(q \in gone /\ i > 0)
    <3>1. bwd'[q] = bwd[q]
      BY <1>2, <2>3
    <3> QED BY <2>1, <2>3, <3>1
  <2> QED BY <2>2, <2>3
<1>9. /\ node' = [k \in Circuits |-> node'[k]]
      /\ fwd' = [k \in Circuits |-> fwd'[k]] /\ bwd' = [k \in Circuits |-> bwd'[k]]
  BY <1>2, <1>3
<1>10. \A q \in Circuits : q \in gone => node'[q][i] = [NoCircuit EXCEPT !.state = "freed"]
  BY <1>4, <1>6
<1> QED BY <1>6, <1>7, <1>8, <1>9, <1>10, Zenon DEF Freed, gone

LEMMA CloseStep ==
  ASSUME IInv, NEW i \in Nodes, circuit_close_all_marked(i)
  PROVE  IInv'
<1> DEFINE gone == Doomed(i)
<1>1. /\ NodesOK /\ WiresOK /\ PathsOK /\ ChannelsOK /\ 0 \in Links
      /\ \A q \in Circuits, j \in Nodes : node[q][j] \in Records
      /\ \A j \in Links : j + 1 = i <=> i > 0 /\ j = i - 1
      /\ i \in Links <=> i < MaxLen
      /\ i > 0 => i - 1 \in Links /\ i - 1 + 1 = i
      /\ \A j \in Links : j \in Nodes /\ (j = i => j # i - 1)
      /\ i > 0 <=> i # 0
  <2>1. \A q \in Circuits, j \in Nodes : node[q][j] \in Records
    BY Known
  <2>2. 0 \in Links /\ MaxLen \in Nat
    BY Neighbours
  <2>3. /\ \A j \in Links : j + 1 = i <=> i > 0 /\ j = i - 1
        /\ i \in Links <=> i < MaxLen
        /\ i > 0 => i - 1 \in Links /\ i - 1 + 1 = i
        /\ \A j \in Links : j \in Nodes /\ (j = i => j # i - 1)
        /\ i > 0 <=> i # 0
    BY <2>2 DEF Nodes, Links
  <2> QED BY <2>1, <2>2, <2>3 DEF IInv
<1>2. Freed(i)
  BY CloseEffects
<1>3. /\ chan' = [chan EXCEPT ![0] = [x \in Chans(0) |->
                     [chan[0][x] EXCEPT !.bad =
                        @ \/ (i = 0 /\ \E k \in gone : circuit_build_failed(k, x))]]]
      /\ path' = [k \in Circuits |->
             IF i = 0 /\ k \in gone THEN [len |-> 0, most |-> 0, open |-> 0, awaiting |-> FALSE]
             ELSE path[k]]
      /\ UNCHANGED on
  BY Zenon DEF circuit_close_all_marked, Doomed
<1>4. \A q \in gone : q \in Circuits /\ Kept(node[q][i])
  BY DEF Exists, Kept, Doomed
<1> HIDE DEF gone
(* The channels: nothing but the flag changes.                             *)
<1>5. /\ ChannelsOK'
      /\ \A j \in Links : /\ DOMAIN chan'[j] = DOMAIN chan[j]
                          /\ \A x \in DOMAIN chan[j] : /\ chan'[j][x].near = chan[j][x].near
                                                       /\ chan'[j][x].far = chan[j][x].far
  <2>1. ASSUME NEW x \in Chans(0)
        PROVE  /\ chan'[0][x] \in ChannelRecords
               /\ chan'[0][x].near = chan[0][x].near /\ chan'[0][x].far = chan[0][x].far
    <3>1. PICK h \in ChannelRecords : h = chan[0][x]
      BY <1>1 DEF ChannelsOK
    <3>3. PICK failed \in BOOLEAN :
            failed = (i = 0 /\ \E k \in gone : circuit_build_failed(k, x))
      OBVIOUS
    <3>4. chan'[0][x] = [h EXCEPT !.bad = h.bad \/ failed]
      BY <1>1, <1>3, <3>1, <3>3 DEF ChannelsOK
    <3> QED BY <3>1, <3>4 DEF ChannelRecords
  <2>2. /\ chan' = [j \in Links |-> chan'[j]]
        /\ \A j \in Links : j # 0 => chan'[j] = chan[j]
        /\ chan'[0] = [x \in Chans(0) |-> chan'[0][x]]
    BY <1>1, <1>3 DEF ChannelsOK
  <2>3. chan'[0] \in [Chans(0) -> ChannelRecords] /\ DOMAIN chan'[0] = Chans(0)
    BY <2>1, <2>2
  <2>4. \A j \in Links : DOMAIN chan'[j] = DOMAIN chan[j]
    BY <2>2, <2>3 DEF Chans
  <2>5. ASSUME NEW j \in Links
        PROVE  /\ chan'[j] \in [DOMAIN chan'[j] -> ChannelRecords]
               /\ DOMAIN chan'[j] \subseteq Nat \ {0}
               /\ \A x \in DOMAIN chan[j] : /\ chan'[j][x].near = chan[j][x].near
                                            /\ chan'[j][x].far = chan[j][x].far
    <3>1. CASE j = 0
      BY <1>1, <2>1, <2>3, <3>1 DEF ChannelsOK, Chans
    <3>2. CASE j # 0
      BY <1>1, <2>2, <3>2 DEF ChannelsOK, Chans
    <3> QED BY <3>1, <3>2
  <2>6. ASSUME NEW j \in Links, NEW x \in DOMAIN chan'[j] PROVE Ends(chan'[j][x])
    <3>1. Ends(chan[j][x])
      BY <1>1, <2>4, <2>6 DEF ChannelsOK, Chans
    <3> QED BY <2>4, <2>5, <2>6, <3>1 DEF Ends
  <2> QED BY <2>2, <2>4, <2>5, <2>6 DEF ChannelsOK, Chans
<1>6. ASSUME NEW j \in Links, NEW c, NEW d, NEW F, NEW B, NEW y, Link(c, d, F, B, y, chan[j])
      PROVE  Link(c, d, F, B, y, chan'[j])
  <2>1. y # 0 => /\ chan'[j][y].near \notin {"none", "opening"} /\ chan'[j][y].far # "none"
                 /\ Cut(y, chan[j]) => Cut(y, chan'[j])
    BY <1>5, <1>6 DEF Link, Cut
  <2>2. Alive(c) /\ c.state = "chan_wait" =>
          \E z \in DOMAIN chan'[j] : /\ chan'[j][z].near \in {"opening", "closing"}
                                     /\ chan'[j][z].far = "none"
    BY <1>5, <1>6 DEF Link
  <2>3. DOMAIN chan'[j] = DOMAIN chan[j]
    BY <1>5
  <2> QED BY <1>6, <2>1, <2>2, <2>3, ChannelChanges
(* The circuits.                                                           *)
<1>7. PICK e : e = [NoCircuit EXCEPT !.state = "freed"]
  OBVIOUS
<1>8. e \in Records /\ e.state = "freed" /\ ~e.n_chan /\ ~e.p_chan
  BY <1>7 DEF NoCircuit, Records, CircuitStates
<1>9. ASSUME NEW q \in Circuits
      PROVE  /\ node'[q] \in [Nodes -> Records]
             /\ \A j \in Nodes : j # i => node'[q][j] = node[q][j]
             /\ q \in gone => node'[q][i] = e
             /\ q \notin gone => node'[q][i] = node[q][i]
  BY <1>2, <1>7 DEF Freed, gone
(* The near end of link i.                                                 *)
<1>10. ASSUME NEW q \in Circuits
       PROVE  /\ fwd'[q] \in [Links -> Seq(Cells)]
              /\ \A j \in Links : q \notin gone \/ j # i => fwd'[q][j] = fwd[q][j]
              /\ i \in Links /\ q \in gone =>
                   Link(e, node[q][i + 1], fwd'[q][i], bwd[q][i], on[q][i], chan[i])
  <2>1. /\ fwd'[q] \in [Links -> Seq(Cells)]
        /\ \A j \in Links : q \notin gone \/ j # i => fwd'[q][j] = fwd[q][j]
    BY <1>2 DEF Freed, gone
  <2>2. ASSUME i \in Links, q \in gone
        PROVE  Link(e, node[q][i + 1], fwd'[q][i], bwd[q][i], on[q][i], chan[i])
    <3>1. PICK sending \in BOOLEAN :
            sending = (node[q][i].n_chan /\ chan[i][on[q][i]].near = "open")
      OBVIOUS
    <3>2. PICK keep \in BOOLEAN :
            fwd'[q][i] = circuit_about_to_free(fwd[q][i], node[q][i].n_chan, sending, keep)
      BY <1>2, <2>2, <3>1 DEF Freed, FreedCells, gone
    <3>3. PICK G : G = fwd'[q][i]
      OBVIOUS
    <3>4. /\ node[q][i] \in Records /\ Kept(node[q][i]) /\ fwd[q][i] \in Seq(Cells)
          /\ Link(node[q][i], node[q][i + 1], fwd[q][i], bwd[q][i], on[q][i], chan[i])
      BY <1>1, <1>4, <2>2, Known
    <3>5. sending <=> node[q][i].n_chan /\ chan[i][on[q][i]].near = "open"
      BY <3>1
    <3>6. G = circuit_about_to_free(fwd[q][i], node[q][i].n_chan, sending, keep)
      BY <3>2, <3>3
    <3>7. Link(e, node[q][i + 1], G, bwd[q][i], on[q][i], chan[i])
      BY <1>8, <3>4, <3>5, <3>6, NearFreed
    <3> QED BY <3>3, <3>7
  <2> QED BY <2>1, <2>2
(* The far end of link i - 1.                                              *)
<1>11. ASSUME NEW q \in Circuits
       PROVE  /\ bwd'[q] \in [Links -> Seq(Cells)]
              /\ \A j \in Links : q \notin gone \/ j # i - 1 => bwd'[q][j] = bwd[q][j]
              /\ i > 0 /\ q \in gone =>
                   Link(node[q][i - 1], e, fwd[q][i - 1], bwd'[q][i - 1], on[q][i - 1], chan[i - 1])
  <2>1. /\ bwd'[q] \in [Links -> Seq(Cells)]
        /\ \A j \in Links : q \notin gone \/ j # i - 1 => bwd'[q][j] = bwd[q][j]
    BY <1>2 DEF Freed, gone
  <2>2. ASSUME i > 0, q \in gone
        PROVE  Link(node[q][i - 1], e, fwd[q][i - 1], bwd'[q][i - 1], on[q][i - 1], chan[i - 1])
    <3>1. PICK j \in Links : j = i - 1 /\ j + 1 = i
      BY <1>1, <2>2
    <3>2. PICK keep \in BOOLEAN :
            bwd'[q][j] = circuit_about_to_free(bwd[q][j], node[q][i].p_chan, node[q][i].p_chan, keep)
      BY <1>2, <2>2, <3>1 DEF Freed, FreedCells, gone
    <3>3. PICK H : H = bwd'[q][j]
      OBVIOUS
    <3>4. /\ node[q][i] \in Records /\ Kept(node[q][i]) /\ bwd[q][j] \in Seq(Cells)
          /\ Link(node[q][j], node[q][j + 1], fwd[q][j], bwd[q][j], on[q][j], chan[j])
      BY <1>1, <1>4, <2>2, <3>1, Known
    <3>5. Link(node[q][j], node[q][i], fwd[q][j], bwd[q][j], on[q][j], chan[j])
      BY <3>1, <3>4
    <3>6. H = circuit_about_to_free(bwd[q][j], node[q][i].p_chan, node[q][i].p_chan, keep)
      BY <3>2, <3>3
    <3>7. Link(node[q][j], e, fwd[q][j], H, on[q][j], chan[j])
      BY <1>8, <3>4, <3>5, <3>6, FarFreed
    <3> QED BY <3>1, <3>3, <3>7
  <2> QED BY <2>1, <2>2
<1>12. WiresOK'
  <2>1. fwd' \in [Circuits -> [Links -> Seq(Cells)]]
    BY <1>2, <1>10 DEF Freed
  <2>2. bwd' \in [Circuits -> [Links -> Seq(Cells)]]
    BY <1>2, <1>11 DEF Freed
  <2> QED BY <1>1, <1>3, <2>1, <2>2 DEF WiresOK, Wires
<1>13. NodesOK'
  BY <1>2, <1>9 DEF NodesOK, Freed
<1>14. PathsOK'
  <2>1. [len |-> 0, most |-> 0, open |-> 0, awaiting |-> FALSE] \in Paths
    BY CircuitBuildAssumption DEF Paths
  <2> QED BY <1>1, <1>3, <2>1 DEF PathsOK
<1>15. ASSUME NEW q \in Circuits, NEW j \in Links, j # i \/ q \notin gone, j + 1 # i \/ q \notin gone
       PROVE  Link(node[q][j], node[q][j + 1], fwd'[q][j], bwd'[q][j], on'[q][j], chan'[j])
  <2>1. Link(node[q][j], node[q][j + 1], fwd[q][j], bwd[q][j], on[q][j], chan[j])
    BY Known
  <2>2. Link(node[q][j], node[q][j + 1], fwd[q][j], bwd[q][j], on[q][j], chan'[j])
    BY <1>6, <2>1
  <2>3. fwd'[q][j] = fwd[q][j]
    BY <1>10, <1>15
  <2>4. bwd'[q][j] = bwd[q][j]
    <3>1. CASE q \notin gone
      BY <1>11, <3>1
    <3>2. CASE q \in gone
      <4>1. j # i - 1
        <5>1. CASE i > 0
          BY <1>1, <1>15, <3>2, <5>1
        <5>2. CASE ~(i > 0)
          BY <5>2, Neighbours DEF Links, Nodes
        <5> QED BY <5>1, <5>2
      <4> QED BY <1>11, <4>1
    <3> QED BY <3>1, <3>2
  <2> QED BY <1>3, <2>2, <2>3, <2>4
<1>16. ASSUME i \in Links, NEW q \in Circuits
       PROVE  Link(node'[q][i], node[q][i + 1], fwd'[q][i], bwd'[q][i], on'[q][i], chan'[i])
  <2>1. i + 1 # i /\ i # i - 1
    BY <1>1, <1>16, Neighbours
  <2>2. CASE q \in gone
    <3>1. Link(e, node[q][i + 1], fwd'[q][i], bwd[q][i], on[q][i], chan[i])
      BY <1>10, <1>16, <2>2
    <3>2. Link(e, node[q][i + 1], fwd'[q][i], bwd[q][i], on[q][i], chan'[i])
      BY <1>6, <1>16, <3>1
    <3>3. bwd'[q][i] = bwd[q][i]
      BY <1>11, <1>16, <2>1
    <3> QED BY <1>3, <1>9, <2>2, <3>2, <3>3
  <2>3. CASE q \notin gone
    <3>1. Link(node[q][i], node[q][i + 1], fwd'[q][i], bwd'[q][i], on'[q][i], chan'[i])
      BY <1>15, <1>16, <2>3
    <3> QED BY <1>9, <2>3, <3>1
  <2> QED BY <2>2, <2>3
<1>17. ASSUME NEW j \in Links, j + 1 = i, NEW q \in Circuits
       PROVE  Link(node[q][j], node'[q][i], fwd'[q][j], bwd'[q][j], on'[q][j], chan'[j])
  <2>1. i > 0 /\ j = i - 1 /\ j # i
    BY <1>1, <1>17
  <2>2. CASE q \in gone
    <3>1. Link(node[q][j], e, fwd[q][j], bwd'[q][j], on[q][j], chan[j])
      BY <1>11, <2>1, <2>2
    <3>2. Link(node[q][j], e, fwd[q][j], bwd'[q][j], on[q][j], chan'[j])
      BY <1>6, <3>1
    <3>3. fwd'[q][j] = fwd[q][j]
      BY <1>10, <2>1
    <3> QED BY <1>3, <1>9, <2>2, <3>2, <3>3
  <2>3. CASE q \notin gone
    <3>1. Link(node[q][j], node[q][j + 1], fwd'[q][j], bwd'[q][j], on'[q][j], chan'[j])
      BY <1>15, <2>3
    <3> QED BY <1>9, <1>17, <2>3, <3>1
  <2> QED BY <2>2, <2>3
<1>18. \A q \in Circuits, j \in Links : j # i /\ j + 1 # i =>
         Link(node[q][j], node[q][j + 1], fwd'[q][j], bwd'[q][j], on'[q][j], chan'[j])
  BY <1>15
<1>19. \A q \in Circuits, j \in Links : LinkOf(q, j)'
  BY <1>1, <1>9, <1>16, <1>17, <1>18, EveryNode
<1>20. ASSUME NEW q \in Circuits PROVE Origin(q)'
  <2>1. Origin(q) /\ 0 \in Nodes
    BY Known, Neighbours
  <2>2. node'[q][0].state \in {node[q][0].state, "freed"}
    BY <1>8, <1>9, <2>1
  <2> QED BY <1>3, <2>1, <2>2 DEF Origin
<1> QED BY <1>5, <1>12, <1>13, <1>14, <1>19, <1>20 DEF IInv

-----------------------------------------------------------------------------
(* The theorem.                                                            *)

LEMMA InitStep == Init => IInv
<1> SUFFICES ASSUME Init PROVE IInv
  OBVIOUS
<1>1. /\ node = [k \in Circuits |-> [i \in Nodes |-> NoCircuit]]
      /\ fwd = [k \in Circuits |-> [i \in Links |-> <<>>]]
      /\ bwd = [k \in Circuits |-> [i \in Links |-> <<>>]]
      /\ on = [k \in Circuits |-> [i \in Links |-> 0]]
  BY DEF Init
<1>2. PICK plan \in Plans :
       /\ path = [k \in Circuits |-> [len |-> plan.len[k], most |-> plan.most[k],
                                     open |-> 0, awaiting |-> FALSE]]
       /\ chan = [i \in Links |-> [x \in 1..plan.chans[i] |-> NoChannel]]
  BY Zenon DEF Init
<1>3. /\ plan.len \in [Circuits -> 0..MaxLen] /\ plan.most \in [Circuits -> 0..MaxLen]
      /\ plan.chans \in [Links -> Nat]
  BY CircuitBuildAssumption DEF Links
<1>4. PathsOK
  <2>1. ASSUME NEW k \in Circuits PROVE path[k] \in Paths
    <3>1. plan.len[k] \in 0..MaxLen /\ plan.most[k] \in 0..MaxLen
      BY <1>3
    <3>2. path[k] = [len |-> plan.len[k], most |-> plan.most[k], open |-> 0, awaiting |-> FALSE]
      BY <1>2
    <3> QED BY <3>1, <3>2 DEF Paths
  <2> QED BY <1>2, <2>1 DEF PathsOK
<1>5. ChannelsOK
  <2>1. NoChannel \in ChannelRecords /\ Ends(NoChannel)
    BY DEF NoChannel, ChannelRecords, Ends
  <2>2. ASSUME NEW i \in Links
        PROVE  /\ chan[i] \in [Chans(i) -> ChannelRecords]
               /\ Chans(i) \subseteq Nat \ {0}
               /\ \A x \in Chans(i) : Ends(chan[i][x])
    <3>1. plan.chans[i] \in Nat /\ chan[i] = [x \in 1..plan.chans[i] |-> NoChannel]
      BY <1>2, <1>3
    <3> QED BY <2>1, <3>1 DEF Chans
  <2> QED BY <1>2, <2>2 DEF ChannelsOK
<1>6. PICK empty : empty = <<>>
  OBVIOUS
<1>7. empty \in Seq(Cells)
  BY <1>6
<1>8. WiresOK
  BY <1>1, <1>6, <1>7 DEF WiresOK, Wires
<1>9. NodesOK
  BY <1>1 DEF NodesOK, Records, NoCircuit, CircuitStates
<1>10. ASSUME NEW k \in Circuits PROVE Origin(k)
  BY <1>1, Neighbours DEF Origin, NoCircuit
<1>11. ASSUME NEW k \in Circuits, NEW i \in Links PROVE LinkOf(k, i)
  <2>1. /\ node[k][i] = NoCircuit /\ node[k][i + 1] = NoCircuit
        /\ fwd[k][i] = empty /\ bwd[k][i] = empty /\ on[k][i] = 0
    BY <1>1, <1>6, Neighbours
  <2>2. ~Has(empty, "CREATE") /\ ~Has(empty, "DESTROY") /\ CreateFirst(empty)
    BY <1>6, NoCells
  <2>3. Link(NoCircuit, NoCircuit, empty, empty, 0, chan[i])
    BY <1>6, <2>2 DEF Link, NoCircuit, Alive, Kept
  <2> QED BY <2>1, <2>3 DEF LinkOf
<1> QED BY <1>4, <1>5, <1>8, <1>9, <1>10, <1>11 DEF IInv

LEMMA NextStep == IInv /\ [Next]_vars => IInv'
<1> SUFFICES ASSUME IInv, [Next]_vars PROVE IInv'
  OBVIOUS
<1>1. ASSUME Progress PROVE IInv'
  BY <1>1, CreateStep, OnionskinStep, RelayOutStep, DestroyFromBehindStep, CreatedStep,
     ExtendedStep, DestroyFromAheadStep, OpenStep, ClosedStep, ChannelMarkedStep, FarEndStep,
     ExpireStep, CloseStep, Zenon DEF Progress
<1>2. ASSUME Decision PROVE IInv'
  BY <1>2, EstablishStep, NewExitStep, UpgradeStep, Zenon DEF Decision
<1>3. ASSUME Fault PROVE IInv'
  BY <1>3, MarkStep, ChannelMarkedBadStep, ChannelMarkedStep, FarEndStep, Zenon DEF Fault
<1>4. ASSUME UNCHANGED vars PROVE IInv'
  <2>1. /\ node' = node /\ path' = path /\ fwd' = fwd /\ bwd' = bwd /\ on' = on /\ chan' = chan
    BY <1>4 DEF vars
  <2>2. ChannelsOK'
    BY <2>1 DEF IInv, ChannelsOK, Chans
  <2> QED BY <2>1, <2>2 DEF IInv, NodesOK, WiresOK, PathsOK, Origin, LinkOf
<1> QED BY <1>1, <1>2, <1>3, <1>4, Zenon DEF Next

(* Nobody keeps a half of a circuit that the node next to it has forgotten *)
(* unless the news is on its way, and whoever waits for a channel has one  *)
(* coming: circuit_about_to_free(), channel_closed(), circuit_n_chan_done. *)
THEOREM CircuitsAreNotOrphaned == Spec => []NobodyIsOrphaned
<1>1. IInv => NobodyIsOrphaned
  <2> SUFFICES ASSUME IInv, NEW k \in Circuits, NEW i \in Links
               PROVE  /\ Live(k, i) /\ node[k][i].n_chan =>
                           \/ Broken(k, i) \/ Has(fwd[k][i], "CREATE")
                           \/ node[k][i + 1].p_chan \/ Has(bwd[k][i], "DESTROY")
                      /\ Live(k, i + 1) =>
                           \/ Broken(k, i) \/ node[k][i].n_chan \/ Has(fwd[k][i], "DESTROY")
                      /\ k \in Pending(i) =>
                           \E x \in Chans(i) : /\ chan[i][x].near \in {"opening", "closing"}
                                               /\ chan[i][x].far = "none"
    BY Zenon DEF NobodyIsOrphaned
  <2>1. Link(node[k][i], node[k][i + 1], fwd[k][i], bwd[k][i], on[k][i], chan[i])
    BY Known
  <2>2. /\ Live(k, i) <=> Alive(node[k][i])
        /\ Live(k, i + 1) <=> Alive(node[k][i + 1])
        /\ Broken(k, i) <=> Cut(on[k][i], chan[i])
        /\ k \in Pending(i) <=> Alive(node[k][i]) /\ node[k][i].state = "chan_wait"
    BY DEF Live, Exists, Alive, Kept, Broken, Cut, Pending
  <2> QED BY <2>1, <2>2 DEF Link, Chans
<1> QED BY <1>1, InitStep, NextStep, PTL DEF Spec

-----------------------------------------------------------------------------
(* Origin and relays agree on the path.  A circuit's one question or answer *)
(* is at a place: on link j outwards ("fwd") or inwards ("bwd"), at relay j *)
(* ("at"), or nowhere ("none").                                             *)

AlarmAt(k, i) == Alarm(node[k][i], bwd[k][i], on[k][i], chan[i])

(* Trouble with a hop that the origin knows of, or with the one it adds,    *)
(* wherever the news of it is.                                              *)
Failed(k) ==
  \E i \in Links : i <= path[k].open /\ (AlarmAt(k, i) \/ Sick(node[k][i + 1]))

(* Cells that ask and answer nothing, and those of which one may.           *)
Quiet(w) == \A m \in 1..Len(w) : w[m].cmd = "DESTROY"
Single(w) == \A m, n \in 1..Len(w) : w[m].cmd # "DESTROY" /\ w[n].cmd # "DESTROY" => m = n
Asked(c) == Alive(c) /\ c.state \in {"onionskin_pending", "chan_wait"}

(* There is no question or answer but at this place.                        *)
AtMost(k, q, j) ==
  /\ \A i \in Links : /\ Single(fwd[k][i]) /\ Single(bwd[k][i])
                      /\ Quiet(fwd[k][i]) \/ (q = "fwd" /\ i = j)
                      /\ Quiet(bwd[k][i]) \/ (q = "bwd" /\ i = j)
  /\ \A r \in Relays : Asked(node[k][r]) => q = "at" /\ r = j

(* The one about hop n + 1 is at this place.                                *)
Where(k, q, j, n) ==
  \/ q = "none" /\ (n \in Links => on[k][n] = 0)
  \/ /\ n \in Links
     /\ \/ q = "fwd" /\ j = n /\ fwd[k][n] = <<Cell("CREATE")>>
        \/ q = "fwd" /\ j \in Links /\ j < n /\ fwd[k][j] = <<Extend(n)>> /\ on[k][n] = 0
        \/ q = "at" /\ j = n /\ n # 0 /\ node[k][n].state = "chan_wait"
        \/ /\ q = "at" /\ j = n + 1
           /\ Alive(node[k][n + 1]) /\ node[k][n + 1].state = "onionskin_pending"
        \/ /\ q = "bwd" /\ Alive(node[k][n + 1]) /\ node[k][n + 1].state = "open"
           /\ \/ j = n /\ bwd[k][n] = <<Cell("CREATED")>>
              \/ j \in Links /\ j < n /\ bwd[k][j] = <<Cell("EXTENDED")>>

(* The relays up to hop n have the circuit, and beyond hop n + 1 nobody     *)
(* has heard of it.                                                         *)
Reaches(k, n) ==
  /\ \A r \in Relays : r <= n => Alive(node[k][r]) /\ node[k][r].state \in {"open", "chan_wait"}
  /\ \A i \in Links : i > n => on[k][i] = 0

(* What the origin knows.                                                   *)
Phase(p, s) ==
  /\ p.len > 0
  /\ \/ p.awaiting /\ s = "building" /\ p.open < p.len
     \/ ~p.awaiting /\ s = "chan_wait" /\ p.open = 0
     \/ ~p.awaiting /\ s \in {"open", "guard_wait"} /\ p.open = p.len

Known1(k, q, j) ==
  /\ q = "none" <=> ~path[k].awaiting
  /\ AtMost(k, q, j)
  /\ Failed(k) \/ (Reaches(k, path[k].open) /\ Where(k, q, j, path[k].open))

PathOf(k) ==
  /\ path[k].open <= path[k].len
  /\ node[k][0].state = "none" =>
       path[k].open = 0 /\ ~path[k].awaiting /\ \A i \in Links : on[k][i] = 0
  /\ Alive(node[k][0]) =>
       /\ Phase(path[k], node[k][0].state)
       /\ \E q \in {"none", "fwd", "at", "bwd"}, j \in Nat : Known1(k, q, j)

PathInv == \A k \in Circuits : PathOf(k)

-----------------------------------------------------------------------------
(* Cells that ask or answer.                                               *)

LEMMA NoneAsks == Quiet(<<>>) /\ Single(<<>>)
  BY DEF Quiet, Single

LEMMA QuietSingle == \A w : Quiet(w) => Single(w)
  BY DEF Quiet, Single

LEMMA OneAsks ==
  ASSUME NEW c \in Cells
  PROVE  Single(<<c>>) /\ (c.cmd # "DESTROY" => ~Quiet(<<c>>))
<1>1. Len(<<c>>) = 1 /\ <<c>>[1] = c
  OBVIOUS
<1> QED BY <1>1 DEF Single, Quiet

(* The first cell is taken.                                                *)
LEMMA AskTaken ==
  ASSUME NEW w \in Seq(Cells), w # <<>>
  PROVE  /\ Single(w) => Single(Tail(w))
         /\ Quiet(w) => Quiet(Tail(w)) /\ Head(w).cmd = "DESTROY"
         /\ Single(w) /\ Head(w).cmd # "DESTROY" => Quiet(Tail(w))
<1> DEFINE r == Tail(w)
<1>1. /\ Len(r) = Len(w) - 1 /\ Len(w) \in Nat \ {0} /\ Head(w) = w[1]
      /\ \A n \in 1 .. Len(r) : r[n] = w[n + 1] /\ n + 1 \in 1 .. Len(w) /\ n + 1 # 1 /\ n \in Nat
      /\ 1 \in 1 .. Len(w)
  OBVIOUS
<1> HIDE DEF r
<1>2. Single(w) => Single(r)
  <2> SUFFICES ASSUME Single(w), NEW m \in 1 .. Len(r), NEW n \in 1 .. Len(r),
                      r[m].cmd # "DESTROY", r[n].cmd # "DESTROY" PROVE m = n
    BY DEF Single
  <2>1. m + 1 = n + 1
    BY <1>1 DEF Single
  <2> QED BY <1>1, <2>1
<1>3. Quiet(w) => Quiet(r) /\ Head(w).cmd = "DESTROY"
  BY <1>1 DEF Quiet
<1>4. ASSUME Single(w), Head(w).cmd # "DESTROY" PROVE Quiet(r)
  BY <1>1, <1>4 DEF Quiet, Single
<1> QED BY <1>2, <1>3, <1>4 DEF r

(* A cell is sent.                                                         *)
LEMMA AskSent ==
  ASSUME NEW w \in Seq(Cells), NEW c \in Cells
  PROVE  /\ Quiet(w) => Single(Append(w, c))
         /\ c.cmd = "DESTROY" => /\ Single(w) => Single(Append(w, c))
                                 /\ Quiet(w) => Quiet(Append(w, c))
<1> DEFINE r == Append(w, c)
<1>1. /\ Len(r) = Len(w) + 1 /\ Len(w) \in Nat /\ r[Len(w) + 1] = c
      /\ \A n \in 1 .. Len(r) : n # Len(w) + 1 => n \in 1 .. Len(w) /\ r[n] = w[n]
  OBVIOUS
<1> HIDE DEF r
<1>2. Quiet(w) => Single(r)
  BY <1>1 DEF Quiet, Single
<1>3. c.cmd = "DESTROY" => (Single(w) => Single(r)) /\ (Quiet(w) => Quiet(r))
  BY <1>1 DEF Quiet, Single
<1> QED BY <1>2, <1>3 DEF r

(* The cells of a circuit that is freed.                                   *)
LEMMA AskFreed ==
  ASSUME NEW w \in Seq(Cells), NEW linked, NEW sending, NEW keep,
         NEW r, r = circuit_about_to_free(w, linked, sending, keep)
  PROVE  (Single(w) => Single(r)) /\ (Quiet(w) => Quiet(r))
<1>1. PICK e : e = <<>>
  OBVIOUS
<1>2. PICK D : D = DESTROY
  OBVIOUS
<1>3. PICK v \in {w, e} : v = IF keep THEN w ELSE e
  OBVIOUS
<1>4. /\ e \in Seq(Cells) /\ Quiet(e) /\ Single(e) /\ D \in Cells /\ D.cmd = "DESTROY"
      /\ v \in Seq(Cells) /\ v \o <<>> = v /\ v \o <<D>> = Append(v, D)
      /\ (Single(w) => Single(v)) /\ (Quiet(w) => Quiet(v))
  <2>1. e \in Seq(Cells) /\ Quiet(e) /\ Single(e) /\ D \in Cells /\ D.cmd = "DESTROY"
    BY <1>1, <1>2, NoneAsks, CellKinds
  <2>2. v \in Seq(Cells) /\ (Single(w) => Single(v)) /\ (Quiet(w) => Quiet(v))
    BY <1>3, <2>1
  <2>3. v \o <<>> = v /\ v \o <<D>> = Append(v, D)
    BY <2>1, <2>2
  <2> QED BY <2>1, <2>2, <2>3
<1>5. r = w \/ r = v \o <<D>> \/ r = v \o <<>>
  <2>1. CASE ~linked
    BY <2>1 DEF circuit_about_to_free
  <2>2. CASE linked /\ sending
    BY <1>1, <1>2, <1>3, <2>2 DEF circuit_about_to_free
  <2>3. CASE linked /\ ~sending
    BY <1>1, <1>3, <2>3 DEF circuit_about_to_free
  <2> QED BY <2>1, <2>2, <2>3
<1>6. (Single(v) => Single(Append(v, D))) /\ (Quiet(v) => Quiet(Append(v, D)))
  BY <1>4, AskSent
<1>7. CASE r = v \o <<D>>
  <2>1. r = Append(v, D)
    BY <1>4, <1>7, Zenon
  <2> QED BY <1>4, <1>6, <2>1
<1>8. CASE r = v \o <<>>
  <2>1. r = v
    BY <1>4, <1>8, Zenon
  <2> QED BY <1>4, <2>1
<1> QED BY <1>5, <1>7, <1>8

(* Cells of which none asks, answers or destroys are none.                 *)
LEMMA QuietNone ==
  ASSUME NEW w \in Seq(Cells), Quiet(w), ~Has(w, "DESTROY")
  PROVE  w = <<>>
<1>1. Len(w) = 0
  BY DEF Quiet, Has
<1> QED BY <1>1

-----------------------------------------------------------------------------
(* News is not lost: it reaches the node that it is for, or the channel     *)
(* that carries it breaks.                                                  *)

NewsStay ==
  \A q \in Circuits :
    /\ \A r \in Nodes : Sick(node[q][r]) => Sick(node[q][r])'
    /\ \A i \in Links : AlarmAt(q, i) => AlarmAt(q, i)'

LEMMA AlarmKept ==
  ASSUME NEW c, NEW d, NEW F, NEW B, NEW x, NEW C, Link(c, d, F, B, x, C), Alarm(c, B, x, C),
         NEW e, NEW H, NEW y, NEW D,
         Sick(c) => Sick(e), c.n_chan => e.n_chan \/ Sick(e),
         x # 0 => y = x /\ (Cut(x, C) => Cut(x, D)),
         Has(B, "DESTROY") => Has(H, "DESTROY") \/ Sick(e) \/ (e.n_chan /\ Cut(y, D))
  PROVE  Alarm(e, H, y, D)
  BY DEF Alarm, Link

(* A node changes one circuit, and the channels stay as they are.          *)
LEMMA OneNews ==
  ASSUME IInv, NEW k \in Circuits, NEW r \in Nodes, NEW e,
         node' = [node EXCEPT ![k][r] = e],
         Sick(node[k][r]) => Sick(e), r \in Links /\ node[k][r].n_chan => e.n_chan \/ Sick(e),
         \A i \in Links, x \in Nat :
           x # 0 /\ x \in Chans(i) /\ Used(chan[i][x]) /\ Cut(x, chan[i]) => Cut(x, chan'[i]),
         \A q \in Circuits, i \in Links : on[q][i] = 0 \/ on'[q][i] = on[q][i],
         \A q \in Circuits, i \in Links :
           Has(bwd[q][i], "DESTROY") =>
             Has(bwd'[q][i], "DESTROY") \/ (q = k /\ i = r /\ Sick(e))
  PROVE  NewsStay
<1>1. /\ node'[k][r] = e
      /\ \A q \in Circuits, j \in Nodes : q # k \/ j # r => node'[q][j] = node[q][j]
  BY DEF IInv, NodesOK
<1>2. ASSUME NEW q \in Circuits, NEW j \in Nodes PROVE Sick(node[q][j]) => Sick(node'[q][j])
  BY <1>1
<1>3. ASSUME NEW q \in Circuits, NEW i \in Links, AlarmAt(q, i) PROVE AlarmAt(q, i)'
  <2>1. /\ Link(node[q][i], node[q][i + 1], fwd[q][i], bwd[q][i], on[q][i], chan[i])
        /\ on[q][i] \in Nat /\ i \in Nodes
    BY Known, Neighbours
  <2>2. Sick(node[q][i]) => Sick(node'[q][i])
    BY <1>2, <2>1
  <2>3. node[q][i].n_chan => node'[q][i].n_chan \/ Sick(node'[q][i])
    BY <1>1, <2>1
  <2>4. on[q][i] # 0 =>
          on'[q][i] = on[q][i] /\ (Cut(on[q][i], chan[i]) => Cut(on[q][i], chan'[i]))
    <3>1. on[q][i] # 0 => on[q][i] \in Chans(i) /\ Used(chan[i][on[q][i]])
      BY <2>1 DEF Link, Used, Chans
    <3> QED BY <2>1, <3>1
  <2>5. Has(bwd[q][i], "DESTROY") => Has(bwd'[q][i], "DESTROY") \/ Sick(node'[q][i])
    BY <1>1
  <2>6. Alarm(node[q][i], bwd[q][i], on[q][i], chan[i])
    BY <1>3 DEF AlarmAt
  <2>7. Alarm(node'[q][i], bwd'[q][i], on'[q][i], chan'[i])
    BY <2>1, <2>2, <2>3, <2>4, <2>5, <2>6, AlarmKept
  <2> QED BY <2>7 DEF AlarmAt
<1> QED BY <1>2, <1>3 DEF NewsStay

(* The same for the actions that send no cell back.                        *)
LEMMA NodeNews ==
  ASSUME IInv, NEW k \in Circuits, NEW r \in Nodes, NEW e,
         node' = [node EXCEPT ![k][r] = e], UNCHANGED <<bwd, on, chan>>,
         Sick(node[k][r]) => Sick(e), r \in Links /\ node[k][r].n_chan => e.n_chan \/ Sick(e)
  PROVE  NewsStay
<1>1. \A i \in Links, x \in Nat :
        x # 0 /\ x \in Chans(i) /\ Used(chan[i][x]) /\ Cut(x, chan[i]) => Cut(x, chan'[i])
  OBVIOUS
<1>2. \A q \in Circuits, i \in Links : on[q][i] = 0 \/ on'[q][i] = on[q][i]
  OBVIOUS
<1>3. \A q \in Circuits, i \in Links :
        Has(bwd[q][i], "DESTROY") =>
          Has(bwd'[q][i], "DESTROY") \/ (q = k /\ i = r /\ Sick(e))
  OBVIOUS
<1> QED BY <1>1, <1>2, <1>3, OneNews

LEMMA MarkNews ==
  ASSUME IInv, NEW k \in Circuits, NEW r \in Nodes, UNCHANGED <<bwd, on, chan>>,
         node' = [node EXCEPT ![k][r] = Marked(@)]
  PROVE  NewsStay
<1>1. PICK e : e = Marked(node[k][r])
  OBVIOUS
<1>2. node' = [node EXCEPT ![k][r] = e]
  BY <1>1
<1>3. e.state = node[k][r].state /\ e.n_chan = node[k][r].n_chan /\ e.marked
  BY <1>1, Known, MarkedAlike
<1>4. (Sick(node[k][r]) => Sick(e)) /\ (node[k][r].n_chan => e.n_chan \/ Sick(e))
  BY <1>3 DEF Sick, Kept
<1> QED BY <1>2, <1>4, NodeNews

(* Nothing happens at the nodes.                                           *)
LEMMA QuietNews ==
  ASSUME IInv, UNCHANGED <<node, bwd, on>>,
         \A i \in Links, x \in Nat :
           x # 0 /\ x \in Chans(i) /\ Used(chan[i][x]) /\ Cut(x, chan[i]) => Cut(x, chan'[i])
  PROVE  NewsStay
<1>1. ASSUME NEW q \in Circuits, NEW i \in Links, AlarmAt(q, i) PROVE AlarmAt(q, i)'
  <2>1. /\ Link(node[q][i], node[q][i + 1], fwd[q][i], bwd[q][i], on[q][i], chan[i])
        /\ on[q][i] \in Nat /\ Alarm(node[q][i], bwd[q][i], on[q][i], chan[i])
    BY <1>1, Known DEF AlarmAt
  <2>2. on[q][i] # 0 =>
          on'[q][i] = on[q][i] /\ (Cut(on[q][i], chan[i]) => Cut(on[q][i], chan'[i]))
    <3>1. on[q][i] # 0 => on[q][i] \in Chans(i) /\ Used(chan[i][on[q][i]])
      BY <2>1 DEF Link, Used, Chans
    <3> QED BY <2>1, <3>1
  <2>3. Alarm(node[q][i], bwd[q][i], on'[q][i], chan'[i])
    BY <2>1, <2>2, AlarmKept
  <2> QED BY <2>3 DEF AlarmAt
<1> QED BY <1>1 DEF NewsStay

(* A cell is sent back.                                                    *)
LEMMA NewsSentBack ==
  ASSUME NEW w \in Wires, NEW k \in Circuits, NEW i \in Links, NEW c \in Cells,
         NEW v, v = SentBack(w, k, i, c), NEW q \in Circuits, NEW j \in Links,
         Has(w[q][j], "DESTROY")
  PROVE  Has(v[q][j], "DESTROY")
<1>1. /\ v[k][i] \in {w[k][i], Append(w[k][i], c)}
      /\ \A p \in Circuits, l \in Links : p # k \/ l # i => v[p][l] = w[p][l]
  <2>1. SentTo(w, k, i, c, v, chan[i][on[k][i]].far)
    BY SentBackTo
  <2> QED BY <2>1 DEF SentTo
<1>2. w[k][i] \in Seq(Cells)
  BY DEF Wires
<1>3. Has(w[k][i], "DESTROY") => Has(Append(w[k][i], c), "DESTROY")
  BY <1>2, CellSent
<1> QED BY <1>1, <1>3

LEMMA CreateNews ==
  ASSUME IInv, NEW k \in Circuits, NEW r \in Relays, command_process_create_cell(k, r)
  PROVE  NewsStay
<1> DEFINE j == r - 1
<1>1. j \in Links /\ r \in Nodes
  BY Neighbours
<1>2. /\ FromBehind(k, r, "CREATE") /\ UNCHANGED <<on, chan>>
  BY DEF command_process_create_cell
<1>3. node[k][r].state = "none" /\ (r \in Links => ~node[k][r].n_chan)
  <2>1. /\ fwd[k][j] # <<>> /\ Head(fwd[k][j]).cmd = "CREATE" /\ fwd[k][j] \in Seq(Cells)
        /\ Link(node[k][j], node[k][r], fwd[k][j], bwd[k][j], on[k][j], chan[j])
        /\ r \in Links => Link(node[k][r], node[k][r + 1], fwd[k][r], bwd[k][r], on[k][r], chan[r])
    BY <1>1, <1>2, Known DEF FromBehind
  <2>2. Has(fwd[k][j], "CREATE")
    BY <2>1, CellTaken
  <2>3. node[k][r].state = "none"
    BY <2>1, <2>2 DEF Link
  <2> QED BY <2>1, <2>3 DEF Link
<1>4. PICK e : node' = [node EXCEPT ![k][r] = e]
  <2>1. CASE UNCHANGED node
    <3>1. node' = [node EXCEPT ![k][r] = node[k][r]]
      BY <1>1, <2>1 DEF IInv, NodesOK
    <3> QED BY <3>1
  <2> QED BY <2>1 DEF command_process_create_cell
<1>5. ~Sick(node[k][r])
  <2>1. node[k][r] \in Records
    BY <1>1, Known
  <2> QED BY <1>3 DEF Sick, Kept
<1>6. ASSUME NEW q \in Circuits, NEW i \in Links, Has(bwd[q][i], "DESTROY")
      PROVE  Has(bwd'[q][i], "DESTROY")
  <2>1. CASE bwd' = bwd
    BY <1>6, <2>1
  <2>2. CASE bwd' = SentBack(bwd, k, j, DESTROY)
    BY <1>1, <1>6, <2>2, CellKinds, NewsSentBack DEF IInv, WiresOK
  <2> QED BY <2>1, <2>2 DEF command_process_create_cell
<1>7. \A q \in Circuits, i \in Links : on[q][i] = 0 \/ on'[q][i] = on[q][i]
  BY <1>2
<1> QED BY <1>1, <1>2, <1>3, <1>4, <1>5, <1>6, <1>7, OneNews

(* What becomes of a circuit at a node.                                    *)
Settles(c, e) == (Sick(c) => Sick(e)) /\ (c.n_chan => e.n_chan \/ Sick(e))

LEMMA BackNews ==
  ASSUME IInv, NEW k \in Circuits, NEW r \in Nodes, NEW e,
         node' = [node EXCEPT ![k][r] = e], Settles(node[k][r], e), UNCHANGED <<on, chan>>,
         \A q \in Circuits, i \in Links : Has(bwd[q][i], "DESTROY") => Has(bwd'[q][i], "DESTROY")
  PROVE  NewsStay
<1>1. \A i \in Links, x \in Nat :
        x # 0 /\ x \in Chans(i) /\ Used(chan[i][x]) /\ Cut(x, chan[i]) => Cut(x, chan'[i])
  OBVIOUS
<1>2. \A q \in Circuits, i \in Links : on[q][i] = 0 \/ on'[q][i] = on[q][i]
  OBVIOUS
<1>3. \A q \in Circuits, i \in Links :
        Has(bwd[q][i], "DESTROY") =>
          Has(bwd'[q][i], "DESTROY") \/ (q = k /\ i = r /\ Sick(e))
  OBVIOUS
<1>4. /\ Sick(node[k][r]) => Sick(e)
      /\ r \in Links /\ node[k][r].n_chan => e.n_chan \/ Sick(e)
  BY DEF Settles
<1> QED BY <1>1, <1>2, <1>3, <1>4, OneNews

LEMMA OnionskinNews ==
  ASSUME IInv, NEW k \in Circuits, NEW r \in Relays, onionskin_answer(k, r)
  PROVE  NewsStay
<1> DEFINE j == r - 1
<1>1. j \in Links /\ r \in Nodes /\ node[k][r] \in Records
  BY Neighbours, Known
<1>2. Live(k, r) /\ UNCHANGED <<on, chan>>
  BY DEF onionskin_answer
<1>3. PICK e : node' = [node EXCEPT ![k][r] = e] /\ Settles(node[k][r], e)
  <2>1. CASE node' = [node EXCEPT ![k][r].state = "open"]
    <3>1. PICK e : e = [node[k][r] EXCEPT !.state = "open"]
      OBVIOUS
    <3>2. node' = [node EXCEPT ![k][r] = e]
      BY <1>1, <2>1, <3>1 DEF IInv, NodesOK
    <3>3. Settles(node[k][r], e)
      BY <1>1, <1>2, <3>1 DEF Settles, Sick, Kept, Records, Live, Exists
    <3> QED BY <3>2, <3>3
  <2>2. CASE node' = [node EXCEPT ![k][r] = Marked(@)]
    <3>1. PICK e : e = Marked(node[k][r])
      OBVIOUS
    <3>2. Settles(node[k][r], e)
      BY <1>1, <3>1, MarkedAlike DEF Settles, Sick, Alike
    <3> QED BY <2>2, <3>1, <3>2
  <2> QED BY <2>1, <2>2 DEF onionskin_answer
<1>4. ASSUME NEW q \in Circuits, NEW i \in Links, Has(bwd[q][i], "DESTROY")
      PROVE  Has(bwd'[q][i], "DESTROY")
  <2>1. CASE bwd' = bwd
    BY <1>4, <2>1
  <2>2. CASE bwd' = SentBack(bwd, k, j, Cell("CREATED"))
    <3>1. PICK cell \in Cells : cell = Cell("CREATED")
      BY CellKinds
    <3> QED BY <1>1, <1>4, <2>2, <3>1, NewsSentBack DEF IInv, WiresOK
  <2> QED BY <2>1, <2>2 DEF onionskin_answer
<1> QED BY <1>1, <1>2, <1>3, <1>4, BackNews

LEMMA DestroyFromBehindNews ==
  ASSUME IInv, NEW k \in Circuits, NEW r \in Relays, DestroyFromBehind(k, r)
  PROVE  NewsStay
<1>1. r \in Nodes /\ node[k][r] \in Records /\ NodesOK
  BY Neighbours, Known
<1>2. UNCHANGED <<bwd, on, chan>>
  BY DEF DestroyFromBehind
<1>3. PICK e : e = IF Live(k, r) THEN [Marked(node[k][r]) EXCEPT !.p_chan = FALSE]
                   ELSE node[k][r]
  OBVIOUS
<1>4. Settles(node[k][r], e)
  BY <1>1, <1>3 DEF Records, Kept, Live, Exists, Marked, Settles, Sick
<1>5. node' = [node EXCEPT ![k][r] = e]
  <2>1. CASE Live(k, r)
    BY <1>3, <2>1 DEF DestroyFromBehind
  <2>2. CASE ~Live(k, r)
    BY <1>1, <1>3, <2>2 DEF DestroyFromBehind, NodesOK
  <2> QED BY <2>1, <2>2
<1> QED BY <1>1, <1>2, <1>4, <1>5, NodeNews DEF Settles

LEMMA DestroyFromAheadNews ==
  ASSUME IInv, NEW k \in Circuits, NEW i \in Links, DestroyFromAhead(k, i)
  PROVE  NewsStay
<1>1. i \in Nodes /\ node[k][i] \in Records /\ NodesOK /\ bwd[k][i] \in Seq(Cells)
      /\ Link(node[k][i], node[k][i + 1], fwd[k][i], bwd[k][i], on[k][i], chan[i])
  BY Neighbours, Known
<1>2. FromAhead(k, i, "DESTROY") /\ bwd' = PoppedBwd(k, i) /\ UNCHANGED <<on, chan>>
  BY DEF DestroyFromAhead
<1>3. PICK e : e = IF Live(k, i) THEN [Marked(node[k][i]) EXCEPT !.n_chan = FALSE]
                   ELSE node[k][i]
  OBVIOUS
<1>4. Settles(node[k][i], e) /\ Sick(e)
  <2>1. node[k][i].state # "none"
    <3>1. bwd[k][i] # <<>>
      BY <1>2 DEF FromAhead
    <3> QED BY <1>1, <3>1 DEF Link
  <2> QED BY <1>1, <1>3, <2>1 DEF Records, Kept, Live, Exists, Marked, Settles, Sick
<1>5. node' = [node EXCEPT ![k][i] = e]
  <2>1. CASE Live(k, i)
    BY <1>3, <2>1 DEF DestroyFromAhead
  <2>2. CASE ~Live(k, i)
    BY <1>1, <1>3, <2>2 DEF DestroyFromAhead, NodesOK
  <2> QED BY <2>1, <2>2
<1>6. \A q \in Circuits, j \in Links : q # k \/ j # i => bwd'[q][j] = bwd[q][j]
  BY <1>2, TakenFromAhead
<1>7. \A q \in Circuits, j \in Links :
        Has(bwd[q][j], "DESTROY") =>
          Has(bwd'[q][j], "DESTROY") \/ (q = k /\ j = i /\ Sick(e))
  BY <1>4, <1>6
<1>8. \A q \in Circuits, j \in Links : on[q][j] = 0 \/ on'[q][j] = on[q][j]
  BY <1>2
<1> QED BY <1>1, <1>2, <1>4, <1>5, <1>7, <1>8, OneNews DEF Settles

(* The origin asks the next hop, or is done.                               *)
LEMMA OriginSettles ==
  ASSUME IInv, NEW k \in Circuits, Live(k, 0), NEW p,
         circuit_send_next_onion_skin(k, p)
  PROVE  \E e : /\ node' = [node EXCEPT ![k][0] = e] /\ Settles(node[k][0], e)
                /\ e.state \in {"open", "guard_wait", "building"} /\ ~e.marked
<1>1. 0 \in Nodes /\ node[k][0] \in Records /\ NodesOK
  BY Neighbours, Known
<1>2. PICK usable \in {"open", "guard_wait", "building"} :
        node' = [node EXCEPT ![k][0].state = usable]
  BY DEF circuit_send_next_onion_skin
<1>3. PICK e : e = [node[k][0] EXCEPT !.state = usable]
  OBVIOUS
<1>4. node' = [node EXCEPT ![k][0] = e]
  BY <1>1, <1>2, <1>3 DEF NodesOK
<1>5. Settles(node[k][0], e) /\ e.state = usable /\ ~e.marked
  BY <1>1, <1>3 DEF Settles, Sick, Kept, Records, Live, Exists
<1> QED BY <1>4, <1>5

LEMMA NewExitNews ==
  ASSUME IInv, NEW k \in Circuits, circuit_extend_to_new_exit(k)
  PROVE  NewsStay
<1>1. Live(k, 0) /\ UNCHANGED <<bwd, on, chan>>
  BY DEF circuit_extend_to_new_exit
<1>2. PICK p : circuit_send_next_onion_skin(k, p)
  BY DEF circuit_extend_to_new_exit
<1>3. PICK e : node' = [node EXCEPT ![k][0] = e] /\ Settles(node[k][0], e)
  BY <1>1, <1>2, OriginSettles
<1> QED BY <1>1, <1>3, NodeNews, Neighbours DEF Settles

LEMMA UpgradeNews ==
  ASSUME IInv, NEW k \in Circuits, circuit_upgrade_circuits_from_guard_wait(k)
  PROVE  NewsStay
<1>1. /\ 0 \in Nodes /\ node[k][0] \in Records /\ Live(k, 0) /\ NodesOK
      /\ UNCHANGED <<path, fwd, bwd, on, chan>>
  BY Known, Neighbours DEF circuit_upgrade_circuits_from_guard_wait
<1>2. PICK e : e = [node[k][0] EXCEPT !.state = "open"]
  OBVIOUS
<1>3. node' = [node EXCEPT ![k][0] = e]
  BY <1>1, <1>2 DEF circuit_upgrade_circuits_from_guard_wait, NodesOK
<1>4. Settles(node[k][0], e)
  BY <1>1, <1>2 DEF Records, Settles, Sick, Kept, Live, Exists
<1> QED BY <1>1, <1>3, <1>4, NodeNews DEF Settles

LEMMA AnswerNews ==
  ASSUME IInv, NEW k \in Circuits, NEW i \in Links, NEW cmd \in {"CREATED", "EXTENDED"},
         Answer(k, i, cmd)
  PROVE  NewsStay
<1>1. /\ i \in Nodes /\ 0 \in Nodes /\ node[k][0] \in Records /\ NodesOK
      /\ bwd[k][i] \in Seq(Cells) /\ (i # 0 => i - 1 \in Links)
  BY Neighbours, Known
<1>2. FromAhead(k, i, cmd) /\ UNCHANGED <<on, chan>>
  BY DEF Answer
<1>3. PICK w : w = PoppedBwd(k, i)
  OBVIOUS
<1>4. ASSUME NEW q \in Circuits, NEW j \in Links, Has(bwd[q][j], "DESTROY")
      PROVE  Has(w[q][j], "DESTROY")
  <2>1. /\ w[k][i] = Tail(bwd[k][i])
        /\ \A p \in Circuits, l \in Links : p # k \/ l # i => w[p][l] = bwd[p][l]
    BY <1>2, <1>3, TakenFromAhead
  <2>2. bwd[k][i] # <<>> /\ Head(bwd[k][i]).cmd = cmd
    BY <1>2 DEF FromAhead
  <2>3. Has(bwd[k][i], "DESTROY") => Has(Tail(bwd[k][i]), "DESTROY")
    BY <1>1, <2>2, CellTaken
  <2> QED BY <1>4, <2>1, <2>3
<1>5. ASSUME NEW q \in Circuits, NEW j \in Links, Has(bwd[q][j], "DESTROY")
      PROVE  Has(bwd'[q][j], "DESTROY")
  <2>1. CASE bwd' = w
    BY <1>4, <1>5, <2>1
  <2>2. CASE i # 0 /\ bwd' = SentBack(w, k, i - 1, Cell("EXTENDED"))
    <3>1. PICK cell \in Cells : cell = Cell("EXTENDED")
      BY CellKinds
    <3>2. w \in Wires
      BY <1>2, <1>3, TakenFromAhead
    <3> QED BY <1>1, <1>4, <1>5, <2>2, <3>1, <3>2, NewsSentBack
  <2> QED BY <1>3, <2>1, <2>2 DEF Answer
<1>6. PICK r \in Nodes : \E e : node' = [node EXCEPT ![k][r] = e] /\ Settles(node[k][r], e)
  <2>1. CASE UNCHANGED node
    <3>1. node' = [node EXCEPT ![k][0] = node[k][0]] /\ Settles(node[k][0], node[k][0])
      BY <1>1, <2>1 DEF NodesOK, Settles
    <3> QED BY <1>1, <3>1
  <2>2. CASE Live(k, 0) /\ HopAnswered(k)
    <3>1. CASE \E p : circuit_send_next_onion_skin(k, p)
      <4>1. PICK p : circuit_send_next_onion_skin(k, p)
        BY <3>1
      <4> QED BY <1>1, <2>2, <4>1, OriginSettles
    <3>2. CASE node' = [node EXCEPT ![k][0] = Marked(@)]
      <4>1. PICK e : e = Marked(node[k][0])
        OBVIOUS
      <4>2. Settles(node[k][0], e)
        BY <1>1, <4>1, MarkedAlike DEF Settles, Sick, Alike
      <4> QED BY <1>1, <3>2, <4>1, <4>2
    <3> QED BY <2>2, <3>1, <3>2 DEF HopAnswered
  <2> QED BY <2>1, <2>2 DEF Answer
<1>7. PICK e : node' = [node EXCEPT ![k][r] = e] /\ Settles(node[k][r], e)
  BY <1>6
<1> QED BY <1>2, <1>5, <1>7, BackNews

-----------------------------------------------------------------------------
(* A channel that is broken stays broken.                                  *)
StayCut ==
  \A j \in Links, y \in Nat :
    y # 0 /\ y \in Chans(j) /\ Used(chan[j][y]) /\ Cut(y, chan[j]) => Cut(y, chan'[j])

LEMMA CutStays ==
  ASSUME ChannelsOK, NEW i \in Links, NEW x \in Chans(i), NEW g, Moves(chan[i][x], g),
         chan' = ChannelPutIn(i, x, g)
  PROVE  StayCut
<1>1. /\ chan'[i][x] = g
      /\ \A j \in Links : \A y \in Chans(j) : j # i \/ y # x => chan'[j][y] = chan[j][y]
  BY ChannelPut
<1> QED BY <1>1 DEF StayCut, Moves, Cut

(* Many circuits change.                                                   *)
LEMMA ManyNews ==
  ASSUME IInv, StayCut,
         \A q \in Circuits, j \in Nodes : Settles(node[q][j], node'[q][j]),
         \A q \in Circuits, j \in Links : on[q][j] = 0 \/ on'[q][j] = on[q][j],
         \A q \in Circuits, j \in Links :
           Has(bwd[q][j], "DESTROY") => Has(bwd'[q][j], "DESTROY") \/ Sick(node'[q][j])
  PROVE  NewsStay
<1>1. ASSUME NEW q \in Circuits, NEW j \in Nodes PROVE Sick(node[q][j]) => Sick(node'[q][j])
  BY DEF Settles
<1>2. ASSUME NEW q \in Circuits, NEW i \in Links, AlarmAt(q, i) PROVE AlarmAt(q, i)'
  <2>1. /\ Link(node[q][i], node[q][i + 1], fwd[q][i], bwd[q][i], on[q][i], chan[i])
        /\ on[q][i] \in Nat /\ i \in Nodes
    BY Known, Neighbours
  <2>2. /\ Sick(node[q][i]) => Sick(node'[q][i])
        /\ node[q][i].n_chan => node'[q][i].n_chan \/ Sick(node'[q][i])
    BY <2>1 DEF Settles
  <2>3. on[q][i] # 0 =>
          on'[q][i] = on[q][i] /\ (Cut(on[q][i], chan[i]) => Cut(on[q][i], chan'[i]))
    <3>1. on[q][i] # 0 => on[q][i] \in Chans(i) /\ Used(chan[i][on[q][i]])
      BY <2>1 DEF Link, Used, Chans
    <3> QED BY <2>1, <3>1 DEF StayCut
  <2>4. Has(bwd[q][i], "DESTROY") => Has(bwd'[q][i], "DESTROY") \/ Sick(node'[q][i])
    OBVIOUS
  <2>5. Alarm(node[q][i], bwd[q][i], on[q][i], chan[i])
    BY <1>2 DEF AlarmAt
  <2>6. Alarm(node'[q][i], bwd'[q][i], on'[q][i], chan'[i])
    BY <2>1, <2>2, <2>3, <2>4, <2>5, AlarmKept
  <2> QED BY <2>6 DEF AlarmAt
<1> QED BY <1>1, <1>2 DEF NewsStay

LEMMA MarkedSettles ==
  ASSUME NEW c \in Records, NEW e, e = Marked(c)
  PROVE  Settles(c, e)
  BY MarkedAlike DEF Settles, Sick, Alike

LEMMA ChannelMarkedNews ==
  ASSUME IInv, NEW i \in Links, NEW x \in Chans(i), channel_mark_for_close(i, x)
  PROVE  NewsStay
<1>1. ChannelsOK
  BY DEF IInv
<1>2. chan[i][x] \in ChannelRecords /\ Ends(chan[i][x])
  BY <1>1 DEF ChannelsOK
<1>3. /\ chan[i][x].near \in {"opening", "open"}
      /\ chan' = [chan EXCEPT ![i][x].near = "closing"]
      /\ UNCHANGED <<node, path, fwd, bwd, on>>
  BY DEF channel_mark_for_close
<1>4. PICK g : g = [chan[i][x] EXCEPT !.near = "closing"]
  OBVIOUS
<1>5. chan' = ChannelPutIn(i, x, g)
  BY <1>3, <1>4 DEF ChannelPutIn
<1>6. Moves(chan[i][x], g)
  BY <1>2, <1>3, <1>4 DEF Moves, Used, Ends, ChannelRecords
<1>7. StayCut
  BY <1>1, <1>5, <1>6, CutStays
<1> QED BY <1>3, <1>7, QuietNews DEF StayCut

LEMMA ChannelMarkedBadNews ==
  ASSUME IInv, NEW i \in Links, NEW x \in Chans(i), channel_mark_bad_for_new_circs(i, x)
  PROVE  NewsStay
<1>1. ChannelsOK
  BY DEF IInv
<1>2. chan[i][x] \in ChannelRecords /\ Ends(chan[i][x])
  BY <1>1 DEF ChannelsOK
<1>3. /\ chan' = [chan EXCEPT ![i][x].bad = TRUE]
      /\ UNCHANGED <<node, path, fwd, bwd, on>>
  BY DEF channel_mark_bad_for_new_circs
<1>4. PICK g : g = [chan[i][x] EXCEPT !.bad = TRUE]
  OBVIOUS
<1>5. chan' = ChannelPutIn(i, x, g)
  BY <1>3, <1>4 DEF ChannelPutIn
<1>6. Moves(chan[i][x], g)
  BY <1>2, <1>4 DEF Moves, Used, Ends, ChannelRecords
<1>7. StayCut
  BY <1>1, <1>5, <1>6, CutStays
<1> QED BY <1>3, <1>7, QuietNews DEF StayCut

LEMMA OpenNews ==
  ASSUME IInv, NEW i \in Links, NEW x \in Chans(i), channel_do_open_actions(i, x)
  PROVE  NewsStay
<1>1. /\ ChannelsOK /\ i \in Nodes
      /\ \A q \in Circuits, j \in Nodes : node[q][j] \in Records
  BY Known, Neighbours DEF IInv
<1>2. /\ chan[i][x].near = "opening" /\ UNCHANGED bwd
      /\ chan' = [chan EXCEPT ![i][x].near = "open", ![i][x].far = "open"]
  BY DEF channel_do_open_actions
<1>3. PICK served \in SUBSET Pending(i) : Opened(i, x, served)
  BY OpenEffects
<1>4. PICK g : g = [chan[i][x] EXCEPT !.near = "open", !.far = "open"]
  OBVIOUS
<1>5. chan' = ChannelPutIn(i, x, g) /\ Moves(chan[i][x], g)
  <2>1. chan[i][x] \in ChannelRecords
    BY <1>1 DEF ChannelsOK
  <2>2. chan' = ChannelPutIn(i, x, g)
    BY <1>1, <1>2, <1>4 DEF ChannelPutIn, ChannelsOK
  <2> QED BY <1>2, <1>4, <2>1, <2>2 DEF Moves, Used, Ends, ChannelRecords
<1>6. StayCut
  BY <1>1, <1>5, CutStays
<1>7. \A q \in served : Alive(node[q][i]) /\ node[q][i].state = "chan_wait"
  BY DEF Pending, Live, Exists, Alive, Kept
<1>8. ASSUME NEW q \in Circuits, NEW j \in Nodes PROVE Settles(node[q][j], node'[q][j])
  <2>1. CASE j # i
    <3>1. node'[q][j] = node[q][j]
      BY <1>3, <2>1 DEF Opened
    <3> QED BY <3>1 DEF Settles
  <2>2. CASE j = i /\ q \in served
    <3>1. node'[q][i] = Delivered(node[q][i], i) /\ node[q][i] \in Records
      BY <1>1, <1>3, <2>2 DEF Opened
    <3>2. node'[q][i].n_chan
      BY <3>1 DEF Delivered, Records
    <3>3. ~Sick(node[q][i])
      BY <1>7, <2>2 DEF Sick, Alive
    <3> QED BY <2>2, <3>2, <3>3 DEF Settles
  <2>3. CASE j = i /\ q \in Pending(i) \ served
    <3>1. node'[q][i] = Marked(node[q][i])
      BY <1>3, <2>3 DEF Opened
    <3> QED BY <1>1, <2>3, <3>1, MarkedSettles
  <2>4. CASE j = i /\ q \notin Pending(i)
    <3>1. node'[q][j] = node[q][j]
      BY <1>3, <2>4 DEF Opened
    <3> QED BY <3>1 DEF Settles
  <2> QED BY <2>1, <2>2, <2>3, <2>4
<1>9. ASSUME NEW q \in Circuits, NEW j \in Links PROVE on[q][j] = 0 \/ on'[q][j] = on[q][j]
  <2>1. CASE q \in served /\ j = i
    <3>1. /\ Link(node[q][i], node[q][i + 1], fwd[q][i], bwd[q][i], on[q][i], chan[i])
          /\ Alive(node[q][i]) /\ node[q][i].state = "chan_wait"
      BY <1>7, <2>1, Known
    <3> QED BY <2>1, <3>1 DEF Link
  <2>2. CASE q \notin served \/ j # i
    BY <1>3, <2>2 DEF Opened
  <2> QED BY <2>1, <2>2
<1> QED BY <1>2, <1>6, <1>8, <1>9, ManyNews

LEMMA ClosedNews ==
  ASSUME IInv, NEW i \in Links, NEW x \in Chans(i), channel_closed(i, x)
  PROVE  NewsStay
<1>1. ChannelsOK /\ i \in Nodes
  BY Neighbours DEF IInv
<1>2. /\ chan[i][x].near = "closing" /\ UNCHANGED <<path, fwd, on>>
      /\ chan' = [chan EXCEPT ![i][x] =
                    IF @.far = "open" THEN [@ EXCEPT !.near = "closed"] ELSE Gone]
      /\ Closed(i, x)
  BY ClosedEffects, Zenon DEF channel_closed
<1>3. PICK g : g = IF chan[i][x].far = "open" THEN [chan[i][x] EXCEPT !.near = "closed"] ELSE Gone
  OBVIOUS
<1>4. chan' = ChannelPutIn(i, x, g) /\ Moves(chan[i][x], g)
  <2>1. chan[i][x] \in ChannelRecords /\ Ends(chan[i][x])
    BY <1>1 DEF ChannelsOK
  <2>2. chan' = ChannelPutIn(i, x, g)
    BY <1>2, <1>3 DEF ChannelPutIn
  <2> QED BY <1>2, <1>3, <2>1, <2>2 DEF Moves, Used, Ends, ChannelRecords, Gone, NoChannel
<1>5. StayCut
  BY <1>1, <1>4, CutStays
<1>6. ASSUME NEW q \in Circuits
      PROVE  /\ Settles(node[q][i], node'[q][i])
             /\ on[q][i] = x => Sick(node'[q][i])
  <2>1. /\ Link(node[q][i], node[q][i + 1], fwd[q][i], bwd[q][i], on[q][i], chan[i])
        /\ x # 0
    BY <1>1, Known DEF ChannelsOK
  <2>2. /\ node'[q][i].state = node[q][i].state
        /\ node[q][i].marked => node'[q][i].marked
        /\ node[q][i].n_chan /\ ~node'[q][i].n_chan => node'[q][i].marked
        /\ on[q][i] # x => node'[q][i].n_chan = node[q][i].n_chan
        /\ node'[q][i] = node[q][i] \/ node'[q][i].marked
    BY <1>2 DEF Closed
  <2>3. node[q][i].n_chan => node[q][i].state # "none"
    BY <2>1 DEF Link
  <2>4. Settles(node[q][i], node'[q][i])
    BY <2>2, <2>3 DEF Settles, Sick, Kept
  <2>5. ASSUME on[q][i] = x PROVE Sick(node'[q][i])
    <3>1. node[q][i].state # "none" /\ ~(Alive(node[q][i]) /\ ~node[q][i].n_chan)
      BY <2>1, <2>5 DEF Link
    <3>2. CASE node[q][i].n_chan /\ node'[q][i].n_chan
      <4>1. FALSE
        BY <1>2, <2>5, <3>2 DEF Closed
      <4> QED BY <4>1
    <3>3. CASE ~(node[q][i].n_chan /\ node'[q][i].n_chan)
      BY <2>2, <3>1, <3>3 DEF Sick, Kept, Alive
    <3> QED BY <3>2, <3>3
  <2> QED BY <2>4, <2>5
<1>7. ASSUME NEW q \in Circuits, NEW j \in Nodes PROVE Settles(node[q][j], node'[q][j])
  <2>1. CASE j = i
    BY <1>6, <2>1
  <2>2. CASE j # i
    <3>1. node'[q][j] = node[q][j]
      BY <1>2, <2>2 DEF Closed
    <3> QED BY <3>1 DEF Settles
  <2> QED BY <2>1, <2>2
<1>8. ASSUME NEW q \in Circuits, NEW j \in Links, Has(bwd[q][j], "DESTROY")
      PROVE  Has(bwd'[q][j], "DESTROY") \/ Sick(node'[q][j])
  <2>1. CASE on[q][i] = x /\ j = i
    BY <1>6, <2>1
  <2>2. CASE on[q][i] # x \/ j # i
    BY <1>2, <1>8, <2>2 DEF Closed
  <2> QED BY <2>1, <2>2
<1>9. \A q \in Circuits, j \in Links : on[q][j] = 0 \/ on'[q][j] = on[q][j]
  BY <1>2
<1> QED BY <1>5, <1>7, <1>8, <1>9, ManyNews

LEMMA FarEndNews ==
  ASSUME IInv, NEW i \in Links, NEW x \in Chans(i), FarEndCloses(i, x)
  PROVE  NewsStay
<1> DEFINE r == i + 1
<1>1. ChannelsOK /\ r \in Nodes
  BY Neighbours DEF IInv
<1>2. /\ chan[i][x].far = "open" /\ UNCHANGED <<path, bwd, on>>
      /\ chan' = [chan EXCEPT ![i][x] =
                    IF @.near = "closed" THEN Gone ELSE [@ EXCEPT !.far = "closed"]]
      /\ FarClosed(i, x, r)
  BY FarEndEffects, Zenon DEF FarEndCloses
<1> HIDE DEF r
<1>3. PICK g : g = IF chan[i][x].near = "closed" THEN Gone ELSE [chan[i][x] EXCEPT !.far = "closed"]
  OBVIOUS
<1>4. chan' = ChannelPutIn(i, x, g) /\ Moves(chan[i][x], g)
  <2>1. chan[i][x] \in ChannelRecords /\ Ends(chan[i][x])
    BY <1>1 DEF ChannelsOK
  <2>2. chan' = ChannelPutIn(i, x, g)
    BY <1>2, <1>3 DEF ChannelPutIn
  <2> QED BY <1>2, <1>3, <2>1, <2>2 DEF Moves, Used, Ends, ChannelRecords, Gone, NoChannel
<1>5. StayCut
  BY <1>1, <1>4, CutStays
<1>6. ASSUME NEW q \in Circuits, NEW j \in Nodes PROVE Settles(node[q][j], node'[q][j])
  <2>1. CASE j = r
    <3>1. /\ node'[q][r].state = node[q][r].state
          /\ node'[q][r].n_chan = node[q][r].n_chan
          /\ node[q][r].marked => node'[q][r].marked
      BY <1>2 DEF FarClosed
    <3> QED BY <2>1, <3>1 DEF Settles, Sick, Kept
  <2>2. CASE j # r
    <3>1. node'[q][j] = node[q][j]
      BY <1>2, <2>2 DEF FarClosed
    <3> QED BY <3>1 DEF Settles
  <2> QED BY <2>1, <2>2
<1>7. \A q \in Circuits, j \in Links : on[q][j] = 0 \/ on'[q][j] = on[q][j]
  BY <1>2
<1> QED BY <1>2, <1>5, <1>6, <1>7, ManyNews

LEMMA CloseNews ==
  ASSUME IInv, NEW i \in Nodes, circuit_close_all_marked(i)
  PROVE  NewsStay
<1>1. /\ ChannelsOK /\ 0 \in Links /\ Freed(i) /\ UNCHANGED on
      /\ \A q \in Circuits, j \in Nodes : node[q][j] \in Records
      /\ i > 0 => i - 1 \in Links
  <2>1. i > 0 => i - 1 \in Links
    <3>1. MaxLen \in Nat
      BY Neighbours
    <3> QED BY <3>1 DEF Nodes, Links
  <2>2. \A q \in Circuits, j \in Nodes : node[q][j] \in Records
    BY Known
  <2>3. UNCHANGED on
    BY Zenon DEF circuit_close_all_marked
  <2> QED BY <2>1, <2>2, <2>3, CloseEffects, Neighbours DEF IInv
<1>2. PICK G : chan' = [chan EXCEPT ![0] = [x \in Chans(0) |->
                            [chan[0][x] EXCEPT !.bad = chan[0][x].bad \/ x \in G]]]
  <2>1. PICK G : G = {x \in Chans(0) : i = 0 /\ \E k \in Doomed(i) : circuit_build_failed(k, x)}
    OBVIOUS
  <2>2. chan' = [chan EXCEPT ![0] = [x \in Chans(0) |->
                     [chan[0][x] EXCEPT !.bad =
                        @ \/ (i = 0 /\ \E k \in Doomed(i) : circuit_build_failed(k, x))]]]
    BY Zenon DEF circuit_close_all_marked, Doomed
  <2>3. \A x \in Chans(0) :
          (i = 0 /\ \E k \in Doomed(i) : circuit_build_failed(k, x)) = (x \in G)
    BY <2>1
  <2> QED BY <2>2, <2>3
<1>3. StayCut
  <2>1. ASSUME NEW j \in Links, NEW y \in Chans(j)
        PROVE  chan'[j][y].near = chan[j][y].near /\ chan'[j][y].far = chan[j][y].far
    <3>1. chan = [l \in Links |-> chan[l]] /\ chan[j][y] \in ChannelRecords
      BY <1>1 DEF ChannelsOK
    <3>2. CASE j = 0
      <4>1. chan'[0] = [x \in Chans(0) |->
                          [chan[0][x] EXCEPT !.bad = chan[0][x].bad \/ x \in G]]
        BY <1>1, <1>2, <3>1
      <4>2. chan'[0][y] = [chan[0][y] EXCEPT !.bad = chan[0][y].bad \/ y \in G]
        BY <3>2, <4>1
      <4> QED BY <3>1, <3>2, <4>2 DEF ChannelRecords
    <3>3. CASE j # 0
      BY <1>1, <1>2, <3>1, <3>3
    <3> QED BY <3>2, <3>3
  <2> QED BY <2>1 DEF StayCut, Cut
<1>4. ASSUME NEW q \in Circuits, NEW j \in Nodes PROVE Settles(node[q][j], node'[q][j])
  <2>1. CASE j = i /\ q \in Doomed(i)
    <3>1. node'[q][j].state = "freed"
      BY <1>1, <2>1 DEF Freed, NoCircuit
    <3> QED BY <3>1 DEF Settles, Sick
  <2>2. CASE j # i \/ q \notin Doomed(i)
    <3>1. node'[q][j] = node[q][j]
      BY <1>1, <2>2 DEF Freed
    <3> QED BY <3>1 DEF Settles
  <2> QED BY <2>1, <2>2
<1>5. ASSUME NEW q \in Circuits, NEW j \in Links, Has(bwd[q][j], "DESTROY")
      PROVE  Has(bwd'[q][j], "DESTROY")
  <2>1. CASE q \notin Doomed(i) \/ j # i - 1
    BY <1>1, <1>5, <2>1 DEF Freed
  <2>2. CASE q \in Doomed(i) /\ j = i - 1
    <3>1. i > 0
      BY <2>2 DEF Nodes, Links
    <3>2. bwd[q][j] \in Seq(Cells) /\ node[q][i].p_chan \in BOOLEAN
      BY <1>1, Known DEF Records
    <3>3. PICK p \in BOOLEAN : p = node[q][i].p_chan
      BY <3>2
    <3>4. FreedCells(bwd[q][j], p, p, bwd'[q][j])
      BY <1>1, <2>2, <3>1, <3>3 DEF Freed
    <3>5. (p => Has(bwd'[q][j], "DESTROY")) /\ (~p => bwd'[q][j] = bwd[q][j])
      BY <3>2, <3>4, FreedAre
    <3> QED BY <1>5, <3>5
  <2> QED BY <2>1, <2>2
<1>6. \A q \in Circuits, j \in Links : on[q][j] = 0 \/ on'[q][j] = on[q][j]
  BY <1>1
<1> QED BY <1>3, <1>4, <1>5, <1>6, ManyNews

(* A circuit asks for a next hop.                                          *)
LEMMA ConnectNews ==
  ASSUME IInv, NEW k \in Circuits, NEW i \in Links, NEW w, Connect(k, i, w), UNCHANGED bwd,
         node[k][i].state = "none" \/ (Live(k, i) /\ ~node[k][i].n_chan)
  PROVE  NewsStay
<1>1. /\ i \in Nodes /\ node[k][i] \in Records /\ NodesOK /\ WiresOK /\ ChannelsOK
      /\ Link(node[k][i], node[k][i + 1], fwd[k][i], bwd[k][i], on[k][i], chan[i])
  BY Known, Neighbours
<1>2. /\ ~Sick(node[k][i]) /\ ~node[k][i].n_chan /\ on[k][i] = 0
  BY <1>1 DEF Sick, Kept, Alive, Live, Exists, Link
<1>3. PICK e : node' = [node EXCEPT ![k][i] = e]
  BY Zenon DEF Connect
<1>4. Settles(node[k][i], e)
  BY <1>2 DEF Settles
<1>5. \A q \in Circuits, j \in Links : on[q][j] = 0 \/ on'[q][j] = on[q][j]
  <2>1. PICK x : on' = [on EXCEPT ![k][i] = x] \/ on' = on
    BY Zenon DEF Connect
  <2>2. on \in [Circuits -> [Links -> Nat]]
    BY <1>1 DEF WiresOK
  <2> QED BY <1>2, <2>1, <2>2
<1>6. StayCut
  <2>1. CASE UNCHANGED chan
    BY <2>1 DEF StayCut, Chans
  <2>2. CASE channel_connect_for_circuit(i, k)
    <3>1. PICK x \in Chans(i) :
            /\ chan[i][x].near = "none"
            /\ chan' = [chan EXCEPT ![i][x].near = "opening", ![i][x].addr = Addr[k]]
      BY <2>2, Zenon DEF channel_connect_for_circuit
    <3>2. PICK g : g = [chan[i][x] EXCEPT !.near = "opening", !.addr = Addr[k]]
      OBVIOUS
    <3>3. chan[i][x] \in ChannelRecords /\ Ends(chan[i][x])
      BY <1>1 DEF ChannelsOK
    <3>4. chan' = ChannelPutIn(i, x, g)
      BY <1>1, <3>1, <3>2 DEF ChannelPutIn, ChannelsOK
    <3>5. Moves(chan[i][x], g)
      BY <3>1, <3>2, <3>3 DEF Moves, Used, Ends, ChannelRecords
    <3> QED BY <1>1, <3>4, <3>5, CutStays
  <2> QED BY <2>1, <2>2, Zenon DEF Connect
<1>7. \A q \in Circuits, j \in Links :
        Has(bwd[q][j], "DESTROY") =>
          Has(bwd'[q][j], "DESTROY") \/ (q = k /\ j = i /\ Sick(e))
  OBVIOUS
<1>8. /\ Sick(node[k][i]) => Sick(e)
      /\ i \in Links /\ node[k][i].n_chan => e.n_chan \/ Sick(e)
  BY <1>4 DEF Settles
<1> QED BY <1>1, <1>3, <1>5, <1>6, <1>7, <1>8, OneNews DEF StayCut

LEMMA RelayOutNews ==
  ASSUME IInv, NEW k \in Circuits, NEW r \in Relays, command_process_relay_cell_out(k, r)
  PROVE  NewsStay
<1>1. /\ r \in Nodes /\ FromBehind(k, r, "EXTEND") /\ UNCHANGED bwd
      /\ r - 1 \in Links /\ fwd[k][r - 1] \in Seq(Cells)
  BY Known, Neighbours DEF command_process_relay_cell_out
<1>2. PICK cell \in Cells : cell = Head(fwd[k][r - 1])
  BY <1>1, CellTaken DEF FromBehind
<1>3. \/ UNCHANGED <<node, on, chan>>
      \/ node' = [node EXCEPT ![k][r] = Marked(@)] /\ UNCHANGED <<on, chan>>
      \/ /\ Live(k, r) /\ cell.hop = r /\ Connect(k, r, PoppedFwd(k, r))
         /\ ~node[k][r].n_chan
  BY <1>2, Zenon DEF command_process_relay_cell_out, circuit_extend
<1>4. CASE UNCHANGED <<node, on, chan>>
  <2>1. \A i \in Links, x \in Nat :
          x # 0 /\ x \in Chans(i) /\ Used(chan[i][x]) /\ Cut(x, chan[i]) => Cut(x, chan'[i])
    BY <1>4
  <2> QED BY <1>1, <1>4, <2>1, QuietNews
<1>5. CASE node' = [node EXCEPT ![k][r] = Marked(@)] /\ UNCHANGED <<on, chan>>
  BY <1>1, <1>5, MarkNews
<1>6. CASE /\ Live(k, r) /\ cell.hop = r /\ Connect(k, r, PoppedFwd(k, r))
           /\ ~node[k][r].n_chan
  <2>1. r \in Links
    BY <1>6 DEF Cells
  <2> QED BY <1>1, <1>6, <2>1, ConnectNews
<1> QED BY <1>3, <1>4, <1>5, <1>6

(* Whatever happens.                                                       *)
LEMMA NewsKept == IInv /\ [Next]_vars => NewsStay
<1> SUFFICES ASSUME IInv, [Next]_vars PROVE NewsStay
  OBVIOUS
<1>1. ASSUME NEW k \in Circuits, NEW i \in Links,
             command_process_created_cell(k, i) \/ command_process_relay_cell_in(k, i)
      PROVE  NewsStay
  <2>1. Answer(k, i, "CREATED") \/ Answer(k, i, "EXTENDED")
    BY <1>1 DEF command_process_created_cell, command_process_relay_cell_in, Answer
  <2> QED BY <2>1, AnswerNews
<1>2. ASSUME NEW k \in Circuits, NEW i \in Nodes, circuit_mark_for_close(k, i)
      PROVE  NewsStay
  BY <1>2, MarkNews DEF circuit_mark_for_close
<1>3. ASSUME NEW k \in Circuits, circuit_expire_building(k)
      PROVE  NewsStay
  BY <1>3, MarkNews, Neighbours DEF circuit_expire_building
<1>4. ASSUME NEW k \in Circuits, circuit_establish_circuit(k)
      PROVE  NewsStay
  BY <1>4, ConnectNews, Neighbours DEF circuit_establish_circuit
<1>5. ASSUME Progress PROVE NewsStay
  BY <1>1, <1>3, <1>5, CreateNews, OnionskinNews, RelayOutNews, DestroyFromBehindNews,
     DestroyFromAheadNews, OpenNews, ClosedNews, ChannelMarkedNews, FarEndNews, CloseNews,
     Zenon DEF Progress
<1>6. ASSUME Decision PROVE NewsStay
  BY <1>4, <1>6, NewExitNews, UpgradeNews, Zenon DEF Decision
<1>7. ASSUME Fault PROVE NewsStay
  BY <1>2, <1>7, ChannelMarkedBadNews, ChannelMarkedNews, FarEndNews, Zenon DEF Fault
<1>8. ASSUME UNCHANGED vars PROVE NewsStay
  BY <1>8 DEF vars, NewsStay, AlarmAt
<1> QED BY <1>5, <1>6, <1>7, <1>8, Zenon DEF Next

-----------------------------------------------------------------------------
(* The steps of one circuit's question.                                    *)

(* The cells that ask or answer.                                           *)
LEMMA TheCells ==
  ASSUME NEW w
  PROVE  /\ \A cmd \in {"CREATE", "CREATED", "EXTENDED"} :
              w = <<Cell(cmd)>> =>
                /\ w # <<>> /\ Head(w).cmd = cmd /\ ~Quiet(w) /\ Single(w)
                /\ \A other : Has(w, other) <=> other = cmd
         /\ \A n \in Links :
              w = <<Extend(n)>> =>
                /\ w # <<>> /\ Head(w).cmd = "EXTEND" /\ Head(w).hop = n /\ ~Quiet(w) /\ Single(w)
                /\ \A other : Has(w, other) <=> other = "EXTEND"
<1>1. ASSUME NEW c \in Cells, w = <<c>>, c.cmd # "DESTROY"
      PROVE  /\ w # <<>> /\ Head(w) = c /\ ~Quiet(w) /\ Single(w)
             /\ \A other : Has(w, other) <=> other = c.cmd
  BY <1>1, OneAsks, OneCell
<1>2. ASSUME NEW cmd \in {"CREATE", "CREATED", "EXTENDED"}, w = <<Cell(cmd)>>
      PROVE  /\ w # <<>> /\ Head(w).cmd = cmd /\ ~Quiet(w) /\ Single(w)
             /\ \A other : Has(w, other) <=> other = cmd
  <2>1. PICK c \in Cells : c = Cell(cmd) /\ c.cmd = cmd
    BY CellKinds
  <2> QED BY <1>1, <1>2, <2>1
<1>3. ASSUME NEW n \in Links, w = <<Extend(n)>>
      PROVE  /\ w # <<>> /\ Head(w).cmd = "EXTEND" /\ Head(w).hop = n /\ ~Quiet(w) /\ Single(w)
             /\ \A other : Has(w, other) <=> other = "EXTEND"
  <2>1. PICK c \in Cells : c = Extend(n) /\ c.cmd = "EXTEND"
    BY CellKinds
  <2>2. c.hop = n
    BY <2>1 DEF Extend
  <2> QED BY <1>1, <1>3, <2>1, <2>2
<1> QED BY <1>2, <1>3

(* It is in one place: whoever has it is that place.                       *)
LEMMA ThePlace ==
  ASSUME NEW q \in Circuits, NEW p, NEW j, AtMost(q, p, j)
  PROVE  /\ \A i \in Links : /\ ~Quiet(fwd[q][i]) => p = "fwd" /\ j = i
                             /\ ~Quiet(bwd[q][i]) => p = "bwd" /\ j = i
                             /\ Single(fwd[q][i]) /\ Single(bwd[q][i])
         /\ \A r \in Relays : Asked(node[q][r]) => p = "at" /\ j = r
  BY DEF AtMost

(* It moves to another place.                                              *)
LEMMA Move ==
  ASSUME NEW q \in Circuits, NEW p, NEW j, AtMost(q, p, j), NEW s, NEW l,
         \A i \in Links : \/ fwd'[q][i] = fwd[q][i] /\ (p # "fwd" \/ i # j)
                          \/ Quiet(fwd'[q][i])
                          \/ s = "fwd" /\ i = l /\ Single(fwd'[q][i]),
         \A i \in Links : \/ bwd'[q][i] = bwd[q][i] /\ (p # "bwd" \/ i # j)
                          \/ Quiet(bwd'[q][i])
                          \/ s = "bwd" /\ i = l /\ Single(bwd'[q][i]),
         \A r \in Relays : Asked(node'[q][r]) =>
           \/ Asked(node[q][r]) /\ (p # "at" \/ r # j)
           \/ s = "at" /\ r = l
  PROVE  AtMost(q, s, l)'
<1>1. ASSUME NEW i \in Links
      PROVE  /\ Single(fwd'[q][i]) /\ (Quiet(fwd'[q][i]) \/ (s = "fwd" /\ i = l))
             /\ Single(bwd'[q][i]) /\ (Quiet(bwd'[q][i]) \/ (s = "bwd" /\ i = l))
  <2>1. /\ Quiet(fwd[q][i]) \/ (p = "fwd" /\ i = j)
        /\ Quiet(bwd[q][i]) \/ (p = "bwd" /\ i = j)
    BY DEF AtMost
  <2> QED BY <2>1, QuietSingle
<1>2. ASSUME NEW r \in Relays, Asked(node'[q][r]) PROVE s = "at" /\ r = l
  BY <1>2 DEF AtMost
<1> QED BY <1>1, <1>2 DEF AtMost

LEMMA StaysAtMost ==
  ASSUME NEW q \in Circuits, NEW p, NEW j, AtMost(q, p, j),
         \A i \in Links :
           /\ (Single(fwd[q][i]) => Single(fwd'[q][i])) /\ (Quiet(fwd[q][i]) => Quiet(fwd'[q][i]))
           /\ (Single(bwd[q][i]) => Single(bwd'[q][i])) /\ (Quiet(bwd[q][i]) => Quiet(bwd'[q][i])),
         \A r \in Relays : Asked(node'[q][r]) => Asked(node[q][r])
  PROVE  AtMost(q, p, j)'
  BY DEF AtMost

LEMMA FailedStays ==
  ASSUME NewsStay, NEW q \in Circuits, PathsOK, PathsOK', path[q].open <= path'[q].open, Failed(q)
  PROVE  Failed(q)'
<1>1. PICK i \in Links : i <= path[q].open /\ (AlarmAt(q, i) \/ Sick(node[q][i + 1]))
  BY DEF Failed
<1>2. i \in Nat /\ i + 1 \in Nodes /\ path[q].open \in Nat /\ path'[q].open \in Nat
  BY Neighbours DEF PathsOK, Paths
<1>3. i <= path'[q].open
  BY <1>1, <1>2
<1>4. AlarmAt(q, i)' \/ Sick(node'[q][i + 1])
  BY <1>1, <1>2 DEF NewsStay
<1> QED BY <1>3, <1>4 DEF Failed

(* What the origin knows after a step.                                     *)
LEMMA KnownNext ==
  ASSUME NEW q \in Circuits, path'[q].open <= path'[q].len, node'[q][0].state # "none",
         Phase(path'[q], node'[q][0].state),
         NEW p \in {"none", "fwd", "at", "bwd"}, NEW j \in Nat,
         p = "none" <=> ~path'[q].awaiting, AtMost(q, p, j)',
         Failed(q)' \/ (Reaches(q, path[q].open)' /\ Where(q, p, j, path[q].open)')
  PROVE  PathOf(q)'
<1>1. Known1(q, p, j)'
  BY DEF Known1
<1> QED BY <1>1 DEF PathOf

LEMMA GoneNext ==
  ASSUME NEW q \in Circuits, path'[q].open <= path'[q].len, node'[q][0].state # "none",
         ~Alive(node'[q][0])
  PROVE  PathOf(q)'
  BY DEF PathOf

(* A step that asks nothing, and loses nothing without the news of it.     *)
Lost(q, i) == AlarmAt(q, i)' \/ Sick(node'[q][i + 1])

CellsStay(q, i) ==
  /\ (Single(fwd[q][i]) => Single(fwd'[q][i])) /\ (Quiet(fwd[q][i]) => Quiet(fwd'[q][i]))
  /\ (Single(bwd[q][i]) => Single(bwd'[q][i])) /\ (Quiet(bwd[q][i]) => Quiet(bwd'[q][i]))
  /\ \/ fwd'[q][i] = fwd[q][i] \/ Has(fwd[q][i], "DESTROY") \/ Lost(q, i)
     \/ fwd[q][i] # <<>> /\ Head(fwd[q][i]).cmd = "EXTEND" /\ ~Alive(node[q][i + 1])
  /\ \/ bwd'[q][i] = bwd[q][i] \/ Has(bwd[q][i], "DESTROY") \/ Lost(q, i)
     \/ ~Alive(node[q][i])

Calm(q) ==
  /\ on'[q] = on[q]
  /\ path'[q] = path[q] \/ (path'[q].open = 0 /\ path'[q].len = 0)
  /\ node'[q][0].state = "none" => node[q][0].state = "none" /\ path'[q] = path[q]
  /\ Alive(node'[q][0]) => /\ Alive(node[q][0]) /\ path'[q] = path[q]
                           /\ node'[q][0].state = node[q][0].state
  /\ \A r \in Relays : \/ node'[q][r] = node[q][r] \/ Sick(node'[q][r])
                       \/ ~Alive(node[q][r]) /\ ~Alive(node'[q][r])
  /\ \A i \in Links : CellsStay(q, i)

LEMMA CalmPath ==
  ASSUME IInv, IInv', NewsStay, NEW q \in Circuits, PathOf(q), Calm(q)
  PROVE  PathOf(q)'
<1>1. PathsOK /\ PathsOK' /\ path[q].open \in Nat /\ path[q].open <= path[q].len
  BY DEF IInv, PathsOK, Paths, PathOf
<1>2. path'[q].open <= path'[q].len
  BY <1>1 DEF Calm
<1>3. CASE node'[q][0].state = "none"
  <2>1. path'[q].open = 0 /\ ~path'[q].awaiting /\ \A i \in Links : on'[q][i] = 0
    BY <1>3 DEF Calm, PathOf
  <2> QED BY <1>2, <1>3, <2>1 DEF PathOf, Alive, Kept
<1>4. CASE node'[q][0].state # "none" /\ ~Alive(node'[q][0])
  BY <1>2, <1>4, GoneNext
<1>5. CASE Alive(node'[q][0])
  <2>1. Alive(node[q][0]) /\ path'[q] = path[q] /\ node'[q][0].state = node[q][0].state
    BY <1>5 DEF Calm
  <2>2. PICK p \in {"none", "fwd", "at", "bwd"}, j \in Nat : Known1(q, p, j)
    BY <2>1 DEF PathOf
  <2>3. AtMost(q, p, j)'
    <3>1. \A r \in Relays : Asked(node'[q][r]) => Asked(node[q][r])
      BY DEF Calm, Asked, Alive, Sick
    <3> QED BY <2>2, <3>1, StaysAtMost DEF Known1, Calm, CellsStay
  <2>4. Phase(path'[q], node'[q][0].state) /\ node'[q][0].state # "none"
    BY <1>5, <2>1 DEF PathOf, Alive, Kept
  <2>5. p = "none" <=> ~path'[q].awaiting
    BY <2>1, <2>2 DEF Known1
  <2>6. CASE Failed(q)'
    BY <1>2, <2>3, <2>4, <2>5, <2>6, KnownNext
  <2>7. CASE ~Failed(q)'
    <3>0. PICK n \in Nat : n = path[q].open
      BY <1>1
    <3>1. Reaches(q, n) /\ Where(q, p, j, n)
      BY <1>1, <3>0, <2>1, <2>2, <2>7, FailedStays DEF Known1
    <3>2. \A i \in Links : i <= n => ~Lost(q, i)
      BY <2>1, <2>7, <3>0 DEF Failed, Lost
    <3>3. ASSUME NEW r \in Relays, r <= n + 1, Alive(node[q][r]) PROVE node'[q][r] = node[q][r]
      <4>1. r - 1 \in Links /\ r - 1 + 1 = r /\ r \in Nat
        BY Neighbours
      <4>2. ~Lost(q, r - 1)
        BY <1>1, <3>2, <3>3, <4>1
      <4>3. ~Sick(node'[q][r])
        BY <4>1, <4>2 DEF Lost
      <4> QED BY <3>3, <4>3 DEF Calm
    <3>4. Reaches(q, n)'
      <4>1. \A r \in Relays : r <= n => r <= n + 1
        BY DEF Relays
      <4> QED BY <2>1, <3>1, <3>3, <4>1 DEF Reaches, Calm
    <3>5. ASSUME NEW i \in Links, i <= n PROVE Alive(node[q][i])
      BY <2>1, <3>1, <3>5, Neighbours DEF Reaches
    <3>6. ASSUME n \in Links, fwd[q][n] = <<Cell("CREATE")>> PROVE fwd'[q][n] = fwd[q][n]
      <4>1. ~Has(fwd[q][n], "DESTROY") /\ Head(fwd[q][n]).cmd = "CREATE"
        BY <3>6, TheCells
      <4> QED BY <1>1, <3>2, <3>6, <4>1 DEF Calm, CellsStay
    <3>7. ASSUME NEW i \in Links, i < n, n \in Links, fwd[q][i] = <<Extend(n)>>
          PROVE  fwd'[q][i] = fwd[q][i]
      <4>1. ~Has(fwd[q][i], "DESTROY")
        BY <3>7, TheCells
      <4>2. i + 1 \in Relays /\ i + 1 <= n /\ i <= n
        <5>1. MaxLen \in Nat
          BY CircuitBuildAssumption
        <5> QED BY <3>7, <5>1 DEF Relays, Links
      <4>3. Alive(node[q][i + 1])
        BY <3>1, <4>2 DEF Reaches
      <4> QED BY <3>2, <4>1, <4>2, <4>3 DEF Calm, CellsStay
    <3>8. ASSUME NEW i \in Links, i <= n, NEW cmd \in {"CREATED", "EXTENDED"},
                 bwd[q][i] = <<Cell(cmd)>>
          PROVE  bwd'[q][i] = bwd[q][i]
      <4>1. ~Has(bwd[q][i], "DESTROY")
        BY <3>8, TheCells
      <4> QED BY <3>2, <3>5, <3>8, <4>1 DEF Calm, CellsStay
    <3>9. n \in Links /\ Alive(node[q][n + 1]) => node'[q][n + 1] = node[q][n + 1]
      <4>1. n \in Links => n + 1 \in Relays /\ n + 1 <= n + 1
        BY Neighbours
      <4> QED BY <3>3, <4>1
    <3>10. n \in Links /\ n # 0 => node'[q][n] = node[q][n]
      <4>1. n \in Links /\ n # 0 => n \in Relays /\ n <= n + 1 /\ n <= n
        BY CircuitBuildAssumption DEF Links, Relays
      <4> QED BY <3>1, <3>3, <4>1 DEF Reaches
    <3>11. on'[q] = on[q]
      BY DEF Calm
    <3>12. Where(q, p, j, n)'
      <4>1. CASE p = "none"
        BY <2>1, <3>1, <3>11, <4>1 DEF Where
      <4>2. CASE p = "fwd"
        BY <1>1, <2>1, <3>1, <3>6, <3>7, <3>11, <4>2 DEF Where
      <4>3. CASE p = "at"
        BY <2>1, <3>1, <3>9, <3>10, <4>3 DEF Where
      <4>4. CASE p = "bwd"
        <5>1. /\ n \in Links /\ Alive(node[q][n + 1]) /\ node[q][n + 1].state = "open"
              /\ \/ j = n /\ bwd[q][n] = <<Cell("CREATED")>>
                 \/ j \in Links /\ j < n /\ bwd[q][j] = <<Cell("EXTENDED")>>
          BY <3>1, <4>4 DEF Where
        <5>2. \/ j = n /\ bwd'[q][n] = <<Cell("CREATED")>>
              \/ j \in Links /\ j < n /\ bwd'[q][j] = <<Cell("EXTENDED")>>
          <6>1. CASE j = n /\ bwd[q][n] = <<Cell("CREATED")>>
            <7>1. n <= n
              BY <1>1
            <7>2. bwd'[q][n] = bwd[q][n]
              BY <3>8, <5>1, <6>1, <7>1
            <7> QED BY <6>1, <7>2
          <6>2. CASE j \in Links /\ j < n /\ bwd[q][j] = <<Cell("EXTENDED")>>
            <7>1. j <= n
              BY <1>1, <6>2, Neighbours
            <7>2. bwd'[q][j] = bwd[q][j]
              BY <3>8, <6>2, <7>1
            <7> QED BY <6>2, <7>2
          <6> QED BY <5>1, <6>1, <6>2
        <5>3. node'[q][n + 1] = node[q][n + 1]
          BY <3>9, <5>1
        <5> QED BY <2>1, <4>4, <5>1, <5>2, <5>3 DEF Where
      <4> QED BY <4>1, <4>2, <4>3, <4>4
    <3>13. Reaches(q, path[q].open)' /\ Where(q, p, j, path[q].open)'
      BY <2>1, <3>0, <3>4, <3>12
    <3> QED BY <1>2, <2>3, <2>4, <2>5, <3>13, KnownNext
  <2> QED BY <2>6, <2>7
<1>6. Alive(node'[q][0]) => node'[q][0].state # "none"
  BY DEF Alive, Kept
<1> QED BY <1>3, <1>4, <1>5, <1>6

-----------------------------------------------------------------------------
(* The steps that ask nothing.                                             *)

(* A broken channel is an alarm for whoever had the circuit on it.         *)
LEMMA CutAlarm ==
  ASSUME NEW c, NEW d, NEW F, NEW B, NEW x, NEW C, Link(c, d, F, B, x, C), x # 0, Cut(x, C)
  PROVE  Alarm(c, B, x, C)
  BY DEF Link, Alarm, Sick, Alive, Kept

LEMMA Elsewhere ==
  ASSUME NEW q \in Circuits, PathOf(q), \A r \in Nodes : node'[q][r] = node[q][r],
         on'[q] = on[q], path'[q] = path[q], IInv, IInv', NewsStay,
         \A i \in Links : fwd'[q][i] = fwd[q][i] /\ bwd'[q][i] = bwd[q][i]
  PROVE  PathOf(q)'
<1>1. Calm(q)
  BY Neighbours DEF Calm, CellsStay
<1> QED BY <1>1, CalmPath

LEMMA OneCalm ==
  ASSUME IInv, IInv', NewsStay, PathInv, NEW k \in Circuits, NEW r \in Nodes, NEW e,
         node' = [node EXCEPT ![k][r] = e], UNCHANGED <<path, on>>,
         e = node[k][r] \/ Sick(e),
         \A q \in Circuits, i \in Links :
           q # k => fwd'[q][i] = fwd[q][i] /\ bwd'[q][i] = bwd[q][i],
         \A i \in Links : CellsStay(k, i)
  PROVE  PathInv'
<1>1. /\ node'[k][r] = e
      /\ \A q \in Circuits, j \in Nodes : q # k \/ j # r => node'[q][j] = node[q][j]
  BY DEF IInv, NodesOK
<1>2. ASSUME NEW q \in Circuits, q # k PROVE PathOf(q)'
  BY <1>1, <1>2, Elsewhere DEF PathInv
<1>3. PathOf(k)'
  <2>1. \A j \in Nodes : node'[k][j] = node[k][j] \/ Sick(node'[k][j])
    BY <1>1
  <2>2. 0 \in Nodes /\ \A j \in Relays : j \in Nodes
    BY Neighbours
  <2>3. Calm(k)
    BY <2>1, <2>2 DEF Calm, Alive, Kept, Sick
  <2> QED BY <2>3, CalmPath DEF PathInv
<1> QED BY <1>2, <1>3 DEF PathInv

(* The same without cells.                                                 *)
LEMMA NodeCalm ==
  ASSUME IInv, IInv', NewsStay, PathInv, NEW k \in Circuits, NEW r \in Nodes, NEW e,
         node' = [node EXCEPT ![k][r] = e], UNCHANGED <<path, fwd, bwd, on>>,
         e = node[k][r] \/ Sick(e)
  PROVE  PathInv'
<1>1. \A i \in Links : CellsStay(k, i)
  BY DEF CellsStay
<1>2. \A q \in Circuits, i \in Links :
        q # k => fwd'[q][i] = fwd[q][i] /\ bwd'[q][i] = bwd[q][i]
  OBVIOUS
<1> QED BY <1>1, <1>2, OneCalm

LEMMA SickMarked ==
  ASSUME NEW c \in Records, Kept(c) PROVE Sick(Marked(c)) /\ ~Alive(Marked(c))
  BY DEF Records, Kept, Sick, Marked, Alive

LEMMA MarkCalm ==
  ASSUME IInv, IInv', NewsStay, PathInv, NEW k \in Circuits, NEW r \in Nodes, Live(k, r),
         node' = [node EXCEPT ![k][r] = Marked(@)], UNCHANGED <<path, fwd, bwd, on>>
  PROVE  PathInv'
<1>1. PICK e : e = Marked(node[k][r])
  OBVIOUS
<1>2. Sick(e) /\ node' = [node EXCEPT ![k][r] = e]
  BY <1>1, Known, SickMarked DEF Live, Exists, Kept
<1> QED BY <1>2, NodeCalm

(* The first cell on a link is taken.                                      *)
LEMMA FwdTaken ==
  ASSUME IInv, NEW k \in Circuits, NEW r \in Relays, NEW cmd, FromBehind(k, r, cmd),
         NEW w, w = PoppedFwd(k, r)
  PROVE  /\ \A q \in Circuits, i \in Links : q # k \/ i # r - 1 => w[q][i] = fwd[q][i]
         /\ \A i \in Links : (Single(fwd[k][i]) => Single(w[k][i]))
                          /\ (Quiet(fwd[k][i]) => Quiet(w[k][i]))
         /\ cmd # "DESTROY" => /\ ~Quiet(fwd[k][r - 1])
                               /\ Single(fwd[k][r - 1]) => Quiet(w[k][r - 1])
         /\ Has(fwd[k][r - 1], cmd) /\ on[k][r - 1] # 0 /\ r - 1 \in Links
<1>1. /\ r - 1 \in Links /\ fwd[k][r - 1] \in Seq(Cells) /\ fwd[k][r - 1] # <<>>
      /\ Head(fwd[k][r - 1]).cmd = cmd
      /\ Link(node[k][r - 1], node[k][r], fwd[k][r - 1], bwd[k][r - 1], on[k][r - 1],
              chan[r - 1])
  BY Known, Neighbours DEF FromBehind
<1>2. /\ w[k][r - 1] = Tail(fwd[k][r - 1])
      /\ \A q \in Circuits, j \in Links : q # k \/ j # r - 1 => w[q][j] = fwd[q][j]
  BY TakenFromBehind
<1>3. on[k][r - 1] # 0
  BY <1>1 DEF Link
<1>4. Has(fwd[k][r - 1], cmd)
  BY <1>1, CellTaken
<1>5. /\ Single(fwd[k][r - 1]) => Single(w[k][r - 1])
      /\ Quiet(fwd[k][r - 1]) => Quiet(w[k][r - 1]) /\ cmd = "DESTROY"
      /\ Single(fwd[k][r - 1]) /\ cmd # "DESTROY" => Quiet(w[k][r - 1])
  BY <1>1, <1>2, AskTaken
<1> QED BY <1>1, <1>2, <1>3, <1>4, <1>5

LEMMA BwdTaken ==
  ASSUME IInv, NEW k \in Circuits, NEW i \in Links, NEW cmd, FromAhead(k, i, cmd),
         NEW w, w = PoppedBwd(k, i)
  PROVE  /\ \A q \in Circuits, j \in Links : q # k \/ j # i => w[q][j] = bwd[q][j]
         /\ \A j \in Links : (Single(bwd[k][j]) => Single(w[k][j]))
                          /\ (Quiet(bwd[k][j]) => Quiet(w[k][j]))
         /\ cmd # "DESTROY" => /\ ~Quiet(bwd[k][i])
                               /\ Single(bwd[k][i]) => Quiet(w[k][i])
         /\ Has(bwd[k][i], cmd) /\ on[k][i] # 0
<1>1. /\ bwd[k][i] \in Seq(Cells) /\ bwd[k][i] # <<>> /\ Head(bwd[k][i]).cmd = cmd
      /\ Link(node[k][i], node[k][i + 1], fwd[k][i], bwd[k][i], on[k][i], chan[i])
  BY Known DEF FromAhead
<1>2. /\ w[k][i] = Tail(bwd[k][i])
      /\ \A q \in Circuits, j \in Links : q # k \/ j # i => w[q][j] = bwd[q][j]
  BY TakenFromAhead
<1>3. on[k][i] # 0
  BY <1>1 DEF Link
<1>4. Has(bwd[k][i], cmd)
  BY <1>1, CellTaken
<1>5. /\ Single(bwd[k][i]) => Single(w[k][i])
      /\ Quiet(bwd[k][i]) => Quiet(w[k][i]) /\ cmd = "DESTROY"
      /\ Single(bwd[k][i]) /\ cmd # "DESTROY" => Quiet(w[k][i])
  BY <1>1, <1>2, AskTaken
<1> QED BY <1>1, <1>2, <1>3, <1>4, <1>5

(* A node takes a cell from behind without asking anything.                *)
LEMMA BehindCalm ==
  ASSUME IInv, IInv', NewsStay, PathInv, NEW k \in Circuits, NEW r \in Relays, NEW cmd,
         FromBehind(k, r, cmd), fwd' = PoppedFwd(k, r), NEW e,
         node' = [node EXCEPT ![k][r] = e], UNCHANGED <<path, bwd, on>>,
         \/ Sick(e)
         \/ e = node[k][r] /\ (cmd = "DESTROY" \/ (cmd = "EXTEND" /\ ~Alive(node[k][r])))
  PROVE  PathInv'
<1>1. /\ r \in Nodes /\ r - 1 \in Links /\ r - 1 + 1 = r
      /\ fwd[k][r - 1] # <<>> /\ Head(fwd[k][r - 1]).cmd = cmd
  BY Neighbours DEF FromBehind
<1>2. node'[k][r] = e
  BY <1>1 DEF IInv, NodesOK
<1>3. PICK w : w = PoppedFwd(k, r)
  OBVIOUS
<1>4. /\ \A q \in Circuits, i \in Links : q # k \/ i # r - 1 => fwd'[q][i] = fwd[q][i]
      /\ \A i \in Links : (Single(fwd[k][i]) => Single(fwd'[k][i]))
                       /\ (Quiet(fwd[k][i]) => Quiet(fwd'[k][i]))
      /\ Has(fwd[k][r - 1], cmd)
  BY <1>3, FwdTaken
<1>5. \/ Has(fwd[k][r - 1], "DESTROY") \/ Lost(k, r - 1)
      \/ Head(fwd[k][r - 1]).cmd = "EXTEND" /\ ~Alive(node[k][r])
  BY <1>1, <1>2, <1>4 DEF Lost
<1>6. ASSUME NEW i \in Links PROVE CellsStay(k, i)
  <2>1. CASE i = r - 1
    BY <1>1, <1>4, <1>5, <2>1 DEF CellsStay
  <2>2. CASE i # r - 1
    BY <1>4, <2>2 DEF CellsStay
  <2> QED BY <2>1, <2>2
<1>7. \A q \in Circuits, i \in Links :
        q # k => fwd'[q][i] = fwd[q][i] /\ bwd'[q][i] = bwd[q][i]
  BY <1>4
<1>8. e = node[k][r] \/ Sick(e)
  OBVIOUS
<1> QED BY <1>1, <1>6, <1>7, <1>8, OneCalm

LEMMA AheadCalm ==
  ASSUME IInv, IInv', NewsStay, PathInv, NEW k \in Circuits, NEW i \in Links, NEW cmd,
         FromAhead(k, i, cmd), bwd' = PoppedBwd(k, i), NEW e,
         node' = [node EXCEPT ![k][i] = e], UNCHANGED <<path, fwd, on>>,
         Sick(e) \/ (e = node[k][i] /\ (cmd = "DESTROY" \/ ~Alive(node[k][i])))
  PROVE  PathInv'
<1>1. i \in Nodes
  BY Neighbours
<1>2. node'[k][i] = e
  BY <1>1 DEF IInv, NodesOK
<1>3. PICK w : w = PoppedBwd(k, i)
  OBVIOUS
<1>4. /\ \A q \in Circuits, j \in Links : q # k \/ j # i => bwd'[q][j] = bwd[q][j]
      /\ \A j \in Links : (Single(bwd[k][j]) => Single(bwd'[k][j]))
                       /\ (Quiet(bwd[k][j]) => Quiet(bwd'[k][j]))
      /\ Has(bwd[k][i], cmd)
  BY <1>3, BwdTaken
<1>5. Has(bwd[k][i], "DESTROY") \/ Lost(k, i) \/ ~Alive(node[k][i])
  BY <1>2, <1>4 DEF Lost, AlarmAt, Alarm
<1>6. ASSUME NEW j \in Links PROVE CellsStay(k, j)
  <2>1. CASE j = i
    BY <1>4, <1>5, <2>1 DEF CellsStay
  <2>2. CASE j # i
    BY <1>4, <2>2 DEF CellsStay
  <2> QED BY <2>1, <2>2
<1>7. \A q \in Circuits, j \in Links :
        q # k => fwd'[q][j] = fwd[q][j] /\ bwd'[q][j] = bwd[q][j]
  BY <1>4
<1>8. e = node[k][i] \/ Sick(e)
  OBVIOUS
<1> QED BY <1>1, <1>6, <1>7, <1>8, OneCalm

LEMMA DestroyFromBehindPath ==
  ASSUME IInv, IInv', NewsStay, PathInv, NEW k \in Circuits, NEW r \in Relays,
         DestroyFromBehind(k, r)
  PROVE  PathInv'
<1>1. r \in Nodes /\ node[k][r] \in Records /\ NodesOK
  BY Neighbours, Known
<1>2. PICK e : e = IF Live(k, r) THEN [Marked(node[k][r]) EXCEPT !.p_chan = FALSE]
                   ELSE node[k][r]
  OBVIOUS
<1>3. node' = [node EXCEPT ![k][r] = e]
  <2>1. CASE Live(k, r)
    BY <1>2, <2>1 DEF DestroyFromBehind
  <2>2. CASE ~Live(k, r)
    BY <1>1, <1>2, <2>2 DEF DestroyFromBehind, NodesOK
  <2> QED BY <2>1, <2>2
<1>4. Sick(e) \/ e = node[k][r]
  BY <1>1, <1>2 DEF Records, Sick, Marked, Live, Exists, Kept
<1>5. /\ FromBehind(k, r, "DESTROY") /\ fwd' = PoppedFwd(k, r)
      /\ UNCHANGED <<path, bwd, on>>
  BY DEF DestroyFromBehind
<1> QED BY <1>3, <1>4, <1>5, BehindCalm

LEMMA DestroyFromAheadPath ==
  ASSUME IInv, IInv', NewsStay, PathInv, NEW k \in Circuits, NEW i \in Links,
         DestroyFromAhead(k, i)
  PROVE  PathInv'
<1>1. i \in Nodes /\ node[k][i] \in Records /\ NodesOK
  BY Neighbours, Known
<1>2. PICK e : e = IF Live(k, i) THEN [Marked(node[k][i]) EXCEPT !.n_chan = FALSE]
                   ELSE node[k][i]
  OBVIOUS
<1>3. node' = [node EXCEPT ![k][i] = e]
  <2>1. CASE Live(k, i)
    BY <1>2, <2>1 DEF DestroyFromAhead
  <2>2. CASE ~Live(k, i)
    BY <1>1, <1>2, <2>2 DEF DestroyFromAhead, NodesOK
  <2> QED BY <2>1, <2>2
<1>4. Sick(e) \/ e = node[k][i]
  BY <1>1, <1>2 DEF Records, Sick, Marked, Live, Exists, Kept
<1>5. /\ FromAhead(k, i, "DESTROY") /\ bwd' = PoppedBwd(k, i)
      /\ UNCHANGED <<path, fwd, on>>
  BY DEF DestroyFromAhead
<1> QED BY <1>3, <1>4, <1>5, AheadCalm

LEMMA ExpirePath ==
  ASSUME IInv, IInv', NewsStay, PathInv, NEW k \in Circuits, circuit_expire_building(k)
  PROVE  PathInv'
  BY MarkCalm, Neighbours DEF circuit_expire_building

LEMMA MarkPath ==
  ASSUME IInv, IInv', NewsStay, PathInv, NEW k \in Circuits, NEW r \in Nodes,
         circuit_mark_for_close(k, r)
  PROVE  PathInv'
  BY MarkCalm DEF circuit_mark_for_close

(* Nothing happens but to a channel.                                       *)
LEMMA QuietPath ==
  ASSUME IInv, IInv', NewsStay, PathInv, UNCHANGED <<node, path, fwd, bwd, on>>
  PROVE  PathInv'
  BY Elsewhere DEF PathInv

LEMMA ClosedPath ==
  ASSUME IInv, IInv', NewsStay, PathInv, NEW i \in Links, NEW x \in Chans(i),
         channel_closed(i, x)
  PROVE  PathInv'
<1> SUFFICES ASSUME NEW q \in Circuits PROVE PathOf(q)'
  BY DEF PathInv
<1>1. Closed(i, x) /\ UNCHANGED <<path, fwd, on>>
  BY ClosedEffects DEF channel_closed
<1>2. /\ i \in Nodes /\ 0 \in Nodes /\ (\A r \in Relays : r \in Nodes) /\ x # 0
      /\ node[q][i] \in Records /\ node'[q][i] \in Records
      /\ Link(node[q][i], node[q][i + 1], fwd[q][i], bwd[q][i], on[q][i], chan[i])
  BY <1>1, Neighbours, Known DEF Closed, ChannelsOK
<1>3. node'[q][i] = node[q][i] \/ Sick(node'[q][i])
  <2>1. \/ node'[q][i] = node[q][i]
        \/ node'[q][i].marked /\ node[q][i].state = node'[q][i].state
    BY <1>1 DEF Closed
  <2>2. ASSUME node[q][i].state = "none", node'[q][i] # node[q][i] PROVE FALSE
    <3>1. on[q][i] = 0 /\ ~node[q][i].n_chan /\ q \notin Pending(i)
      BY <1>2, <2>2 DEF Link, Pending, Live, Exists
    <3>2. node'[q][i] = node[q][i]
      BY <1>1, <1>2, <3>1 DEF channel_closed
    <3> QED BY <2>2, <3>2
  <2> QED BY <1>2, <2>1, <2>2 DEF Sick, Kept
<1>4. \A j \in Nodes : node'[q][j] = node[q][j] \/ Sick(node'[q][j])
  BY <1>1, <1>3 DEF Closed
<1>5. ASSUME NEW j \in Links PROVE CellsStay(q, j)
  <2>1. CASE j = i /\ on[q][i] = x
    <3>1. bwd'[q][i] = <<>> /\ fwd'[q][i] = fwd[q][i]
      BY <1>1, <2>1 DEF Closed
    <3>2. ~Alive(node[q][i]) \/ Sick(node'[q][i])
      <4>1. ASSUME Alive(node[q][i]) PROVE Sick(node'[q][i])
        <5>1. node[q][i].n_chan /\ ~node'[q][i].n_chan
          BY <1>1, <1>2, <2>1, <4>1 DEF Link, Closed
        <5> QED BY <1>3, <5>1
      <4> QED BY <4>1
    <3> QED BY <2>1, <3>1, <3>2, NoneAsks DEF CellsStay, Lost, AlarmAt, Alarm
  <2>2. CASE j # i \/ on[q][i] # x
    <3>1. bwd'[q][j] = bwd[q][j] /\ fwd'[q][j] = fwd[q][j]
      BY <1>1, <2>2 DEF Closed
    <3> QED BY <3>1 DEF CellsStay
  <2> QED BY <2>1, <2>2
<1>6. Calm(q)
  <2>1. on'[q] = on[q] /\ path'[q] = path[q]
    BY <1>1
  <2> QED BY <1>2, <1>4, <1>5, <2>1 DEF Calm, Alive, Kept, Sick
<1> QED BY <1>6, CalmPath DEF PathInv

LEMMA FarEndPath ==
  ASSUME IInv, IInv', NewsStay, PathInv, NEW i \in Links, NEW x \in Chans(i),
         FarEndCloses(i, x)
  PROVE  PathInv'
<1> SUFFICES ASSUME NEW q \in Circuits PROVE PathOf(q)'
  BY DEF PathInv
<1> DEFINE r == i + 1
<1>1. FarClosed(i, x, r) /\ UNCHANGED <<path, bwd, on>>
  BY FarEndEffects DEF FarEndCloses
<1>2. /\ i \in Nodes /\ r \in Nodes /\ 0 \in Nodes /\ (\A s \in Relays : s \in Nodes) /\ x # 0
      /\ r # 0 /\ r # i /\ node[q][r] \in Records /\ node'[q][r] \in Records
  BY <1>1, Neighbours, Known DEF FarClosed, ChannelsOK
<1>3. Link(node'[q][i], node'[q][r], fwd'[q][i], bwd'[q][i], on'[q][i], chan'[i])
  BY DEF IInv, LinkOf
<1>4. \/ node'[q][r] = node[q][r] \/ Sick(node'[q][r])
      \/ ~Alive(node[q][r]) /\ ~Alive(node'[q][r])
  BY <1>1, <1>2 DEF FarClosed, Sick, Alive, Kept
<1>5. \A j \in Nodes : j # r => node'[q][j] = node[q][j]
  BY <1>1 DEF FarClosed
<1>6. Cut(x, chan'[i])
  <2>1. ChannelsOK /\ chan' = [chan EXCEPT ![i][x] =
                           IF @.near = "closed" THEN Gone ELSE [@ EXCEPT !.far = "closed"]]
    BY DEF FarEndCloses, IInv
  <2>2. chan'[i][x] = IF chan[i][x].near = "closed" THEN Gone
                      ELSE [chan[i][x] EXCEPT !.far = "closed"]
    BY <2>1 DEF ChannelsOK
  <2>3. chan[i][x] \in ChannelRecords
    BY <2>1 DEF ChannelsOK
  <2> QED BY <2>2, <2>3 DEF Cut, Gone, NoChannel, ChannelRecords
<1>7. ASSUME NEW j \in Links PROVE CellsStay(q, j)
  <2>1. CASE j = i /\ on[q][i] = x
    <3>1. fwd'[q][i] = <<>> /\ bwd'[q][i] = bwd[q][i]
      BY <1>1, <2>1 DEF FarClosed
    <3>2. AlarmAt(q, i)'
      <4>1. on'[q][i] = x
        BY <1>1, <2>1
      <4> QED BY <1>2, <1>3, <1>6, <4>1, CutAlarm DEF AlarmAt
    <3> QED BY <2>1, <3>1, <3>2, NoneAsks DEF CellsStay, Lost
  <2>2. CASE j # i \/ on[q][i] # x
    <3>1. bwd'[q][j] = bwd[q][j] /\ fwd'[q][j] = fwd[q][j]
      BY <1>1, <2>2 DEF FarClosed
    <3> QED BY <3>1 DEF CellsStay
  <2> QED BY <2>1, <2>2
<1>8. Calm(q)
  <2>1. on'[q] = on[q] /\ path'[q] = path[q] /\ node'[q][0] = node[q][0]
    BY <1>1, <1>2, <1>5
  <2> QED BY <1>2, <1>4, <1>5, <1>7, <2>1 DEF Calm
<1> QED BY <1>8, CalmPath DEF PathInv

LEMMA FreedAsks ==
  ASSUME NEW w \in Seq(Cells), NEW linked, NEW sending, NEW r, FreedCells(w, linked, sending, r)
  PROVE  (Single(w) => Single(r)) /\ (Quiet(w) => Quiet(r))
  BY AskFreed DEF FreedCells

LEMMA ClosePath ==
  ASSUME IInv, IInv', NewsStay, PathInv, NEW i \in Nodes, circuit_close_all_marked(i)
  PROVE  PathInv'
<1> SUFFICES ASSUME NEW q \in Circuits PROVE PathOf(q)'
  BY DEF PathInv
<1>1. /\ Freed(i) /\ UNCHANGED on
      /\ path' = [k \in Circuits |->
             IF i = 0 /\ k \in Doomed(i)
             THEN [len |-> 0, most |-> 0, open |-> 0, awaiting |-> FALSE]
             ELSE path[k]]
  BY CloseEffects DEF circuit_close_all_marked, Doomed
<1>2. CASE q \notin Doomed(i)
  <2>1. path'[q] = path[q] /\ on'[q] = on[q]
    BY <1>1, <1>2
  <2>2. /\ \A j \in Nodes : node'[q][j] = node[q][j]
        /\ \A j \in Links : fwd'[q][j] = fwd[q][j] /\ bwd'[q][j] = bwd[q][j]
    BY <1>1, <1>2 DEF Freed
  <2> QED BY <2>1, <2>2, Elsewhere DEF PathInv
<1>3. CASE q \in Doomed(i)
  <2>1. /\ node'[q][i].state = "freed" /\ Sick(node'[q][i])
        /\ \A j \in Nodes : j # i => node'[q][j] = node[q][j]
    <3>1. /\ node'[q][i] = [NoCircuit EXCEPT !.state = "freed"]
          /\ \A j \in Nodes : j # i => node'[q][j] = node[q][j]
      BY <1>1, <1>3 DEF Freed
    <3>2. node'[q][i].state = "freed"
      BY <3>1 DEF NoCircuit
    <3> QED BY <3>1, <3>2 DEF Sick
  <2>2. /\ 0 \in Nodes /\ (\A s \in Relays : s \in Nodes /\ s # 0)
        /\ (i \in Links \/ \A j \in Links : j # i)
        /\ \A j \in Links : j = i - 1 => i > 0 /\ j + 1 = i
        /\ \A j \in Links : fwd[q][j] \in Seq(Cells) /\ bwd[q][j] \in Seq(Cells)
    BY Known, CircuitBuildAssumption DEF Nodes, Links, Relays
  <2>3. ASSUME NEW j \in Links PROVE CellsStay(q, j)
    <3>1. /\ (Single(fwd[q][j]) => Single(fwd'[q][j])) /\ (Quiet(fwd[q][j]) => Quiet(fwd'[q][j]))
          /\ fwd'[q][j] = fwd[q][j] \/ Lost(q, j)
      <4>1. CASE j # i
        BY <1>1, <4>1 DEF Freed
      <4>2. CASE j = i
        <5>1. FreedCells(fwd[q][i], node[q][i].n_chan,
                         node[q][i].n_chan /\ chan[i][on[q][i]].near = "open", fwd'[q][i])
          BY <1>1, <1>3, <4>2 DEF Freed
        <5>2. fwd[q][i] \in Seq(Cells)
          BY <2>2, <4>2
        <5> QED BY <2>1, <4>2, <5>1, <5>2, FreedAsks DEF Lost, AlarmAt, Alarm
      <4> QED BY <4>1, <4>2
    <3>2. /\ (Single(bwd[q][j]) => Single(bwd'[q][j])) /\ (Quiet(bwd[q][j]) => Quiet(bwd'[q][j]))
          /\ bwd'[q][j] = bwd[q][j] \/ Lost(q, j)
      <4>1. CASE j # i - 1
        BY <1>1, <4>1 DEF Freed
      <4>2. CASE j = i - 1
        <5>1. i > 0 /\ j + 1 = i
          BY <2>2, <4>2
        <5>2. FreedCells(bwd[q][j], node[q][i].p_chan, node[q][i].p_chan, bwd'[q][j])
          BY <1>1, <1>3, <4>2, <5>1 DEF Freed
        <5>3. bwd[q][j] \in Seq(Cells)
          BY <2>2
        <5> QED BY <2>1, <5>1, <5>2, <5>3, FreedAsks DEF Lost
      <4> QED BY <4>1, <4>2
    <3> QED BY <3>1, <3>2 DEF CellsStay
  <2>4. on'[q] = on[q] /\ (path'[q] = path[q] \/ (path'[q].open = 0 /\ path'[q].len = 0))
        /\ (i # 0 => path'[q] = path[q])
    BY <1>1
  <2>5. Calm(q)
    <3>1. CASE i = 0
      BY <2>1, <2>2, <2>3, <2>4, <3>1 DEF Calm, Alive, Kept
    <3>2. CASE i # 0
      <4>1. node'[q][0] = node[q][0]
        BY <2>1, <2>2, <3>2
      <4> QED BY <2>1, <2>2, <2>3, <2>4, <3>2, <4>1 DEF Calm
    <3> QED BY <3>1, <3>2
  <2> QED BY <2>5, CalmPath DEF PathInv
<1> QED BY <1>2, <1>3

-----------------------------------------------------------------------------
(* The steps that ask or answer.                                           *)

(* A relay takes the question or the answer on.                            *)
LEMMA PlaceMoves ==
  ASSUME IInv, IInv', NewsStay, NEW q \in Circuits, PathOf(q),
         node'[q][0] = node[q][0], path'[q] = path[q], \E i \in Links : on[q][i] # 0,
         NEW s \in {"fwd", "at", "bwd"}, NEW l \in Nat,
         NEW p0 \in {"fwd", "at", "bwd"}, NEW j0,
         \A p, j : AtMost(q, p, j) => p = p0 /\ j = j0,
         AtMost(q, p0, j0) => AtMost(q, s, l)',
         \A n \in Nat : AtMost(q, p0, j0) /\ ~Failed(q)' /\ n = path[q].open /\ Reaches(q, n)
                        /\ Where(q, p0, j0, n) => Reaches(q, n)' /\ Where(q, s, l, n)'
  PROVE  PathOf(q)'
<1>1. PathsOK /\ PathsOK' /\ path[q].open \in Nat /\ path[q].open <= path[q].len
  BY DEF IInv, PathsOK, Paths, PathOf
<1>2. path'[q].open <= path'[q].len /\ node'[q][0].state # "none"
  BY <1>1 DEF PathOf
<1>3. CASE ~Alive(node[q][0])
  BY <1>2, <1>3, GoneNext
<1>4. CASE Alive(node[q][0])
  <2>1. PICK p \in {"none", "fwd", "at", "bwd"}, j \in Nat : Known1(q, p, j)
    BY <1>4 DEF PathOf
  <2>2. p = p0 /\ j = j0 /\ AtMost(q, p0, j0) /\ p0 # "none"
    BY <2>1 DEF Known1
  <2>3. Phase(path'[q], node'[q][0].state) /\ path'[q].awaiting
    BY <1>4, <2>1, <2>2 DEF PathOf, Known1
  <2>4. AtMost(q, s, l)'
    BY <2>2
  <2>5. PICK n \in Nat : n = path[q].open
    BY <1>1
  <2>6. ASSUME ~Failed(q)' PROVE Reaches(q, path[q].open)' /\ Where(q, s, l, path[q].open)'
    <3>1. ~Failed(q)
      BY <1>1, <2>6, FailedStays
    <3>2. Reaches(q, n) /\ Where(q, p0, j0, n)
      BY <2>1, <2>2, <2>5, <3>1 DEF Known1
    <3>3. Reaches(q, n)' /\ Where(q, s, l, n)'
      BY <2>2, <2>5, <2>6, <3>2
    <3>4. path'[q].open = n
      BY <2>5
    <3> QED BY <3>3, <3>4
  <2>7. s \in {"none", "fwd", "at", "bwd"} /\ (s = "none" <=> ~path'[q].awaiting)
    BY <2>3
  <2> QED BY <1>2, <2>3, <2>4, <2>6, <2>7, KnownNext
<1> QED BY <1>3, <1>4

LEMMA CreatePath ==
  ASSUME IInv, IInv', NewsStay, PathInv, NEW k \in Circuits, NEW r \in Relays,
         command_process_create_cell(k, r)
  PROVE  PathInv'
<1>1. /\ r \in Nodes /\ r - 1 \in Links /\ r - 1 + 1 = r /\ r # 0 /\ 0 \in Nodes /\ r \in Nat
      /\ node[k][r] \in Records /\ NodesOK /\ bwd \in Wires /\ bwd[k][r - 1] \in Seq(Cells)
      /\ Link(node[k][r - 1], node[k][r], fwd[k][r - 1], bwd[k][r - 1], on[k][r - 1],
              chan[r - 1])
      /\ \A s \in Relays : s \in Nodes
  BY Neighbours, Known DEF WiresOK
<1>2. FromBehind(k, r, "CREATE") /\ fwd' = PoppedFwd(k, r) /\ UNCHANGED <<path, on, chan>>
  BY DEF command_process_create_cell
<1>3. /\ \A q \in Circuits, i \in Links : q # k \/ i # r - 1 => fwd'[q][i] = fwd[q][i]
      /\ \A i \in Links : (Single(fwd[k][i]) => Single(fwd'[k][i]))
                       /\ (Quiet(fwd[k][i]) => Quiet(fwd'[k][i]))
      /\ ~Quiet(fwd[k][r - 1]) /\ (Single(fwd[k][r - 1]) => Quiet(fwd'[k][r - 1]))
      /\ Has(fwd[k][r - 1], "CREATE") /\ on[k][r - 1] # 0
  BY <1>2, FwdTaken
<1>4. node[k][r].state = "none" /\ bwd[k][r - 1] = <<>>
  BY <1>1, <1>3 DEF Link
(* It is refused ...                                                       *)
<1>5. CASE bwd' = SentBack(bwd, k, r - 1, DESTROY) /\ UNCHANGED node
  <2>1. PICK c \in Cells : /\ c = DESTROY /\ c.cmd = "DESTROY"
                          /\ chan[r - 1][on[k][r - 1]].far = "open"
    BY <1>2, CellKinds DEF FromBehind
  <2>2. /\ bwd'[k][r - 1] = Append(bwd[k][r - 1], c)
        /\ \A q \in Circuits, j \in Links : q # k \/ j # r - 1 => bwd'[q][j] = bwd[q][j]
    <3>1. PICK j \in Links : j = r - 1
      BY <1>1
    <3>2. bwd \in Wires /\ bwd' = SentBack(bwd, k, j, c) /\ chan[j][on[k][j]].far = "open"
      BY <1>1, <1>5, <2>1, <3>1
    <3>3. /\ bwd'[k][j] = Append(bwd[k][j], c)
          /\ \A q \in Circuits, l \in Links : q # k \/ l # j => bwd'[q][l] = bwd[q][l]
      BY <3>2, SentBackCells
    <3> QED BY <3>1, <3>3
  <2>3. Has(bwd'[k][r - 1], "DESTROY")
    BY <1>1, <2>1, <2>2, CellSent
  <2>4. /\ Single(bwd[k][r - 1]) => Single(bwd'[k][r - 1])
        /\ Quiet(bwd[k][r - 1]) => Quiet(bwd'[k][r - 1])
    BY <1>1, <2>1, <2>2, AskSent
  <2>5. Lost(k, r - 1)
    BY <2>3 DEF Lost, AlarmAt, Alarm
  <2>6. ASSUME NEW i \in Links PROVE CellsStay(k, i)
    <3>1. CASE i = r - 1
      BY <1>3, <2>4, <2>5, <3>1 DEF CellsStay
    <3>2. CASE i # r - 1
      BY <1>3, <2>2, <3>2 DEF CellsStay
    <3> QED BY <3>1, <3>2
  <2>7. PICK e : e = node[k][r]
    OBVIOUS
  <2>8. node' = [node EXCEPT ![k][r] = e]
    BY <1>1, <1>5, <2>7 DEF NodesOK
  <2>9. \A q \in Circuits, i \in Links :
          q # k => fwd'[q][i] = fwd[q][i] /\ bwd'[q][i] = bwd[q][i]
    BY <1>3, <2>2
  <2> QED BY <1>1, <1>2, <2>6, <2>7, <2>8, <2>9, OneCalm
(* ... or the relay makes a circuit.                                       *)
<1>6. ASSUME NEW refused \in BOOLEAN, UNCHANGED bwd,
             node' = [node EXCEPT ![k][r] =
               [NoCircuit EXCEPT !.state = "onionskin_pending", !.p_chan = TRUE,
                                 !.marked = refused]]
      PROVE  PathInv'
  <2>1. PICK e : e = [NoCircuit EXCEPT !.state = "onionskin_pending", !.p_chan = TRUE,
                                       !.marked = refused]
    OBVIOUS
  <2>2. /\ node' = [node EXCEPT ![k][r] = e] /\ e.state = "onionskin_pending"
        /\ Kept(e) /\ (refused => Sick(e)) /\ (~refused => Alive(e))
    BY <1>6, <2>1 DEF NoCircuit, Kept, Sick, Alive
  <2>3. CASE refused
    <3>1. UNCHANGED <<path, bwd, on>>
      BY <1>2, <1>6
    <3> QED BY <1>2, <2>2, <2>3, <3>1, BehindCalm
  <2>4. CASE ~refused
    <3>1. /\ node'[k][r] = e
          /\ \A q \in Circuits, j \in Nodes : q # k \/ j # r => node'[q][j] = node[q][j]
      BY <1>1, <2>2 DEF NodesOK
    <3>2. ASSUME NEW q \in Circuits, q # k PROVE PathOf(q)'
      <4>1. \A i \in Links : fwd'[q][i] = fwd[q][i] /\ bwd'[q][i] = bwd[q][i]
        BY <1>3, <1>6, <3>2
      <4> QED BY <1>2, <3>1, <3>2, <4>1, Elsewhere DEF PathInv
    <3>3. \A p, j : AtMost(k, p, j) => p = "fwd" /\ j = r - 1
      BY <1>1, <1>3, ThePlace
    <3>4. ASSUME AtMost(k, "fwd", r - 1) PROVE AtMost(k, "at", r)'
      <4>1. \A i \in Links : \/ fwd'[k][i] = fwd[k][i] /\ i # r - 1
                             \/ Quiet(fwd'[k][i])
        BY <1>1, <1>3, <3>4, ThePlace
      <4>2. \A s \in Relays : Asked(node'[k][s]) => Asked(node[k][s]) \/ s = r
        BY <1>1, <3>1
      <4> QED BY <1>6, <3>4, <4>1, <4>2, Move
    <3>5. ASSUME NEW n \in Nat, AtMost(k, "fwd", r - 1), ~Failed(k)', n = path[k].open,
                 Reaches(k, n), Where(k, "fwd", r - 1, n)
          PROVE  Reaches(k, n)' /\ Where(k, "at", r, n)'
      <4>1. n = r - 1 /\ n \in Links /\ n + 1 = r
        <5>1. ASSUME NEW i \in Links, fwd[k][r - 1] = <<Extend(i)>> PROVE FALSE
          <6>1. Has(fwd[k][r - 1], "CREATE") <=> "CREATE" = "EXTEND"
            BY <5>1, TheCells
          <6> QED BY <1>3, <6>1
        <5> QED BY <1>1, <3>5, <5>1 DEF Where
      <4>2. Reaches(k, n)'
        <5>1. \A s \in Relays : s <= n => s # r
          BY <4>1
        <5> QED BY <1>1, <1>2, <3>1, <3>5, <5>1 DEF Reaches
      <4>3. Where(k, "at", r, n)'
        BY <2>2, <2>4, <3>1, <4>1 DEF Where
      <4> QED BY <4>2, <4>3
    <3>6. node'[k][0] = node[k][0] /\ path'[k] = path[k] /\ \E i \in Links : on[k][i] # 0
      BY <1>1, <1>2, <1>3, <3>1
    <3>7. PathOf(k)'
      BY <1>1, <3>3, <3>4, <3>5, <3>6, PlaceMoves DEF PathInv
    <3> QED BY <3>2, <3>7 DEF PathInv
  <2> QED BY <2>3, <2>4
<1> QED BY <1>5, <1>6 DEF command_process_create_cell

LEMMA OnionskinPath ==
  ASSUME IInv, IInv', NewsStay, PathInv, NEW k \in Circuits, NEW r \in Relays,
         onionskin_answer(k, r)
  PROVE  PathInv'
<1> DEFINE j0 == r - 1
<1>1. /\ r \in Nodes /\ j0 \in Links /\ j0 + 1 = r /\ r # 0 /\ 0 \in Nodes /\ r \in Nat
      /\ node[k][r] \in Records /\ NodesOK /\ bwd \in Wires /\ bwd[k][j0] \in Seq(Cells)
      /\ Link(node[k][j0], node[k][r], fwd[k][j0], bwd[k][j0], on[k][j0], chan[j0])
      /\ \A s \in Relays : s \in Nodes
  BY Neighbours, Known DEF WiresOK
<1>2. /\ Live(k, r) /\ node[k][r].state = "onionskin_pending" /\ UNCHANGED <<path, fwd, on, chan>>
      /\ Asked(node[k][r]) /\ Kept(node[k][r])
  BY DEF onionskin_answer, Asked, Alive, Kept, Live, Exists
<1>3. CASE node' = [node EXCEPT ![k][r] = Marked(@)] /\ UNCHANGED bwd
  BY <1>1, <1>2, <1>3, MarkCalm
<1>4. CASE /\ node' = [node EXCEPT ![k][r].state = "open"]
           /\ bwd' = SentBack(bwd, k, j0, Cell("CREATED"))
  <2>1. PICK e : e = [node[k][r] EXCEPT !.state = "open"]
    OBVIOUS
  <2>2. /\ node'[k][r] = e
        /\ \A q \in Circuits, j \in Nodes : q # k \/ j # r => node'[q][j] = node[q][j]
    BY <1>1, <1>4, <2>1 DEF NodesOK
  <2>3. e.state = "open" /\ Alive(e) /\ ~Asked(e)
    BY <1>1, <1>2, <2>1 DEF Records, Alive, Kept, Asked, Live
  <2>4. PICK c \in Cells : c = Cell("CREATED") /\ c.cmd = "CREATED"
    BY CellKinds
  <2>5. /\ bwd'[k][j0] \in {bwd[k][j0], Append(bwd[k][j0], c)}
        /\ \A q \in Circuits, j \in Links : q # k \/ j # j0 => bwd'[q][j] = bwd[q][j]
        /\ chan[j0][on[k][j0]].far = "open" => bwd'[k][j0] = Append(bwd[k][j0], c)
    <3>1. j0 \in Links /\ bwd \in Wires /\ bwd' = SentBack(bwd, k, j0, c)
      BY <1>1, <1>4, <2>4
    <3> HIDE DEF j0
    <3> QED BY <3>1, SentBackCells
  <2>6. ASSUME NEW q \in Circuits, q # k PROVE PathOf(q)'
    <3>1. \A i \in Links : fwd'[q][i] = fwd[q][i] /\ bwd'[q][i] = bwd[q][i]
      BY <1>2, <2>5, <2>6
    <3> QED BY <1>2, <2>2, <2>6, <3>1, Elsewhere DEF PathInv
  <2>7. \A p, j : AtMost(k, p, j) => p = "at" /\ j = r
    BY <1>2, ThePlace
  <2>8. ASSUME AtMost(k, "at", r) PROVE AtMost(k, "bwd", j0)' /\ Quiet(bwd[k][j0])
    <3>1. Quiet(bwd[k][j0])
      BY <1>1, <2>8 DEF AtMost
    <3>2. Single(bwd'[k][j0])
      BY <1>1, <2>5, <3>1, AskSent, QuietSingle
    <3>3. \A i \in Links : \/ bwd'[k][i] = bwd[k][i]
                           \/ i = j0 /\ Single(bwd'[k][i])
      BY <2>5, <3>2
    <3>4. \A s \in Relays : Asked(node'[k][s]) => Asked(node[k][s]) /\ s # r
      BY <1>1, <2>2, <2>3
    <3>5. AtMost(k, "bwd", j0)'
      BY <1>2, <2>8, <3>3, <3>4, Move
    <3> QED BY <3>1, <3>5
  <2>9. ASSUME NEW n \in Nat, AtMost(k, "at", r), ~Failed(k)', n = path[k].open,
               Reaches(k, n), Where(k, "at", r, n)
        PROVE  Reaches(k, n)' /\ Where(k, "bwd", j0, n)'
    <3>1. n = j0 /\ n \in Links /\ n + 1 = r
      BY <1>1, <1>2, <2>9 DEF Where
    <3>2. Reaches(k, n)'
      <4>1. \A s \in Relays : s <= n => s # r
        BY <3>1
      <4> QED BY <1>1, <1>2, <2>2, <2>9, <4>1 DEF Reaches
    <3>3. bwd[k][j0] = <<>>
      <4>1. ~Has(bwd[k][j0], "DESTROY")
        BY <1>1, <1>2 DEF Link
      <4> QED BY <1>1, <2>8, <2>9, <4>1, QuietNone
    <3>4. chan[j0][on[k][j0]].far = "open"
      <4> SUFFICES ASSUME chan[j0][on[k][j0]].far # "open" PROVE FALSE
        OBVIOUS
      <4>1. on[k][j0] # 0 /\ Cut(on[k][j0], chan[j0])
        BY <1>1, <1>2 DEF Link, Cut, Kept
      <4>2. AlarmAt(k, j0)
        BY <1>1, <4>1, CutAlarm DEF AlarmAt
      <4>3. AlarmAt(k, j0)'
        BY <1>1, <4>2 DEF NewsStay
      <4>4. path'[k].open = n /\ n <= n
        BY <1>2, <2>9
      <4> QED BY <2>9, <3>1, <4>3, <4>4 DEF Failed
    <3>5. bwd'[k][n] = <<Cell("CREATED")>>
      BY <2>4, <2>5, <3>1, <3>3, <3>4
    <3>6. Where(k, "bwd", j0, n)'
      BY <2>2, <2>3, <3>1, <3>5 DEF Where
    <3> QED BY <3>2, <3>6
  <2>10. node'[k][0] = node[k][0] /\ path'[k] = path[k] /\ \E i \in Links : on[k][i] # 0
    <3>1. on[k][j0] # 0
      BY <1>1, <1>2 DEF Link, Kept
    <3> QED BY <1>1, <1>2, <2>2, <3>1
  <2>11. PathOf(k)'
    <3>1. j0 \in Nat
      BY <1>1, Neighbours
    <3>2. PICK p0 \in {"fwd", "at", "bwd"} : p0 = "at"
      OBVIOUS
    <3>3. PICK s \in {"fwd", "at", "bwd"} : s = "bwd"
      OBVIOUS
    <3>4. AtMost(k, p0, r) => AtMost(k, s, j0)'
      BY <2>8, <3>2, <3>3
    <3>5. \A p, j : AtMost(k, p, j) => p = p0 /\ j = r
      BY <2>7, <3>2
    <3>6. ASSUME NEW n \in Nat, AtMost(k, p0, r), ~Failed(k)', n = path[k].open,
                 Reaches(k, n), Where(k, p0, r, n)
          PROVE  Reaches(k, n)' /\ Where(k, s, j0, n)'
      BY <2>9, <3>2, <3>3, <3>6
    <3>7. PathOf(k)
      BY DEF PathInv
    <3> HIDE DEF j0
    <3> QED BY <2>10, <3>1, <3>4, <3>5, <3>6, <3>7, PlaceMoves
  <2> QED BY <2>6, <2>11 DEF PathInv
<1> QED BY <1>3, <1>4 DEF onionskin_answer

(* A relay passes an EXTEND cell on.                                       *)
LEMMA PassedOnPath ==
  ASSUME IInv, IInv', NewsStay, PathInv, NEW k \in Circuits, NEW r \in Relays,
         FromBehind(k, r, "EXTEND"), Live(k, r), node[k][r].n_chan,
         NEW c, c = Head(fwd[k][r - 1]), c.hop # r,
         fwd' = SentForward(PoppedFwd(k, r), k, r, c), UNCHANGED <<node, path, bwd, on, chan>>
  PROVE  PathInv'
<1>1. PICK j0 \in Links : j0 = r - 1 /\ j0 + 1 = r /\ j0 # r /\ r \in Nat /\ j0 \in Nat /\ r # 0
                          /\ r \in Nodes
  BY Neighbours
<1>2. /\ fwd[k][j0] \in Seq(Cells) /\ c = Head(fwd[k][j0]) /\ fwd[k][j0] # <<>>
      /\ r \in Links =>
           /\ fwd[k][r] \in Seq(Cells)
           /\ Link(node[k][r], node[k][r + 1], fwd[k][r], bwd[k][r], on[k][r], chan[r])
  BY <1>1, Known DEF FromBehind
<1>3. PICK w \in Wires : w = PoppedFwd(k, r)
  BY TakenFromBehind
<1>4. /\ \A q \in Circuits, i \in Links : q # k \/ i # j0 => w[q][i] = fwd[q][i]
      /\ ~Quiet(fwd[k][j0]) /\ (Single(fwd[k][j0]) => Quiet(w[k][j0]))
      /\ Has(fwd[k][j0], "EXTEND") /\ on[k][j0] # 0
  <2>1. PICK cmd : cmd = "EXTEND"
    OBVIOUS
  <2>2. FromBehind(k, r, cmd) /\ cmd # "DESTROY"
    BY <2>1
  <2>3. /\ \A q \in Circuits, i \in Links : q # k \/ i # r - 1 => w[q][i] = fwd[q][i]
        /\ ~Quiet(fwd[k][r - 1]) /\ (Single(fwd[k][r - 1]) => Quiet(w[k][r - 1]))
        /\ Has(fwd[k][r - 1], cmd) /\ on[k][r - 1] # 0
    BY <1>3, <2>2, FwdTaken
  <2> QED BY <1>1, <2>1, <2>3
<1>5. c \in Cells
  BY <1>2, CellTaken
<1>6. /\ \A q \in Circuits, i \in Links : q # k \/ i # r => fwd'[q][i] = w[q][i]
      /\ r \in Links =>
           /\ fwd'[k][r] \in {w[k][r], Append(w[k][r], c)}
           /\ chan[r][on[k][r]].near = "open" => fwd'[k][r] = Append(w[k][r], c)
  <2>1. fwd' = SentForward(w, k, r, c)
    BY <1>3
  <2>2. CASE r \in Links
    <3>1. PICK v : v = SentForward(w, k, r, c)
      OBVIOUS
    <3>2. /\ v[k][r] \in {w[k][r], Append(w[k][r], c)}
          /\ \A q \in Circuits, i \in Links : q # k \/ i # r => v[q][i] = w[q][i]
          /\ chan[r][on[k][r]].near = "open" => v[k][r] = Append(w[k][r], c)
      <4>1. SentTo(w, k, r, c, v, chan[r][on[k][r]].near)
        BY <1>3, <1>5, <2>2, <3>1, SentForwardTo
      <4> QED BY <4>1 DEF SentTo
    <3> QED BY <2>1, <3>1, <3>2
  <2>3. CASE r \notin Links
    BY <2>1, <2>3 DEF SentForward, Wires
  <2> QED BY <2>2, <2>3
<1>7. ASSUME NEW q \in Circuits, q # k PROVE PathOf(q)'
  <2>1. \A i \in Links : fwd'[q][i] = fwd[q][i]
    <3>1. \A i \in Links : w[q][i] = fwd[q][i]
      BY <1>4, <1>7
    <3>2. \A i \in Links : fwd'[q][i] = w[q][i]
      BY <1>6, <1>7
    <3> QED BY <3>1, <3>2
  <2> QED BY <1>7, <2>1, Elsewhere DEF PathInv
<1>8. \A p, j : AtMost(k, p, j) => p = "fwd" /\ j = j0
  BY <1>4, ThePlace
<1>9. ASSUME AtMost(k, "fwd", j0) PROVE AtMost(k, "fwd", r)' /\ (r \in Links => Quiet(fwd[k][r]))
  <2>1. (r \in Links => Quiet(fwd[k][r])) /\ Single(fwd[k][j0])
    BY <1>1, <1>9 DEF AtMost
  <2>2. r \in Links => Single(fwd'[k][r])
    BY <1>1, <1>2, <1>4, <1>5, <1>6, <2>1, AskSent, QuietSingle
  <2>3. \A i \in Links : \/ fwd'[k][i] = fwd[k][i] /\ i # j0
                         \/ Quiet(fwd'[k][i])
                         \/ i = r /\ Single(fwd'[k][i])
    BY <1>1, <1>4, <1>6, <2>1, <2>2
  <2>4. AtMost(k, "fwd", r)'
    BY <1>9, <2>3, Move
  <2> QED BY <2>1, <2>4
<1>10. ASSUME NEW n \in Nat, AtMost(k, "fwd", j0), ~Failed(k)', n = path[k].open,
              Reaches(k, n), Where(k, "fwd", j0, n)
       PROVE  Reaches(k, n)' /\ Where(k, "fwd", r, n)'
  <2>1. n \in Links /\ j0 < n /\ fwd[k][j0] = <<Extend(n)>> /\ on[k][n] = 0
    <3>1. ASSUME fwd[k][j0] = <<Cell("CREATE")>> PROVE FALSE
      <4>1. Has(fwd[k][j0], "EXTEND") <=> "EXTEND" = "CREATE"
        BY <3>1, TheCells
      <4> QED BY <1>4, <4>1
    <3> QED BY <1>10, <3>1 DEF Where
  <2>2. c = Extend(n) /\ c.hop = n
    <3>1. PICK h : h = Extend(n)
      OBVIOUS
    <3>2. fwd[k][j0] = <<h>> /\ h.hop = n
      BY <2>1, <3>1 DEF Extend
    <3> QED BY <1>2, <3>1, <3>2
  <2>3. r < n /\ r \in Links /\ r <= n
    <3>1. MaxLen \in Nat
      BY Neighbours
    <3> QED BY <1>1, <2>1, <2>2, <3>1 DEF Links
  <2>4. fwd[k][r] = <<>>
    <3>1. ~Has(fwd[k][r], "DESTROY")
      BY <1>2, <2>3 DEF Link, Live, Exists
    <3> QED BY <1>2, <1>9, <1>10, <2>3, <3>1, QuietNone
  <2>5. chan[r][on[k][r]].near = "open"
    <3> SUFFICES ASSUME chan[r][on[k][r]].near # "open" PROVE FALSE
      OBVIOUS
    <3>1. on[k][r] # 0 /\ Cut(on[k][r], chan[r])
      BY <1>2, <2>3 DEF Link, Cut
    <3>2. AlarmAt(k, r)
      BY <1>2, <2>3, <3>1, CutAlarm DEF AlarmAt
    <3>3. AlarmAt(k, r)'
      BY <2>3, <3>2 DEF NewsStay
    <3>4. path'[k].open = n
      BY <1>10
    <3> QED BY <1>10, <2>3, <3>3, <3>4 DEF Failed
  <2>6. fwd'[k][r] = <<Extend(n)>>
    <3>1. w[k][r] = <<>>
      BY <1>1, <1>4, <2>3, <2>4
    <3>2. fwd'[k][r] = Append(<<>>, Extend(n))
      BY <1>6, <2>2, <2>3, <2>5, <3>1
    <3> QED BY <3>2
  <2>7. Where(k, "fwd", r, n)'
    BY <2>1, <2>3, <2>6 DEF Where
  <2>8. Reaches(k, n)'
    BY <1>10 DEF Reaches
  <2> QED BY <2>7, <2>8
<1>11. PathOf(k)'
  <2>1. node'[k][0] = node[k][0] /\ path'[k] = path[k] /\ \E i \in Links : on[k][i] # 0
    BY <1>4
  <2>2. AtMost(k, "fwd", j0) => AtMost(k, "fwd", r)'
    BY <1>9
  <2> QED BY <1>1, <1>8, <1>10, <2>1, <2>2, PlaceMoves DEF PathInv
<1> QED BY <1>7, <1>11 DEF PathInv

(* A relay that is asked to extend finds a channel, waits for one or fails. *)
LEMMA ExtendPath ==
  ASSUME IInv, IInv', NewsStay, PathInv, NEW k \in Circuits, NEW r \in Relays,
         FromBehind(k, r, "EXTEND"), Live(k, r), ~node[k][r].n_chan,
         NEW c, c = Head(fwd[k][r - 1]), c.hop = r,
         Connect(k, r, PoppedFwd(k, r)), UNCHANGED bwd
  PROVE  PathInv'
<1>1. PICK j0 \in Links : j0 = r - 1 /\ j0 + 1 = r /\ j0 # r /\ r \in Nat /\ j0 \in Nat /\ r # 0
                          /\ r \in Nodes /\ 0 \in Nodes /\ \A s \in Relays : s \in Nodes
  BY Neighbours
<1>2. /\ fwd[k][j0] \in Seq(Cells) /\ c = Head(fwd[k][j0]) /\ fwd[k][j0] # <<>>
      /\ node[k][r] \in Records /\ NodesOK /\ WiresOK
  BY <1>1, Known DEF FromBehind
<1>3. PICK w \in Wires : w = PoppedFwd(k, r)
  BY TakenFromBehind
<1>4. /\ \A q \in Circuits, i \in Links : q # k \/ i # j0 => w[q][i] = fwd[q][i]
      /\ ~Quiet(fwd[k][j0]) /\ (Single(fwd[k][j0]) => Quiet(w[k][j0]))
      /\ Has(fwd[k][j0], "EXTEND") /\ on[k][j0] # 0
  <2>1. PICK cmd : cmd = "EXTEND"
    OBVIOUS
  <2>2. FromBehind(k, r, cmd) /\ cmd # "DESTROY"
    BY <2>1
  <2>3. /\ \A q \in Circuits, i \in Links : q # k \/ i # r - 1 => w[q][i] = fwd[q][i]
        /\ ~Quiet(fwd[k][r - 1]) /\ (Single(fwd[k][r - 1]) => Quiet(w[k][r - 1]))
        /\ Has(fwd[k][r - 1], cmd) /\ on[k][r - 1] # 0
    BY <1>3, <2>2, FwdTaken
  <2> QED BY <1>1, <2>1, <2>3
<1>5. r \in Links
  <2>1. c \in Cells
    BY <1>2, CellTaken
  <2> QED BY <2>1 DEF Cells
<1>6. fwd[k][r] = <<>> /\ on[k][r] = 0 /\ Alive(node[k][r])
  BY <1>5, Known DEF Link, Live, Exists, Alive, Kept
<1>7. \A p, j : AtMost(k, p, j) => p = "fwd" /\ j = j0
  BY <1>4, ThePlace
<1>8. ASSUME NEW n \in Nat, Where(k, "fwd", j0, n) PROVE n = r
  <2>1. n \in Links /\ fwd[k][j0] = <<Extend(n)>>
    <3>1. ASSUME fwd[k][j0] = <<Cell("CREATE")>> PROVE FALSE
      <4>1. Has(fwd[k][j0], "EXTEND") <=> "EXTEND" = "CREATE"
        BY <3>1, TheCells
      <4> QED BY <1>4, <4>1
    <3> QED BY <1>8, <3>1 DEF Where
  <2>2. PICK h : h = Extend(n)
    OBVIOUS
  <2>3. fwd[k][j0] = <<h>> /\ h.hop = n
    BY <2>1, <2>2 DEF Extend
  <2> QED BY <1>2, <2>2, <2>3
(* The question goes on as e says.                                         *)
<1>9. ASSUME NEW e, node' = [node EXCEPT ![k][r] = e], UNCHANGED path, Alive(e),
             \A q \in Circuits, i \in Links :
               q # k \/ i # r => fwd'[q][i] = w[q][i] /\ on'[q][i] = on[q][i],
             on'[k] = [i \in Links |-> on'[k][i]], \A q \in Circuits : q # k => on'[q] = on[q],
             NEW s \in {"fwd", "at"},
             \/ /\ s = "fwd" /\ fwd'[k][r] = <<Cell("CREATE")>> /\ e.state = "open"
             \/ /\ s = "at" /\ fwd'[k][r] = w[k][r] /\ e.state = "chan_wait" /\ UNCHANGED on
      PROVE  PathInv'
  <2>1. /\ node'[k][r] = e
        /\ \A q \in Circuits, j \in Nodes : q # k \/ j # r => node'[q][j] = node[q][j]
    BY <1>1, <1>2, <1>9 DEF NodesOK
  <2>2. ASSUME NEW q \in Circuits, q # k PROVE PathOf(q)'
    <3>1. \A i \in Links : fwd'[q][i] = fwd[q][i] /\ bwd'[q][i] = bwd[q][i]
      BY <1>4, <1>9, <2>2
    <3>2. on'[q] = on[q] /\ path'[q] = path[q]
      BY <1>9, <2>2
    <3> QED BY <2>1, <2>2, <3>1, <3>2, Elsewhere DEF PathInv
  <2>3. ASSUME AtMost(k, "fwd", j0) PROVE AtMost(k, s, r)'
    <3>1. Single(fwd'[k][r]) \/ (s = "at" /\ fwd'[k][r] = fwd[k][r])
      <4>1. fwd'[k][r] = <<Cell("CREATE")>> => Single(fwd'[k][r])
        BY TheCells
      <4> QED BY <1>1, <1>4, <1>5, <1>9, <4>1
    <3>2. Quiet(fwd'[k][j0])
      BY <1>1, <1>4, <1>9, <2>3, ThePlace
    <3>3. \A i \in Links : \/ fwd'[k][i] = fwd[k][i] /\ i # j0
                           \/ Quiet(fwd'[k][i])
                           \/ s = "fwd" /\ i = r /\ Single(fwd'[k][i])
      BY <1>1, <1>4, <1>9, <3>1, <3>2
    <3>4. \A t \in Relays : Asked(node'[k][t]) => Asked(node[k][t]) \/ (s = "at" /\ t = r)
      BY <1>1, <1>9, <2>1 DEF Asked
    <3> QED BY <2>3, <3>3, <3>4, Move
  <2>4. ASSUME NEW n \in Nat, AtMost(k, "fwd", j0), ~Failed(k)', n = path[k].open,
               Reaches(k, n), Where(k, "fwd", j0, n)
        PROVE  Reaches(k, n)' /\ Where(k, s, r, n)'
    <3>1. n = r
      BY <1>8, <2>4
    <3>2. Reaches(k, n)'
      <4>1. ASSUME NEW t \in Relays, t <= n
            PROVE  Alive(node'[k][t]) /\ node'[k][t].state \in {"open", "chan_wait"}
        BY <1>1, <1>9, <2>1, <2>4, <4>1 DEF Reaches
      <4>2. ASSUME NEW i \in Links, i > n PROVE on'[k][i] = 0
        <5>1. i # r
          BY <3>1, <4>2
        <5> QED BY <1>9, <2>4, <4>2, <5>1 DEF Reaches
      <4> QED BY <4>1, <4>2 DEF Reaches
    <3>3. Where(k, s, r, n)'
      BY <1>1, <1>5, <1>9, <2>1, <3>1 DEF Where
    <3> QED BY <3>2, <3>3
  <2>5. PathOf(k)'
    <3>1. node'[k][0] = node[k][0] /\ path'[k] = path[k] /\ \E i \in Links : on[k][i] # 0
      BY <1>1, <1>4, <1>9, <2>1
    <3>2. AtMost(k, "fwd", j0) => AtMost(k, s, r)'
      BY <2>3
    <3>3. PathOf(k) /\ s \in {"fwd", "at", "bwd"} /\ r \in Nat
      BY <1>1 DEF PathInv
    <3>4. PICK p0 \in {"fwd", "at", "bwd"} : p0 = "fwd"
      OBVIOUS
    <3>5. \A p, j : AtMost(k, p, j) => p = p0 /\ j = j0
      BY <1>7, <3>4
    <3>6. AtMost(k, p0, j0) => AtMost(k, s, r)'
      BY <3>2, <3>4
    <3>7. ASSUME NEW n \in Nat, AtMost(k, p0, j0), ~Failed(k)', n = path[k].open,
                 Reaches(k, n), Where(k, p0, j0, n)
          PROVE  Reaches(k, n)' /\ Where(k, s, r, n)'
      BY <2>4, <3>4, <3>7
    <3> QED BY <3>1, <3>3, <3>5, <3>6, <3>7, PlaceMoves
  <2> QED BY <2>2, <2>5 DEF PathInv
<1>10. ASSUME NEW x \in channel_get_for_extend(r, k), on' = [on EXCEPT ![k][r] = x],
              fwd' = [w EXCEPT ![k][r] = <<Cell("CREATE")>>], UNCHANGED path,
              node' = [node EXCEPT ![k][r] = Delivered(@, r)]
       PROVE  PathInv'
  <2>1. PICK e : e = Delivered(node[k][r], r)
    OBVIOUS
  <2>2. /\ node' = [node EXCEPT ![k][r] = e] /\ Alive(e) /\ e.state = "open"
    BY <1>1, <1>2, <1>6, <1>10, <2>1 DEF Delivered, Records, Alive, Kept
  <2>3. PICK t : t = <<Cell("CREATE")>>
    OBVIOUS
  <2>4. fwd'[k][r] = t /\ \A q \in Circuits, i \in Links : q # k \/ i # r => fwd'[q][i] = w[q][i]
    <3>1. fwd' = [w EXCEPT ![k][r] = t]
      BY <1>10, <2>3
    <3> QED BY <1>3, <1>5, <3>1 DEF Wires
  <2>5. /\ \A q \in Circuits, i \in Links : q # k \/ i # r => on'[q][i] = on[q][i]
        /\ on'[k] = [i \in Links |-> on'[k][i]] /\ \A q \in Circuits : q # k => on'[q] = on[q]
    BY <1>2, <1>10 DEF WiresOK
  <2>6. fwd'[k][r] = <<Cell("CREATE")>>
    BY <2>3, <2>4
  <2>7. PICK s \in {"fwd", "at"} : s = "fwd"
    OBVIOUS
  <2>8. /\ \A q \in Circuits, i \in Links :
             q # k \/ i # r => fwd'[q][i] = w[q][i] /\ on'[q][i] = on[q][i]
        /\ UNCHANGED path
    BY <1>10, <2>4, <2>5
  <2> QED BY <1>9, <2>2, <2>5, <2>6, <2>7, <2>8
<1>11. ASSUME node' = [node EXCEPT ![k][r].state = "chan_wait"], fwd' = w, UNCHANGED <<path, on>>
       PROVE  PathInv'
  <2>1. PICK e : e = [node[k][r] EXCEPT !.state = "chan_wait"]
    OBVIOUS
  <2>2. /\ node' = [node EXCEPT ![k][r] = e] /\ Alive(e) /\ e.state = "chan_wait"
    BY <1>1, <1>2, <1>6, <1>11, <2>1 DEF Records, Alive, Kept
  <2>3. /\ \A q \in Circuits, i \in Links :
             q # k \/ i # r => fwd'[q][i] = w[q][i] /\ on'[q][i] = on[q][i]
        /\ on'[k] = [i \in Links |-> on'[k][i]] /\ \A q \in Circuits : q # k => on'[q] = on[q]
        /\ fwd'[k][r] = w[k][r]
    BY <1>2, <1>11 DEF WiresOK
  <2> QED BY <1>9, <1>11, <2>2, <2>3
<1>12. ASSUME NEW state \in {"chan_wait", node[k][r].state},
              node' = [node EXCEPT ![k][r] = [Marked(@) EXCEPT !.state = state]],
              fwd' = w, UNCHANGED <<path, on>>
       PROVE  PathInv'
  <2>1. PICK e : e = [Marked(node[k][r]) EXCEPT !.state = state]
    OBVIOUS
  <2>2. node' = [node EXCEPT ![k][r] = e] /\ Sick(e)
    BY <1>1, <1>2, <1>6, <1>12, <2>1 DEF Records, Marked, Sick, Alive, Kept
  <2>3. PICK cmd : cmd = "EXTEND"
    OBVIOUS
  <2>4. FromBehind(k, r, cmd) /\ fwd' = PoppedFwd(k, r) /\ UNCHANGED <<path, bwd, on>>
    BY <1>1, <1>2, <1>3, <1>12, <2>3
  <2> QED BY <2>2, <2>4, BehindCalm
<1>13. CASE \E x \in channel_get_for_extend(r, k) :
              /\ on' = [on EXCEPT ![k][r] = x]
              /\ fwd' = [w EXCEPT ![k][r] = <<Cell("CREATE")>>] /\ UNCHANGED path
              /\ node' = [node EXCEPT ![k][r] = Delivered(@, r)]
  BY <1>10, <1>13
<1>14. \/ \E x \in channel_get_for_extend(r, k) :
            /\ on' = [on EXCEPT ![k][r] = x]
            /\ fwd' = [w EXCEPT ![k][r] = <<Cell("CREATE")>>] /\ UNCHANGED path
            /\ node' = [node EXCEPT ![k][r] = Delivered(@, r)]
       \/ /\ node' = [node EXCEPT ![k][r].state = "chan_wait"] /\ fwd' = w
          /\ UNCHANGED <<path, on>>
       \/ /\ node' = [node EXCEPT ![k][r] =
                        [Marked(@) EXCEPT !.state =
                           IF r = 0 \/ channel_get_for_extend(r, k) = {} THEN "chan_wait"
                           ELSE node[k][r].state]]
          /\ fwd' = w /\ UNCHANGED <<path, on>>
  BY <1>1, <1>3, Zenon DEF Connect
<1>15. CASE /\ node' = [node EXCEPT ![k][r] =
                          [Marked(@) EXCEPT !.state =
                             IF r = 0 \/ channel_get_for_extend(r, k) = {} THEN "chan_wait"
                             ELSE node[k][r].state]]
            /\ fwd' = w /\ UNCHANGED <<path, on>>
  <2>1. PICK state \in {"chan_wait", node[k][r].state} :
          state = IF r = 0 \/ channel_get_for_extend(r, k) = {} THEN "chan_wait"
                  ELSE node[k][r].state
    OBVIOUS
  <2>2. node' = [node EXCEPT ![k][r] = [Marked(@) EXCEPT !.state = state]]
    BY <1>15, <2>1, Zenon
  <2> QED BY <1>12, <1>15, <2>2
<1> QED BY <1>11, <1>13, <1>14, <1>15

LEMMA RelayOutPath ==
  ASSUME IInv, IInv', NewsStay, PathInv, NEW k \in Circuits, NEW r \in Relays,
         command_process_relay_cell_out(k, r)
  PROVE  PathInv'
<1>1. /\ r \in Nodes /\ node[k][r] \in Records /\ NodesOK
      /\ FromBehind(k, r, "EXTEND") /\ UNCHANGED bwd
  BY Neighbours, Known DEF command_process_relay_cell_out
<1>2. PICK c : c = Head(fwd[k][r - 1])
  OBVIOUS
<1>3. Alive(node[k][r]) <=> Live(k, r)
  BY DEF Live, Exists, Alive, Kept
<1>4. CASE ~Live(k, r)
  <2>1. fwd' = PoppedFwd(k, r) /\ UNCHANGED <<node, path, on>>
    BY <1>4 DEF command_process_relay_cell_out
  <2>2. PICK e : e = node[k][r]
    OBVIOUS
  <2>3. node' = [node EXCEPT ![k][r] = e]
    BY <1>1, <2>1, <2>2 DEF NodesOK
  <2> QED BY <1>1, <1>3, <1>4, <2>1, <2>2, <2>3, BehindCalm
<1>5. ASSUME Live(k, r), node' = [node EXCEPT ![k][r] = Marked(@)],
             fwd' = PoppedFwd(k, r), UNCHANGED <<path, on>>
      PROVE  PathInv'
  <2>1. PICK e : e = Marked(node[k][r])
    OBVIOUS
  <2>2. node' = [node EXCEPT ![k][r] = e] /\ Sick(e)
    BY <1>1, <1>5, <2>1, SickMarked DEF Live, Exists, Kept
  <2> QED BY <1>1, <1>5, <2>2, BehindCalm
<1>6. CASE Live(k, r)
  <2> DEFINE ready == node[k][r].state # "onionskin_pending"
  <2>1. CASE ready /\ c.hop = r
    <3>1. circuit_extend(k, r)
      BY <1>2, <1>6, <2>1 DEF command_process_relay_cell_out
    <3>2. CASE node[k][r].n_chan \/ node[k][r].state = "chan_wait"
      BY <1>5, <1>6, <3>1, <3>2 DEF circuit_extend
    <3>3. CASE ~(node[k][r].n_chan \/ node[k][r].state = "chan_wait")
      BY <1>1, <1>2, <1>6, <2>1, <3>1, <3>3, ExtendPath DEF circuit_extend
    <3> QED BY <3>2, <3>3
  <2>2. CASE ~(ready /\ c.hop = r) /\ ready /\ node[k][r].n_chan
    <3>1. /\ fwd' = SentForward(PoppedFwd(k, r), k, r, c)
          /\ UNCHANGED <<node, path, bwd, on, chan>>
      BY <1>2, <1>6, <2>2 DEF command_process_relay_cell_out
    <3> QED BY <1>1, <1>2, <1>6, <2>2, <3>1, PassedOnPath
  <2>3. CASE ~(ready /\ c.hop = r) /\ ~(ready /\ node[k][r].n_chan)
    <3>1. /\ node' = [node EXCEPT ![k][r] = Marked(@)]
          /\ fwd' = PoppedFwd(k, r) /\ UNCHANGED <<path, on, chan>>
      BY <1>2, <1>6, <2>3 DEF command_process_relay_cell_out
    <3> QED BY <1>5, <1>6, <3>1
  <2> QED BY <2>1, <2>2, <2>3
<1> QED BY <1>4, <1>6

(* A relay turns an answer into an EXTENDED cell, or passes that on.       *)
LEMMA AnswerPassedPath ==
  ASSUME IInv, IInv', NewsStay, PathInv, NEW k \in Circuits, NEW i \in Links, i # 0,
         NEW cmd \in {"CREATED", "EXTENDED"}, FromAhead(k, i, cmd), Live(k, i),
         bwd' = SentBack(PoppedBwd(k, i), k, i - 1, Cell("EXTENDED")),
         UNCHANGED <<node, path, fwd, on, chan>>
  PROVE  PathInv'
<1>1. PICK l \in Links : l = i - 1 /\ l + 1 = i /\ l # i /\ l \in Nat /\ i \in Nat /\ l < i
  <2>1. i - 1 \in Links /\ i - 1 + 1 = i /\ i - 1 # i /\ i - 1 \in Nat /\ i \in Nat /\ i - 1 < i
    BY CircuitBuildAssumption DEF Links
  <2> QED BY <2>1
<1>2. /\ bwd[k][l] \in Seq(Cells)
      /\ Link(node[k][l], node[k][i], fwd[k][l], bwd[k][l], on[k][l], chan[l])
  BY <1>1, Known
<1>3. PICK w \in Wires : w = PoppedBwd(k, i)
  BY TakenFromAhead
<1>4. /\ \A q \in Circuits, j \in Links : q # k \/ j # i => w[q][j] = bwd[q][j]
      /\ ~Quiet(bwd[k][i]) /\ (Single(bwd[k][i]) => Quiet(w[k][i])) /\ on[k][i] # 0
      /\ Has(bwd[k][i], cmd)
  BY <1>3, BwdTaken
<1>5. PICK c \in Cells : c = Cell("EXTENDED") /\ c.cmd = "EXTENDED"
  BY CellKinds
<1>6. /\ bwd'[k][l] \in {bwd[k][l], Append(bwd[k][l], c)}
      /\ \A q \in Circuits, j \in Links : q # k \/ j # l => bwd'[q][j] = w[q][j]
      /\ chan[l][on[k][l]].far = "open" => bwd'[k][l] = Append(bwd[k][l], c)
  <2>1. bwd' = SentBack(w, k, l, c) /\ w[k][l] = bwd[k][l]
    BY <1>1, <1>3, <1>4, <1>5
  <2>2. /\ bwd'[k][l] \in {w[k][l], Append(w[k][l], c)}
        /\ \A q \in Circuits, j \in Links : q # k \/ j # l => bwd'[q][j] = w[q][j]
        /\ chan[l][on[k][l]].far = "open" => bwd'[k][l] = Append(w[k][l], c)
    <3>1. PICK v : v = SentBack(w, k, l, c)
      OBVIOUS
    <3>2. /\ v[k][l] \in {w[k][l], Append(w[k][l], c)}
          /\ \A q \in Circuits, j \in Links : q # k \/ j # l => v[q][j] = w[q][j]
          /\ chan[l][on[k][l]].far = "open" => v[k][l] = Append(w[k][l], c)
      BY <3>1, SentBackCells
    <3>3. bwd' = v
      BY <2>1, <3>1
    <3> QED BY <3>2, <3>3
  <2> QED BY <2>1, <2>2
<1>7. ASSUME NEW q \in Circuits, q # k PROVE PathOf(q)'
  <2>1. \A j \in Links : bwd'[q][j] = bwd[q][j]
    BY <1>4, <1>6, <1>7
  <2> QED BY <1>7, <2>1, Elsewhere DEF PathInv
<1>8. \A p, j : AtMost(k, p, j) => p = "bwd" /\ j = i
  BY <1>4, ThePlace
<1>9. ASSUME AtMost(k, "bwd", i) PROVE AtMost(k, "bwd", l)' /\ Quiet(bwd[k][l])
  <2>1. Quiet(bwd[k][l]) /\ Single(bwd[k][i])
    BY <1>1, <1>9 DEF AtMost
  <2>2. Single(bwd'[k][l])
    BY <1>2, <1>5, <1>6, <2>1, AskSent, QuietSingle
  <2>3. \A j \in Links : \/ bwd'[k][j] = bwd[k][j] /\ j # i
                         \/ Quiet(bwd'[k][j])
                         \/ j = l /\ Single(bwd'[k][j])
    BY <1>1, <1>4, <1>6, <2>1, <2>2
  <2>4. AtMost(k, "bwd", l)'
    BY <1>9, <2>3, Move
  <2> QED BY <2>1, <2>4
<1>10. ASSUME NEW n \in Nat, AtMost(k, "bwd", i), ~Failed(k)', n = path[k].open,
              Reaches(k, n), Where(k, "bwd", i, n)
       PROVE  Reaches(k, n)' /\ Where(k, "bwd", l, n)'
  <2>1. /\ n \in Links /\ l < n /\ l <= n
        /\ Alive(node[k][n + 1]) /\ node[k][n + 1].state = "open"
    BY <1>1, <1>10 DEF Where
  <2>2. bwd[k][l] = <<>>
    <3>1. ~Has(bwd[k][l], "DESTROY")
      BY <1>2 DEF Link, Live, Exists, Kept
    <3> QED BY <1>2, <1>9, <1>10, <3>1, QuietNone
  <2>3. chan[l][on[k][l]].far = "open"
    <3> SUFFICES ASSUME chan[l][on[k][l]].far # "open" PROVE FALSE
      OBVIOUS
    <3>1. on[k][l] # 0 /\ Cut(on[k][l], chan[l])
      BY <1>2 DEF Link, Cut, Live, Exists
    <3>2. AlarmAt(k, l)
      BY <1>2, <3>1, <1>1, CutAlarm DEF AlarmAt
    <3>3. AlarmAt(k, l)'
      BY <3>2 DEF NewsStay
    <3>4. path'[k].open = n
      BY <1>10
    <3> QED BY <1>10, <2>1, <3>3, <3>4 DEF Failed
  <2>4. bwd'[k][l] = <<Cell("EXTENDED")>>
    BY <1>5, <1>6, <2>2, <2>3
  <2>5. Where(k, "bwd", l, n)'
    BY <2>1, <2>4 DEF Where
  <2>6. Reaches(k, n)'
    BY <1>10 DEF Reaches
  <2> QED BY <2>5, <2>6
<1>11. PathOf(k)'
  <2>1. node'[k][0] = node[k][0] /\ path'[k] = path[k] /\ \E j \in Links : on[k][j] # 0
    BY <1>4
  <2>2. AtMost(k, "bwd", i) => AtMost(k, "bwd", l)'
    BY <1>9
  <2> QED BY <1>1, <1>8, <1>10, <2>1, <2>2, PlaceMoves DEF PathInv
<1> QED BY <1>7, <1>11 DEF PathInv

(* The origin asks for the next hop, or is done.                           *)
LEMMA OriginAsks ==
  ASSUME IInv, IInv', NewsStay, PathInv, NEW k \in Circuits, Live(k, 0), on[k][0] # 0,
         NEW p \in Paths, circuit_send_next_onion_skin(k, p), UNCHANGED <<on, chan>>,
         p.open <= p.len, 0 < p.len, ~p.awaiting, p.open < p.len => p.open # 0,
         NEW p0 \in {"none", "bwd"}, NEW j0 \in Nat, AtMost(k, p0, j0),
         \A i \in Links : \/ bwd'[k][i] = bwd[k][i] /\ (p0 = "none" \/ i # j0)
                          \/ Quiet(bwd'[k][i]),
         \A q \in Circuits, i \in Links : q # k => bwd'[q][i] = bwd[q][i],
         ~Failed(k)' => Reaches(k, p.open) /\ (p.open \in Links => on[k][p.open] = 0)
  PROVE  PathInv'
<1>1. /\ 0 \in Nodes /\ 0 \in Links /\ 0 \in Nat /\ 0 + 1 = 1 /\ node[k][0] \in Records
      /\ NodesOK /\ PathsOK /\ fwd \in Wires /\ fwd[k][0] \in Seq(Cells)
      /\ (\A s \in Relays : s \in Nodes /\ s # 0)
      /\ Link(node[k][0], node[k][1], fwd[k][0], bwd[k][0], on[k][0], chan[0])
  <2>1. 0 \in Links /\ 0 \in Nat /\ 0 + 1 = 1
    BY Neighbours
  <2> QED BY <2>1, Neighbours, Known DEF WiresOK
<1>2. PICK n \in Nat : n = p.open
  BY DEF Paths
<1>3. p.len \in 0..MaxLen
  BY DEF Paths
(* What both ways to go on have in common.                                 *)
<1>4. ASSUME NEW state \in {"building", "open", "guard_wait"},
             node' = [node EXCEPT ![k][0].state = state],
             NEW p1, path' = [path EXCEPT ![k] = p1], p1.open = n, p1.len = p.len,
             \A q \in Circuits, i \in Links : q # k \/ i # 0 => fwd'[q][i] = fwd[q][i],
             NEW s \in {"none", "fwd"}, Phase(p1, state), s = "none" <=> ~p1.awaiting,
             IF s = "none" THEN fwd'[k][0] = fwd[k][0] ELSE Single(fwd'[k][0]),
             ~Failed(k)' => Where(k, s, 0, n)'
      PROVE  PathInv'
  <2>1. PICK e : e = [node[k][0] EXCEPT !.state = state]
    OBVIOUS
  <2>2. /\ node'[k][0] = e
        /\ \A q \in Circuits, j \in Nodes : q # k \/ j # 0 => node'[q][j] = node[q][j]
    BY <1>1, <1>4, <2>1 DEF NodesOK
  <2>3. e.state = state /\ e.state # "none"
    BY <1>1, <2>1 DEF Records
  <2>4. path'[k] = p1 /\ \A q \in Circuits : q # k => path'[q] = path[q]
    BY <1>1, <1>4 DEF PathsOK
  <2>5. ASSUME NEW q \in Circuits, q # k PROVE PathOf(q)'
    <3>1. /\ \A j \in Nodes : node'[q][j] = node[q][j]
          /\ \A i \in Links : fwd'[q][i] = fwd[q][i] /\ bwd'[q][i] = bwd[q][i]
      BY <1>4, <2>2, <2>5
    <3> QED BY <2>4, <2>5, <3>1, Elsewhere DEF PathInv
  <2>6. AtMost(k, s, 0)'
    <3>1. \A i \in Links : fwd'[k][i] = fwd[k][i] \/ (s = "fwd" /\ i = 0 /\ Single(fwd'[k][i]))
      BY <1>4
    <3>2. \A t \in Relays : Asked(node'[k][t]) => Asked(node[k][t])
      BY <1>1, <2>2
    <3>3. /\ \A i \in Links : \/ fwd'[k][i] = fwd[k][i] /\ (p0 # "fwd" \/ i # j0)
                              \/ Quiet(fwd'[k][i])
                              \/ s = "fwd" /\ i = 0 /\ Single(fwd'[k][i])
          /\ \A i \in Links : \/ bwd'[k][i] = bwd[k][i] /\ (p0 # "bwd" \/ i # j0)
                              \/ Quiet(bwd'[k][i])
                              \/ s = "bwd" /\ i = 0 /\ Single(bwd'[k][i])
          /\ \A t \in Relays : Asked(node'[k][t]) =>
               \/ Asked(node[k][t]) /\ (p0 # "at" \/ t # j0)
               \/ s = "at" /\ t = 0
      BY <3>1, <3>2
    <3> QED BY <3>3, Move
  <2>7. ASSUME ~Failed(k)' PROVE Reaches(k, path[k].open)' /\ Where(k, s, 0, path[k].open)'
    <3>1. path'[k].open = n
      BY <1>4, <2>4
    <3>2. Reaches(k, n)
      BY <1>2, <2>7
    <3>3. Reaches(k, n)'
      BY <1>1, <2>2, <3>2 DEF Reaches
    <3>4. Where(k, s, 0, n)'
      BY <1>4, <2>7
    <3> QED BY <3>1, <3>3, <3>4
  <2>8. /\ path'[k].open <= path'[k].len /\ node'[k][0].state # "none"
        /\ Phase(path'[k], node'[k][0].state) /\ (s = "none" <=> ~path'[k].awaiting)
        /\ s \in {"none", "fwd", "at", "bwd"}
    BY <1>2, <1>4, <2>2, <2>3, <2>4
  <2>9. PathOf(k)'
    BY <1>1, <2>6, <2>7, <2>8, KnownNext
  <2> QED BY <2>5, <2>9 DEF PathInv
<1>5. CASE p.open < p.len
  <2>1. /\ fwd' = SentForward(fwd, k, 0, Extend(n))
        /\ path' = [path EXCEPT ![k] = [p EXCEPT !.awaiting = TRUE]]
        /\ node' = [node EXCEPT ![k][0].state = "building"]
    BY <1>2, <1>5 DEF circuit_send_next_onion_skin
  <2>2. n \in Links /\ 0 < n /\ n # 0
    <3>1. n # 0 /\ n < p.len /\ MaxLen \in Nat
      BY <1>2, <1>5, Neighbours
    <3> QED BY <1>3, <3>1 DEF Links
  <2>3. PICK c \in Cells : c = Extend(n)
    BY <2>2, CellKinds
  <2>4. /\ fwd'[k][0] \in {fwd[k][0], Append(fwd[k][0], c)}
        /\ \A q \in Circuits, j \in Links : q # k \/ j # 0 => fwd'[q][j] = fwd[q][j]
        /\ chan[0][on[k][0]].near = "open" => fwd'[k][0] = Append(fwd[k][0], c)
    <3>1. PICK v : v = SentForward(fwd, k, 0, c)
      OBVIOUS
    <3>2. fwd \in Wires /\ 0 \in Links /\ fwd' = v
      BY <1>1, <2>1, <2>3, <3>1
    <3>3. /\ v[k][0] \in {fwd[k][0], Append(fwd[k][0], c)}
          /\ \A q \in Circuits, j \in Links : q # k \/ j # 0 => v[q][j] = fwd[q][j]
          /\ chan[0][on[k][0]].near = "open" => v[k][0] = Append(fwd[k][0], c)
      <4>1. SentTo(fwd, k, 0, c, v, chan[0][on[k][0]].near)
        BY <2>3, <3>1, <3>2, SentForwardTo
      <4> QED BY <4>1 DEF SentTo
    <3> QED BY <3>2, <3>3
  <2>5. Quiet(fwd[k][0])
    BY <1>1 DEF AtMost
  <2>6. Single(fwd'[k][0])
    BY <1>1, <2>4, <2>5, AskSent, QuietSingle
  <2>7. PICK p1 : p1 = [p EXCEPT !.awaiting = TRUE]
    OBVIOUS
  <2>8. p1.open = n /\ p1.len = p.len /\ p1.awaiting
    BY <1>2, <2>7 DEF Paths
  <2>9. Phase(p1, "building")
    BY <1>2, <1>5, <2>8 DEF Phase
  <2>10. ASSUME ~Failed(k)' PROVE Where(k, "fwd", 0, n)'
    <3>1. on[k][n] = 0
      BY <1>2, <2>2, <2>10
    <3>2. fwd[k][0] = <<>>
      <4>1. ~Has(fwd[k][0], "DESTROY")
        BY <1>1 DEF Link, Live, Exists
      <4> QED BY <1>1, <2>5, <4>1, QuietNone
    <3>3. chan[0][on[k][0]].near = "open"
      <4> SUFFICES ASSUME chan[0][on[k][0]].near # "open" PROVE FALSE
        OBVIOUS
      <4>1. Cut(on[k][0], chan[0])
        BY DEF Cut
      <4>2. AlarmAt(k, 0)
        BY <1>1, <4>1, CutAlarm DEF AlarmAt
      <4>3. AlarmAt(k, 0)'
        BY <1>1, <4>2 DEF NewsStay
      <4>4. path'[k].open = n /\ 0 <= n
        BY <1>1, <2>1, <2>7, <2>8 DEF PathsOK
      <4> QED BY <1>1, <2>10, <4>3, <4>4 DEF Failed
    <3>4. fwd'[k][0] = <<Extend(n)>>
      BY <2>3, <2>4, <3>2, <3>3
    <3> QED BY <1>1, <2>2, <3>1, <3>4 DEF Where
  <2>11. PICK s \in {"none", "fwd"} : s = "fwd"
    OBVIOUS
  <2>12. PICK state \in {"building", "open", "guard_wait"} : state = "building"
    OBVIOUS
  <2>13. /\ node' = [node EXCEPT ![k][0].state = state] /\ path' = [path EXCEPT ![k] = p1]
         /\ Phase(p1, state) /\ (s = "none" <=> ~p1.awaiting)
         /\ IF s = "none" THEN fwd'[k][0] = fwd[k][0] ELSE Single(fwd'[k][0])
         /\ ~Failed(k)' => Where(k, s, 0, n)'
    BY <2>1, <2>6, <2>7, <2>8, <2>9, <2>10, <2>11, <2>12
  <2> QED BY <1>4, <2>4, <2>8, <2>13
<1>6. CASE ~(p.open < p.len)
  <2>1. PICK state \in {"building", "open", "guard_wait"} :
          /\ state # "building" /\ node' = [node EXCEPT ![k][0].state = state]
          /\ path' = [path EXCEPT ![k] = p] /\ UNCHANGED fwd
    BY <1>6 DEF circuit_send_next_onion_skin
  <2>2. n = p.len
    BY <1>2, <1>3, <1>6
  <2>3. Phase(p, state)
    BY <1>2, <2>1, <2>2 DEF Phase
  <2>4. PICK s \in {"none", "fwd"} : s = "none"
    OBVIOUS
  <2>5. ~Failed(k)' => Where(k, s, 0, n)'
    BY <1>2, <2>4 DEF Where
  <2>6. s = "none" <=> ~p.awaiting
    BY <2>4
  <2> QED BY <1>2, <1>4, <2>1, <2>3, <2>4, <2>5, <2>6
<1> QED BY <1>5, <1>6

LEMMA AnswerPath ==
  ASSUME IInv, IInv', NewsStay, PathInv, NEW k \in Circuits, NEW i \in Links,
         NEW cmd \in {"CREATED", "EXTENDED"}, Answer(k, i, cmd)
  PROVE  PathInv'
<1>1. /\ i \in Nodes /\ node[k][i] \in Records /\ NodesOK /\ PathsOK /\ path[k] \in Paths
      /\ FromAhead(k, i, cmd) /\ UNCHANGED <<on, chan>>
  BY Neighbours, Known DEF Answer, PathsOK
<1>2. CASE ~Live(k, i)
  <2>1. bwd' = PoppedBwd(k, i) /\ UNCHANGED <<node, path, fwd>>
    BY <1>2 DEF Answer
  <2>2. PICK e : e = node[k][i]
    OBVIOUS
  <2>3. node' = [node EXCEPT ![k][i] = e] /\ ~Alive(node[k][i])
    BY <1>1, <1>2, <2>1, <2>2 DEF NodesOK, Live, Exists, Alive, Kept
  <2> QED BY <1>1, <2>1, <2>2, <2>3, AheadCalm
<1>3. CASE Live(k, i) /\ i # 0
  <2>1. /\ bwd' = SentBack(PoppedBwd(k, i), k, i - 1, Cell("EXTENDED"))
        /\ UNCHANGED <<node, path, fwd>>
    BY <1>3 DEF Answer
  <2> QED BY <1>1, <1>3, <2>1, AnswerPassedPath
<1>4. CASE Live(k, i) /\ i = 0
  <2>1. bwd' = PoppedBwd(k, 0) /\ HopAnswered(k) /\ FromAhead(k, 0, cmd)
    BY <1>1, <1>4 DEF Answer
  <2>2. CASE node' = [node EXCEPT ![k][0] = Marked(@)] /\ UNCHANGED <<path, fwd>>
    <3>1. PICK e : e = Marked(node[k][0])
      OBVIOUS
    <3>2. node' = [node EXCEPT ![k][0] = e] /\ Sick(e)
      BY <1>1, <1>4, <2>2, <3>1, SickMarked DEF Live, Exists, Kept
    <3> QED BY <1>1, <1>4, <2>1, <2>2, <3>2, AheadCalm
  <2>3. CASE circuit_send_next_onion_skin(k, [path[k] EXCEPT !.open = @ + 1, !.awaiting = FALSE])
    <3>1. PICK p : p = [path[k] EXCEPT !.open = @ + 1, !.awaiting = FALSE]
      OBVIOUS
    <3>2. PICK n \in Nat : n = path[k].open
      BY <1>1 DEF Paths
    <3>3. /\ p \in Paths /\ p.open = n + 1 /\ p.len = path[k].len /\ ~p.awaiting
          /\ circuit_send_next_onion_skin(k, p)
      <4>1. circuit_send_next_onion_skin(k, p)
        BY <2>3, <3>1
      <4>2. PICK h \in Paths : h = path[k]
        BY <1>1
      <4>3. PICK m \in Nat : m = n + 1
        BY <3>2
      <4>4. p = [h EXCEPT !.open = m, !.awaiting = FALSE] /\ h \in Paths
        BY <3>1, <3>2, <4>2, <4>3
      <4>5. p \in Paths /\ p.open = m /\ p.len = h.len /\ p.awaiting = FALSE
        BY <4>3, <4>4 DEF Paths
      <4> QED BY <4>1, <4>2, <4>3, <4>5
    <3>4. PICK w : w = PoppedBwd(k, 0)
      OBVIOUS
    <3>5. /\ \A q \in Circuits, j \in Links : q # k \/ j # 0 => bwd'[q][j] = bwd[q][j]
          /\ ~Quiet(bwd[k][0]) /\ (Single(bwd[k][0]) => Quiet(bwd'[k][0]))
          /\ on[k][0] # 0 /\ 0 \in Links
      BY <1>4, <2>1, <3>4, BwdTaken
    <3>6. Alive(node[k][0])
      BY <1>4 DEF Live, Exists, Alive, Kept
    <3>7. PICK p1 \in {"none", "fwd", "at", "bwd"}, j1 \in Nat : Known1(k, p1, j1)
      BY <3>6 DEF PathInv, PathOf
    <3>8. p1 = "bwd" /\ j1 = 0 /\ AtMost(k, "bwd", 0) /\ Single(bwd[k][0])
      <4>1. AtMost(k, p1, j1)
        BY <3>7 DEF Known1
      <4>2. p1 = "bwd" /\ j1 = 0 /\ Single(bwd[k][0])
        BY <3>5, <4>1, ThePlace
      <4> QED BY <4>1, <4>2
    <3>9. path[k].awaiting /\ Phase(path[k], node[k][0].state)
      BY <3>6, <3>7, <3>8 DEF PathInv, PathOf, Known1
    <3>10. n < path[k].len /\ path[k].len \in Nat
      BY <1>1, <3>2, <3>9 DEF Phase, Paths
    <3>11. p.open <= p.len /\ 0 < p.len /\ (p.open < p.len => p.open # 0)
      BY <3>3, <3>10
    <3>12. path'[k].open = n + 1
      BY <1>1, <3>3 DEF circuit_send_next_onion_skin, PathsOK, Paths
    <3>13. ASSUME ~Failed(k)'
           PROVE  Reaches(k, p.open) /\ (p.open \in Links => on[k][p.open] = 0)
      <4>1. ~Failed(k)
        <5>1. path[k].open <= path'[k].open /\ PathsOK'
          BY <3>2, <3>12 DEF IInv
        <5> QED BY <1>1, <3>13, <5>1, FailedStays
      <4>2. Reaches(k, n) /\ Where(k, "bwd", 0, n)
        BY <3>2, <3>7, <3>8, <4>1 DEF Known1
      <4>3. Alive(node[k][n + 1]) /\ node[k][n + 1].state = "open"
        BY <4>2 DEF Where
      <4>4. ASSUME NEW r \in Relays, r <= n + 1
            PROVE  Alive(node[k][r]) /\ node[k][r].state \in {"open", "chan_wait"}
        <5>1. r <= n \/ r = n + 1
          BY <4>4, Neighbours
        <5> QED BY <4>2, <4>3, <5>1 DEF Reaches
      <4>5. ASSUME NEW j \in Links, j > n + 1 \/ j = n + 1 PROVE on[k][j] = 0
        <5>1. j > n
          <6>1. j \in Nat
            BY Neighbours
          <6> QED BY <4>5, <6>1
        <5> QED BY <4>2, <5>1 DEF Reaches
      <4> QED BY <3>3, <4>4, <4>5 DEF Reaches
    <3>14. \A j \in Links : (bwd'[k][j] = bwd[k][j] /\ j # 0) \/ Quiet(bwd'[k][j])
      BY <3>5, <3>8
    <3>15. PICK p0 \in {"none", "bwd"} : p0 = "bwd"
      OBVIOUS
    <3>16. AtMost(k, p0, 0) /\ 0 \in Nat
      BY <3>8, <3>15
    <3>17. \A j \in Links : \/ bwd'[k][j] = bwd[k][j] /\ (p0 = "none" \/ j # 0)
                            \/ Quiet(bwd'[k][j])
      BY <3>14
    <3>18. \A q \in Circuits, j \in Links : q # k => bwd'[q][j] = bwd[q][j]
      BY <3>5
    <3> QED BY <1>1, <1>4, <3>3, <3>5, <3>11, <3>13, <3>16, <3>17, <3>18, OriginAsks
  <2> QED BY <2>1, <2>2, <2>3 DEF HopAnswered
<1> QED BY <1>2, <1>3, <1>4

LEMMA CreatedPath ==
  ASSUME IInv, IInv', NewsStay, PathInv, NEW k \in Circuits, NEW i \in Links,
         command_process_created_cell(k, i)
  PROVE  PathInv'
  BY AnswerPath DEF command_process_created_cell, Answer

LEMMA ExtendedPath ==
  ASSUME IInv, IInv', NewsStay, PathInv, NEW k \in Circuits, NEW i \in Links,
         command_process_relay_cell_in(k, i)
  PROVE  PathInv'
  BY AnswerPath DEF command_process_relay_cell_in, Answer

LEMMA NewExitPath ==
  ASSUME IInv, IInv', NewsStay, PathInv, NEW k \in Circuits, circuit_extend_to_new_exit(k)
  PROVE  PathInv'
<1>1. /\ Live(k, 0) /\ node[k][0].state = "open" /\ path[k].len < path[k].most
      /\ UNCHANGED <<bwd, on, chan>> /\ path[k] \in Paths /\ PathsOK /\ Origin(k)
      /\ circuit_send_next_onion_skin(k, [path[k] EXCEPT !.len = @ + 1])
  BY Known DEF circuit_extend_to_new_exit, PathsOK
<1>2. PICK p : p = [path[k] EXCEPT !.len = @ + 1]
  OBVIOUS
<1>3. PICK n \in Nat : n = path[k].open
  BY <1>1 DEF Paths
<1>4. Alive(node[k][0])
  BY <1>1 DEF Live, Exists, Alive, Kept
<1>5. PICK p1 \in {"none", "fwd", "at", "bwd"}, j1 \in Nat : Known1(k, p1, j1)
  BY <1>4 DEF PathInv, PathOf
<1>6. ~path[k].awaiting /\ n = path[k].len /\ n > 0 /\ p1 = "none" /\ AtMost(k, p1, j1)
  BY <1>1, <1>3, <1>4, <1>5 DEF PathInv, PathOf, Phase, Known1
<1>7. /\ p \in Paths /\ p.open = n /\ p.len = n + 1 /\ ~p.awaiting
      /\ circuit_send_next_onion_skin(k, p)
  <2>1. path[k].len + 1 \in 0..MaxLen
    <3>1. MaxLen \in Nat /\ path[k].len \in 0..MaxLen /\ path[k].most \in 0..MaxLen
      BY <1>1, Neighbours DEF Paths
    <3> QED BY <1>1, <3>1
  <2> QED BY <1>1, <1>2, <1>3, <1>6, <2>1 DEF Paths
<1>8. path'[k].open = n
  BY <1>1, <1>7 DEF circuit_send_next_onion_skin, PathsOK, Paths
<1>9. ASSUME ~Failed(k)'
      PROVE  Reaches(k, p.open) /\ (p.open \in Links => on[k][p.open] = 0)
  <2>1. ~Failed(k)
    <3>1. path[k].open <= path'[k].open /\ PathsOK'
      BY <1>3, <1>8 DEF IInv
    <3> QED BY <1>1, <1>9, <3>1, FailedStays
  <2> QED BY <1>3, <1>5, <1>6, <1>7, <2>1 DEF Known1, Where
<1>10. p.open <= p.len /\ 0 < p.len /\ (p.open < p.len => p.open # 0)
  BY <1>6, <1>7
<1>11. on[k][0] # 0
  BY <1>1 DEF Origin
<1>12. PICK p0 \in {"none", "bwd"} : p0 = "none" /\ AtMost(k, p0, j1)
  BY <1>6
<1>13. \A i \in Links : \/ bwd'[k][i] = bwd[k][i] /\ (p0 = "none" \/ i # j1)
                        \/ Quiet(bwd'[k][i])
  BY <1>1, <1>12
<1>14. \A q \in Circuits, i \in Links : q # k => bwd'[q][i] = bwd[q][i]
  BY <1>1
<1> QED BY <1>1, <1>7, <1>9, <1>10, <1>11, <1>12, <1>13, <1>14, OriginAsks

LEMMA UpgradePath ==
  ASSUME IInv, IInv', NewsStay, PathInv, NEW k \in Circuits,
         circuit_upgrade_circuits_from_guard_wait(k)
  PROVE  PathInv'
<1>1. /\ Live(k, 0) /\ node[k][0].state = "guard_wait" /\ UNCHANGED <<path, fwd, bwd, on>>
      /\ node' = [node EXCEPT ![k][0].state = "open"]
      /\ 0 \in Nodes /\ node[k][0] \in Records /\ NodesOK /\ PathsOK
      /\ \A s \in Relays : s \in Nodes /\ s # 0
  BY Known, Neighbours DEF circuit_upgrade_circuits_from_guard_wait
<1>2. /\ \A q \in Circuits, j \in Nodes : q # k \/ j # 0 => node'[q][j] = node[q][j]
      /\ node'[k][0].state = "open" /\ Alive(node[k][0])
  BY <1>1 DEF NodesOK, Records, Live, Exists, Alive, Kept
<1>3. ASSUME NEW q \in Circuits, q # k PROVE PathOf(q)'
  BY <1>1, <1>2, <1>3, Elsewhere DEF PathInv
<1>4. PathOf(k)'
  <2>1. PathOf(k)
    BY DEF PathInv
  <2>2. PICK p \in {"none", "fwd", "at", "bwd"}, j \in Nat : Known1(k, p, j)
    BY <1>2, <2>1 DEF PathOf
  <2>3. Phase(path'[k], node'[k][0].state)
    BY <1>1, <1>2, <2>1 DEF PathOf, Phase
  <2>4. AtMost(k, p, j)'
    <3>1. \A r \in Relays : node'[k][r] = node[k][r]
      BY <1>1, <1>2
    <3> QED BY <1>1, <2>2, <3>1 DEF Known1, AtMost
  <2>5. PICK n \in Nat : n = path[k].open
    BY <1>1 DEF PathsOK, Paths
  <2>6. Failed(k)' \/ (Reaches(k, path[k].open)' /\ Where(k, p, j, path[k].open)')
    <3> SUFFICES ASSUME ~Failed(k)' PROVE Reaches(k, n)' /\ Where(k, p, j, n)'
      BY <1>1, <2>5
    <3>1. ~Failed(k)
      <4>1. path[k].open <= path'[k].open /\ PathsOK'
        BY <1>1, <2>5 DEF IInv
      <4> QED BY <1>1, <4>1, FailedStays
    <3>2. Reaches(k, n) /\ Where(k, p, j, n)
      BY <2>2, <2>5, <3>1 DEF Known1
    <3>3. Reaches(k, n)'
      BY <1>1, <1>2, <3>2 DEF Reaches
    <3>4. n \in Links => n + 1 \in Nodes /\ n + 1 # 0 /\ n \in Nodes
      BY Neighbours
    <3>5. Where(k, p, j, n)'
      BY <1>1, <1>2, <3>2, <3>4 DEF Where
    <3> QED BY <3>3, <3>5
  <2>7. path'[k].open <= path'[k].len /\ (p = "none" <=> ~path'[k].awaiting)
    BY <1>1, <2>1, <2>2 DEF PathOf, Known1
  <2> QED BY <1>2, <2>3, <2>4, <2>6, <2>7, KnownNext
<1> QED BY <1>3, <1>4 DEF PathInv

(* Before it is launched nobody knows of a circuit.                        *)
LEMMA NoneYet ==
  ASSUME IInv, NEW k \in Circuits, PathOf(k), node[k][0].state = "none"
  PROVE  /\ \A i \in Links : on[k][i] = 0 /\ fwd[k][i] = <<>> /\ bwd[k][i] = <<>>
         /\ \A r \in Relays : node[k][r].state = "none"
         /\ AtMost(k, "none", 0)
<1>1. \A i \in Links : on[k][i] = 0
  BY DEF PathOf
<1>2. \A i \in Links : fwd[k][i] = <<>> /\ bwd[k][i] = <<>>
  BY <1>1, Known DEF Link
<1>3. ASSUME NEW r \in Relays PROVE node[k][r].state = "none"
  <2>1. r - 1 \in Links
    BY Neighbours
  <2> QED BY <1>1, <2>1, Known DEF Link
<1>4. \A i \in Links : /\ Quiet(fwd[k][i]) /\ Single(fwd[k][i])
                       /\ Quiet(bwd[k][i]) /\ Single(bwd[k][i])
  BY <1>2, NoneAsks
<1>5. \A r \in Relays : ~Asked(node[k][r])
  BY <1>3 DEF Asked, Alive, Kept
<1> QED BY <1>1, <1>2, <1>3, <1>4, <1>5 DEF AtMost

LEMMA EstablishPath ==
  ASSUME IInv, IInv', NewsStay, PathInv, NEW k \in Circuits, circuit_establish_circuit(k)
  PROVE  PathInv'
<1>1. /\ node[k][0].state = "none" /\ path[k].len > 0 /\ UNCHANGED bwd /\ Connect(k, 0, fwd)
      /\ 0 \in Nodes /\ 0 \in Links /\ 0 \in Nat /\ node[k][0] \in Records
      /\ NodesOK /\ WiresOK /\ PathsOK
      /\ \A s \in Relays : s \in Nodes /\ s # 0
  BY Known, Neighbours DEF circuit_establish_circuit
<1>2. PathOf(k) /\ path[k].open = 0 /\ ~path[k].awaiting /\ path[k] \in Paths
  BY <1>1 DEF PathInv, PathOf, PathsOK
<1>3. /\ \A i \in Links : on[k][i] = 0 /\ fwd[k][i] = <<>> /\ bwd[k][i] = <<>>
      /\ \A r \in Relays : node[k][r].state = "none"
      /\ AtMost(k, "none", 0)
  BY <1>1, <1>2, NoneYet
<1>4. ASSUME NEW e, node' = [node EXCEPT ![k][0] = e], e.state # "none",
             NEW p, path' = [path EXCEPT ![k] = p], p.open = 0, p.len = path[k].len,
             \A q \in Circuits, i \in Links : q # k \/ i # 0 =>
               fwd'[q][i] = fwd[q][i] /\ on'[q][i] = on[q][i],
             \A q \in Circuits : q # k => on'[q] = on[q],
             Alive(e) => /\ Phase(p, e.state)
                         /\ \/ p.awaiting /\ fwd'[k][0] = <<Cell("CREATE")>>
                            \/ ~p.awaiting /\ fwd'[k][0] = fwd[k][0] /\ on'[k][0] = 0
      PROVE  PathInv'
  <2>1. /\ node'[k][0] = e
        /\ \A q \in Circuits, j \in Nodes : q # k \/ j # 0 => node'[q][j] = node[q][j]
        /\ path'[k] = p /\ \A q \in Circuits : q # k => path'[q] = path[q]
    BY <1>1, <1>4 DEF NodesOK, PathsOK
  <2>2. ASSUME NEW q \in Circuits, q # k PROVE PathOf(q)'
    <3>1. \A i \in Links : fwd'[q][i] = fwd[q][i] /\ bwd'[q][i] = bwd[q][i]
      BY <1>1, <1>4, <2>2
    <3>2. \A j \in Nodes : node'[q][j] = node[q][j]
      BY <2>1, <2>2
    <3> QED BY <1>4, <2>1, <2>2, <3>1, <3>2, Elsewhere DEF PathInv
  <2>3. path'[k].open <= path'[k].len /\ node'[k][0].state # "none"
    BY <1>1, <1>2, <1>4, <2>1 DEF Paths
  <2>4. CASE ~Alive(e)
    BY <2>1, <2>2, <2>3, <2>4, GoneNext DEF PathInv
  <2>5. CASE Alive(e)
    <3>1. PICK s \in {"none", "fwd", "at", "bwd"} : s = IF p.awaiting THEN "fwd" ELSE "none"
      OBVIOUS
    <3>2. AtMost(k, s, 0)'
      <4>1. \A i \in Links : \/ fwd'[k][i] = fwd[k][i]
                             \/ s = "fwd" /\ i = 0 /\ Single(fwd'[k][i])
        <5>1. fwd'[k][0] = <<Cell("CREATE")>> => Single(fwd'[k][0])
          BY TheCells
        <5> QED BY <1>4, <2>5, <3>1, <5>1
      <4>2. \A t \in Relays : Asked(node'[k][t]) => Asked(node[k][t])
        BY <1>1, <2>1
      <4>3. /\ \A i \in Links : \/ fwd'[k][i] = fwd[k][i] /\ ("none" # "fwd" \/ i # 0)
                                \/ Quiet(fwd'[k][i])
                                \/ s = "fwd" /\ i = 0 /\ Single(fwd'[k][i])
            /\ \A i \in Links : \/ bwd'[k][i] = bwd[k][i] /\ ("none" # "bwd" \/ i # 0)
                                \/ Quiet(bwd'[k][i])
                                \/ s = "bwd" /\ i = 0 /\ Single(bwd'[k][i])
            /\ \A t \in Relays : Asked(node'[k][t]) =>
                 \/ Asked(node[k][t]) /\ ("none" # "at" \/ t # 0)
                 \/ s = "at" /\ t = 0
        BY <1>1, <4>1, <4>2
      <4> QED BY <1>3, <4>3, Move
    <3>3. Reaches(k, 0)'
      <4>1. \A r \in Relays : ~(r <= 0)
        BY DEF Relays
      <4>2. \A i \in Links : i > 0 => on'[k][i] = 0
        BY <1>3, <1>4
      <4> QED BY <4>1, <4>2 DEF Reaches
    <3>4. Where(k, s, 0, 0)'
      BY <1>1, <1>4, <2>5, <3>1 DEF Where
    <3>5. Reaches(k, path[k].open)' /\ Where(k, s, 0, path[k].open)'
      BY <1>4, <2>1, <3>3, <3>4
    <3>6. Phase(path'[k], node'[k][0].state) /\ (s = "none" <=> ~path'[k].awaiting)
      BY <1>4, <2>1, <2>5, <3>1
    <3>7. PathOf(k)'
      BY <1>1, <2>3, <3>1, <3>2, <3>5, <3>6, KnownNext
    <3> QED BY <2>2, <3>7 DEF PathInv
  <2> QED BY <2>4, <2>5
<1>5. ASSUME NEW x \in channel_get_for_extend(0, k), on' = [on EXCEPT ![k][0] = x],
             fwd' = [fwd EXCEPT ![k][0] = <<Cell("CREATE")>>],
             path' = [path EXCEPT ![k].awaiting = TRUE],
             node' = [node EXCEPT ![k][0] = Delivered(@, 0)]
      PROVE  PathInv'
  <2>1. PICK e : e = Delivered(node[k][0], 0)
    OBVIOUS
  <2>2. node' = [node EXCEPT ![k][0] = e] /\ e.state = "building"
    BY <1>1, <1>5, <2>1 DEF Delivered, Records
  <2>3. PICK p : p = [path[k] EXCEPT !.awaiting = TRUE]
    OBVIOUS
  <2>4. /\ path' = [path EXCEPT ![k] = p] /\ p.open = 0 /\ p.len = path[k].len /\ p.awaiting
    BY <1>1, <1>2, <1>5, <2>3 DEF Paths, PathsOK
  <2>5. PICK t : t = <<Cell("CREATE")>>
    OBVIOUS
  <2>6. fwd'[k][0] = t /\ \A q \in Circuits, i \in Links : q # k \/ i # 0 => fwd'[q][i] = fwd[q][i]
    <3>1. fwd' = [fwd EXCEPT ![k][0] = t]
      BY <1>5, <2>5
    <3> QED BY <1>1, <3>1 DEF WiresOK, Wires
  <2>7. /\ \A q \in Circuits, i \in Links : q # k \/ i # 0 => on'[q][i] = on[q][i]
        /\ \A q \in Circuits : q # k => on'[q] = on[q]
    BY <1>1, <1>5 DEF WiresOK
  <2>8. Phase(p, "building")
    BY <1>1, <1>2, <2>4 DEF Phase, Paths
  <2>9. fwd'[k][0] = <<Cell("CREATE")>>
    BY <2>5, <2>6
  <2> QED BY <1>4, <2>2, <2>4, <2>6, <2>7, <2>8, <2>9
<1>6. ASSUME NEW e, node' = [node EXCEPT ![k][0] = e], e.state = "chan_wait",
             UNCHANGED <<path, fwd, on>>
      PROVE  PathInv'
  <2>1. PICK p : p = path[k]
    OBVIOUS
  <2>2. path' = [path EXCEPT ![k] = p]
    BY <1>1, <1>6, <2>1 DEF PathsOK
  <2>3. Phase(p, e.state) /\ ~p.awaiting /\ p.open = 0 /\ on'[k][0] = 0
    BY <1>1, <1>2, <1>3, <1>6, <2>1 DEF Phase
  <2> QED BY <1>1, <1>4, <1>6, <2>1, <2>2, <2>3
<1>7. ASSUME node' = [node EXCEPT ![k][0].state = "chan_wait"], UNCHANGED <<path, fwd, on>>
      PROVE  PathInv'
  <2>1. PICK e : e = [node[k][0] EXCEPT !.state = "chan_wait"]
    OBVIOUS
  <2>2. node' = [node EXCEPT ![k][0] = e] /\ e.state = "chan_wait"
    BY <1>1, <1>7, <2>1 DEF Records
  <2> QED BY <1>6, <1>7, <2>2
<1>8. ASSUME node' = [node EXCEPT ![k][0] = [Marked(@) EXCEPT !.state = "chan_wait"]],
             UNCHANGED <<path, fwd, on>>
      PROVE  PathInv'
  <2>1. PICK e : e = [Marked(node[k][0]) EXCEPT !.state = "chan_wait"]
    OBVIOUS
  <2>2. node' = [node EXCEPT ![k][0] = e] /\ e.state = "chan_wait"
    BY <1>1, <1>8, <2>1 DEF Records, Marked
  <2> QED BY <1>6, <1>8, <2>2
<1>9. \/ \E x \in channel_get_for_extend(0, k) :
            /\ on' = [on EXCEPT ![k][0] = x]
            /\ fwd' = [fwd EXCEPT ![k][0] = <<Cell("CREATE")>>]
            /\ path' = [path EXCEPT ![k].awaiting = TRUE]
            /\ node' = [node EXCEPT ![k][0] = Delivered(@, 0)]
      \/ /\ node' = [node EXCEPT ![k][0].state = "chan_wait"] /\ fwd' = fwd
         /\ UNCHANGED <<path, on>>
      \/ /\ node' = [node EXCEPT ![k][0] = [Marked(@) EXCEPT !.state = "chan_wait"]]
         /\ fwd' = fwd /\ UNCHANGED <<path, on>>
  <2>1. Connect(k, 0, fwd)
    BY <1>1
  <2> QED BY <2>1, Zenon DEF Connect
<1> QED BY <1>5, <1>7, <1>8, <1>9

LEMMA OpenPath ==
  ASSUME IInv, IInv', NewsStay, PathInv, NEW i \in Links, NEW x \in Chans(i),
         channel_do_open_actions(i, x)
  PROVE  PathInv'
<1> SUFFICES ASSUME NEW q \in Circuits PROVE PathOf(q)'
  BY DEF PathInv
<1>1. PICK served \in SUBSET Pending(i) : Opened(i, x, served)
  BY OpenEffects
<1>2. /\ i \in Nodes /\ 0 \in Nodes /\ 0 \in Links /\ i \in Nat /\ 0 \in Nat
      /\ \A s \in Relays : s \in Nodes /\ s # 0
      /\ i # 0 => i \in Relays /\ i - 1 \in Links
      /\ \A r \in Nodes : node[q][r] \in Records
      /\ PathOf(q) /\ path[q] \in Paths /\ bwd' = bwd
      /\ fwd[q] \in [Links -> Seq(Cells)] /\ on[q] \in [Links -> Nat]
      /\ Link(node[q][i], node[q][i + 1], fwd[q][i], bwd[q][i], on[q][i], chan[i])
      /\ PathsOK /\ PathsOK'
  BY Known, Neighbours DEF PathInv, PathsOK, IInv, WiresOK, Wires, channel_do_open_actions,
     Relays, Links, Nodes, NodesOK
<1>3. /\ \A j \in Nodes : j # i => node'[q][j] = node[q][j]
      /\ q \in served => node'[q][i] = Delivered(node[q][i], i)
      /\ q \in Pending(i) \ served => node'[q][i] = Marked(node[q][i])
      /\ q \notin Pending(i) => node'[q][i] = node[q][i]
      /\ fwd'[q] \in [Links -> Seq(Cells)] /\ on'[q] \in [Links -> Nat]
      /\ \A j \in Links : q \notin served \/ j # i =>
           fwd'[q][j] = fwd[q][j] /\ on'[q][j] = on[q][j]
      /\ q \in served => fwd'[q][i] = <<Cell("CREATE")>> /\ on'[q][i] = x
  BY <1>1 DEF Opened
<1>4. q \in Pending(i) => Alive(node[q][i]) /\ node[q][i].state = "chan_wait"
  BY DEF Pending, Live, Exists, Alive, Kept
<1>5. PICK p \in Paths : p = path[q]
  BY <1>2
<1>6. PICK b \in BOOLEAN : b = (i = 0 /\ q \in served)
  OBVIOUS
<1>7. path'[q] = [p EXCEPT !.awaiting = p.awaiting \/ b]
  BY <1>1, <1>5, <1>6 DEF Opened
<1>8. ASSUME i # 0 \/ q \notin served PROVE path'[q] = path[q]
  <2>1. ~b
    BY <1>6, <1>8
  <2> QED BY <1>5, <1>7, <2>1 DEF Paths
<1>9. ASSUME q \notin served
      PROVE  /\ on'[q] = on[q] /\ path'[q] = path[q]
             /\ \A j \in Links : fwd'[q][j] = fwd[q][j] /\ bwd'[q][j] = bwd[q][j]
  <2>1. \A j \in Links : on'[q][j] = on[q][j]
    BY <1>3, <1>9
  <2>2. on'[q] = on[q]
    <3>1. PICK u \in [Links -> Nat] : u = on[q]
      BY <1>2
    <3>2. PICK v \in [Links -> Nat] : v = on'[q]
      BY <1>3
    <3>3. \A j \in Links : v[j] = u[j]
      BY <2>1, <3>1, <3>2
    <3>4. u = v
      BY <3>3
    <3> QED BY <3>1, <3>2, <3>4
  <2>3. \A j \in Links : fwd'[q][j] = fwd[q][j] /\ bwd'[q][j] = bwd[q][j]
    BY <1>2, <1>3, <1>9
  <2> QED BY <1>8, <1>9, <2>2, <2>3
<1>10. CASE q \notin Pending(i)
  <2>1. q \notin served /\ \A r \in Nodes : node'[q][r] = node[q][r]
    BY <1>1, <1>3, <1>10
  <2> QED BY <1>2, <1>9, <2>1, Elsewhere
<1>11. CASE q \in Pending(i) \ served
  <2>1. Sick(node'[q][i]) /\ ~Alive(node'[q][i])
    BY <1>2, <1>3, <1>4, <1>11, SickMarked DEF Alive
  <2>2. \A r \in Nodes : node'[q][r] = node[q][r] \/ (Sick(node'[q][r]) /\ ~Alive(node'[q][r]))
    BY <1>3, <2>1
  <2>3. \A j \in Links : CellsStay(q, j)
    BY <1>9, <1>11 DEF CellsStay
  <2>4. node'[q][0].state = "none" => node[q][0].state = "none"
    BY <1>2, <2>2 DEF Sick, Kept
  <2>5. Calm(q)
    BY <1>2, <1>9, <1>11, <2>2, <2>3, <2>4 DEF Calm
  <2> QED BY <1>2, <2>5, CalmPath
(* The origin sends its first question.                                    *)
<1>12. CASE q \in served /\ i = 0
  <2>1. /\ Alive(node[q][0]) /\ node[q][0].state = "chan_wait"
        /\ Phase(path[q], "chan_wait")
    BY <1>1, <1>4, <1>12, <1>2 DEF PathOf
  <2>2. ~p.awaiting /\ p.open = 0 /\ p.len > 0 /\ p.len \in Nat
    BY <1>5, <2>1 DEF Phase, Paths
  <2>3. /\ path'[q].open = 0 /\ path'[q].len = p.len /\ path'[q].awaiting
    BY <1>6, <1>7, <1>12, <2>2 DEF Paths
  <2>4. node'[q][0].state = "building"
    BY <1>2, <1>3, <1>12 DEF Delivered, Records
  <2>5. Phase(path'[q], node'[q][0].state)
    BY <2>2, <2>3, <2>4 DEF Phase
  <2>6. PICK p1 \in {"none", "fwd", "at", "bwd"}, j1 \in Nat : Known1(q, p1, j1)
    BY <1>2, <2>1 DEF PathOf
  <2>7. p1 = "none" /\ AtMost(q, "none", j1)
    BY <1>5, <2>2, <2>6 DEF Known1
  <2>8. AtMost(q, "fwd", 0)'
    <3>1. Single(fwd'[q][0])
      BY <1>3, <1>12, TheCells
    <3>2. \A j \in Links : \/ fwd'[q][j] = fwd[q][j]
                           \/ j = 0 /\ Single(fwd'[q][j])
      BY <1>3, <1>12, <3>1
    <3>3. \A r \in Relays : Asked(node'[q][r]) => Asked(node[q][r])
      BY <1>2, <1>3, <1>12
    <3>4. /\ \A j \in Links : \/ fwd'[q][j] = fwd[q][j] /\ ("none" # "fwd" \/ j # j1)
                              \/ Quiet(fwd'[q][j])
                              \/ "fwd" = "fwd" /\ j = 0 /\ Single(fwd'[q][j])
          /\ \A j \in Links : \/ bwd'[q][j] = bwd[q][j] /\ ("none" # "bwd" \/ j # j1)
                              \/ Quiet(bwd'[q][j])
                              \/ "fwd" = "bwd" /\ j = 0 /\ Single(bwd'[q][j])
          /\ \A r \in Relays : Asked(node'[q][r]) =>
               \/ Asked(node[q][r]) /\ ("none" # "at" \/ r # j1)
               \/ "fwd" = "at" /\ r = 0
      BY <1>2, <3>2, <3>3
    <3> QED BY <2>7, <3>4, Move
  <2>9. ASSUME ~Failed(q)' PROVE Reaches(q, 0)' /\ Where(q, "fwd", 0, 0)'
    <3>1. ~Failed(q)
      BY <1>2, <1>5, <2>2, <2>3, <2>9, FailedStays
    <3>2. Reaches(q, 0)
      BY <1>5, <2>2, <2>6, <3>1 DEF Known1
    <3>3. \A r \in Relays : ~(r <= 0)
      BY DEF Relays
    <3>4. Reaches(q, 0)'
      BY <1>3, <1>12, <3>2, <3>3 DEF Reaches
    <3> QED BY <1>2, <1>3, <1>12, <3>4 DEF Where
  <2>10. PICK s \in {"none", "fwd", "at", "bwd"} : s = "fwd"
    OBVIOUS
  <2>11. Failed(q)' \/ (Reaches(q, path[q].open)' /\ Where(q, "fwd", 0, path[q].open)')
    BY <2>3, <2>9
  <2>12. /\ path'[q].open <= path'[q].len /\ node'[q][0].state # "none"
         /\ s = "none" <=> ~path'[q].awaiting
         /\ AtMost(q, s, 0)'
         /\ Failed(q)' \/ (Reaches(q, path[q].open)' /\ Where(q, s, 0, path[q].open)')
    BY <2>2, <2>3, <2>4, <2>8, <2>10, <2>11
  <2> QED BY <1>2, <2>5, <2>10, <2>12, KnownNext
(* A relay asks the next one.                                              *)
<1>13. CASE q \in served /\ i # 0
  <2>1. /\ Alive(node[q][i]) /\ node[q][i].state = "chan_wait" /\ Asked(node[q][i])
        /\ i \in Relays
    BY <1>1, <1>2, <1>4, <1>13 DEF Asked
  <2>2. Alive(node'[q][i]) /\ node'[q][i].state = "open" /\ ~Asked(node'[q][i])
    BY <1>2, <1>3, <1>13, <2>1 DEF Delivered, Records, Alive, Kept, Asked
  <2>3. PICK p0 \in {"fwd", "at", "bwd"} : p0 = "at"
    OBVIOUS
  <2>4. PICK s \in {"fwd", "at", "bwd"} : s = "fwd"
    OBVIOUS
  <2>5. \A pp, j : AtMost(q, pp, j) => pp = p0 /\ j = i
    BY <2>1, <2>3, ThePlace
  <2>6. ASSUME AtMost(q, p0, i) PROVE AtMost(q, s, i)'
    <3>1. Single(fwd'[q][i])
      BY <1>3, <1>13, TheCells
    <3>2. \A j \in Links : \/ fwd'[q][j] = fwd[q][j]
                           \/ j = i /\ Single(fwd'[q][j])
      BY <1>3, <3>1
    <3>3. \A r \in Relays : Asked(node'[q][r]) => Asked(node[q][r]) /\ r # i
      BY <1>2, <1>3, <2>2
    <3>4. /\ \A j \in Links : \/ fwd'[q][j] = fwd[q][j] /\ (p0 # "fwd" \/ j # i)
                              \/ Quiet(fwd'[q][j])
                              \/ s = "fwd" /\ j = i /\ Single(fwd'[q][j])
          /\ \A j \in Links : \/ bwd'[q][j] = bwd[q][j] /\ (p0 # "bwd" \/ j # i)
                              \/ Quiet(bwd'[q][j])
                              \/ s = "bwd" /\ j = i /\ Single(bwd'[q][j])
          /\ \A r \in Relays : Asked(node'[q][r]) =>
               \/ Asked(node[q][r]) /\ (p0 # "at" \/ r # i)
               \/ s = "at" /\ r = i
      BY <1>2, <2>3, <2>4, <3>2, <3>3
    <3> QED BY <2>6, <3>4, Move
  <2>7. ASSUME NEW n \in Nat, AtMost(q, p0, i), ~Failed(q)', n = path[q].open,
               Reaches(q, n), Where(q, p0, i, n)
        PROVE  Reaches(q, n)' /\ Where(q, s, i, n)'
    <3>1. n = i
      BY <2>1, <2>3, <2>7 DEF Where
    <3>2. Reaches(q, n)'
      <4>1. ASSUME NEW t \in Relays, t <= n
            PROVE  Alive(node'[q][t]) /\ node'[q][t].state \in {"open", "chan_wait"}
        BY <1>2, <1>3, <2>2, <2>7, <4>1 DEF Reaches
      <4>2. ASSUME NEW j \in Links, j > n PROVE on'[q][j] = 0
        <5>1. j # i
          BY <1>2, <3>1, <4>2 DEF Links
        <5> QED BY <1>3, <2>7, <4>2, <5>1 DEF Reaches
      <4> QED BY <4>1, <4>2 DEF Reaches
    <3>3. Where(q, s, i, n)'
      BY <1>3, <1>13, <2>4, <3>1 DEF Where
    <3> QED BY <3>2, <3>3
  <2>8. /\ node'[q][0] = node[q][0] /\ path'[q] = path[q]
        /\ \E l \in Links : on[q][l] # 0
    <3>1. node[q][i].state # "none" /\ i - 1 \in Links /\ i - 1 + 1 = i
      BY <1>2, <1>13, <2>1
    <3>2. on[q][i - 1] # 0
      BY <3>1, Known DEF Link
    <3> QED BY <1>2, <1>3, <1>8, <1>13, <3>1, <3>2
  <2>9. PathOf(q) /\ i \in Nat /\ (AtMost(q, p0, i) => AtMost(q, s, i)')
    BY <1>2, <2>6
  <2> QED BY <2>5, <2>7, <2>8, <2>9, PlaceMoves
<1> QED BY <1>1, <1>10, <1>11, <1>12, <1>13

(* Whatever happens.                                                       *)
LEMMA PathNext == IInv /\ PathInv /\ [Next]_vars => PathInv'
<1> SUFFICES ASSUME IInv, PathInv, [Next]_vars PROVE PathInv'
  OBVIOUS
<1>1. IInv' /\ NewsStay
  BY NextStep, NewsKept
<1>2. ASSUME NEW i \in Links, NEW x \in Chans(i), channel_mark_for_close(i, x) PROVE PathInv'
  BY <1>1, <1>2, QuietPath DEF channel_mark_for_close
<1>3. ASSUME NEW i \in Links, NEW x \in Chans(i), channel_mark_bad_for_new_circs(i, x)
      PROVE  PathInv'
  BY <1>1, <1>3, QuietPath DEF channel_mark_bad_for_new_circs
<1>4. ASSUME Progress PROVE PathInv'
  BY <1>1, <1>2, <1>4, CreatePath, OnionskinPath, RelayOutPath, DestroyFromBehindPath,
     CreatedPath, ExtendedPath, DestroyFromAheadPath, OpenPath, ClosedPath, FarEndPath,
     ExpirePath, ClosePath, Zenon DEF Progress
<1>5. ASSUME Decision PROVE PathInv'
  BY <1>1, <1>5, EstablishPath, NewExitPath, UpgradePath, Zenon DEF Decision
<1>6. ASSUME Fault PROVE PathInv'
  BY <1>1, <1>2, <1>3, <1>6, MarkPath, FarEndPath, Zenon DEF Fault
<1>7. ASSUME UNCHANGED vars PROVE PathInv'
  BY <1>1, <1>7, QuietPath DEF vars
<1> QED BY <1>4, <1>5, <1>6, <1>7, Zenon DEF Next

(* Before anything is launched.                                            *)
LEMMA PathInit == Init => PathInv
<1> SUFFICES ASSUME Init, NEW k \in Circuits PROVE PathOf(k)
  BY DEF PathInv
<1>1. /\ node = [q \in Circuits |-> [i \in Nodes |-> NoCircuit]]
      /\ on = [q \in Circuits |-> [i \in Links |-> 0]]
  BY DEF Init
<1>2. PICK plan \in Plans :
        path = [q \in Circuits |-> [len |-> plan.len[q], most |-> plan.most[q],
                                    open |-> 0, awaiting |-> FALSE]]
  BY Zenon DEF Init
<1>3. plan.len[k] \in Nat
  BY CircuitBuildAssumption
<1>4. path[k].len = plan.len[k] /\ path[k].open = 0 /\ ~path[k].awaiting
  BY <1>2
<1>5. node[k][0].state = "none" /\ ~Alive(node[k][0])
  BY <1>1, Neighbours DEF NoCircuit, Alive, Kept
<1>6. \A i \in Links : on[k][i] = 0
  BY <1>1
<1> QED BY <1>3, <1>4, <1>5, <1>6 DEF PathOf

-----------------------------------------------------------------------------
(* What follows from it.                                                   *)

LEMMA NatLeast ==
  ASSUME NEW T, T \subseteq Nat, T # {}
  PROVE  \E m \in T : \A n \in T : m <= n
<1> DEFINE R == OpToRel(<, Nat)
<1>1. IsWellFoundedOn(R, Nat)
  BY NatLessThanWellFounded
<1>2. \A x, y \in Nat : <<y, x>> \in R <=> y < x
  BY DEF OpToRel
<1> HIDE DEF R
<1>3. PICK x \in T : \A y \in T : ~(<<y, x>> \in R)
  BY <1>1, WFMin
<1>4. ASSUME NEW n \in T PROVE x <= n
  <2>1. x \in Nat /\ n \in Nat
    OBVIOUS
  <2>2. ~(n < x)
    BY <1>2, <1>3, <2>1
  <2> QED BY <2>1, <2>2
<1> QED BY <1>4

(* Trouble that has not reached the origin yet is on its way: the nearest  *)
(* such link has the DESTROY or the broken channel, or the relay beyond it *)
(* is about to close its circuit.                                          *)
LEMMA TroubleShows ==
  ASSUME IInv, NEW k \in Circuits, Live(k, 0), Failed(k)
  PROVE  Failing(k)
<1> DEFINE T == {i \in Links : /\ i <= path[k].open
                               /\ AlarmAt(k, i) \/ Sick(node[k][i + 1])}
<1>1. T \subseteq Nat /\ T # {}
  BY Neighbours DEF Failed
<1>2. PICK i \in T : \A j \in T : i <= j
  <2> HIDE DEF T
  <2> QED BY <1>1, NatLeast
<1>3. /\ i \in Links /\ i <= path[k].open /\ i \in Nat /\ path[k].open \in Nat
      /\ AlarmAt(k, i) \/ Sick(node[k][i + 1])
  BY Known, Neighbours DEF PathsOK, Paths
<1>4. Link(node[k][i], node[k][i + 1], fwd[k][i], bwd[k][i], on[k][i], chan[i])
  BY <1>3, Known
<1>5. ~Sick(node[k][i])
  <2>1. CASE i = 0
    BY <2>1 DEF Live, Exists, Sick, Kept
  <2>2. CASE i # 0
    <3>1. i - 1 \in Links /\ i - 1 + 1 = i /\ i - 1 <= path[k].open /\ ~(i <= i - 1)
      BY <1>3, <2>2, Neighbours
    <3>2. i - 1 \notin T
      BY <1>2, <3>1
    <3> QED BY <3>1, <3>2
  <2> QED BY <2>1, <2>2
<1>6. \/ Has(bwd[k][i], "DESTROY") \/ (node[k][i].n_chan /\ Cut(on[k][i], chan[i]))
      \/ node[k][i + 1].marked
  <2>1. CASE AlarmAt(k, i)
    BY <1>5, <2>1 DEF AlarmAt, Alarm
  <2>2. CASE node[k][i + 1].state = "freed"
    BY <1>4, <1>5, <2>2 DEF Link, Alarm
  <2> QED BY <1>3, <2>1, <2>2 DEF Sick
<1>7. Broken(k, i) <=> Cut(on[k][i], chan[i])
  BY DEF Broken, Cut
<1> QED BY <1>3, <1>6, <1>7 DEF Failing

(* One place has a question or an answer, and no other one.                *)
LEMMA OnePlace ==
  ASSUME IInv, NEW k \in Circuits, NEW q \in {"none", "fwd", "at", "bwd"}, NEW j \in Nat,
         AtMost(k, q, j), Reaches(k, path[k].open), Where(k, q, j, path[k].open)
  PROVE  Cardinality(HandshakePlaces(k)) = IF q = "none" THEN 0 ELSE 1
<1>1. PICK n : n = path[k].open
  OBVIOUS
<1>2. Reaches(k, n) /\ Where(k, q, j, n)
  BY <1>1
<1>3. ASSUME NEW i \in Links, Has(fwd[k][i], "CREATE") \/ Has(fwd[k][i], "EXTEND")
      PROVE  q = "fwd" /\ j = i
  <2>1. ~Quiet(fwd[k][i])
    BY <1>3 DEF Has, Quiet
  <2> QED BY <2>1, ThePlace
<1>4. ASSUME NEW i \in Links, Has(bwd[k][i], "CREATED") \/ Has(bwd[k][i], "EXTENDED")
      PROVE  q = "bwd" /\ j = i
  <2>1. ~Quiet(bwd[k][i])
    BY <1>4 DEF Has, Quiet
  <2> QED BY <2>1, ThePlace
<1>5. \A r \in Relays : Live(k, r) <=> Alive(node[k][r])
  BY DEF Live, Exists, Alive, Kept
<1>6. ASSUME NEW r \in Relays, Live(k, r),
             node[k][r].state \in {"onionskin_pending", "chan_wait"}
      PROVE  q = "at" /\ j = r
  BY <1>5, <1>6, ThePlace DEF Asked
<1>7. ASSUME NEW pl \in HandshakePlaces(k) PROVE pl = <<q, j>> /\ q # "none"
  <2>1. CASE \E i \in Links : /\ pl = <<"fwd", i>>
                              /\ Has(fwd[k][i], "CREATE") \/ Has(fwd[k][i], "EXTEND")
    BY <1>3, <2>1
  <2>2. CASE \E i \in Links : /\ pl = <<"bwd", i>>
                              /\ Has(bwd[k][i], "CREATED") \/ Has(bwd[k][i], "EXTENDED")
    BY <1>4, <2>2
  <2>3. CASE \E r \in Relays : /\ pl = <<"at", r>> /\ Live(k, r)
                               /\ node[k][r].state \in {"onionskin_pending", "chan_wait"}
    BY <1>6, <2>3
  <2> QED BY <1>7, <2>1, <2>2, <2>3, Zenon DEF HandshakePlaces
<1>8. CASE q = "none"
  <2>1. HandshakePlaces(k) = {}
    BY <1>7, <1>8
  <2> QED BY <1>8, <2>1, FS_EmptySet
<1>9. CASE q # "none"
  <2>1. n \in Links
    BY <1>2, <1>9 DEF Where
  <2>2. ASSUME q = "fwd" PROVE <<q, j>> \in HandshakePlaces(k)
    <3>1. j \in Links /\ (Has(fwd[k][j], "CREATE") \/ Has(fwd[k][j], "EXTEND"))
      <4>1. CASE j = n /\ fwd[k][n] = <<Cell("CREATE")>>
        BY <2>1, <4>1, TheCells
      <4>2. CASE j \in Links /\ fwd[k][j] = <<Extend(n)>>
        BY <2>1, <4>2, TheCells
      <4> QED BY <1>2, <2>2, <4>1, <4>2 DEF Where
    <3>2. <<"fwd", j>> \in HandshakePlaces(k)
      BY <3>1, Zenon DEF HandshakePlaces
    <3> QED BY <2>2, <3>2
  <2>3. ASSUME q = "bwd" PROVE <<q, j>> \in HandshakePlaces(k)
    <3>1. j \in Links /\ (Has(bwd[k][j], "CREATED") \/ Has(bwd[k][j], "EXTENDED"))
      <4>1. CASE j = n /\ bwd[k][n] = <<Cell("CREATED")>>
        BY <2>1, <4>1, TheCells
      <4>2. CASE j \in Links /\ bwd[k][j] = <<Cell("EXTENDED")>>
        BY <2>1, <4>2, TheCells
      <4> QED BY <1>2, <2>3, <4>1, <4>2 DEF Where
    <3>2. <<"bwd", j>> \in HandshakePlaces(k)
      BY <3>1, Zenon DEF HandshakePlaces
    <3> QED BY <2>3, <3>2
  <2>4. ASSUME q = "at" PROVE <<q, j>> \in HandshakePlaces(k)
    <3>1. /\ j \in Relays /\ Live(k, j)
          /\ node[k][j].state \in {"onionskin_pending", "chan_wait"}
      <4>1. CASE j = n /\ n # 0 /\ node[k][n].state = "chan_wait"
        <5>1. n \in Relays /\ n <= n
          BY <2>1, <4>1, Neighbours
        <5> QED BY <1>2, <1>5, <4>1, <5>1 DEF Reaches
      <4>2. CASE /\ j = n + 1
                 /\ Alive(node[k][n + 1]) /\ node[k][n + 1].state = "onionskin_pending"
        BY <1>5, <2>1, <4>2, Neighbours
      <4> QED BY <1>2, <2>4, <4>1, <4>2 DEF Where
    <3>2. <<"at", j>> \in HandshakePlaces(k)
      BY <3>1, Zenon DEF HandshakePlaces
    <3> QED BY <2>4, <3>2
  <2>5. HandshakePlaces(k) = {<<q, j>>}
    <3>1. <<q, j>> \in HandshakePlaces(k)
      BY <1>9, <2>2, <2>3, <2>4
    <3> QED BY <1>7, <3>1
  <2> QED BY <1>9, <2>5, FS_Singleton
<1> QED BY <1>8, <1>9

(* Origin and relays agree on how far a circuit reaches, and while an       *)
(* answer is awaited exactly one question or answer is under way, unless    *)
(* the news of a failure is: circuit_send_next_onion_skin(),                *)
(* circuit_extend(), circuit_finish_handshake(), circuit_about_to_free().   *)
THEOREM PathsAlwaysAgree == Spec => []PathAgrees
<1>1. IInv /\ PathInv => PathAgrees
  <2> SUFFICES ASSUME IInv, PathInv PROVE PathAgrees
    OBVIOUS
  <2>1. ASSUME NEW k \in Circuits
        PROVE  path[k] \in Paths /\ PathOf(k) /\ path[k].open \in 0..MaxLen
    <3>1. path[k] \in Paths /\ PathOf(k)
      BY DEF IInv, PathsOK, PathInv
    <3>2. path[k].open <= path[k].len
      BY <3>1 DEF PathOf
    <3>3. path[k].open \in Nat /\ path[k].len \in 0..MaxLen
      BY <3>1 DEF Paths
    <3>4. PICK n \in Nat : n = path[k].open
      BY <3>3
    <3>5. PICK m \in 0..MaxLen : m = path[k].len
      BY <3>3
    <3>6. n \in 0..MaxLen
      <4>1. n <= m
        BY <3>2, <3>4, <3>5, Zenon
      <4>2. m \in Nat /\ m <= MaxLen /\ MaxLen \in Nat
        BY <3>5, CircuitBuildAssumption
      <4> QED BY <4>1, <4>2
    <3> QED BY <3>1, <3>4, <3>6
  <2>2. TypeOK
    <3>1. \A k \in Circuits, i \in Nodes :
            node[k][i] \in [state : CircuitStates, p_chan : BOOLEAN, n_chan : BOOLEAN,
                           marked : BOOLEAN]
      BY Known DEF Records
    <3>2. path \in [Circuits -> [len : 0..MaxLen, most : 0..MaxLen, open : 0..MaxLen,
                                awaiting : BOOLEAN]]
      <4>1. ASSUME NEW k \in Circuits
            PROVE  path[k] \in [len : 0..MaxLen, most : 0..MaxLen, open : 0..MaxLen,
                                awaiting : BOOLEAN]
        BY <2>1 DEF Paths
      <4> QED BY <4>1 DEF IInv, PathsOK
    <3>3. \A k \in Circuits, i \in Links : on[k][i] \in {0} \cup Chans(i)
      BY Known DEF Link, Chans
    <3>4. \A i \in Links : \A x \in Chans(i) :
            /\ chan[i][x].near \in {"none", "opening", "open", "closing", "closed"}
            /\ chan[i][x].far \in {"none", "open", "closed"}
      BY DEF IInv, ChannelsOK, ChannelRecords
    <3> QED BY <3>1, <3>2, <3>3, <3>4, Zenon DEF TypeOK
  <2> DEFINE Agree(k) ==
        /\ Cardinality(HandshakePlaces(k)) = IF path[k].awaiting THEN 1 ELSE 0
        /\ path[k].awaiting => node[k][0].state = "building" /\ path[k].open < path[k].len
        /\ node[k][0].state \in {"open", "guard_wait"} => path[k].open = path[k].len
        /\ \A r \in 1..path[k].open : /\ Live(k, r)
                                      /\ node[k][r].state \in {"open", "chan_wait"}
                                      /\ r < path[k].open => node[k][r].n_chan
  <2>3. ASSUME NEW k \in Circuits, Live(k, 0), ~Failing(k) PROVE Agree(k)
    <3>1. ~Failed(k)
      BY <2>3, TroubleShows
    <3>2. Alive(node[k][0])
      BY <2>3 DEF Live, Exists, Alive, Kept
    <3>3. /\ path[k].open \in 0..MaxLen /\ Phase(path[k], node[k][0].state)
          /\ \E q \in {"none", "fwd", "at", "bwd"}, j \in Nat : Known1(k, q, j)
      BY <2>1, <3>2 DEF PathOf
    <3>4. PICK q \in {"none", "fwd", "at", "bwd"}, j \in Nat : Known1(k, q, j)
      BY <3>3
    <3>5. /\ q = "none" <=> ~path[k].awaiting
          /\ AtMost(k, q, j) /\ Reaches(k, path[k].open) /\ Where(k, q, j, path[k].open)
      BY <3>1, <3>4 DEF Known1
    <3>6. Cardinality(HandshakePlaces(k)) = IF path[k].awaiting THEN 1 ELSE 0
      <4>1. Cardinality(HandshakePlaces(k)) = IF q = "none" THEN 0 ELSE 1
        BY <3>5, OnePlace
      <4> QED BY <3>5, <4>1
    <3>7. ASSUME NEW r \in 1..path[k].open
          PROVE  /\ Live(k, r) /\ node[k][r].state \in {"open", "chan_wait"}
                 /\ r < path[k].open => node[k][r].n_chan
      <4>1. r \in Relays /\ r <= path[k].open /\ r \in Nat /\ path[k].open \in Nat
        BY <3>3, Neighbours DEF Relays
      <4>2. Alive(node[k][r]) /\ node[k][r].state \in {"open", "chan_wait"}
        BY <3>5, <4>1 DEF Reaches
      <4>3. ASSUME r < path[k].open, ~node[k][r].n_chan PROVE FALSE
        <5>1. r \in Links /\ r + 1 \in Relays /\ r + 1 <= path[k].open
          BY <3>3, <4>1, <4>3, Neighbours DEF Links, Relays
        <5>2. Link(node[k][r], node[k][r + 1], fwd[k][r], bwd[k][r], on[k][r], chan[r])
          BY <5>1, Known
        <5>3. Alive(node[k][r + 1])
          BY <3>5, <5>1 DEF Reaches
        <5>4. node[k][r + 1].state = "none"
          BY <4>2, <4>3, <5>2 DEF Link
        <5> QED BY <5>3, <5>4 DEF Alive, Kept
      <4> QED BY <4>2, <4>3 DEF Live, Exists, Alive, Kept
    <3> QED BY <3>3, <3>6, <3>7 DEF Phase
  <2>4. \A k \in Circuits : Live(k, 0) /\ ~Failing(k) => Agree(k)
    <3> HIDE DEF Agree
    <3> QED BY <2>3
  <2> QED BY <2>2, <2>4, Zenon DEF PathAgrees
<1> QED BY <1>1, InitStep, NextStep, PathInit, PathNext, PTL DEF Spec
=============================================================================
