------------------------- MODULE ConfluxPoolProofs --------------------------
(***************************************************************************)
(* Proofs about the life of a conflux set (ConfluxPool), for any number of *)
(* legs, retries and any limit on the legs: the objects of both ends live  *)
(* exactly while something refers to them, and the handshake finds at      *)
(* every step what its assertions expect.                                  *)
(*                                                                         *)
(* Three things make them inductive.  At each end the objects are sound by *)
(* themselves (Sound): pointers and legs belong to each other, but for the *)
(* last leg of an object, whose circuit frees it.  The client's circuits   *)
(* are the legs of its sets (UnlinkedSound).  And the cells on their way   *)
(* tell how far a leg has come at both ends (WireSound); because a LINK    *)
(* arrives once per leg, the exit does not make more objects than there    *)
(* are legs (MadeByLinks).                                                 *)
(***************************************************************************)
EXTENDS ConfluxPool, TLAPS, FiniteSetTheorems

(* What is on a wire.                                                      *)
Occurs(i, q) == \E n \in 1 .. Len(q) : q[n] = i

(* What an end keeps of its objects.                                       *)
Objects == [pool : {0} \cup Ids, legs : [Ids -> SUBSET Circs],
            ptr : [Circs -> {0} \cup Ids], live : SUBSET Ids,
            used : SUBSET Ids, made : 0 .. MaxLaunch]

(* Every leg of an object is open and points back at it.                   *)
LegsPointBack(s, states) ==
  \A k \in Ids : \A c \in s.legs[k] : states[c] = "open" /\ s.ptr[c] = k

(* A circuit that points at an object is a leg of it, or was the last leg  *)
(* of it and is about to be freed with it.                                 *)
PointersHaveReason(s, states) ==
  \A c \in Circs : s.ptr[c] # 0 =>
     \/ c \in s.legs[s.ptr[c]]
     \/ /\ s.legs[s.ptr[c]] = {} /\ states[c] = "marked"
        /\ \A d \in Circs : s.ptr[d] = s.ptr[c] => d = c

(* The object of the pool has a leg.                                       *)
PoolHasLegs(s) == s.pool # 0 => s.legs[s.pool] # {}

(* No use is made of objects that were not made.                           *)
MadeInOrder(s) ==
  /\ s.pool <= s.made
  /\ \A k \in Ids : k > s.made => s.legs[k] = {} /\ \A c \in Circs : s.ptr[c] # k

Sound(s, states) ==
  /\ LegsPointBack(s, states) /\ PointersHaveReason(s, states)
  /\ PoolHasLegs(s) /\ MadeInOrder(s)

(* An object lives while a circuit, or the set that holds it, points at it.*)
LivesWhilePointed(s, held) ==
  \A k \in Ids : k \in s.live <=> (\E c \in Circs : s.ptr[c] = k) \/ k \in held

(* The launches are bounded, and the circuits and objects numbered from 1. *)
LEMMA Sizes ==
  /\ MaxLaunch \in Nat \ {0} /\ NumLegs \in 1 .. MaxLaunch
  /\ Ids = 1 .. MaxLaunch /\ Circs = 1 .. MaxLaunch
  /\ 0 \notin Ids /\ 1 \in Ids
BY ParamsAssumption DEF MaxLaunch, Ids, Circs

(* The fields of an object after a leg has left it.                        *)
LEMMA LegRemovedFields ==
  ASSUME NEW s \in Objects, NEW k \in Ids, NEW c \in Circs
  PROVE  \A left, r : left = s.legs[k] \ {c} /\ r = LegRemoved(s, k, c) =>
            /\ r \in Objects
            /\ r.legs = [s.legs EXCEPT ![k] = left]
            /\ r.ptr = [s.ptr EXCEPT ![c] = IF left = {} THEN k ELSE 0]
            /\ r.pool = IF left = {} THEN 0 ELSE s.pool
            /\ r.live = s.live /\ r.made = s.made /\ r.used = s.used
<1> DEFINE left == s.legs[k] \ {c}
<1> left \in SUBSET Circs
  BY DEF Objects
<1> HIDE DEF left
<1>1. LegRemoved(s, k, c) = [s EXCEPT !.legs[k] = left,
                 !.ptr[c] = IF left = {} THEN k ELSE 0,
                 !.pool = IF left = {} THEN 0 ELSE @]
  BY DEF LegRemoved, left
<1>2. (IF left = {} THEN k ELSE 0) \in {0} \cup Ids /\ (IF left = {} THEN 0 ELSE s.pool) \in {0} \cup Ids
  BY DEF Objects
<1> DEFINE p == IF left = {} THEN k ELSE 0
           q == IF left = {} THEN 0 ELSE s.pool
<1>3. LegRemoved(s, k, c) = [s EXCEPT !.legs[k] = left, !.ptr[c] = p, !.pool = q]
  BY <1>1 DEF Objects
<1>4. p \in {0} \cup Ids /\ q \in {0} \cup Ids
  BY <1>2
<1> HIDE DEF p, q
<1>5. LET r == LegRemoved(s, k, c)
      IN /\ r \in Objects
         /\ r.legs = [s.legs EXCEPT ![k] = left]
         /\ r.ptr = [s.ptr EXCEPT ![c] = p]
         /\ r.pool = q
         /\ r.live = s.live /\ r.made = s.made /\ r.used = s.used
  <2> DEFINE r == LegRemoved(s, k, c)
  <2>1. r = [s EXCEPT !.legs = [s.legs EXCEPT ![k] = left], !.ptr = [s.ptr EXCEPT ![c] = p], !.pool = q]
    BY <1>3 DEF Objects
  <2>2. /\ [s.legs EXCEPT ![k] = left] \in [Ids -> SUBSET Circs]
        /\ [s.ptr EXCEPT ![c] = p] \in [Circs -> {0} \cup Ids]
    BY <1>4 DEF Objects
  <2> HIDE DEF r
  <2>3. r.legs = [s.legs EXCEPT ![k] = left] /\ r.ptr = [s.ptr EXCEPT ![c] = p] /\ r.pool = q
    BY <2>1 DEF Objects
  <2>4. r.live = s.live /\ r.made = s.made /\ r.used = s.used
    BY <2>1 DEF Objects
  <2>5. r \in Objects
    BY <1>4, <2>1, <2>2 DEF Objects
  <2> QED BY <2>3, <2>4, <2>5 DEF r
<1> QED BY <1>5 DEF left, p, q

(* The fields of the objects after all legs of the pooled set are marked.  *)
LEMMA MarkAllFields ==
  ASSUME NEW s \in Objects, s.pool # 0, NEW keep \in Circs
  PROVE  \A r : r = conflux_mark_all_for_close(s, keep) =>
            /\ r \in Objects
            /\ r.legs = [s.legs EXCEPT ![s.pool] = {}]
            /\ r.ptr = [d \in Circs |-> IF d \in s.legs[s.pool] \ {keep}
                                        THEN 0 ELSE s.ptr[d]]
            /\ r.pool = 0
            /\ r.live = s.live /\ r.made = s.made /\ r.used = s.used
<1> SUFFICES ASSUME NEW r, r = conflux_mark_all_for_close(s, keep)
             PROVE  /\ r \in Objects
                    /\ r.legs = [s.legs EXCEPT ![s.pool] = {}]
                    /\ r.ptr = [d \in Circs |-> IF d \in s.legs[s.pool] \ {keep}
                                                THEN 0 ELSE s.ptr[d]]
                    /\ r.pool = 0
                    /\ r.live = s.live /\ r.made = s.made /\ r.used = s.used
  OBVIOUS
<1> DEFINE l == [s.legs EXCEPT ![s.pool] = {}]
           p == [d \in Circs |-> IF d \in s.legs[s.pool] \ {keep} THEN 0 ELSE s.ptr[d]]
<1>1. l \in [Ids -> SUBSET Circs] /\ p \in [Circs -> {0} \cup Ids]
  BY DEF Objects
<1>2. r = [s EXCEPT !.legs = l, !.ptr = p, !.pool = 0]
  BY DEF conflux_mark_all_for_close, Objects
<1> HIDE DEF l, p
<1>3. r.legs = l /\ r.ptr = p /\ r.pool = 0
  BY <1>2 DEF Objects
<1>4. r.live = s.live /\ r.made = s.made /\ r.used = s.used
  BY <1>2 DEF Objects
<1>5. r \in Objects
  BY <1>1, <1>2 DEF Objects
<1> QED BY <1>3, <1>4, <1>5 DEF l, p

(* The fields of the objects after a circuit is freed.                     *)
LEMMA FreeFields ==
  ASSUME NEW s \in Objects, NEW c \in Circs
  PROVE  \A r : \A last \in BOOLEAN :
            (r = linked_circuit_free(s, c)
               /\ (last <=> (s.ptr[c] # 0 /\ s.legs[s.ptr[c]] = {}))) =>
            /\ r \in Objects
            /\ r.legs = s.legs /\ r.made = s.made /\ r.used = s.used
            /\ r.ptr = [s.ptr EXCEPT ![c] = 0]
            /\ r.pool = IF last THEN 0 ELSE s.pool
            /\ r.live = IF last THEN s.live \ {s.ptr[c]} ELSE s.live
<1> SUFFICES ASSUME NEW r, NEW last \in BOOLEAN, r = linked_circuit_free(s, c),
                    last <=> (s.ptr[c] # 0 /\ s.legs[s.ptr[c]] = {})
             PROVE  /\ r \in Objects
                    /\ r.legs = s.legs /\ r.made = s.made /\ r.used = s.used
                    /\ r.ptr = [s.ptr EXCEPT ![c] = 0]
                    /\ r.pool = IF last THEN 0 ELSE s.pool
                    /\ r.live = IF last THEN s.live \ {s.ptr[c]} ELSE s.live
  OBVIOUS
<1> DEFINE p == [s.ptr EXCEPT ![c] = 0]
           v == s.live \ {s.ptr[c]}
<1>1. p \in [Circs -> {0} \cup Ids] /\ v \in SUBSET Ids
  BY DEF Objects
<1>2. r = IF last THEN [s EXCEPT !.pool = 0, !.live = v, !.ptr = p]
          ELSE [s EXCEPT !.ptr = p]
  BY DEF linked_circuit_free, Objects
<1> HIDE DEF p, v
<1>3. CASE last
  <2>1. r = [s EXCEPT !.pool = 0, !.live = v, !.ptr = p]
    BY <1>2, <1>3
  <2>2. /\ r.legs = s.legs /\ r.made = s.made /\ r.used = s.used
        /\ r.ptr = p /\ r.pool = 0 /\ r.live = v
    BY <2>1 DEF Objects
  <2>3. r \in Objects
    BY <1>1, <2>1 DEF Objects
  <2> QED BY <1>3, <2>2, <2>3 DEF p, v
<1>4. CASE ~last
  <2>1. r = [s EXCEPT !.ptr = p]
    BY <1>2, <1>4
  <2>2. /\ r.legs = s.legs /\ r.made = s.made /\ r.used = s.used
        /\ r.ptr = p /\ r.pool = s.pool /\ r.live = s.live
    BY <2>1 DEF Objects
  <2>3. r \in Objects
    BY <1>1, <2>1 DEF Objects
  <2> QED BY <1>4, <2>2, <2>3 DEF p
<1> QED BY <1>3, <1>4

(* The fields of the exit's objects after a leg is linked.                 *)
LEMMA LinkFields ==
  ASSUME NEW s \in Objects, NEW c \in Circs, NEW k \in Ids,
         k = IF s.pool # 0 THEN s.pool ELSE s.made + 1
  PROVE  \A r : r = LegLinked(s, c) =>
            /\ r \in Objects
            /\ r.legs = [s.legs EXCEPT ![k] = s.legs[k] \cup {c}]
            /\ r.ptr = [s.ptr EXCEPT ![c] = k]
            /\ r.pool = k /\ r.used = s.used
            /\ r.live = s.live \cup {k}
            /\ r.made = IF k > s.made THEN k ELSE s.made
<1> SUFFICES ASSUME NEW r, r = LegLinked(s, c)
             PROVE  /\ r \in Objects
                    /\ r.legs = [s.legs EXCEPT ![k] = s.legs[k] \cup {c}]
                    /\ r.ptr = [s.ptr EXCEPT ![c] = k]
                    /\ r.pool = k /\ r.used = s.used
                    /\ r.live = s.live \cup {k}
                    /\ r.made = IF k > s.made THEN k ELSE s.made
  OBVIOUS
<1>1. LegLinked(s, c) =
      [s EXCEPT !.pool = k, !.legs[k] = @ \cup {c}, !.ptr[c] = k,
                 !.live = @ \cup {k}, !.made = IF k > @ THEN k ELSE @]
  BY DEF LegLinked
<1> DEFINE m == IF k > s.made THEN k ELSE s.made
           l == s.legs[k] \cup {c}
           v == s.live \cup {k}
<1>2. m \in 0 .. MaxLaunch
  BY Sizes DEF Objects
<1>3. r = [s EXCEPT !.pool = k, !.legs = [s.legs EXCEPT ![k] = l],
                    !.ptr = [s.ptr EXCEPT ![c] = k], !.live = v, !.made = m]
  BY <1>1 DEF Objects
<1>4. /\ [s.legs EXCEPT ![k] = l] \in [Ids -> SUBSET Circs]
      /\ [s.ptr EXCEPT ![c] = k] \in [Circs -> {0} \cup Ids]
      /\ v \in SUBSET Ids
  BY DEF Objects
<1> HIDE DEF l, v, m
<1>5. /\ r.legs = [s.legs EXCEPT ![k] = l] /\ r.ptr = [s.ptr EXCEPT ![c] = k]
      /\ r.pool = k
  BY <1>3 DEF Objects
<1>6. r.live = v /\ r.made = m /\ r.used = s.used
  BY <1>3 DEF Objects
<1>7. r \in Objects
  BY <1>2, <1>3, <1>4 DEF Objects
<1> QED BY <1>5, <1>6, <1>7 DEF l, v, m

(* cfx_del_leg keeps the objects sound; what it changes is the pointer of  *)
(* the leg alone.                                                          *)
LEMMA LegRemovedSound ==
  ASSUME NEW s \in Objects, NEW states \in [Circs -> CircStates], Sound(s, states),
         NEW c \in Circs, NEW k \in Ids, k = s.ptr[c], states[c] = "open",
         NEW held, LivesWhilePointed(s, held)
  PROVE  /\ Sound(LegRemoved(s, k, c), [states EXCEPT ![c] = "marked"])
         /\ LivesWhilePointed(LegRemoved(s, k, c), held)
         /\ \A d \in Circs \ {c} : LegRemoved(s, k, c).ptr[d] = s.ptr[d]
         /\ \A d \in Circs : LegRemoved(s, k, c).ptr[d] \in {0, s.ptr[d]}
         /\ LegRemoved(s, k, c) \in Objects /\ LegRemoved(s, k, c).made = s.made
<1> DEFINE r == LegRemoved(s, k, c)
           left == s.legs[k] \ {c}
           now == [states EXCEPT ![c] = "marked"]
<1>0. left = s.legs[k] \ {c} /\ r = LegRemoved(s, k, c)
  OBVIOUS
<1> HIDE DEF r, left
<1>1. /\ r \in Objects
      /\ r.legs = [s.legs EXCEPT ![k] = left]
      /\ r.ptr = [s.ptr EXCEPT ![c] = IF left = {} THEN k ELSE 0]
      /\ r.pool = IF left = {} THEN 0 ELSE s.pool
      /\ r.live = s.live /\ r.made = s.made
  <2>1. \A l, x : l = s.legs[k] \ {c} /\ x = LegRemoved(s, k, c) =>
            /\ x \in Objects
            /\ x.legs = [s.legs EXCEPT ![k] = l]
            /\ x.ptr = [s.ptr EXCEPT ![c] = IF l = {} THEN k ELSE 0]
            /\ x.pool = IF l = {} THEN 0 ELSE s.pool
            /\ x.live = s.live /\ x.made = s.made /\ x.used = s.used
    BY LegRemovedFields
  <2> QED BY ONLY <1>0, <2>1, Zenon
<1>2. /\ s.legs \in [Ids -> SUBSET Circs] /\ s.ptr \in [Circs -> {0} \cup Ids]
      /\ s.pool \in {0} \cup Ids /\ s.made \in Nat
      /\ 0 \notin Ids
  BY Sizes DEF Objects
<1>3. c \in s.legs[k]
  BY <1>2 DEF Sound, PointersHaveReason
<1>4. \A d \in Circs : now[d] = IF d = c THEN "marked" ELSE states[d]
  OBVIOUS
<1>5. \A j \in Ids : r.legs[j] = IF j = k THEN left ELSE s.legs[j]
  BY <1>1, <1>2
<1>6. \A d \in Circs : r.ptr[d] = IF d = c THEN IF left = {} THEN k ELSE 0 ELSE s.ptr[d]
  BY <1>1, <1>2
<1>7. \A j \in Ids, d \in Circs : d \in s.legs[j] => states[d] = "open" /\ s.ptr[d] = j
  BY DEF Sound, LegsPointBack
<1>8. left \subseteq Circs /\ c \notin left /\ \A d \in Circs : d \in left <=> d \in s.legs[k] /\ d # c
  BY <1>0, <1>2
<1> HIDE DEF now
<1>9. LegsPointBack(r, now)
  <2> SUFFICES ASSUME NEW j \in Ids, NEW d \in r.legs[j]
               PROVE  now[d] = "open" /\ r.ptr[d] = j
    BY DEF LegsPointBack
  <2>1. d \in s.legs[j] /\ d \in Circs
    BY <1>2, <1>5, <1>8
  <2>2. states[d] = "open" /\ s.ptr[d] = j
    BY <1>7, <2>1
  <2>3. d # c
    BY <1>5, <1>8, <2>2
  <2> QED BY <1>4, <1>6, <2>1, <2>2, <2>3
<1>10. PointersHaveReason(r, now)
  <2> SUFFICES ASSUME NEW d \in Circs, r.ptr[d] # 0
               PROVE  \/ d \in r.legs[r.ptr[d]]
                      \/ /\ r.legs[r.ptr[d]] = {} /\ now[d] = "marked"
                         /\ \A b \in Circs : r.ptr[b] = r.ptr[d] => b = d
    BY DEF PointersHaveReason
  <2>1. CASE d = c
    <3>1. left = {} /\ r.ptr[d] = k /\ r.legs[k] = {} /\ now[d] = "marked"
      BY <1>4, <1>5, <1>6, <2>1
    <3>2. ASSUME NEW b \in Circs, r.ptr[b] = k PROVE b = c
      <4> SUFFICES ASSUME b # c PROVE FALSE
        OBVIOUS
      <4>1. s.ptr[b] = k /\ s.ptr[b] # 0
        BY <1>2, <1>6, <3>2
      <4>2. b \in s.legs[k]
        BY <1>3, <4>1 DEF Sound, PointersHaveReason
      <4> QED BY <1>8, <3>1, <4>2
    <3> QED BY <2>1, <3>1, <3>2
  <2>2. CASE d # c
    <3>1. r.ptr[d] = s.ptr[d] /\ s.ptr[d] \in Ids
      BY <1>2, <1>6, <2>2
    <3>2. CASE d \in s.legs[s.ptr[d]]
      BY <1>5, <1>8, <2>2, <3>1, <3>2
    <3>3. CASE /\ s.legs[s.ptr[d]] = {} /\ states[d] = "marked"
               /\ \A b \in Circs : s.ptr[b] = s.ptr[d] => b = d
      <4>1. s.ptr[d] # k
        BY <1>3, <3>3
      <4>2. r.legs[r.ptr[d]] = {} /\ now[d] = "marked"
        BY <1>4, <1>5, <2>2, <3>1, <3>3, <4>1
      <4>3. ASSUME NEW b \in Circs, r.ptr[b] = r.ptr[d] PROVE b = d
        <5>1. b # c
          BY <1>2, <1>6, <3>1, <4>1, <4>3
        <5> QED BY <1>6, <3>1, <3>3, <4>3, <5>1
      <4> QED BY <4>2, <4>3
    <3> QED BY <3>1, <3>2, <3>3 DEF Sound, PointersHaveReason
  <2> QED BY <2>1, <2>2
<1>11. PoolHasLegs(r)
  <2> SUFFICES ASSUME r.pool # 0 PROVE r.legs[r.pool] # {}
    BY DEF PoolHasLegs
  <2>1. left # {} /\ r.pool = s.pool /\ s.pool \in Ids
    BY <1>1, <1>2
  <2> QED BY <1>5, <2>1 DEF Sound, PoolHasLegs
<1>12. MadeInOrder(r)
  <2>1. s.pool <= s.made /\ \A j \in Ids : j > s.made => s.legs[j] = {} /\ \A d \in Circs : s.ptr[d] # j
    BY DEF Sound, MadeInOrder
  <2>2. ~(k > s.made)
    BY <1>3, <2>1
  <2>3. r.pool <= r.made
    BY <1>1, <1>2, <2>1
  <2>4. ASSUME NEW j \in Ids, j > r.made
        PROVE  r.legs[j] = {} /\ \A d \in Circs : r.ptr[d] # j
    <3>1. j # k /\ j # 0 /\ j > s.made
      BY <1>1, <1>2, <2>2, <2>4
    <3> QED BY <1>5, <1>6, <2>1, <3>1
  <2> QED BY <2>3, <2>4 DEF MadeInOrder
<1>13. LivesWhilePointed(r, held)
  <2> SUFFICES ASSUME NEW j \in Ids
               PROVE  (\E d \in Circs : r.ptr[d] = j) <=> (\E d \in Circs : s.ptr[d] = j)
    BY <1>1 DEF LivesWhilePointed
  <2>1. ASSUME NEW d \in Circs, r.ptr[d] = j PROVE \E b \in Circs : s.ptr[b] = j
    <3>1. s.ptr[d] = j
      BY <1>2, <1>6, <2>1
    <3> QED BY <3>1
  <2>2. ASSUME NEW d \in Circs, s.ptr[d] = j PROVE \E b \in Circs : r.ptr[b] = j
    <3>1. CASE d # c
      BY <1>6, <2>2, <3>1
    <3>2. CASE d = c /\ left = {}
      BY <1>6, <2>2, <3>2
    <3>3. CASE d = c /\ left # {}
      <4>1. PICK b \in Circs : b \in left
        BY <1>8, <3>3
      <4>2. b # c /\ s.ptr[b] = k
        BY <1>7, <1>8, <4>1
      <4> QED BY <1>6, <2>2, <3>3, <4>1, <4>2
    <3> QED BY <3>1, <3>2, <3>3
  <2> QED BY <2>1, <2>2
<1>14. Sound(r, now)
  BY <1>9, <1>10, <1>11, <1>12 DEF Sound
<1>15. /\ \A d \in Circs \ {c} : r.ptr[d] = s.ptr[d]
       /\ \A d \in Circs : r.ptr[d] \in {0, s.ptr[d]}
  BY <1>6
<1> QED BY <1>1, <1>13, <1>14, <1>15 DEF r, now

(* conflux_mark_all_for_close keeps the objects sound, and leaves the      *)
(* pointers of other circuits alone.                                       *)
LEMMA MarkAllSound ==
  ASSUME NEW s \in Objects, NEW states \in [Circs -> CircStates], Sound(s, states),
         s.pool # 0, NEW keep \in s.legs[s.pool],
         NEW held, LivesWhilePointed(s, held)
  PROVE  /\ Sound(conflux_mark_all_for_close(s, keep),
                  [d \in Circs |-> IF d \in s.legs[s.pool] THEN "marked" ELSE states[d]])
         /\ LivesWhilePointed(conflux_mark_all_for_close(s, keep), held)
         /\ \A d \in Circs \ s.legs[s.pool] :
               conflux_mark_all_for_close(s, keep).ptr[d] = s.ptr[d]
         /\ \A d \in Circs : conflux_mark_all_for_close(s, keep).ptr[d] \in {0, s.ptr[d]}
         /\ conflux_mark_all_for_close(s, keep) \in Objects
         /\ conflux_mark_all_for_close(s, keep).made = s.made
<1> DEFINE r == conflux_mark_all_for_close(s, keep)
           now == [d \in Circs |-> IF d \in s.legs[s.pool] THEN "marked" ELSE states[d]]
<1>0. r = conflux_mark_all_for_close(s, keep)
  OBVIOUS
<1>a. PICK k : k = s.pool
  OBVIOUS
<1>2. /\ s.legs \in [Ids -> SUBSET Circs] /\ s.ptr \in [Circs -> {0} \cup Ids]
      /\ k \in Ids /\ s.made \in Nat /\ 0 \notin Ids
      /\ keep \in s.legs[k] /\ keep \in Circs
  BY <1>a, Sizes DEF Objects
<1>4. \A d \in Circs : now[d] = IF d \in s.legs[k] THEN "marked" ELSE states[d]
  BY <1>a
<1> HIDE DEF r, now
<1>1. /\ r \in Objects
      /\ r.legs = [s.legs EXCEPT ![k] = {}]
      /\ r.ptr = [d \in Circs |-> IF d \in s.legs[k] \ {keep} THEN 0 ELSE s.ptr[d]]
      /\ r.pool = 0
      /\ r.live = s.live /\ r.made = s.made
  BY <1>0, <1>2, <1>a, MarkAllFields
<1>5. \A j \in Ids : r.legs[j] = IF j = k THEN {} ELSE s.legs[j]
  BY <1>1, <1>2
<1>6. \A d \in Circs : r.ptr[d] = IF d \in s.legs[k] /\ d # keep THEN 0 ELSE s.ptr[d]
  BY <1>1, <1>2
<1>7. \A j \in Ids, d \in Circs : d \in s.legs[j] => states[d] = "open" /\ s.ptr[d] = j
  BY DEF Sound, LegsPointBack
<1>9. LegsPointBack(r, now)
  <2> SUFFICES ASSUME NEW j \in Ids, NEW d \in r.legs[j]
               PROVE  now[d] = "open" /\ r.ptr[d] = j
    BY DEF LegsPointBack
  <2>1. d \in s.legs[j] /\ d \in Circs /\ j # k
    BY <1>2, <1>5
  <2>2. states[d] = "open" /\ s.ptr[d] = j
    BY <1>7, <2>1
  <2>3. d \notin s.legs[k]
    BY <1>2, <1>7, <2>1, <2>2
  <2> QED BY <1>4, <1>6, <2>1, <2>2, <2>3
<1>10. PointersHaveReason(r, now)
  <2> SUFFICES ASSUME NEW d \in Circs, r.ptr[d] # 0
               PROVE  \/ d \in r.legs[r.ptr[d]]
                      \/ /\ r.legs[r.ptr[d]] = {} /\ now[d] = "marked"
                         /\ \A b \in Circs : r.ptr[b] = r.ptr[d] => b = d
    BY DEF PointersHaveReason
  <2>1. r.ptr[d] = s.ptr[d] /\ s.ptr[d] \in Ids /\ (d \in s.legs[k] => d = keep)
    BY <1>2, <1>6
  <2>2. CASE d = keep
    <3>1. r.ptr[d] = k /\ r.legs[k] = {} /\ now[d] = "marked"
      BY <1>2, <1>4, <1>5, <1>7, <2>1, <2>2
    <3>2. ASSUME NEW b \in Circs, r.ptr[b] = k PROVE b = d
      <4>1. s.ptr[b] = k /\ s.ptr[b] # 0 /\ (b \in s.legs[k] => b = keep)
        BY <1>2, <1>6, <3>2
      <4>2. b \in s.legs[k]
        BY <1>2, <4>1 DEF Sound, PointersHaveReason
      <4> QED BY <2>2, <4>1, <4>2
    <3> QED BY <3>1, <3>2
  <2>3. CASE d # keep
    <3>1. d \notin s.legs[k] /\ now[d] = states[d]
      BY <1>4, <2>1, <2>3
    <3>2. CASE d \in s.legs[s.ptr[d]]
      BY <1>5, <2>1, <3>1, <3>2
    <3>3. CASE /\ s.legs[s.ptr[d]] = {} /\ states[d] = "marked"
               /\ \A b \in Circs : s.ptr[b] = s.ptr[d] => b = d
      <4>1. s.ptr[d] # k
        BY <1>2, <3>3
      <4>2. r.legs[r.ptr[d]] = {} /\ now[d] = "marked"
        BY <1>5, <2>1, <3>1, <3>3, <4>1
      <4>3. ASSUME NEW b \in Circs, r.ptr[b] = r.ptr[d] PROVE b = d
        <5>1. r.ptr[b] = s.ptr[b]
          BY <1>2, <1>6, <2>1, <4>3
        <5> QED BY <2>1, <3>3, <4>3, <5>1
      <4> QED BY <4>2, <4>3
    <3> QED BY <2>1, <3>2, <3>3 DEF Sound, PointersHaveReason
  <2> QED BY <2>2, <2>3
<1>11. PoolHasLegs(r)
  BY <1>1 DEF PoolHasLegs
<1>12. MadeInOrder(r)
  <2>1. s.pool <= s.made /\ \A j \in Ids : j > s.made => s.legs[j] = {} /\ \A d \in Circs : s.ptr[d] # j
    BY DEF Sound, MadeInOrder
  <2>3. r.pool <= r.made
    BY <1>1, <1>2
  <2>4. ASSUME NEW j \in Ids, j > r.made
        PROVE  r.legs[j] = {} /\ \A d \in Circs : r.ptr[d] # j
    BY <1>1, <1>2, <1>5, <1>6, <2>1, <2>4
  <2> QED BY <2>3, <2>4 DEF MadeInOrder
<1>13. LivesWhilePointed(r, held)
  <2> SUFFICES ASSUME NEW j \in Ids
               PROVE  (\E d \in Circs : r.ptr[d] = j) <=> (\E d \in Circs : s.ptr[d] = j)
    BY <1>1 DEF LivesWhilePointed
  <2>1. ASSUME NEW d \in Circs, r.ptr[d] = j PROVE \E b \in Circs : s.ptr[b] = j
    <3>1. s.ptr[d] = j
      BY <1>2, <1>6, <2>1
    <3> QED BY <3>1
  <2>2. ASSUME NEW d \in Circs, s.ptr[d] = j PROVE \E b \in Circs : r.ptr[b] = j
    <3>1. CASE d \notin s.legs[k]
      BY <1>6, <2>2, <3>1
    <3>2. CASE d \in s.legs[k]
      <4>1. j = k /\ r.ptr[keep] = s.ptr[keep] /\ s.ptr[keep] = k
        BY <1>2, <1>6, <1>7, <2>2, <3>2
      <4> QED BY <1>2, <4>1
    <3> QED BY <3>1, <3>2
  <2> QED BY <2>1, <2>2
<1>14. Sound(r, now)
  BY <1>9, <1>10, <1>11, <1>12 DEF Sound
<1>15. /\ \A d \in Circs \ s.legs[s.pool] : r.ptr[d] = s.ptr[d]
       /\ \A d \in Circs : r.ptr[d] \in {0, s.ptr[d]}
  BY <1>6, <1>a
<1> QED BY <1>1, <1>13, <1>14, <1>15 DEF r, now

(* linked_circuit_free keeps the objects sound: it frees an object with    *)
(* the last circuit that points at it, and only then.                      *)
LEMMA FreeSound ==
  ASSUME NEW s \in Objects, NEW states \in [Circs -> CircStates], Sound(s, states),
         NEW c \in Circs, states[c] = "marked",
         NEW held, LivesWhilePointed(s, held),
         s.ptr[c] \notin held
  PROVE  /\ Sound(linked_circuit_free(s, c), [states EXCEPT ![c] = "freed"])
         /\ LivesWhilePointed(linked_circuit_free(s, c), held)
         /\ linked_circuit_free(s, c) \in Objects
         /\ linked_circuit_free(s, c).made = s.made
         /\ \A d \in Circs : linked_circuit_free(s, c).ptr[d] = IF d = c THEN 0 ELSE s.ptr[d]
<1> DEFINE r == linked_circuit_free(s, c)
           now == [states EXCEPT ![c] = "freed"]
<1>0. r = linked_circuit_free(s, c)
  OBVIOUS
<1>a. PICK last \in BOOLEAN : last <=> (s.ptr[c] # 0 /\ s.legs[s.ptr[c]] = {})
  OBVIOUS
<1>b. PICK k : k = s.ptr[c]
  OBVIOUS
<1>2. /\ s.legs \in [Ids -> SUBSET Circs] /\ s.ptr \in [Circs -> {0} \cup Ids]
      /\ s.pool \in {0} \cup Ids /\ s.made \in Nat /\ 0 \notin Ids
      /\ k \in {0} \cup Ids
  BY <1>b, Sizes DEF Objects
<1>4. \A d \in Circs : now[d] = IF d = c THEN "freed" ELSE states[d]
  OBVIOUS
<1> HIDE DEF r, now
<1>1. /\ r \in Objects
      /\ r.legs = s.legs /\ r.made = s.made
      /\ r.ptr = [s.ptr EXCEPT ![c] = 0]
      /\ r.pool = IF last THEN 0 ELSE s.pool
      /\ r.live = IF last THEN s.live \ {k} ELSE s.live
  BY <1>0, <1>a, <1>b, FreeFields
<1>6. \A d \in Circs : r.ptr[d] = IF d = c THEN 0 ELSE s.ptr[d]
  BY <1>1, <1>2
<1>7. \A j \in Ids, d \in Circs : d \in s.legs[j] => states[d] = "open" /\ s.ptr[d] = j
  BY DEF Sound, LegsPointBack
<1>8. /\ \A j \in Ids : c \notin s.legs[j]
      /\ k # 0 => last /\ \A d \in Circs : s.ptr[d] = k => d = c
      /\ k = 0 => ~last
  <2>1. \A j \in Ids : c \notin s.legs[j]
    BY <1>7
  <2>2. k # 0 => /\ s.legs[k] = {}
                 /\ \A d \in Circs : s.ptr[d] = k => d = c
    BY <1>b, <1>2, <2>1 DEF Sound, PointersHaveReason
  <2> QED BY <1>a, <1>b, <2>1, <2>2
<1>9. LegsPointBack(r, now)
  <2> SUFFICES ASSUME NEW j \in Ids, NEW d \in r.legs[j]
               PROVE  now[d] = "open" /\ r.ptr[d] = j
    BY DEF LegsPointBack
  <2>1. d \in s.legs[j] /\ d \in Circs /\ d # c
    BY <1>1, <1>2, <1>8
  <2> QED BY <1>4, <1>6, <1>7, <2>1
<1>10. PointersHaveReason(r, now)
  <2> SUFFICES ASSUME NEW d \in Circs, r.ptr[d] # 0
               PROVE  \/ d \in r.legs[r.ptr[d]]
                      \/ /\ r.legs[r.ptr[d]] = {} /\ now[d] = "marked"
                         /\ \A b \in Circs : r.ptr[b] = r.ptr[d] => b = d
    BY DEF PointersHaveReason
  <2>1. d # c /\ r.ptr[d] = s.ptr[d] /\ s.ptr[d] # 0 /\ now[d] = states[d]
    BY <1>4, <1>6
  <2>2. \/ d \in s.legs[s.ptr[d]]
        \/ /\ s.legs[s.ptr[d]] = {} /\ states[d] = "marked"
           /\ \A b \in Circs : s.ptr[b] = s.ptr[d] => b = d
    BY <2>1 DEF Sound, PointersHaveReason
  <2>3. ASSUME NEW b \in Circs, r.ptr[b] = r.ptr[d] PROVE s.ptr[b] = s.ptr[d]
    BY <1>6, <2>1, <2>3
  <2> QED BY <1>1, <2>1, <2>2, <2>3
<1>11. PoolHasLegs(r)
  <2>1. r.pool # 0 => r.pool = s.pool
    BY <1>1
  <2> QED BY <1>1, <2>1 DEF Sound, PoolHasLegs
<1>12. MadeInOrder(r)
  <2>1. s.pool <= s.made /\ \A j \in Ids : j > s.made => s.legs[j] = {} /\ \A d \in Circs : s.ptr[d] # j
    BY DEF Sound, MadeInOrder
  <2>3. r.pool <= r.made
    BY <1>1, <1>2, <2>1
  <2>4. ASSUME NEW j \in Ids, j > r.made
        PROVE  r.legs[j] = {} /\ \A d \in Circs : r.ptr[d] # j
    BY <1>1, <1>2, <1>6, <2>1, <2>4
  <2> QED BY <2>3, <2>4 DEF MadeInOrder
<1>13. LivesWhilePointed(r, held)
  <2> SUFFICES ASSUME NEW j \in Ids
               PROVE  j \in r.live <=> (\E d \in Circs : r.ptr[d] = j) \/ j \in held
    BY DEF LivesWhilePointed
  <2>1. j \in s.live <=> (\E d \in Circs : s.ptr[d] = j) \/ j \in held
    BY DEF LivesWhilePointed
  <2>2. CASE j = k
    <3>1. k # 0 /\ last /\ j \notin r.live
      BY <1>1, <1>2, <1>8, <2>2
    <3>2. \A d \in Circs : r.ptr[d] # j
      BY <1>2, <1>6, <1>8, <2>2, <3>1
    <3> QED BY <1>b, <2>2, <3>1, <3>2
  <2>3. CASE j # k
    <3>1. j \in r.live <=> j \in s.live
      BY <1>1, <2>3
    <3>2. (\E d \in Circs : r.ptr[d] = j) <=> (\E d \in Circs : s.ptr[d] = j)
      BY <1>2, <1>6, <1>b, <2>3
    <3> QED BY <2>1, <3>1, <3>2
  <2> QED BY <2>2, <2>3
<1>14. Sound(r, now)
  BY <1>9, <1>10, <1>11, <1>12 DEF Sound
<1> QED BY <1>1, <1>6, <1>13, <1>14 DEF r, now

(* cfx_add_leg keeps the objects sound, and makes at most one of them.     *)
LEMMA LinkSound ==
  ASSUME NEW s \in Objects, NEW states \in [Circs -> CircStates], Sound(s, states),
         NEW c \in Circs, states[c] = "open", s.ptr[c] = 0,
         s.pool = 0 => s.made + 1 \in Ids,
         NEW held, LivesWhilePointed(s, held)
  PROVE  /\ LegLinked(s, c) \in Objects
         /\ Sound(LegLinked(s, c), states)
         /\ LivesWhilePointed(LegLinked(s, c), held)
         /\ \A d \in Circs \ {c} : LegLinked(s, c).ptr[d] = s.ptr[d]
         /\ LegLinked(s, c).ptr[c] # 0
         /\ LegLinked(s, c).made <= s.made + 1
<1> DEFINE r == LegLinked(s, c)
<1>0. r = LegLinked(s, c)
  OBVIOUS
<1> HIDE DEF r
<1>a. PICK k \in Ids : k = IF s.pool # 0 THEN s.pool ELSE s.made + 1
  BY DEF Objects
<1>b. PICK l : l = s.legs[k] \cup {c}
  OBVIOUS
<1>2. /\ s.legs \in [Ids -> SUBSET Circs] /\ s.ptr \in [Circs -> {0} \cup Ids]
      /\ s.pool \in {0} \cup Ids /\ s.made \in Nat /\ 0 \notin Ids
      /\ k \in Nat \ {0} /\ Ids \subseteq Nat
  BY Sizes DEF Objects
<1>1. /\ r \in Objects
      /\ r.legs = [s.legs EXCEPT ![k] = l]
      /\ r.ptr = [s.ptr EXCEPT ![c] = k]
      /\ r.pool = k
      /\ r.live = s.live \cup {k}
      /\ r.made = IF k > s.made THEN k ELSE s.made
  BY <1>0, <1>a, <1>b, LinkFields
<1>5. \A j \in Ids : r.legs[j] = IF j = k THEN l ELSE s.legs[j]
  BY <1>1, <1>2
<1>6. \A d \in Circs : r.ptr[d] = IF d = c THEN k ELSE s.ptr[d]
  BY <1>1, <1>2
<1>7. \A j \in Ids, d \in Circs : d \in s.legs[j] => states[d] = "open" /\ s.ptr[d] = j
  BY DEF Sound, LegsPointBack
<1>8. \A d : d \in l <=> d \in s.legs[k] \/ d = c
  BY <1>b
<1>c. s.pool <= s.made /\ \A j \in Ids : j > s.made => s.legs[j] = {} /\ \A d \in Circs : s.ptr[d] # j
  BY DEF Sound, MadeInOrder
<1>d. k <= s.made => s.pool = k
  BY <1>a, <1>2, <1>c
<1>e. k <= s.made + 1
  BY <1>a, <1>2, <1>c
<1>9. LegsPointBack(r, states)
  <2> SUFFICES ASSUME NEW j \in Ids, NEW d \in r.legs[j]
               PROVE  states[d] = "open" /\ r.ptr[d] = j
    BY DEF LegsPointBack
  <2>1. CASE d = c
    <3>1. j = k
      BY <1>2, <1>5, <1>7, <2>1
    <3> QED BY <1>6, <2>1, <3>1
  <2>2. CASE d # c
    <3>1. d \in s.legs[j] /\ d \in Circs
      BY <1>2, <1>5, <1>8, <2>2
    <3> QED BY <1>6, <1>7, <2>2, <3>1
  <2> QED BY <2>1, <2>2
<1>10. PointersHaveReason(r, states)
  <2> SUFFICES ASSUME NEW d \in Circs, r.ptr[d] # 0
               PROVE  \/ d \in r.legs[r.ptr[d]]
                      \/ /\ r.legs[r.ptr[d]] = {} /\ states[d] = "marked"
                         /\ \A b \in Circs : r.ptr[b] = r.ptr[d] => b = d
    BY DEF PointersHaveReason
  <2>1. CASE d = c
    BY <1>5, <1>6, <1>8, <2>1
  <2>2. CASE d # c
    <3>1. r.ptr[d] = s.ptr[d] /\ s.ptr[d] \in Ids
      BY <1>2, <1>6, <2>2
    <3>2. CASE d \in s.legs[s.ptr[d]]
      BY <1>5, <1>8, <3>1, <3>2
    <3>3. CASE /\ s.legs[s.ptr[d]] = {} /\ states[d] = "marked"
               /\ \A b \in Circs : s.ptr[b] = s.ptr[d] => b = d
      <4>1. s.ptr[d] # k
        <5>1. CASE k <= s.made
          <6>1. s.legs[k] # {}
            BY <1>d, <1>2, <5>1 DEF Sound, PoolHasLegs
          <6> QED BY <3>3, <6>1
        <5>2. CASE ~(k <= s.made)
          <6>1. k > s.made
            BY <1>2, <5>2
          <6> QED BY <1>c, <6>1
        <5> QED BY <5>1, <5>2
      <4>2. r.legs[r.ptr[d]] = {}
        BY <1>5, <3>1, <3>3, <4>1
      <4>3. ASSUME NEW b \in Circs, r.ptr[b] = r.ptr[d] PROVE b = d
        <5>1. b # c
          BY <1>6, <3>1, <4>1, <4>3
        <5> QED BY <1>6, <3>1, <3>3, <4>3, <5>1
      <4> QED BY <3>3, <4>2, <4>3
    <3> QED BY <3>1, <3>2, <3>3 DEF Sound, PointersHaveReason
  <2> QED BY <2>1, <2>2
<1>11. PoolHasLegs(r)
  <2>1. r.legs[r.pool] = l /\ c \in l
    BY <1>1, <1>5, <1>8
  <2> QED BY <2>1 DEF PoolHasLegs
<1>12. MadeInOrder(r)
  <2>1. r.pool <= r.made /\ r.made \in Nat /\ ~(k > r.made)
    BY <1>1, <1>2
  <2>2. r.made >= s.made
    BY <1>1, <1>2
  <2>3. ASSUME NEW j \in Ids, j > r.made
        PROVE  r.legs[j] = {} /\ \A d \in Circs : r.ptr[d] # j
    <3>1. j # k /\ j > s.made
      BY <1>2, <2>1, <2>2, <2>3
    <3> QED BY <1>5, <1>6, <1>c, <3>1
  <2> QED BY <2>1, <2>3 DEF MadeInOrder
<1>13. LivesWhilePointed(r, held)
  <2> SUFFICES ASSUME NEW j \in Ids
               PROVE  j \in r.live <=> (\E d \in Circs : r.ptr[d] = j) \/ j \in held
    BY DEF LivesWhilePointed
  <2>1. j \in s.live <=> (\E d \in Circs : s.ptr[d] = j) \/ j \in held
    BY DEF LivesWhilePointed
  <2>2. CASE j = k
    BY <1>1, <1>6, <2>2
  <2>3. CASE j # k
    <3>1. j \in r.live <=> j \in s.live
      BY <1>1, <2>3
    <3>2. (\E d \in Circs : r.ptr[d] = j) <=> (\E d \in Circs : s.ptr[d] = j)
      BY <1>2, <1>6, <2>3
    <3> QED BY <2>1, <3>1, <3>2
  <2> QED BY <2>2, <2>3
<1>14. Sound(r, states)
  BY <1>9, <1>10, <1>11, <1>12 DEF Sound
<1>15. \A d \in Circs \ {c} : r.ptr[d] = s.ptr[d]
  BY <1>6
<1>16. r.ptr[c] # 0 /\ r.made <= s.made + 1
  BY <1>1, <1>2, <1>6, <1>e
<1> QED BY <1>1, <1>13, <1>14, <1>15, <1>16 DEF r

(* Before a set is linked nothing points at its object.                    *)
LEMMA FinalizedSound ==
  ASSUME NEW s \in Objects, NEW states \in [Circs -> CircStates], Sound(s, states),
         s.made = 1, \A c \in Circs : s.ptr[c] = 0,
         NEW legs \in SUBSET Circs, legs # {}, \A c \in legs : states[c] = "open",
         LivesWhilePointed(s, {1})
  PROVE  /\ Finalized(s, legs) \in Objects
         /\ Sound(Finalized(s, legs), states)
         /\ LivesWhilePointed(Finalized(s, legs), {})
         /\ Finalized(s, legs).made = 1
         /\ \A c \in Circs : Finalized(s, legs).ptr[c] = IF c \in legs THEN 1 ELSE 0
<1> DEFINE r == Finalized(s, legs)
           l == [s.legs EXCEPT ![1] = legs]
           p == [c \in Circs |-> IF c \in legs THEN 1 ELSE s.ptr[c]]
<1>1. /\ l \in [Ids -> SUBSET Circs] /\ p \in [Circs -> {0} \cup Ids]
      /\ 1 \in Ids /\ 0 \notin Ids /\ Ids \subseteq Nat
      /\ s.legs \in [Ids -> SUBSET Circs]
  BY Sizes DEF Objects
<1>2. r = [s EXCEPT !.pool = 1, !.legs = l, !.ptr = p]
  BY DEF Finalized, Objects
<1>3. /\ \A j \in Ids : l[j] = IF j = 1 THEN legs ELSE s.legs[j]
      /\ \A c \in Circs : p[c] = IF c \in legs THEN 1 ELSE 0
  BY <1>1
<1> HIDE DEF r, l, p
<1>4. r.pool = 1 /\ r.legs = l /\ r.ptr = p /\ r.live = s.live /\ r.made = 1
  BY <1>2 DEF Objects
<1>5. r \in Objects
  BY <1>1, <1>2 DEF Objects
<1>6. \A j \in Ids : s.legs[j] = {}
  BY <1>1 DEF Sound, LegsPointBack
<1>7. LegsPointBack(r, states)
  BY <1>1, <1>3, <1>4, <1>6 DEF LegsPointBack
<1>8. PointersHaveReason(r, states)
  BY <1>1, <1>3, <1>4 DEF PointersHaveReason
<1>9. PoolHasLegs(r)
  BY <1>1, <1>3, <1>4 DEF PoolHasLegs
<1>10. MadeInOrder(r)
  <2>1. ASSUME NEW j \in Ids, j > 1 PROVE j # 1 /\ j # 0
    BY <1>1, <2>1
  <2> QED BY <1>1, <1>3, <1>4, <1>6, <2>1 DEF MadeInOrder
<1>11. LivesWhilePointed(r, {})
  BY <1>1, <1>3, <1>4 DEF LivesWhilePointed
<1> QED BY <1>3, <1>4, <1>5, <1>7, <1>8, <1>9, <1>10, <1>11 DEF Sound, r

(* Only the states of the circuits that an end has pointers for matter to  *)
(* its objects, and nothing in them depends on the streams.                *)
LEMMA OtherStates ==
  ASSUME NEW s \in Objects, NEW states, NEW now, Sound(s, states),
         \A c \in Circs : s.ptr[c] # 0 => now[c] = states[c]
  PROVE  Sound(s, now)
<1>1. 0 \notin Ids /\ s.legs \in [Ids -> SUBSET Circs]
  BY Sizes DEF Objects
<1>2. LegsPointBack(s, now)
  <2> SUFFICES ASSUME NEW j \in Ids, NEW d \in s.legs[j]
               PROVE  now[d] = "open" /\ s.ptr[d] = j
    BY DEF LegsPointBack
  <2>1. d \in Circs /\ states[d] = "open" /\ s.ptr[d] = j
    BY <1>1 DEF Sound, LegsPointBack
  <2> QED BY <1>1, <2>1
<1>3. PointersHaveReason(s, now)
  BY DEF Sound, PointersHaveReason
<1> QED BY <1>2, <1>3 DEF Sound

(* Whether an object carries streams does not matter to its soundness.     *)
LEMMA UseNoted ==
  ASSUME NEW s \in Objects, NEW used \in SUBSET Ids, NEW states, NEW held
  PROVE  /\ [s EXCEPT !.used = used] \in Objects
         /\ [s EXCEPT !.used = used].ptr = s.ptr
         /\ [s EXCEPT !.used = used].made = s.made
         /\ Sound(s, states) => Sound([s EXCEPT !.used = used], states)
         /\ LivesWhilePointed(s, held) => LivesWhilePointed([s EXCEPT !.used = used], held)
<1>1. PICK r : r = [s EXCEPT !.used = used]
  OBVIOUS
<1>2. /\ r.pool = s.pool /\ r.legs = s.legs /\ r.ptr = s.ptr
      /\ r.live = s.live /\ r.made = s.made /\ r \in Objects
  BY <1>1 DEF Objects
<1>3. Sound(s, states) => Sound(r, states)
  BY <1>2 DEF Sound, LegsPointBack, PointersHaveReason, PoolHasLegs, MadeInOrder
<1>4. LivesWhilePointed(s, held) => LivesWhilePointed(r, held)
  BY <1>2 DEF LivesWhilePointed
<1> QED BY <1>1, <1>2, <1>3, <1>4

(* The object of the client is held by its unlinked set.                   *)
Held(e) == IF e = Client /\ unlinked.exists THEN {1} ELSE {}

EndSound(e) == Sound(linked[e], circ[e]) /\ LivesWhilePointed(linked[e], Held(e))

(* The unlinked set exists while it has legs; its legs are not closed, the *)
(* linked ones are open, and a circuit of the client that is not closed is a*)
(* leg of the unlinked or of the linked set.                               *)
UnlinkedSound ==
  /\ unlinked.linked \subseteq unlinked.legs
  /\ unlinked.exists <=> unlinked.legs # {}
  /\ linked[Client].made <= 1
  /\ unlinked.exists => /\ linked[Client].made = 1
                        /\ \A c \in Circs : linked[Client].ptr[c] = 0
  /\ \A c \in unlinked.legs : circ[Client][c] \in {"building", "open"}
  /\ \A c \in unlinked.linked : circ[Client][c] = "open"
  /\ \A c \in Circs : circ[Client][c] \in {"building", "open"} =>
        c \in unlinked.legs \/ linked[Client].ptr[c] # 0

(* The circuits made so far are the first m, one per launch at most.       *)
MadeSoFar(m) ==
  /\ \A c \in Circs : circ[Client][c] # "none" <=> c <= m
  /\ unlinked.exists => m <= unlinked.launches

LaunchesCounted == \E m \in 0 .. MaxLaunch : MadeSoFar(m)

Typed ==
  /\ circ \in [Ends -> [Circs -> CircStates]]
  /\ unlinked \in [exists : BOOLEAN, legs : SUBSET Circs,
                   linked : SUBSET Circs, launches : 0 .. MaxLaunch]
  /\ linked \in [Ends -> Objects]

StateSound ==
  Typed /\ EndSound(Client) /\ EndSound(Exit) /\ UnlinkedSound /\ LaunchesCounted

(* Whether an end has linked c, or is past it.                             *)
LinkedByExit(c) == linked[Exit].ptr[c] # 0 \/ circ[Exit][c] \in {"marked", "freed"}
LinkedByClient(c) == linked[Client].ptr[c] # 0 \/ c \in unlinked.linked

(* What most steps keep of a circuit at the exit, and at the client.       *)
ExitKept(d) ==
  \/ circ'[Exit][d] = circ[Exit][d] /\ linked'[Exit].ptr[d] = linked[Exit].ptr[d]
  \/ circ'[Exit][d] \in {"marked", "freed"} /\ circ[Exit][d] # "none"

ClientKept(d) ==
  /\ circ'[Client][d] = "open" => circ[Client][d] = "open"
  /\ circ'[Client][d] \in {"none", "building"} => circ[Client][d] \in {"none", "building"}
  /\ d \in unlinked.legs \ unlinked.linked /\ circ'[Client][d] = "open"
        => d \in unlinked'.legs \ unlinked'.linked
  /\ LinkedByClient(d)' => LinkedByClient(d)

Kept ==
  /\ \A d \in Circs : ExitKept(d) /\ ClientKept(d)
  /\ linked'[Exit].made = linked[Exit].made

(* The two ends of a circuit.                                              *)
LEMMA TwoEnds == Ends = {Client, Exit} /\ Client # Exit /\ Other(Client) = Exit /\ Other(Exit) = Client
BY DEF Ends, Client, Exit, Other

(* What a call of conflux_launch_leg for a set with legs comes to.         *)
LEMMA LaunchOutcome ==
  ASSUME NEW L \in 0 .. MaxLaunch, NEW o \in conflux_launch_leg(L)
  PROVE  /\ o.launches \in L .. MaxLaunch
         /\ o.legs = 0 \/ (o.legs = 1 /\ o.launches > L)
         /\ o = [legs |-> o.legs, launches |-> o.launches]
<1> DEFINE tries == {n \in (L + 1) .. (MaxLaunch + 1) : launch_leg_is_allowed(n - 1)}
<1>1. MaxLaunch \in Nat
  BY Sizes
<1>2. tries = (L + 1) .. MaxLaunch
  BY <1>1 DEF launch_leg_is_allowed
<1> HIDE DEF tries
<1>3. Cardinality(tries) = MaxLaunch - L
  <2>1. PICK a : a = L + 1
    OBVIOUS
  <2>2. a \in Int /\ MaxLaunch \in Int
    BY <1>1, <2>1
  <2>3. Cardinality(a .. MaxLaunch) = IF a > MaxLaunch THEN 0 ELSE MaxLaunch - a + 1
    BY <2>2, FS_Interval
  <2>4. tries = a .. MaxLaunch
    BY <1>2, <2>1
  <2>5. (IF a > MaxLaunch THEN 0 ELSE MaxLaunch - a + 1) = MaxLaunch - L
    BY <1>1, <2>1
  <2> QED BY <2>3, <2>4, <2>5
<1>4. o \in {[legs |-> 1, launches |-> n] : n \in tries}
            \cup {[legs |-> 0, launches |-> L + Cardinality(tries)]}
  BY DEF conflux_launch_leg, tries
<1>5. CASE o \in {[legs |-> 1, launches |-> n] : n \in tries}
  <2>1. PICK n \in tries : o = [legs |-> 1, launches |-> n]
    BY <1>5
  <2>2. n \in L + 1 .. MaxLaunch /\ o.legs = 1 /\ o.launches = n
    BY <1>2, <2>1
  <2> QED BY <1>1, <2>1, <2>2
<1>6. CASE o = [legs |-> 0, launches |-> L + Cardinality(tries)]
  <2>1. o.legs = 0 /\ o.launches = L + (MaxLaunch - L)
    BY <1>3, <1>6
  <2>2. o = [legs |-> o.legs, launches |-> o.launches]
    BY <1>6
  <2> QED BY <1>1, <2>1, <2>2
<1> QED BY <1>4, <1>5, <1>6

(* The loop that launches a whole set ends with at least one leg.          *)
LEMMA NewSetOutcome ==
  ASSUME NEW o \in launch_new_set
  PROVE  o.legs \in 1 .. MaxLaunch /\ o.launches \in 0 .. MaxLaunch /\ o.legs <= o.launches
<1>1. MaxLaunch \in Nat /\ NumLegs \in 1 .. MaxLaunch
  BY Sizes
<1>2. CASE o \in {[legs |-> NumLegs, launches |-> NumLegs]}
  <2>1. o.legs = NumLegs /\ o.launches = NumLegs
    BY <1>2
  <2> QED BY <1>1, <2>1
<1>3. CASE o \in UNION {{[q EXCEPT !.legs = @ + i] : q \in conflux_launch_leg(i + 1)} :
                        i \in 1 .. (NumLegs - 1)}
  <2>1. PICK i \in 1 .. (NumLegs - 1) :
           o \in {[q EXCEPT !.legs = @ + i] : q \in conflux_launch_leg(i + 1)}
    BY <1>3
  <2>2. PICK q \in conflux_launch_leg(i + 1) : o = [q EXCEPT !.legs = @ + i]
    BY <2>1
  <2>3. PICK L \in 0 .. MaxLaunch : L = i + 1
    BY <1>1
  <2>4. /\ q.launches \in L .. MaxLaunch
        /\ q.legs = 0 \/ (q.legs = 1 /\ q.launches > L)
        /\ q = [legs |-> q.legs, launches |-> q.launches]
    BY <2>2, <2>3, LaunchOutcome
  <2>5. o.legs = q.legs + i /\ o.launches = q.launches
    BY <2>2, <2>4
  <2> QED BY <1>1, <2>3, <2>4, <2>5
<1> QED BY <1>2, <1>3 DEF launch_new_set

(* The circuits made next are the ones that follow those made so far.      *)
LEMMA NextAreFresh ==
  ASSUME NEW m \in 0 .. MaxLaunch, MadeSoFar(m), NEW n \in Nat
  PROVE  NextCircs(n) = (m + 1) .. (m + n)
<1> DEFINE used == {c \in Circs : circ[Client][c] # "none"}
<1>1. MaxLaunch \in Nat /\ Circs = 1 .. MaxLaunch
  BY Sizes
<1>2. used = 1 .. m
  BY <1>1 DEF MadeSoFar
<1> HIDE DEF used
<1>3. Cardinality(used) = m
  BY <1>1, <1>2, FS_Interval
<1>4. NextCircs(n) = (Cardinality(used) + 1) .. (Cardinality(used) + n)
  BY DEF NextCircs, used
<1> QED BY <1>3, <1>4

(* A leg of the unlinked set closes.                                       *)
LEMMA UnlinkedClosing ==
  ASSUME StateSound, NEW c \in Circs, c \in unlinked.legs,
         unlinked_circuit_closed(c)
  PROVE  StateSound' /\ Kept /\ circ'[Client][c] = "marked"
<1>0. /\ Typed /\ EndSound(Client) /\ EndSound(Exit) /\ UnlinkedSound /\ LaunchesCounted
  BY DEF StateSound
<1>1. PICK m \in 0 .. MaxLaunch : MadeSoFar(m)
  BY <1>0 DEF LaunchesCounted
<1>2. /\ MaxLaunch \in Nat /\ Circs = 1 .. MaxLaunch /\ 0 \notin Ids /\ 1 \in Ids
      /\ Client \in Ends /\ Exit \in Ends /\ Client # Exit /\ Ends = {Client, Exit}
  BY Sizes, TwoEnds
<1>3. /\ unlinked.exists /\ unlinked.launches \in 0 .. MaxLaunch
      /\ m <= unlinked.launches
      /\ \A d \in Circs : linked[Client].ptr[d] = 0
      /\ linked[Client].made = 1
      /\ circ[Client] \in [Circs -> CircStates] /\ linked[Client] \in Objects
      /\ circ[Client][c] \in {"building", "open"}
  BY <1>0, <1>1, <1>2 DEF UnlinkedSound, MadeSoFar, Typed
<1>4. Sound(linked[Client], circ[Client]) /\ LivesWhilePointed(linked[Client], {1})
  BY <1>0, <1>3 DEF EndSound, Held
<1>5. CASE unlinked.legs = {c}
  <2>1. /\ unlinked' = NoSet
        /\ circ' = [circ EXCEPT ![Client] = [circ[Client] EXCEPT ![c] = "marked"]]
        /\ linked' = [linked EXCEPT ![Client] = [linked[Client] EXCEPT !.live = @ \ {1}]]
    BY <1>5 DEF unlinked_circuit_closed
  <2>2. PICK r : r = [linked[Client] EXCEPT !.live = @ \ {1}]
    OBVIOUS
  <2>3. /\ r.pool = linked[Client].pool /\ r.legs = linked[Client].legs
        /\ r.ptr = linked[Client].ptr /\ r.made = linked[Client].made
        /\ r.live = linked[Client].live \ {1} /\ r \in Objects
    BY <1>3, <2>2 DEF Objects
  <2>4. PICK now : now = [circ[Client] EXCEPT ![c] = "marked"]
    OBVIOUS
  <2>5. now \in [Circs -> CircStates] /\ \A d \in Circs : now[d] = IF d = c THEN "marked" ELSE circ[Client][d]
    BY <1>3, <2>4 DEF CircStates
  <2>6. /\ linked'[Client] = r /\ linked'[Exit] = linked[Exit]
        /\ circ'[Client] = now /\ circ'[Exit] = circ[Exit]
        /\ linked' \in [Ends -> Objects] /\ circ' \in [Ends -> [Circs -> CircStates]]
    BY <1>0, <1>2, <2>1, <2>2, <2>3, <2>4, <2>5 DEF Typed
  <2>7. unlinked' \in [exists : BOOLEAN, legs : SUBSET Circs, linked : SUBSET Circs, launches : 0 .. MaxLaunch]
        /\ ~unlinked'.exists /\ unlinked'.legs = {} /\ unlinked'.linked = {}
    BY <1>2, <2>1 DEF NoSet
  <2>8. Sound(r, now)
    <3>1. Sound(r, circ[Client])
      BY <1>4, <2>3 DEF Sound, LegsPointBack, PointersHaveReason, PoolHasLegs, MadeInOrder
    <3>2. \A d \in Circs : r.ptr[d] # 0 => now[d] = circ[Client][d]
      BY <1>3, <2>3
    <3>3. r \in Objects
      BY <2>3
    <3> QED BY <3>1, <3>2, <3>3, OtherStates
  <2>9. LivesWhilePointed(r, {})
    BY <1>3, <1>4, <2>3 DEF LivesWhilePointed
  <2>10. EndSound(Client)' /\ EndSound(Exit)'
    BY <1>0, <1>2, <2>6, <2>7, <2>8, <2>9 DEF EndSound, Held
  <2>11. UnlinkedSound'
    <3>1. ASSUME NEW d \in Circs, circ'[Client][d] \in {"building", "open"} PROVE FALSE
      BY <1>0, <1>3, <1>5, <2>5, <2>6, <3>1 DEF UnlinkedSound
    <3> QED BY <1>3, <2>3, <2>6, <2>7, <3>1 DEF UnlinkedSound
  <2>12. LaunchesCounted'
    <3>1. MadeSoFar(m)'
      BY <1>1, <1>3, <2>5, <2>6, <2>7 DEF MadeSoFar
    <3> QED BY <3>1 DEF LaunchesCounted
  <2>13. Kept
    <3>1. ASSUME NEW d \in Circs PROVE ExitKept(d) /\ ClientKept(d)
      BY <1>3, <1>5, <2>3, <2>5, <2>6, <2>7 DEF ExitKept, ClientKept, LinkedByClient
    <3> QED BY <2>6, <3>1 DEF Kept
  <2> QED BY <2>5, <2>6, <2>7, <2>10, <2>11, <2>12, <2>13 DEF StateSound, Typed
<1>6. CASE unlinked.legs # {c}
  <2>1. PICK o \in conflux_launch_leg(unlinked.launches) :
          /\ unlinked' = [unlinked EXCEPT
                              !.legs = (@ \ {c}) \cup NextCircs(o.legs),
                              !.linked = @ \ {c}, !.launches = o.launches]
          /\ circ' = [circ EXCEPT ![Client] =
                          [Building(@, NextCircs(o.legs)) EXCEPT
                              ![c] = "marked"]]
          /\ UNCHANGED linked
    BY <1>6 DEF unlinked_circuit_closed
  <2>2. /\ o.launches \in unlinked.launches .. MaxLaunch
        /\ o.legs = 0 \/ (o.legs = 1 /\ o.launches > unlinked.launches)
    BY <1>3, LaunchOutcome
  <2>3. PICK new : new = NextCircs(o.legs)
    OBVIOUS
  <2>4. new = (m + 1) .. (m + o.legs)
    BY <1>1, <2>2, <2>3, NextAreFresh
  <2>5. PICK n \in 0 .. MaxLaunch : n = m + o.legs /\ n <= o.launches
    BY <1>2, <1>3, <2>2
  <2>6. /\ new \subseteq Circs
        /\ \A d \in Circs : d \in new <=> (m < d /\ d <= n)
    BY <1>2, <2>4, <2>5
  <2>7. \A d \in new : d \in Circs /\ circ[Client][d] = "none"
    BY <1>1, <1>2, <2>6 DEF MadeSoFar
  <2>8. PICK now : now = [Building(circ[Client], new) EXCEPT ![c] = "marked"]
    OBVIOUS
  <2>9. /\ now \in [Circs -> CircStates]
        /\ \A d \in Circs : now[d] = IF d = c THEN "marked"
                                     ELSE IF d \in new THEN "building" ELSE circ[Client][d]
    BY <1>3, <2>8 DEF Building, CircStates
  <2>10. circ' = [circ EXCEPT ![Client] = now]
    BY <2>1, <2>3, <2>8
  <2>11. /\ linked' = linked
         /\ circ'[Client] = now /\ circ'[Exit] = circ[Exit]
         /\ circ' \in [Ends -> [Circs -> CircStates]]
    <3>1. circ \in [Ends -> [Circs -> CircStates]]
      BY <1>0 DEF Typed
    <3>2. linked' = linked
      BY <2>1
    <3> QED BY <1>2, <2>9, <2>10, <3>1, <3>2
  <2>12. /\ unlinked'.exists /\ unlinked'.legs = (unlinked.legs \ {c}) \cup new
         /\ unlinked'.linked = unlinked.linked \ {c} /\ unlinked'.launches = o.launches
         /\ unlinked' \in [exists : BOOLEAN, legs : SUBSET Circs,
                           linked : SUBSET Circs, launches : 0 .. MaxLaunch]
    <3>1. unlinked \in [exists : BOOLEAN, legs : SUBSET Circs,
                        linked : SUBSET Circs, launches : 0 .. MaxLaunch]
      BY <1>0 DEF Typed
    <3>2. PICK l : l = (unlinked.legs \ {c}) \cup new
      OBVIOUS
    <3>3. PICK k : k = unlinked.linked \ {c}
      OBVIOUS
    <3>4. l \in SUBSET Circs /\ k \in SUBSET Circs /\ o.launches \in 0 .. MaxLaunch
      <4>1. l \in SUBSET Circs /\ k \in SUBSET Circs
        BY <2>6, <3>1, <3>2, <3>3
      <4>2. o.launches \in 0 .. MaxLaunch
        BY <1>2, <1>3, <2>2
      <4> QED BY <4>1, <4>2
    <3>5. unlinked' = [unlinked EXCEPT !.legs = l, !.linked = k, !.launches = o.launches]
      BY <2>1, <2>3, <3>1, <3>2, <3>3
    <3> QED BY <1>3, <3>1, <3>2, <3>3, <3>4, <3>5
  <2>13. Sound(linked[Client], now)
    BY <1>3, <1>4, OtherStates
  <2>14. EndSound(Client)' /\ EndSound(Exit)'
    BY <1>0, <1>2, <1>4, <2>11, <2>12, <2>13 DEF EndSound, Held
  <2>15. UnlinkedSound'
    <3>1. unlinked'.legs # {}
      BY <1>6, <2>12
    <3>2. \A d \in unlinked'.legs : circ'[Client][d] \in {"building", "open"}
      BY <1>0, <1>3, <2>7, <2>9, <2>11, <2>12 DEF UnlinkedSound, Typed
    <3>3. \A d \in unlinked'.linked : circ'[Client][d] = "open"
      <4> SUFFICES ASSUME NEW d \in unlinked'.linked PROVE now[d] = "open"
        BY <2>11
      <4>1. d \in Circs /\ d # c /\ circ[Client][d] = "open"
        BY <1>0, <2>12 DEF UnlinkedSound, Typed
      <4>2. d \notin new
        BY <2>7, <4>1
      <4> QED BY <2>9, <4>1, <4>2
    <3>4. \A d \in Circs : circ'[Client][d] \in {"building", "open"} => d \in unlinked'.legs
      BY <1>0, <1>3, <2>9, <2>11, <2>12 DEF UnlinkedSound
    <3>5. unlinked'.linked \subseteq unlinked'.legs
      BY <1>0, <2>12 DEF UnlinkedSound
    <3> QED BY <1>3, <2>11, <2>12, <3>1, <3>2, <3>3, <3>4, <3>5 DEF UnlinkedSound
  <2>16. LaunchesCounted'
    <3>1. ASSUME NEW d \in Circs PROVE circ'[Client][d] # "none" <=> d <= n
      <4>1. d \in Nat /\ m \in Nat /\ n \in Nat /\ m <= n
        BY <1>2, <2>2, <2>5
      <4>2. circ[Client][d] # "none" <=> d <= m
        BY <1>1 DEF MadeSoFar
      <4>3. CASE d = c
        BY <1>3, <2>9, <2>11, <4>1, <4>2, <4>3
      <4>4. CASE d # c /\ d \in new
        BY <2>6, <2>9, <2>11, <4>4
      <4>5. CASE d # c /\ d \notin new
        BY <2>6, <2>9, <2>11, <4>1, <4>2, <4>5
      <4> QED BY <4>3, <4>4, <4>5
    <3>2. MadeSoFar(n)'
      BY <2>5, <2>12, <3>1 DEF MadeSoFar
    <3> QED BY <3>2 DEF LaunchesCounted
  <2>17. Kept
    <3>1. ASSUME NEW d \in Circs PROVE ExitKept(d) /\ ClientKept(d)
      <4>1. circ'[Client][d] = "open" => circ[Client][d] = "open" /\ d # c
        BY <2>9, <2>11
      <4>2. circ'[Client][d] \in {"none", "building"} => circ[Client][d] \in {"none", "building"}
        BY <2>7, <2>9, <2>11
      <4> QED BY <2>11, <2>12, <4>1, <4>2 DEF ExitKept, ClientKept, LinkedByClient
    <3> QED BY <2>11, <3>1 DEF Kept
  <2>18. circ'[Client][c] = "marked"
    BY <2>9, <2>11
  <2> QED BY <1>0, <2>11, <2>12, <2>14, <2>15, <2>16, <2>17, <2>18 DEF StateSound, Typed
<1> QED BY <1>5, <1>6

(* One end closes or frees circuits that are not in the unlinked set.      *)
EndStep(e, t, now) ==
  /\ linked' = [linked EXCEPT ![e] = t] /\ circ' = [circ EXCEPT ![e] = now]
  /\ unlinked' = unlinked
  /\ Sound(t, now) /\ LivesWhilePointed(t, Held(e)) /\ t.made = linked[e].made
  /\ \A d \in Circs : t.ptr[d] \in {0, linked[e].ptr[d]}
  /\ \A d \in Circs :
        \/ now[d] = circ[e][d] /\ t.ptr[d] = linked[e].ptr[d]
        \/ /\ now[d] \in {"marked", "freed"} /\ circ[e][d] # "none"
           /\ e = Client => d \notin unlinked.legs

(* Such a step keeps all that is known of the state without the wires.     *)
LEMMA EndChanges ==
  ASSUME StateSound, NEW e \in Ends, NEW t \in Objects, NEW now \in [Circs -> CircStates],
         EndStep(e, t, now)
  PROVE  StateSound' /\ Kept
<1> USE DEF EndStep
<1>0. /\ Typed /\ EndSound(Client) /\ EndSound(Exit) /\ UnlinkedSound /\ LaunchesCounted
  BY DEF StateSound
<1>1. Client \in Ends /\ Exit \in Ends /\ Client # Exit /\ Ends = {Client, Exit}
  BY TwoEnds
<1>2. /\ \A x \in Ends : linked'[x] = IF x = e THEN t ELSE linked[x]
      /\ \A x \in Ends : circ'[x] = IF x = e THEN now ELSE circ[x]
      /\ Typed'
  <2>1. /\ linked \in [Ends -> Objects] /\ circ \in [Ends -> [Circs -> CircStates]]
    BY <1>0 DEF Typed
  <2>2. Typed'
    BY <1>0, <2>1 DEF Typed
  <2> QED BY <2>1, <2>2
<1>3. Held(Client)' = Held(Client) /\ Held(Exit)' = Held(Exit)
  BY DEF Held
<1>4. EndSound(Client)' /\ EndSound(Exit)'
  BY <1>0, <1>1, <1>2, <1>3 DEF EndSound
<1>5. CASE e = Client
  <2>1. /\ linked'[Client] = t /\ circ'[Client] = now
        /\ linked'[Exit] = linked[Exit] /\ circ'[Exit] = circ[Exit]
    BY <1>1, <1>2, <1>5
  <2>2. UnlinkedSound'
    <3>1. unlinked.exists => \A c \in Circs : t.ptr[c] = 0
      BY <1>0, <1>5 DEF UnlinkedSound
    <3>2. \A c \in unlinked.legs : now[c] \in {"building", "open"}
      BY <1>0, <1>5 DEF UnlinkedSound, Typed
    <3>3. \A c \in unlinked.linked : now[c] = "open"
      BY <1>0, <1>5 DEF UnlinkedSound, Typed
    <3>4. \A c \in Circs : now[c] \in {"building", "open"} => c \in unlinked.legs \/ t.ptr[c] # 0
      BY <1>0, <1>5 DEF UnlinkedSound
    <3> QED BY <1>0, <1>5, <2>1, <3>1, <3>2, <3>3, <3>4 DEF UnlinkedSound
  <2>3. \A d \in Circs : now[d] # "none" <=> circ[Client][d] # "none"
    BY <1>5
  <2>4. LaunchesCounted'
    <3>1. PICK m \in 0 .. MaxLaunch : MadeSoFar(m)
      BY <1>0 DEF LaunchesCounted
    <3>2. MadeSoFar(m)'
      BY <2>1, <2>3, <3>1 DEF MadeSoFar
    <3> QED BY <3>2 DEF LaunchesCounted
  <2>5. Kept
    <3>1. ASSUME NEW d \in Circs PROVE ExitKept(d) /\ ClientKept(d)
      <4>1. ExitKept(d)
        BY <2>1 DEF ExitKept
      <4>2. /\ now[d] = "open" => circ[Client][d] = "open"
            /\ now[d] \in {"none", "building"} => circ[Client][d] = now[d]
            /\ t.ptr[d] # 0 => linked[Client].ptr[d] # 0
        BY <1>5
      <4> QED BY <2>1, <4>1, <4>2 DEF ClientKept, LinkedByClient
    <3> QED BY <2>1, <3>1 DEF Kept
  <2> QED BY <1>2, <1>4, <2>2, <2>4, <2>5 DEF StateSound
<1>6. CASE e = Exit
  <2>1. /\ linked'[Exit] = t /\ circ'[Exit] = now
        /\ linked'[Client] = linked[Client] /\ circ'[Client] = circ[Client]
    BY <1>1, <1>2, <1>6
  <2>2. UnlinkedSound'
    BY <1>0, <2>1 DEF UnlinkedSound
  <2>3. LaunchesCounted'
    <3>1. PICK m \in 0 .. MaxLaunch : MadeSoFar(m)
      BY <1>0 DEF LaunchesCounted
    <3>2. MadeSoFar(m)'
      BY <2>1, <3>1 DEF MadeSoFar
    <3> QED BY <3>2 DEF LaunchesCounted
  <2>4. Kept
    <3>1. ASSUME NEW d \in Circs PROVE ExitKept(d) /\ ClientKept(d)
      <4>1. ExitKept(d)
        BY <1>6, <2>1 DEF ExitKept
      <4>2. ClientKept(d)
        BY <2>1 DEF ClientKept, LinkedByClient
      <4> QED BY <4>1, <4>2
    <3> QED BY <1>6, <2>1, <3>1 DEF Kept
  <2> QED BY <1>2, <1>4, <2>2, <2>3, <2>4 DEF StateSound
<1> QED BY <1>1, <1>5, <1>6

(* What a circuit that is not closed yet can point at.                     *)
LEMMA OpenLeg ==
  ASSUME StateSound, NEW e \in Ends, NEW c \in Circs,
         circ[e][c] \in {"building", "open"}, linked[e].ptr[c] # 0
  PROVE  /\ linked[e].ptr[c] \in Ids /\ circ[e][c] = "open"
         /\ c \in linked[e].legs[linked[e].ptr[c]]
         /\ e = Client => unlinked.legs = {}
<1>1. Typed /\ EndSound(e) /\ UnlinkedSound /\ linked[e] \in Objects
  BY TwoEnds DEF StateSound, Typed
<1>2. linked[e].ptr[c] \in Ids
  BY <1>1 DEF Objects
<1>3. c \in linked[e].legs[linked[e].ptr[c]]
  BY <1>1 DEF EndSound, Sound, PointersHaveReason
<1>4. circ[e][c] = "open"
  BY <1>1, <1>2, <1>3 DEF EndSound, Sound, LegsPointBack
<1>5. e = Client => unlinked.legs = {}
  BY <1>1 DEF UnlinkedSound
<1> QED BY <1>2, <1>3, <1>4, <1>5

(* A leg of a linked set closes, and perhaps the legs of the pooled one.   *)
LEMMA LinkedClosing ==
  ASSUME StateSound, NEW e \in Ends, NEW c \in Circs,
         circ[e][c] \in {"building", "open"}, linked[e].ptr[c] # 0,
         linked_circuit_closed(e, c)
  PROVE  StateSound' /\ Kept /\ circ'[e][c] = "marked"
<1>0. PICK k : k = linked[e].ptr[c]
  OBVIOUS
<1>1. /\ k \in Ids /\ circ[e][c] = "open" /\ (e = Client => unlinked.legs = {})
      /\ 0 \notin Ids
  BY <1>0, OpenLeg, Sizes
<1>2. /\ Typed /\ Sound(linked[e], circ[e]) /\ LivesWhilePointed(linked[e], Held(e))
      /\ linked[e] \in Objects /\ circ[e] \in [Circs -> CircStates]
      /\ linked \in [Ends -> Objects] /\ circ \in [Ends -> [Circs -> CircStates]]
  BY TwoEnds DEF StateSound, EndSound, Typed
<1>3. PICK s : s = LegRemoved(linked[e], k, c)
  OBVIOUS
<1>4. PICK one : one = [circ[e] EXCEPT ![c] = "marked"]
  OBVIOUS
<1>5. /\ Sound(s, one) /\ LivesWhilePointed(s, Held(e))
      /\ \A d \in Circs \ {c} : s.ptr[d] = linked[e].ptr[d]
      /\ \A d \in Circs : s.ptr[d] \in {0, linked[e].ptr[d]}
      /\ s \in Objects /\ s.made = linked[e].made
  <2>1. PICK now \in Objects : now = linked[e]
    BY <1>2
  <2>2. PICK states \in [Circs -> CircStates] : states = circ[e]
    BY <1>2
  <2>3. PICK held : held = Held(e)
    OBVIOUS
  <2>4. /\ Sound(now, states) /\ k = now.ptr[c] /\ states[c] = "open"
        /\ LivesWhilePointed(now, held)
    BY <1>0, <1>1, <1>2, <2>1, <2>2, <2>3
  <2>5. /\ Sound(LegRemoved(now, k, c), [states EXCEPT ![c] = "marked"])
        /\ LivesWhilePointed(LegRemoved(now, k, c), held)
        /\ \A d \in Circs \ {c} : LegRemoved(now, k, c).ptr[d] = now.ptr[d]
        /\ \A d \in Circs : LegRemoved(now, k, c).ptr[d] \in {0, now.ptr[d]}
        /\ LegRemoved(now, k, c) \in Objects /\ LegRemoved(now, k, c).made = now.made
    BY <1>1, <2>1, <2>2, <2>4, LegRemovedSound
  <2>7. s = LegRemoved(now, k, c)
    BY <1>3, <2>1
  <2> QED BY <1>4, <2>1, <2>2, <2>3, <2>5, <2>7
<1>6. s \in Objects /\ s.made = linked[e].made
  BY <1>5
<1>7. /\ one \in [Circs -> CircStates]
      /\ \A d \in Circs : one[d] = IF d = c THEN "marked" ELSE circ[e][d]
  BY <1>2, <1>4 DEF CircStates
<1>8. /\ unlinked' = unlinked
      /\ \/ linked' = [linked EXCEPT ![e] = s] /\ circ' = [circ EXCEPT ![e][c] = "marked"]
         \/ s.pool # 0 /\ \E keep \in s.legs[s.pool] :
                    /\ linked' = [linked EXCEPT ![e] = conflux_mark_all_for_close(s, keep)]
                    /\ circ' = [circ EXCEPT ![e] =
                          [d \in Circs |-> IF d \in s.legs[s.pool] \cup {c}
                                           THEN "marked" ELSE circ[e][d]]]
  <2>1. PICK full \in FullTeardowns(LegRemoved(linked[e], linked[e].ptr[c], c), linked[e].ptr[c]) :
            IF full /\ LegRemoved(linked[e], linked[e].ptr[c], c).pool # 0
            THEN \E keep \in LegRemoved(linked[e], linked[e].ptr[c], c).legs[LegRemoved(linked[e], linked[e].ptr[c], c).pool] :
                    /\ linked' = [linked EXCEPT ![e] = conflux_mark_all_for_close(LegRemoved(linked[e], linked[e].ptr[c], c), keep)]
                    /\ circ' = [circ EXCEPT ![e] =
                          [d \in Circs |-> IF d \in LegRemoved(linked[e], linked[e].ptr[c], c).legs[LegRemoved(linked[e], linked[e].ptr[c], c).pool] \cup {c}
                                           THEN "marked" ELSE @[d]]]
            ELSE /\ linked' = [linked EXCEPT ![e] = LegRemoved(linked[e], linked[e].ptr[c], c)]
                 /\ circ' = [circ EXCEPT ![e][c] = "marked"]
    BY Zenon DEF linked_circuit_closed
  <2>2. unlinked' = unlinked
    BY DEF linked_circuit_closed
  <2>3. s = LegRemoved(linked[e], linked[e].ptr[c], c)
    BY <1>0, <1>3
  <2> QED BY <2>1, <2>2, <2>3
<1>9. CASE linked' = [linked EXCEPT ![e] = s] /\ circ' = [circ EXCEPT ![e][c] = "marked"]
  <2>1. circ' = [circ EXCEPT ![e] = one]
    BY <1>2, <1>4, <1>9
  <2>2. \A d \in Circs :
            \/ one[d] = circ[e][d] /\ s.ptr[d] = linked[e].ptr[d]
            \/ /\ one[d] \in {"marked", "freed"} /\ circ[e][d] # "none"
               /\ e = Client => d \notin unlinked.legs
    BY <1>1, <1>5, <1>7
  <2>3. EndStep(e, s, one)
    BY <1>5, <1>6, <1>8, <1>9, <2>1, <2>2 DEF EndStep
  <2>5. StateSound' /\ Kept
    BY <1>6, <1>7, <2>3, EndChanges
  <2>4. circ'[e][c] = "marked"
    BY <1>2, <1>7, <2>1
  <2> QED BY <2>4, <2>5
<1>10. CASE s.pool # 0 /\ \E keep \in s.legs[s.pool] :
                    /\ linked' = [linked EXCEPT ![e] = conflux_mark_all_for_close(s, keep)]
                    /\ circ' = [circ EXCEPT ![e] =
                          [d \in Circs |-> IF d \in s.legs[s.pool] \cup {c}
                                           THEN "marked" ELSE circ[e][d]]]
  <2>1. PICK keep \in s.legs[s.pool] :
                    /\ linked' = [linked EXCEPT ![e] = conflux_mark_all_for_close(s, keep)]
                    /\ circ' = [circ EXCEPT ![e] =
                          [d \in Circs |-> IF d \in s.legs[s.pool] \cup {c}
                                           THEN "marked" ELSE circ[e][d]]]
    BY <1>10
  <2>2. PICK t : t = conflux_mark_all_for_close(s, keep)
    OBVIOUS
  <2>3. PICK all : all = [d \in Circs |-> IF d \in s.legs[s.pool] THEN "marked" ELSE one[d]]
    OBVIOUS
  <2>4. /\ Sound(t, all) /\ LivesWhilePointed(t, Held(e))
        /\ \A d \in Circs \ s.legs[s.pool] : t.ptr[d] = s.ptr[d]
        /\ \A d \in Circs : t.ptr[d] \in {0, s.ptr[d]}
        /\ t \in Objects /\ t.made = s.made
    <3>1. PICK held : held = Held(e)
      OBVIOUS
    <3>2. LivesWhilePointed(s, held) /\ Sound(s, one) /\ s.pool # 0
      BY <1>5, <1>10, <3>1
    <3>3. /\ Sound(conflux_mark_all_for_close(s, keep),
                  [d \in Circs |-> IF d \in s.legs[s.pool] THEN "marked" ELSE one[d]])
          /\ LivesWhilePointed(conflux_mark_all_for_close(s, keep), held)
          /\ \A d \in Circs \ s.legs[s.pool] :
               conflux_mark_all_for_close(s, keep).ptr[d] = s.ptr[d]
          /\ \A d \in Circs : conflux_mark_all_for_close(s, keep).ptr[d] \in {0, s.ptr[d]}
          /\ conflux_mark_all_for_close(s, keep) \in Objects
          /\ conflux_mark_all_for_close(s, keep).made = s.made
      BY <1>6, <1>7, <3>2, MarkAllSound
    <3> QED BY <2>2, <2>3, <3>1, <3>3
  <2>5. s.pool \in Ids /\ s.legs[s.pool] \subseteq Circs
    BY <1>6, <1>10 DEF Objects
  <2>6. t \in Objects /\ t.made = s.made
    BY <2>4
  <2>7. /\ all \in [Circs -> CircStates]
        /\ all = [d \in Circs |-> IF d \in s.legs[s.pool] \cup {c} THEN "marked" ELSE circ[e][d]]
    BY <1>7, <2>3 DEF CircStates
  <2>8. \A d \in s.legs[s.pool] : one[d] = "open"
    BY <1>5, <2>5 DEF Sound, LegsPointBack
  <2>9. ASSUME NEW d \in Circs
        PROVE  \/ all[d] = circ[e][d] /\ t.ptr[d] = linked[e].ptr[d]
               \/ /\ all[d] \in {"marked", "freed"} /\ circ[e][d] # "none"
                  /\ e = Client => d \notin unlinked.legs
    <3>1. CASE d = c
      BY <1>1, <2>7, <3>1
    <3>2. CASE d # c /\ d \in s.legs[s.pool]
      BY <1>1, <1>7, <2>7, <2>8, <3>2
    <3>3. CASE d # c /\ d \notin s.legs[s.pool]
      BY <1>5, <2>4, <2>7, <3>3
    <3> QED BY <3>1, <3>2, <3>3
  <2>10. \A d \in Circs : t.ptr[d] \in {0, linked[e].ptr[d]}
    BY <1>5, <2>4
  <2>11. linked' = [linked EXCEPT ![e] = t] /\ circ' = [circ EXCEPT ![e] = all]
    BY <1>2, <2>1, <2>2, <2>7
  <2>12. StateSound' /\ Kept
    <3>1. EndStep(e, t, all)
      BY <1>6, <1>8, <2>4, <2>6, <2>9, <2>10, <2>11 DEF EndStep
    <3> QED BY <2>6, <2>7, <3>1, EndChanges
  <2>13. circ'[e][c] = "marked"
    BY <1>2, <2>7, <2>11
  <2> QED BY <2>12, <2>13
<1> QED BY <1>8, <1>9, <1>10

(* A circuit of no set closes.                                             *)
LEMMA PlainClosing ==
  ASSUME StateSound, NEW e \in Ends, NEW c \in Circs,
         circ[e][c] \in {"building", "open"}, linked[e].ptr[c] = 0,
         e = Client => c \notin unlinked.legs,
         circ' = [circ EXCEPT ![e][c] = "marked"], UNCHANGED <<unlinked, linked>>
  PROVE  StateSound' /\ Kept /\ circ'[e][c] = "marked"
<1>1. /\ Sound(linked[e], circ[e]) /\ LivesWhilePointed(linked[e], Held(e))
      /\ linked[e] \in Objects /\ circ[e] \in [Circs -> CircStates]
      /\ linked \in [Ends -> Objects] /\ circ \in [Ends -> [Circs -> CircStates]]
  BY TwoEnds DEF StateSound, EndSound, Typed
<1>2. PICK now : now = [circ[e] EXCEPT ![c] = "marked"]
  OBVIOUS
<1>3. /\ now \in [Circs -> CircStates]
      /\ \A d \in Circs : now[d] = IF d = c THEN "marked" ELSE circ[e][d]
  BY <1>1, <1>2 DEF CircStates
<1>4. circ' = [circ EXCEPT ![e] = now]
  BY <1>1, <1>2
<1>5. linked' = [linked EXCEPT ![e] = linked[e]] /\ unlinked' = unlinked
  BY <1>1
<1>6. Sound(linked[e], now)
  <2>1. \A d \in Circs : linked[e].ptr[d] # 0 => now[d] = circ[e][d]
    BY <1>3
  <2> QED BY <1>1, <2>1, OtherStates
<1>7. \A d \in Circs :
            \/ now[d] = circ[e][d] /\ linked[e].ptr[d] = linked[e].ptr[d]
            \/ /\ now[d] \in {"marked", "freed"} /\ circ[e][d] # "none"
               /\ e = Client => d \notin unlinked.legs
  BY <1>3
<1>8. \A d \in Circs : linked[e].ptr[d] \in {0, linked[e].ptr[d]}
  OBVIOUS
<1>9. PICK t \in Objects : t = linked[e]
  BY <1>1
<1>10. StateSound' /\ Kept
  <2>1. EndStep(e, t, now)
    BY <1>1, <1>4, <1>5, <1>6, <1>7, <1>8, <1>9 DEF EndStep
  <2> QED BY <1>3, <2>1, EndChanges
<1>11. circ'[e][c] = "marked"
  BY <1>1, <1>3, <1>4
<1> QED BY <1>10, <1>11

(* Closing a circuit, whatever it belongs to.                              *)
LEMMA Closing ==
  ASSUME StateSound, NEW e \in Ends, NEW c \in Circs,
         circ[e][c] \in {"building", "open"}, conflux_circuit_has_closed(e, c)
  PROVE  StateSound' /\ Kept /\ circ'[e][c] = "marked"
<1>1. CASE e = Client /\ c \in unlinked.legs
  <2>1. unlinked_circuit_closed(c)
    BY <1>1 DEF conflux_circuit_has_closed
  <2> QED BY <1>1, <2>1, UnlinkedClosing
<1>2. CASE ~(e = Client /\ c \in unlinked.legs) /\ linked[e].ptr[c] # 0
  <2>1. linked_circuit_closed(e, c)
    BY <1>2 DEF conflux_circuit_has_closed
  <2> QED BY <1>2, <2>1, LinkedClosing
<1>3. CASE ~(e = Client /\ c \in unlinked.legs) /\ linked[e].ptr[c] = 0
  <2>1. circ' = [circ EXCEPT ![e][c] = "marked"] /\ UNCHANGED <<unlinked, linked>>
    BY <1>3 DEF conflux_circuit_has_closed
  <2> QED BY <1>3, <2>1, PlainClosing
<1> QED BY <1>1, <1>2, <1>3

-----------------------------------------------------------------------------
(* Wires.                                                                  *)

(* LINK and LINKED are the first cell of their wire.                       *)
Leads(w) == \A n \in 1 .. Len(w) : w[n] \in {"LINK", "LINKED"} => n = 1

(* What a wire becomes when no cell of the handshake is added to it.       *)
Follows(v, w) ==
  /\ v \in Seq(Cells) /\ (Leads(w) => Leads(v))
  /\ \A x \in Cells : Occurs(x, v) => Occurs(x, w) \/ x \in {"BEGIN", "DESTROY"}

(* Nothing is on an empty wire.                                            *)
LEMMA NothingOccurs == /\ \A x : ~Occurs(x, <<>>)
                       /\ <<>> \in Seq(Cells) /\ Leads(<<>>)
BY DEF Occurs, Leads

(* Two sequences of cells make one.                                        *)
LEMMA ConcatIn ==
  ASSUME NEW S, NEW q \in Seq(S), NEW r \in Seq(S)
  PROVE  q \o r \in Seq(S)
OBVIOUS

(* A wire that stays as it is gets no new cell of the handshake.           *)
LEMMA FollowsItself ==
  ASSUME NEW w \in Seq(Cells)
  PROVE  Follows(w, w)
BY DEF Follows

(* The first cell is taken: LINK and LINKED are not behind it.             *)
LEMMA FollowsTail ==
  ASSUME NEW w \in Seq(Cells), w # <<>>
  PROVE  /\ Follows(Tail(w), w)
         /\ Occurs(Head(w), w) /\ Head(w) \in Cells
         /\ Leads(w) => \A x \in {"LINK", "LINKED"} : ~Occurs(x, Tail(w))
<1>1. PICK v : v = Tail(w)
  OBVIOUS
<1>2. /\ v \in Seq(Cells) /\ Len(v) = Len(w) - 1 /\ Len(w) \in Nat \ {0}
      /\ \A n \in 1 .. Len(w) - 1 : v[n] = w[n + 1]
      /\ Head(w) = w[1] /\ Head(w) \in Cells
  BY <1>1
<1>3. ASSUME NEW n \in 1 .. Len(v) PROVE n + 1 \in 1 .. Len(w) /\ v[n] = w[n + 1] /\ n + 1 # 1
  BY <1>2
<1>4. \A x : Occurs(x, v) => Occurs(x, w)
  BY <1>3 DEF Occurs
<1>5. Leads(w) => \A x \in {"LINK", "LINKED"} : ~Occurs(x, v)
  BY <1>3 DEF Occurs, Leads
<1>6. Leads(w) => Leads(v)
  BY <1>3 DEF Leads
<1>7. Occurs(Head(w), w)
  BY <1>2 DEF Occurs
<1> QED BY <1>1, <1>2, <1>4, <1>5, <1>6, <1>7 DEF Follows

(* A cell is added behind those that are there.                            *)
LEMMA AddedCell ==
  ASSUME NEW w \in Seq(Cells), NEW x \in Cells
  PROVE  /\ Append(w, x) \in Seq(Cells) /\ w \o <<x>> = Append(w, x)
         /\ \A y : Occurs(y, Append(w, x)) <=> Occurs(y, w) \/ y = x
         /\ Leads(w) /\ (w = <<>> \/ x \notin {"LINK", "LINKED"}) => Leads(Append(w, x))
         /\ x \in {"BEGIN", "DESTROY"} => Follows(Append(w, x), w)
<1>1. PICK v : v = Append(w, x)
  OBVIOUS
<1>2. /\ v \in Seq(Cells) /\ Len(v) = Len(w) + 1 /\ Len(w) \in Nat
      /\ \A n \in 1 .. Len(w) : v[n] = w[n]
      /\ v[Len(w) + 1] = x
      /\ w \o <<x>> = v
  BY <1>1
<1>3. 1 .. Len(v) = (1 .. Len(w)) \cup {Len(w) + 1}
  BY <1>2
<1>4. \A y : Occurs(y, v) <=> Occurs(y, w) \/ y = x
  BY <1>2, <1>3, Zenon DEF Occurs
<1>5. Leads(w) /\ (w = <<>> \/ x \notin {"LINK", "LINKED"}) => Leads(v)
  <2> SUFFICES ASSUME Leads(w), w = <<>> \/ x \notin {"LINK", "LINKED"},
                      NEW n \in 1 .. Len(v), v[n] \in {"LINK", "LINKED"}
               PROVE  n = 1
    BY DEF Leads
  <2>1. CASE n \in 1 .. Len(w)
    BY <1>2, <2>1 DEF Leads
  <2>2. CASE n = Len(w) + 1
    BY <1>2, <2>2
  <2> QED BY <1>3, <2>1, <2>2
<1>6. x \in {"BEGIN", "DESTROY"} => x \notin {"LINK", "LINKED"}
  OBVIOUS
<1>7. x \in {"BEGIN", "DESTROY"} => Follows(v, w)
  BY <1>2, <1>4, <1>5, <1>6 DEF Follows
<1> QED BY <1>1, <1>2, <1>4, <1>5, <1>7

(* Any number of cells is lost before a DESTROY.                           *)
LEMMA FollowsDestroy ==
  ASSUME NEW w \in Seq(Cells), NEW k \in 0 .. Len(w)
  PROVE  Follows(SubSeq(w, 1, k) \o <<"DESTROY">>, w)
<1>1. PICK v : v = SubSeq(w, 1, k)
  OBVIOUS
<1>2. /\ v \in Seq(Cells) /\ Len(v) = k /\ Len(w) \in Nat
      /\ \A n \in 1 .. k : v[n] = w[n] /\ n \in 1 .. Len(w)
  BY <1>1
<1>3. \A x : Occurs(x, v) => Occurs(x, w)
  BY <1>2 DEF Occurs
<1>4. Leads(w) => Leads(v)
  BY <1>2 DEF Leads
<1>5. "DESTROY" \in Cells
  BY DEF Cells
<1>6. /\ Append(v, "DESTROY") \in Seq(Cells) /\ v \o <<"DESTROY">> = Append(v, "DESTROY")
      /\ \A y : Occurs(y, Append(v, "DESTROY")) <=> Occurs(y, v) \/ y = "DESTROY"
      /\ Follows(Append(v, "DESTROY"), v)
  BY <1>2, <1>5, AddedCell
<1>7. Follows(Append(v, "DESTROY"), w)
  BY <1>3, <1>4, <1>6 DEF Follows
<1> QED BY <1>1, <1>6, <1>7

(* What is known of a circuit from the cells on its way: only open circuits*)
(* read cells, LINK and LINKED come first, LINK is on its way to an exit   *)
(* that has not linked, LINKED to a client that has not, and LINKED_ACK to an*)
(* exit that has; and the exit links first.                                *)
WireSound(c) ==
  /\ \A e \in Ends : circ[e][c] # "open" => wire[e][c] = <<>>
  /\ Leads(wire[Client][c]) /\ Leads(wire[Exit][c])
  /\ circ[Client][c] \in {"none", "building"} => circ[Exit][c] = "none"
  /\ Occurs("LINK", wire[Exit][c]) =>
        linked[Exit].ptr[c] = 0 /\ wire[Client][c] = <<>>
  /\ Occurs("LINKED", wire[Client][c]) =>
        c \in unlinked.legs \ unlinked.linked /\ LinkedByExit(c)
  /\ Occurs("LINKED_ACK", wire[Exit][c]) => linked[Exit].ptr[c] # 0
  /\ LinkedByClient(c) => LinkedByExit(c)

WireTyped == wire \in [Ends -> [Circs -> Seq(Cells)]]

(* No cell of the handshake is new on a wire of c.                         *)
NoNewCells(e, c) ==
  wire'[e][c] = <<>> \/ (circ'[e][c] = "open" /\ Follows(wire'[e][c], wire[e][c]))

NoNews(c) ==
  /\ NoNewCells(Client, c) /\ NoNewCells(Exit, c)
  /\ circ'[Exit][c] = "open" /\ wire[Client][c] = <<>> => wire'[Client][c] = <<>>

(* A circuit whose two ends keep what they know, and whose wires get no    *)
(* news, stays sound.                                                      *)
LEMMA WireKept ==
  ASSUME NEW c \in Circs, WireSound(c), ExitKept(c), ClientKept(c), NoNews(c)
  PROVE  WireSound(c)'
<1>0. Ends = {Client, Exit} /\ {"LINK", "LINKED", "LINKED_ACK", "BEGIN", "DESTROY"} = Cells
  BY TwoEnds DEF Cells
<1>1. ASSUME NEW e \in Ends, circ'[e][c] # "open" PROVE wire'[e][c] = <<>>
  BY <1>0, <1>1 DEF NoNews, NoNewCells
<1>2. Leads(wire'[Client][c]) /\ Leads(wire'[Exit][c])
  BY NothingOccurs DEF NoNews, NoNewCells, Follows, WireSound
<1>3. circ'[Client][c] \in {"none", "building"} => circ'[Exit][c] = "none"
  BY DEF WireSound, ExitKept, ClientKept
<1>4. /\ Occurs("LINK", wire'[Exit][c]) => Occurs("LINK", wire[Exit][c]) /\ circ'[Exit][c] = "open"
      /\ Occurs("LINKED", wire'[Client][c]) => Occurs("LINKED", wire[Client][c]) /\ circ'[Client][c] = "open"
      /\ Occurs("LINKED_ACK", wire'[Exit][c]) => Occurs("LINKED_ACK", wire[Exit][c]) /\ circ'[Exit][c] = "open"
  BY <1>0, NothingOccurs DEF NoNews, NoNewCells, Follows
<1>5. LinkedByExit(c) => LinkedByExit(c)'
  BY DEF LinkedByExit, ExitKept
<1>6. circ'[Exit][c] = "open" => linked'[Exit].ptr[c] = linked[Exit].ptr[c]
  BY DEF ExitKept
<1>7. Occurs("LINK", wire'[Exit][c]) => linked'[Exit].ptr[c] = 0 /\ wire'[Client][c] = <<>>
  BY <1>4, <1>6 DEF WireSound, NoNews
<1>8. Occurs("LINKED", wire'[Client][c]) =>
        c \in unlinked'.legs \ unlinked'.linked /\ LinkedByExit(c)'
  BY <1>4, <1>5 DEF WireSound, ClientKept
<1>9. Occurs("LINKED_ACK", wire'[Exit][c]) => linked'[Exit].ptr[c] # 0
  BY <1>4, <1>6 DEF WireSound
<1>10. LinkedByClient(c)' => LinkedByExit(c)'
  BY <1>5 DEF WireSound, ClientKept
<1> QED BY <1>1, <1>2, <1>3, <1>7, <1>8, <1>9, <1>10 DEF WireSound

(* What is left of the wires w when the circuits that closed are dropped.  *)
LEMMA DroppedAt ==
  ASSUME NEW w \in [Ends -> [Circs -> Seq(Cells)]], wire' = Dropped(w)
  PROVE  /\ WireTyped'
         /\ \A e \in Ends, c \in Circs :
               wire'[e][c] = IF circ'[e][c] = "open" THEN w[e][c] ELSE <<>>
BY NothingOccurs DEF Dropped, WireTyped

(* The wires after a cell of c is taken at e and answered.                 *)
LEMMA TakenAt ==
  ASSUME WireTyped, NEW e \in Ends, NEW c \in Circs, wire[e][c] # <<>>,
         NEW reply \in Seq(Cells), wire' = Taken(e, c, reply)
  PROVE  /\ WireTyped'
         /\ wire'[e][c] = IF circ'[e][c] = "open" THEN Tail(wire[e][c]) ELSE <<>>
         /\ wire'[Other(e)][c] =
               IF circ'[Other(e)][c] = "open" THEN wire[Other(e)][c] \o reply ELSE <<>>
         /\ \A x \in Ends, d \in Circs : d # c =>
               wire'[x][d] = IF circ'[x][d] = "open" THEN wire[x][d] ELSE <<>>
<1>1. Other(e) \in Ends /\ Other(e) # e
  BY TwoEnds
<1>2. PICK t \in Seq(Cells) : t = Tail(wire[e][c])
  <2>1. PICK q \in Seq(Cells) : q = wire[e][c]
    BY DEF WireTyped
  <2>2. Tail(q) \in Seq(Cells)
    BY <2>1, FollowsTail DEF Follows
  <2> QED BY <2>1, <2>2
<1>3. PICK a \in Seq(Cells) : a = wire[Other(e)][c] \o reply
  <2>1. PICK q \in Seq(Cells) : q = wire[Other(e)][c]
    BY <1>1 DEF WireTyped
  <2>2. q \o reply \in Seq(Cells)
    BY <2>1, ConcatIn
  <2> QED BY <2>1, <2>2
<1>4. PICK w : w = [wire EXCEPT ![e][c] = t, ![Other(e)][c] = a]
  OBVIOUS
<1>5. /\ w \in [Ends -> [Circs -> Seq(Cells)]]
      /\ w[e][c] = t /\ w[Other(e)][c] = a
      /\ \A x \in Ends, d \in Circs : d # c => w[x][d] = wire[x][d]
  BY <1>1, <1>2, <1>3, <1>4 DEF WireTyped
<1>6. wire' = Dropped([wire EXCEPT ![e][c] = Tail(@), ![Other(e)][c] = @ \o reply])
  BY DEF Taken
<1>7. [wire EXCEPT ![e][c] = Tail(@), ![Other(e)][c] = @ \o reply] = w
  BY <1>1, <1>2, <1>3, <1>4 DEF WireTyped
<1>8. wire' = Dropped(w)
  BY <1>6, <1>7
<1>9. /\ WireTyped'
      /\ \A x \in Ends, d \in Circs :
            wire'[x][d] = IF circ'[x][d] = "open" THEN w[x][d] ELSE <<>>
  BY <1>5, <1>8, DroppedAt
<1>10. /\ wire'[e][c] = IF circ'[e][c] = "open" THEN Tail(wire[e][c]) ELSE <<>>
       /\ wire'[Other(e)][c] =
            IF circ'[Other(e)][c] = "open" THEN wire[Other(e)][c] \o reply ELSE <<>>
  BY <1>1, <1>2, <1>3, <1>5, <1>9
<1>11. \A x \in Ends, d \in Circs : d # c =>
          wire'[x][d] = IF circ'[x][d] = "open" THEN wire[x][d] ELSE <<>>
  BY <1>5, <1>9
<1> QED BY <1>9, <1>10, <1>11

-----------------------------------------------------------------------------
(* The inductive invariant.                                                *)

(* The legs whose LINK has reached the exit; each made one object at most. *)
Linking == {c \in Circs : circ[Exit][c] # "none" /\ ~Occurs("LINK", wire[Exit][c])}
MadeByLinks == linked[Exit].made <= Cardinality(Linking)

IInv == StateSound /\ WireTyped /\ (\A c \in Circs : WireSound(c)) /\ MadeByLinks

(* Sets of circuits are finite, and a new circuit adds one.                *)
LEMMA LinkingFinite ==
  ASSUME NEW S \in SUBSET Circs
  PROVE  /\ IsFiniteSet(S) /\ Cardinality(S) \in 0 .. MaxLaunch
         /\ \A c \in Circs \ S : Cardinality(S \cup {c}) = Cardinality(S) + 1
<1>1. MaxLaunch \in Nat /\ Circs = 1 .. MaxLaunch
  BY Sizes
<1>2. IsFiniteSet(1 .. MaxLaunch) /\ Cardinality(1 .. MaxLaunch) = MaxLaunch
  <2>1. MaxLaunch \in Int /\ 1 \in Int
    BY <1>1
  <2>2. IsFiniteSet(1 .. MaxLaunch)
        /\ Cardinality(1 .. MaxLaunch) = IF 1 > MaxLaunch THEN 0 ELSE MaxLaunch - 1 + 1
    BY <2>1, FS_Interval
  <2>3. (IF 1 > MaxLaunch THEN 0 ELSE MaxLaunch - 1 + 1) = MaxLaunch
    BY <1>1
  <2> QED BY <2>2, <2>3
<1>3. IsFiniteSet(Circs) /\ Cardinality(Circs) = MaxLaunch
  BY <1>1, <1>2
<1>4. IsFiniteSet(S) /\ Cardinality(S) <= Cardinality(Circs)
  BY <1>3, FS_Subset
<1>5. Cardinality(S) \in Nat
  BY <1>4, FS_CardinalityType
<1>6. ASSUME NEW c \in Circs \ S PROVE Cardinality(S \cup {c}) = Cardinality(S) + 1
  BY <1>4, FS_AddElement
<1> QED BY <1>1, <1>3, <1>4, <1>5, <1>6

(* A step that makes no object keeps the count of the objects made.        *)
LEMMA LinkingGrows ==
  ASSUME MadeByLinks, linked'[Exit].made = linked[Exit].made, Linking \subseteq Linking',
         linked[Exit].made \in Nat
  PROVE  MadeByLinks'
<1>1. PICK S \in SUBSET Circs : S = Linking
  BY DEF Linking
<1>2. PICK T \in SUBSET Circs : T = Linking'
  BY DEF Linking
<1>3. Cardinality(S) \in Nat /\ Cardinality(T) \in Nat /\ IsFiniteSet(T)
  <2>1. Cardinality(S) \in 0 .. MaxLaunch /\ Cardinality(T) \in 0 .. MaxLaunch /\ IsFiniteSet(T)
    BY LinkingFinite, <1>1, <1>2
  <2> QED BY <2>1, Sizes
<1>4. Cardinality(S) <= Cardinality(T)
  BY <1>1, <1>2, <1>3, FS_Subset
<1>5. linked'[Exit].made <= Cardinality(T)
  BY <1>1, <1>3, <1>4 DEF MadeByLinks
<1> QED BY <1>2, <1>5 DEF MadeByLinks

(* The count of the exit's objects is a number.                            *)
LEMMA MadeNat ==
  ASSUME StateSound
  PROVE  linked[Exit].made \in Nat /\ linked[Exit].made \in 0 .. MaxLaunch
<1>1. linked[Exit] \in Objects /\ MaxLaunch \in Nat
  BY TwoEnds, Sizes DEF StateSound, Typed
<1> QED BY <1>1 DEF Objects

(* A step that adds no cell of the handshake and links no leg.             *)
LEMMA QuietStep ==
  ASSUME IInv, StateSound', Kept, WireTyped', \A c \in Circs : NoNews(c)
  PROVE  IInv'
<1>1. ASSUME NEW c \in Circs PROVE WireSound(c)'
  BY WireKept DEF IInv, Kept
<1>2. Linking \subseteq Linking'
  <2> SUFFICES ASSUME NEW c \in Circs, circ[Exit][c] # "none", ~Occurs("LINK", wire[Exit][c])
               PROVE  circ'[Exit][c] # "none" /\ ~Occurs("LINK", wire'[Exit][c])
    BY DEF Linking
  <2>1. circ'[Exit][c] # "none"
    BY DEF Kept, ExitKept
  <2>2. "LINK" \in Cells /\ "LINK" \notin {"BEGIN", "DESTROY"}
    BY DEF Cells
  <2>3. ~Occurs("LINK", wire'[Exit][c])
    BY <2>2, NothingOccurs DEF NoNews, NoNewCells, Follows
  <2> QED BY <2>1, <2>3
<1>3. MadeByLinks'
  BY <1>2, LinkingGrows, MadeNat DEF IInv, Kept
<1> QED BY <1>1, <1>3 DEF IInv

(* Nothing is sent.                                                        *)
LEMMA DroppedQuiet ==
  ASSUME WireTyped, wire' = Dropped(wire)
  PROVE  WireTyped' /\ \A c \in Circs : NoNews(c)
<1>1. /\ WireTyped'
      /\ \A e \in Ends, c \in Circs :
             wire'[e][c] = IF circ'[e][c] = "open" THEN wire[e][c] ELSE <<>>
  BY DroppedAt DEF WireTyped
<1>2. ASSUME NEW c \in Circs PROVE NoNews(c)
  <2>1. \A e \in Ends : wire[e][c] \in Seq(Cells)
    BY DEF WireTyped
  <2>2. \A e \in Ends : Follows(wire[e][c], wire[e][c])
    BY <2>1, FollowsItself
  <2> QED BY <1>1, <2>2, TwoEnds DEF NoNews, NoNewCells
<1> QED BY <1>1, <1>2

(* A cell is taken and not answered.                                       *)
LEMMA TakenQuiet ==
  ASSUME WireTyped, NEW e \in Ends, NEW c \in Circs, NEW cell, Arrives(e, c, cell),
         wire' = Taken(e, c, <<>>)
  PROVE  WireTyped' /\ \A d \in Circs : NoNews(d)
<1>1. wire[e][c] # <<>> /\ wire[e][c] \in Seq(Cells) /\ Other(e) \in Ends
      /\ wire[Other(e)][c] \in Seq(Cells) /\ e # Other(e)
      /\ Ends = {e, Other(e)}
  BY TwoEnds DEF Arrives, WireTyped
<1>2. <<>> \in Seq(Cells)
  BY NothingOccurs
<1>3. /\ WireTyped'
      /\ wire'[e][c] = IF circ'[e][c] = "open" THEN Tail(wire[e][c]) ELSE <<>>
      /\ wire'[Other(e)][c] =
               IF circ'[Other(e)][c] = "open" THEN wire[Other(e)][c] \o <<>> ELSE <<>>
      /\ \A x \in Ends, d \in Circs : d # c =>
               wire'[x][d] = IF circ'[x][d] = "open" THEN wire[x][d] ELSE <<>>
  BY <1>1, <1>2, TakenAt
<1>4. wire[Other(e)][c] \o <<>> = wire[Other(e)][c]
  BY <1>1
<1>5. ASSUME NEW x \in Ends, NEW d \in Circs
      PROVE  NoNewCells(x, d) /\ (wire[x][d] = <<>> => wire'[x][d] = <<>>)
  <2>1. wire[x][d] \in Seq(Cells)
    BY DEF WireTyped
  <2>2. Follows(wire[x][d], wire[x][d])
    BY <2>1, FollowsItself
  <2>3. CASE d # c
    BY <1>3, <2>2, <2>3 DEF NoNewCells
  <2>4. CASE d = c /\ x = e
    <3>1. Follows(Tail(wire[e][c]), wire[e][c])
      BY <1>1, FollowsTail
    <3> QED BY <1>1, <1>3, <2>4, <3>1 DEF NoNewCells
  <2>5. CASE d = c /\ x = Other(e)
    BY <1>3, <1>4, <2>2, <2>5 DEF NoNewCells
  <2> QED BY <1>1, <2>3, <2>4, <2>5
<1>6. ASSUME NEW d \in Circs PROVE NoNews(d)
  BY <1>5, TwoEnds DEF NoNews
<1> QED BY <1>3, <1>6

-----------------------------------------------------------------------------
(* The steps.                                                              *)

(* CloseCircuit keeps the invariant.                                       *)
LEMMA CloseStep ==
  ASSUME IInv, NEW e \in Ends, NEW c \in Circs, CloseCircuit(e, c)
  PROVE  IInv'
<1>1. StateSound' /\ Kept
  BY Closing DEF CloseCircuit, IInv
<1>2. WireTyped' /\ \A d \in Circs : NoNews(d)
  BY DroppedQuiet DEF CloseCircuit, IInv
<1> QED BY <1>1, <1>2, QuietStep

(* command_process_destroy_cell keeps the invariant.                       *)
LEMMA DestroyStep ==
  ASSUME IInv, NEW e \in Ends, NEW c \in Circs, command_process_destroy_cell(e, c)
  PROVE  IInv'
<1>1. Arrives(e, c, "DESTROY") /\ circ[e][c] = "open"
  BY DEF command_process_destroy_cell, Arrives
<1>2. StateSound' /\ Kept
  BY <1>1, Closing DEF command_process_destroy_cell, IInv
<1>3. WireTyped' /\ \A d \in Circs : NoNews(d)
  BY <1>1, TakenQuiet DEF command_process_destroy_cell, IInv
<1> QED BY <1>2, <1>3, QuietStep

(* A step that changes wires only keeps the rest.                          *)
LEMMA SameState ==
  ASSUME StateSound, UNCHANGED <<circ, unlinked, linked>>
  PROVE  StateSound' /\ Kept
<1>1. StateSound'
  <2>1. EndSound(Client)' /\ EndSound(Exit)'
    BY DEF StateSound, EndSound, Held
  <2>2. Typed' /\ UnlinkedSound'
    BY DEF StateSound, Typed, UnlinkedSound
  <2>3. LaunchesCounted'
    BY DEF StateSound, LaunchesCounted, MadeSoFar
  <2> QED BY <2>1, <2>2, <2>3 DEF StateSound
<1>2. Kept
  BY DEF Kept, ExitKept, ClientKept, LinkedByClient
<1> QED BY <1>1, <1>2

(* conflux_process_linked_ack keeps the invariant.                         *)
LEMMA LinkedAckStep ==
  ASSUME IInv, NEW c \in Circs, conflux_process_linked_ack(c)
  PROVE  IInv'
<1>1. Arrives(Exit, c, "LINKED_ACK") /\ circ[Exit][c] = "open" /\ Exit \in Ends
      /\ wire' = Taken(Exit, c, <<>>)
  BY TwoEnds DEF conflux_process_linked_ack, Arrives
<1>2. StateSound' /\ Kept
  <2>1. CASE UNCHANGED <<circ, unlinked, linked>>
    BY <2>1, SameState DEF IInv
  <2>2. CASE conflux_circuit_has_closed(Exit, c)
    BY <1>1, <2>2, Closing DEF IInv
  <2> QED BY <2>1, <2>2 DEF conflux_process_linked_ack
<1>3. WireTyped' /\ \A d \in Circs : NoNews(d)
  BY <1>1, TakenQuiet DEF IInv
<1> QED BY <1>2, <1>3, QuietStep

(* circuit_about_to_free keeps the invariant.                              *)
LEMMA FreeStep ==
  ASSUME IInv, NEW e \in Ends, NEW c \in Circs, circuit_about_to_free(e, c)
  PROVE  IInv'
<1>1. /\ circ[e][c] = "marked"
      /\ circ' = [circ EXCEPT ![e][c] = "freed"]
      /\ linked' = [linked EXCEPT ![e] = linked_circuit_free(linked[e], c)]
      /\ unlinked' = unlinked
      /\ \E keep \in 0 .. Len(wire[Other(e)][c]) : wire' = DestroySent(e, c, keep)
  BY DEF circuit_about_to_free
<1>2. /\ Sound(linked[e], circ[e]) /\ LivesWhilePointed(linked[e], Held(e))
      /\ linked[e] \in Objects /\ circ[e] \in [Circs -> CircStates]
      /\ linked \in [Ends -> Objects] /\ circ \in [Ends -> [Circs -> CircStates]]
      /\ UnlinkedSound /\ StateSound /\ WireTyped
  BY TwoEnds DEF IInv, StateSound, EndSound, Typed
<1>3. PICK s \in Objects : s = linked[e]
  BY <1>2
<1>4. PICK states \in [Circs -> CircStates] : states = circ[e]
  BY <1>2
<1>5. PICK held : held = Held(e)
  OBVIOUS
<1>6. PICK now : now = [states EXCEPT ![c] = "freed"]
  OBVIOUS
<1>7. /\ now \in [Circs -> CircStates]
      /\ \A d \in Circs : now[d] = IF d = c THEN "freed" ELSE states[d]
  BY <1>4, <1>6 DEF CircStates
<1>8. s.ptr[c] \notin held
  <2>1. unlinked.exists => \A d \in Circs : linked[Client].ptr[d] = 0
    BY <1>2 DEF UnlinkedSound
  <2> QED BY <1>3, <1>5, <2>1 DEF Held
<1>9. Sound(s, states) /\ states[c] = "marked" /\ LivesWhilePointed(s, held)
  BY <1>1, <1>2, <1>3, <1>4, <1>5
<1>10. PICK t : t = linked_circuit_free(s, c)
  OBVIOUS
<1>11. /\ Sound(t, now) /\ LivesWhilePointed(t, held)
       /\ t \in Objects /\ t.made = s.made
       /\ \A d \in Circs : t.ptr[d] = IF d = c THEN 0 ELSE s.ptr[d]
  <2>1. /\ Sound(linked_circuit_free(s, c), [states EXCEPT ![c] = "freed"])
        /\ LivesWhilePointed(linked_circuit_free(s, c), held)
        /\ linked_circuit_free(s, c) \in Objects
        /\ linked_circuit_free(s, c).made = s.made
        /\ \A d \in Circs : linked_circuit_free(s, c).ptr[d] = IF d = c THEN 0 ELSE s.ptr[d]
    BY <1>3, <1>4, <1>8, <1>9, FreeSound
  <2> QED BY <1>6, <1>10, <2>1
<1>12. t \in Objects /\ t.made = s.made
  BY <1>11
<1>13. \A d \in Circs : t.ptr[d] = IF d = c THEN 0 ELSE s.ptr[d]
  BY <1>11
<1>14. e = Client => c \notin unlinked.legs
  BY <1>1, <1>2 DEF UnlinkedSound
<1>15. EndStep(e, t, now)
  <2>1. linked' = [linked EXCEPT ![e] = t] /\ circ' = [circ EXCEPT ![e] = now]
    BY <1>1, <1>2, <1>3, <1>4, <1>6, <1>10
  <2>2. \A d \in Circs : t.ptr[d] \in {0, linked[e].ptr[d]}
    BY <1>3, <1>13
  <2>3. \A d \in Circs :
        \/ now[d] = circ[e][d] /\ t.ptr[d] = linked[e].ptr[d]
        \/ /\ now[d] \in {"marked", "freed"} /\ circ[e][d] # "none"
           /\ e = Client => d \notin unlinked.legs
    BY <1>3, <1>4, <1>7, <1>9, <1>13, <1>14
  <2> QED BY <1>1, <1>3, <1>5, <1>11, <1>12, <2>1, <2>2, <2>3 DEF EndStep
<1>16. StateSound' /\ Kept
  BY <1>2, <1>7, <1>12, <1>15, EndChanges
<1>17. circ'[e][c] = "freed" /\ Other(e) \in Ends /\ Other(e) # e /\ Ends = {e, Other(e)}
  BY <1>1, <1>2, TwoEnds
<1>18. PICK keep \in 0 .. Len(wire[Other(e)][c]) : wire' = DestroySent(e, c, keep)
  BY <1>1
<1>19. PICK q \in Seq(Cells) : q = wire[Other(e)][c]
  BY <1>2, <1>17 DEF WireTyped
<1>20. PICK v : v = SubSeq(q, 1, keep) \o <<"DESTROY">>
  OBVIOUS
<1>21. Follows(v, q) /\ v \in Seq(Cells)
  BY <1>18, <1>19, <1>20, FollowsDestroy DEF Follows
<1>22. PICK w : w = [wire EXCEPT ![Other(e)][c] = v]
  OBVIOUS
<1>23. /\ w \in [Ends -> [Circs -> Seq(Cells)]] /\ w[Other(e)][c] = v
       /\ \A x \in Ends, d \in Circs : ~(x = Other(e) /\ d = c) => w[x][d] = wire[x][d]
  BY <1>2, <1>17, <1>21, <1>22 DEF WireTyped
<1>24. wire' = Dropped(w)
  BY <1>18, <1>19, <1>20, <1>22 DEF DestroySent
<1>25. /\ WireTyped'
       /\ \A x \in Ends, d \in Circs :
               wire'[x][d] = IF circ'[x][d] = "open" THEN w[x][d] ELSE <<>>
  BY <1>23, <1>24, DroppedAt
<1>26. ASSUME NEW x \in Ends, NEW d \in Circs PROVE NoNewCells(x, d)
  <2>1. wire[x][d] \in Seq(Cells)
    BY <1>2 DEF WireTyped
  <2>2. Follows(wire[x][d], wire[x][d])
    BY <2>1, FollowsItself
  <2>3. Follows(w[x][d], wire[x][d])
    <3>1. CASE x = Other(e) /\ d = c
      BY <1>19, <1>21, <1>23, <3>1
    <3>2. CASE ~(x = Other(e) /\ d = c)
      BY <1>23, <2>2, <3>2
    <3> QED BY <3>1, <3>2
  <2>4. wire'[x][d] = IF circ'[x][d] = "open" THEN w[x][d] ELSE <<>>
    BY <1>25
  <2> QED BY <2>3, <2>4 DEF NoNewCells
<1>27. ASSUME NEW d \in Circs, circ'[Exit][d] = "open", wire[Client][d] = <<>>
       PROVE  wire'[Client][d] = <<>>
  <2>1. CASE d = c
    <3>1. e = Client
      BY <1>17, <1>27, <2>1, TwoEnds
    <3> QED BY <1>17, <1>25, <2>1, <3>1
  <2>2. CASE d # c
    BY <1>23, <1>25, <1>27, <2>2, TwoEnds
  <2> QED BY <2>1, <2>2
<1>28. \A d \in Circs : NoNews(d)
  BY <1>26, <1>27, TwoEnds DEF NoNews
<1> QED BY <1>16, <1>25, <1>28, QuietStep

(* Streams: only what is in use changes.                                   *)
LEMMA UsedState ==
  ASSUME StateSound, NEW e \in Ends, NEW used \in SUBSET Ids,
         linked' = [linked EXCEPT ![e].used = used], UNCHANGED <<circ, unlinked>>
  PROVE  StateSound' /\ Kept
<1>1. /\ Sound(linked[e], circ[e]) /\ LivesWhilePointed(linked[e], Held(e))
      /\ linked[e] \in Objects /\ circ[e] \in [Circs -> CircStates]
      /\ linked \in [Ends -> Objects] /\ circ \in [Ends -> [Circs -> CircStates]]
  BY TwoEnds DEF StateSound, EndSound, Typed
<1>2. PICK s \in Objects : s = linked[e]
  BY <1>1
<1>3. PICK states \in [Circs -> CircStates] : states = circ[e]
  BY <1>1
<1>4. PICK held : held = Held(e)
  OBVIOUS
<1>5. PICK t : t = [s EXCEPT !.used = used]
  OBVIOUS
<1>6. /\ t \in Objects /\ t.ptr = s.ptr /\ t.made = s.made
      /\ Sound(s, states) => Sound(t, states)
      /\ LivesWhilePointed(s, held) => LivesWhilePointed(t, held)
  BY <1>2, <1>5, UseNoted
<1>7. EndStep(e, t, states)
  <2>1. linked' = [linked EXCEPT ![e] = t] /\ circ' = [circ EXCEPT ![e] = states]
    BY <1>1, <1>2, <1>3, <1>5
  <2>2. \A d \in Circs : t.ptr[d] \in {0, linked[e].ptr[d]}
    BY <1>2, <1>6
  <2>3. \A d \in Circs : states[d] = circ[e][d] /\ t.ptr[d] = linked[e].ptr[d]
    BY <1>2, <1>3, <1>6
  <2> QED BY <1>1, <1>2, <1>3, <1>4, <1>6, <2>1, <2>2, <2>3 DEF EndStep
<1> QED BY <1>3, <1>6, <1>7, EndChanges

(* connection_exit_begin_conn keeps the invariant.                         *)
LEMMA BeginStep ==
  ASSUME IInv, NEW c \in Circs, connection_exit_begin_conn(c)
  PROVE  IInv'
<1>1. /\ Arrives(Exit, c, "BEGIN") /\ Exit \in Ends
      /\ linked' = [linked EXCEPT ![Exit].used = @ \cup ({linked[Exit].ptr[c]} \ {0})]
      /\ UNCHANGED <<circ, unlinked>>
      /\ wire' = Taken(Exit, c, <<>>)
  BY TwoEnds DEF connection_exit_begin_conn
<1>2. linked[Exit] \in Objects /\ linked \in [Ends -> Objects]
  BY TwoEnds DEF IInv, StateSound, Typed
<1>3. PICK used : used = linked[Exit].used \cup ({linked[Exit].ptr[c]} \ {0})
  OBVIOUS
<1>4. used \in SUBSET Ids
  BY <1>2, <1>3 DEF Objects
<1>5. linked' = [linked EXCEPT ![Exit].used = used]
  BY <1>1, <1>2, <1>3
<1>6. StateSound' /\ Kept
  BY <1>1, <1>4, <1>5, UsedState DEF IInv
<1>7. WireTyped' /\ \A d \in Circs : NoNews(d)
  BY <1>1, TakenQuiet DEF IInv
<1> QED BY <1>6, <1>7, QuietStep

(* conflux_get_circ_for_conn keeps the invariant.                          *)
LEMMA AttachStep ==
  ASSUME IInv, NEW c \in Circs, conflux_get_circ_for_conn(c)
  PROVE  IInv'
<1>1. /\ linked[Client].pool # 0
      /\ linked' = [linked EXCEPT ![Client].used = @ \cup {linked[Client].pool}]
      /\ UNCHANGED <<circ, unlinked>>
      /\ wire' = Dropped([wire EXCEPT ![Exit][c] = Append(@, "BEGIN")])
  BY DEF conflux_get_circ_for_conn
<1>2. /\ linked[Client] \in Objects /\ linked \in [Ends -> Objects] /\ WireTyped
      /\ Client \in Ends /\ Exit \in Ends /\ Client # Exit
  BY TwoEnds DEF IInv, StateSound, Typed
<1>3. PICK used : used = linked[Client].used \cup {linked[Client].pool}
  OBVIOUS
<1>4. used \in SUBSET Ids
  BY <1>1, <1>2, <1>3 DEF Objects
<1>5. linked' = [linked EXCEPT ![Client].used = used]
  BY <1>1, <1>2, <1>3
<1>6. StateSound' /\ Kept
  BY <1>1, <1>2, <1>4, <1>5, UsedState DEF IInv
<1>7. PICK q \in Seq(Cells) : q = wire[Exit][c]
  BY <1>2 DEF WireTyped
<1>8. "BEGIN" \in Cells
  BY DEF Cells
<1>9. PICK v : v = Append(q, "BEGIN")
  OBVIOUS
<1>10. v \in Seq(Cells) /\ Follows(v, q)
  BY <1>7, <1>8, <1>9, AddedCell
<1>11. PICK w : w = [wire EXCEPT ![Exit][c] = v]
  OBVIOUS
<1>12. /\ w \in [Ends -> [Circs -> Seq(Cells)]] /\ w[Exit][c] = v
       /\ \A x \in Ends, d \in Circs : ~(x = Exit /\ d = c) => w[x][d] = wire[x][d]
  BY <1>2, <1>10, <1>11 DEF WireTyped
<1>13. wire' = Dropped(w)
  BY <1>1, <1>7, <1>9, <1>11
<1>14. /\ WireTyped'
       /\ \A x \in Ends, d \in Circs :
               wire'[x][d] = IF circ'[x][d] = "open" THEN w[x][d] ELSE <<>>
  BY <1>12, <1>13, DroppedAt
<1>15. ASSUME NEW x \in Ends, NEW d \in Circs PROVE NoNewCells(x, d)
  <2>1. wire[x][d] \in Seq(Cells)
    BY <1>2 DEF WireTyped
  <2>2. Follows(wire[x][d], wire[x][d])
    BY <2>1, FollowsItself
  <2> QED BY <1>7, <1>10, <1>12, <1>14, <2>2 DEF NoNewCells
<1>16. ASSUME NEW d \in Circs, wire[Client][d] = <<>> PROVE wire'[Client][d] = <<>>
  BY <1>2, <1>12, <1>14, <1>16
<1>17. \A d \in Circs : NoNews(d)
  BY <1>2, <1>15, <1>16 DEF NoNews
<1> QED BY <1>6, <1>14, <1>17, QuietStep

(* ClientShutdown keeps the invariant.                                     *)
LEMMA ShutdownStep ==
  ASSUME IInv, ClientShutdown
  PROVE  IInv'
<1>1. /\ circ' = [circ EXCEPT ![Client] = [c \in Circs |-> "freed"]]
      /\ unlinked' = NoSet
      /\ linked' = [linked EXCEPT ![Client] = [NoObjects EXCEPT !.made = linked[Client].made]]
      /\ wire' = Dropped([wire EXCEPT ![Exit] = [c \in Circs |-> Append(@[c], "DESTROY")]])
  BY DEF ClientShutdown
<1>2. /\ StateSound /\ Typed /\ EndSound(Exit) /\ UnlinkedSound /\ WireTyped
      /\ linked[Client] \in Objects /\ linked \in [Ends -> Objects]
      /\ circ \in [Ends -> [Circs -> CircStates]]
      /\ Client \in Ends /\ Exit \in Ends /\ Client # Exit /\ Ends = {Client, Exit}
      /\ MaxLaunch \in Nat /\ Circs = 1 .. MaxLaunch
  BY TwoEnds, Sizes DEF IInv, StateSound, Typed
<1>3. PICK gone : gone = [c \in Circs |-> "freed"]
  OBVIOUS
<1>4. gone \in [Circs -> CircStates] /\ \A c \in Circs : gone[c] = "freed"
  BY <1>3 DEF CircStates
<1>5. PICK t : t = [NoObjects EXCEPT !.made = linked[Client].made]
  OBVIOUS
<1>6. /\ t \in Objects /\ t.made = linked[Client].made
      /\ t.pool = 0 /\ t.live = {}
      /\ \A k \in Ids : t.legs[k] = {}
      /\ \A c \in Circs : t.ptr[c] = 0
  BY <1>2, <1>5 DEF NoObjects, Objects
<1>7. Sound(t, gone)
  <2>1. t.made \in Nat /\ 0 \notin Ids
    BY <1>2, <1>6, Sizes DEF Objects
  <2> QED BY <1>6, <2>1 DEF Sound, LegsPointBack, PointersHaveReason, PoolHasLegs, MadeInOrder
<1>8. LivesWhilePointed(t, {})
  BY <1>6, Sizes DEF LivesWhilePointed
<1>9. /\ ~unlinked'.exists /\ unlinked'.legs = {} /\ unlinked'.linked = {}
      /\ unlinked' \in [exists : BOOLEAN, legs : SUBSET Circs, linked : SUBSET Circs, launches : 0 .. MaxLaunch]
  BY <1>1, <1>2 DEF NoSet
<1>10. /\ circ'[Client] = gone /\ circ'[Exit] = circ[Exit]
       /\ linked'[Client] = t /\ linked'[Exit] = linked[Exit]
       /\ circ' \in [Ends -> [Circs -> CircStates]] /\ linked' \in [Ends -> Objects]
  BY <1>1, <1>2, <1>3, <1>4, <1>5, <1>6
<1>11. EndSound(Client)' /\ EndSound(Exit)'
  BY <1>2, <1>7, <1>8, <1>9, <1>10 DEF EndSound, Held
<1>12. UnlinkedSound'
  BY <1>2, <1>4, <1>6, <1>9, <1>10 DEF UnlinkedSound
<1>13. LaunchesCounted'
  <2>1. MadeSoFar(MaxLaunch)'
    BY <1>2, <1>4, <1>9, <1>10 DEF MadeSoFar
  <2> QED BY <1>2, <2>1 DEF LaunchesCounted
<1>14. StateSound'
  BY <1>9, <1>10, <1>11, <1>12, <1>13 DEF StateSound, Typed
<1>15. Kept
  <2>1. ASSUME NEW d \in Circs PROVE ExitKept(d) /\ ClientKept(d)
    BY <1>4, <1>6, <1>9, <1>10 DEF ExitKept, ClientKept, LinkedByClient
  <2> QED BY <1>10, <2>1 DEF Kept
<1>16. "DESTROY" \in Cells
  BY DEF Cells
<1>17. PICK ends : ends = [c \in Circs |-> Append(wire[Exit][c], "DESTROY")]
  OBVIOUS
<1>18. ASSUME NEW d \in Circs
       PROVE  ends[d] \in Seq(Cells) /\ Follows(ends[d], wire[Exit][d])
  <2>1. PICK q \in Seq(Cells) : q = wire[Exit][d]
    BY <1>2 DEF WireTyped
  <2>2. Append(q, "DESTROY") \in Seq(Cells) /\ Follows(Append(q, "DESTROY"), q)
    BY <1>16, <2>1, AddedCell
  <2> QED BY <1>17, <2>1, <2>2
<1>19. PICK w : w = [wire EXCEPT ![Exit] = ends]
  OBVIOUS
<1>20. ends \in [Circs -> Seq(Cells)]
  BY <1>17, <1>18
<1>21. /\ w \in [Ends -> [Circs -> Seq(Cells)]] /\ w[Exit] = ends /\ w[Client] = wire[Client]
  BY <1>2, <1>19, <1>20 DEF WireTyped
<1>22. wire' = Dropped(w)
  BY <1>1, <1>17, <1>19
<1>23. /\ WireTyped'
       /\ \A x \in Ends, d \in Circs :
               wire'[x][d] = IF circ'[x][d] = "open" THEN w[x][d] ELSE <<>>
  BY <1>21, <1>22, DroppedAt
<1>24. ASSUME NEW d \in Circs PROVE NoNews(d)
  <2>1. wire'[Client][d] = <<>>
    BY <1>2, <1>4, <1>10, <1>23
  <2>2. NoNewCells(Exit, d)
    BY <1>2, <1>18, <1>21, <1>23 DEF NoNewCells
  <2> QED BY <2>1, <2>2 DEF NoNews, NoNewCells
<1> QED BY <1>14, <1>15, <1>23, <1>24, QuietStep

(* conflux_predict_new keeps the invariant.                                *)
LEMMA PredictStep ==
  ASSUME IInv, conflux_predict_new
  PROVE  IInv'
<1>1. /\ StateSound /\ Typed /\ EndSound(Client) /\ EndSound(Exit) /\ UnlinkedSound
      /\ WireTyped
      /\ linked[Client] \in Objects /\ linked \in [Ends -> Objects]
      /\ circ[Client] \in [Circs -> CircStates]
      /\ circ \in [Ends -> [Circs -> CircStates]]
      /\ Client \in Ends /\ Exit \in Ends /\ Client # Exit /\ Ends = {Client, Exit}
      /\ MaxLaunch \in Nat \ {0} /\ Circs = 1 .. MaxLaunch /\ 0 \notin Ids /\ 1 \in Ids
  BY TwoEnds, Sizes DEF IInv, StateSound, Typed
<1>2. /\ \A c \in Circs : circ[Client][c] = "none"
      /\ \E o \in launch_new_set :
          /\ circ' = [circ EXCEPT ![Client] = Building(circ[Client], NextCircs(o.legs))]
          /\ unlinked' = [exists |-> TRUE, legs |-> NextCircs(o.legs),
                          linked |-> {}, launches |-> o.launches]
      /\ linked' = [linked EXCEPT ![Client].live = {1}, ![Client].made = 1]
      /\ wire' = wire
  BY <1>1 DEF conflux_predict_new
<1>3. PICK o \in launch_new_set :
          /\ circ' = [circ EXCEPT ![Client] = Building(circ[Client], NextCircs(o.legs))]
          /\ unlinked' = [exists |-> TRUE, legs |-> NextCircs(o.legs),
                          linked |-> {}, launches |-> o.launches]
  BY <1>2
<1>4. o.legs \in 1 .. MaxLaunch /\ o.launches \in 0 .. MaxLaunch /\ o.legs <= o.launches
  BY <1>3, NewSetOutcome
<1>5. PICK n \in 1 .. MaxLaunch : n = o.legs
  BY <1>4
<1>6. MadeSoFar(0)
  <2>1. ~unlinked.exists
    BY <1>1, <1>2 DEF UnlinkedSound, Typed
  <2> QED BY <1>1, <1>2, <2>1 DEF MadeSoFar
<1>7. PICK new : new = NextCircs(n)
  OBVIOUS
<1>8. new = 1 .. n /\ new \subseteq Circs /\ new # {}
  <2>1. 0 \in 0 .. MaxLaunch /\ n \in Nat
    BY <1>1, <1>5
  <2>2. new = (0 + 1) .. (0 + n)
    BY <1>6, <1>7, <2>1, NextAreFresh
  <2> QED BY <1>1, <1>5, <2>2
<1>9. PICK now : now = Building(circ[Client], new)
  OBVIOUS
<1>10. /\ now \in [Circs -> CircStates]
       /\ \A d \in Circs : now[d] = IF d \in new THEN "building" ELSE "none"
  BY <1>1, <1>2, <1>9 DEF Building, CircStates
<1>11. /\ \A c \in Circs : linked[Client].ptr[c] = 0
       /\ \A k \in Ids : linked[Client].legs[k] = {}
       /\ linked[Client].pool = 0
  <2>1. linked[Client].ptr \in [Circs -> {0} \cup Ids] /\ linked[Client].pool \in {0} \cup Ids
        /\ linked[Client].legs \in [Ids -> SUBSET Circs]
    BY <1>1 DEF Objects
  <2>2. \A k \in Ids : linked[Client].legs[k] = {}
    BY <1>1, <1>2, <2>1 DEF EndSound, Sound, LegsPointBack
  <2>3. \A c \in Circs : linked[Client].ptr[c] = 0
    BY <1>1, <1>2, <2>1, <2>2 DEF EndSound, Sound, PointersHaveReason
  <2>4. linked[Client].pool = 0
    BY <1>1, <2>1, <2>2 DEF EndSound, Sound, PoolHasLegs
  <2> QED BY <2>2, <2>3, <2>4
<1>12. PICK s \in Objects : s = linked[Client]
  BY <1>1
<1>13. PICK t : t = [s EXCEPT !.live = {1}, !.made = 1]
  OBVIOUS
<1>14. /\ t \in Objects /\ t.legs = s.legs /\ t.ptr = s.ptr /\ t.pool = s.pool
       /\ t.live = {1} /\ t.made = 1
  <2>1. {1} \in SUBSET Ids /\ 1 \in 0 .. MaxLaunch
    BY <1>1
  <2> QED BY <1>12, <1>13, <2>1 DEF Objects
<1>15. Sound(t, now)
  BY <1>1, <1>11, <1>12, <1>14 DEF Sound, LegsPointBack, PointersHaveReason, PoolHasLegs, MadeInOrder
<1>16. LivesWhilePointed(t, {1})
  BY <1>1, <1>11, <1>12, <1>14 DEF LivesWhilePointed
<1>17. /\ circ'[Client] = now /\ circ'[Exit] = circ[Exit]
       /\ circ' \in [Ends -> [Circs -> CircStates]]
  BY <1>1, <1>3, <1>5, <1>7, <1>9, <1>10
<1>18. /\ linked'[Client] = t /\ linked'[Exit] = linked[Exit]
       /\ linked' \in [Ends -> Objects]
  <2>1. linked' = [linked EXCEPT ![Client] = t]
    BY <1>1, <1>2, <1>12, <1>13 DEF Objects
  <2> QED BY <1>1, <1>14, <2>1
<1>19. /\ unlinked'.exists /\ unlinked'.legs = new /\ unlinked'.linked = {}
       /\ unlinked'.launches = o.launches
       /\ unlinked' \in [exists : BOOLEAN, legs : SUBSET Circs,
                         linked : SUBSET Circs, launches : 0 .. MaxLaunch]
  BY <1>3, <1>4, <1>5, <1>7, <1>8
<1>20. EndSound(Client)' /\ EndSound(Exit)'
  BY <1>1, <1>15, <1>16, <1>17, <1>18, <1>19 DEF EndSound, Held
<1>21. UnlinkedSound'
  BY <1>1, <1>8, <1>10, <1>11, <1>12, <1>14, <1>17, <1>18, <1>19 DEF UnlinkedSound
<1>22. LaunchesCounted'
  <2>1. \A d \in Circs : d \in new <=> d <= n
    BY <1>1, <1>8
  <2>2. MadeSoFar(n)'
    BY <1>4, <1>5, <1>10, <1>17, <1>19, <2>1 DEF MadeSoFar
  <2>3. n \in 0 .. MaxLaunch
    BY <1>1, <1>5
  <2> QED BY <2>2, <2>3 DEF LaunchesCounted
<1>23. StateSound'
  BY <1>17, <1>18, <1>19, <1>20, <1>21, <1>22 DEF StateSound, Typed
<1>24. Kept
  <2>1. ASSUME NEW d \in Circs PROVE ExitKept(d) /\ ClientKept(d)
    <3>1. d \notin unlinked.legs
      BY <1>1, <1>2 DEF UnlinkedSound
    <3>2. now[d] # "open" /\ t.ptr[d] = 0
      BY <1>10, <1>11, <1>12, <1>14
    <3> QED BY <1>2, <1>17, <1>18, <1>19, <3>1, <3>2 DEF ExitKept, ClientKept, LinkedByClient
  <2> QED BY <1>18, <2>1 DEF Kept
<1>25. WireTyped' /\ \A c \in Circs : NoNews(c)
  <2>1. WireTyped'
    BY <1>1, <1>2 DEF WireTyped
  <2>2. ASSUME NEW e \in Ends, NEW c \in Circs PROVE wire'[e][c] = <<>> /\ wire[e][c] = <<>>
    <3>1. circ[e][c] # "open"
      BY <1>1, <1>2 DEF IInv, WireSound
    <3> QED BY <1>2, <3>1 DEF IInv, WireSound
  <2> QED BY <1>1, <2>1, <2>2 DEF NoNews, NoNewCells
<1> QED BY <1>23, <1>24, <1>25, QuietStep

(* A wire with one cell.                                                   *)
LEMMA OneCell ==
  ASSUME NEW x \in Cells
  PROVE  /\ <<x>> \in Seq(Cells) /\ Leads(<<x>>)
         /\ \A y : Occurs(y, <<x>>) <=> y = x
<1>1. PICK v : v = <<x>>
  OBVIOUS
<1>2. Len(v) = 1 /\ v[1] = x /\ v \in Seq(Cells)
  BY <1>1
<1>3. \A n \in 1 .. Len(v) : n = 1
  BY <1>2
<1>4. \A y : Occurs(y, v) <=> y = x
  <2>1. 1 \in 1 .. Len(v)
    BY <1>2
  <2> QED BY <1>2, <1>3, <2>1, Zenon DEF Occurs
<1>5. Leads(v)
  BY <1>3 DEF Leads
<1> QED BY <1>1, <1>2, <1>4, <1>5

(* conflux_circuit_has_opened keeps the invariant.                         *)
LEMMA OpenedStep ==
  ASSUME IInv, NEW c \in Circs, conflux_circuit_has_opened(c)
  PROVE  IInv'
<1>1. /\ StateSound /\ Typed /\ EndSound(Client) /\ EndSound(Exit) /\ UnlinkedSound
      /\ WireTyped /\ WireSound(c) /\ MadeByLinks /\ LaunchesCounted
      /\ linked[Client] \in Objects /\ linked[Exit] \in Objects
      /\ linked \in [Ends -> Objects]
      /\ circ[Client] \in [Circs -> CircStates] /\ circ[Exit] \in [Circs -> CircStates]
      /\ circ \in [Ends -> [Circs -> CircStates]]
      /\ Client \in Ends /\ Exit \in Ends /\ Client # Exit /\ Ends = {Client, Exit}
  BY TwoEnds DEF IInv, StateSound, Typed
<1>2. /\ circ[Client][c] = "building"
      /\ circ' = [circ EXCEPT ![Client][c] = "open", ![Exit][c] = "open"]
      /\ wire' = [wire EXCEPT ![Exit][c] = <<"LINK">>]
      /\ unlinked' = unlinked /\ linked' = linked
  BY DEF conflux_circuit_has_opened
<1>3. circ[Exit][c] = "none" /\ wire[Client][c] = <<>>
  BY <1>1, <1>2 DEF WireSound
<1>4. linked[Client].ptr[c] = 0 /\ linked[Exit].ptr[c] = 0
  <2>1. ASSUME NEW e \in Ends, circ[e][c] \in {"none", "building"} PROVE linked[e].ptr[c] = 0
    <3>1. linked[e] \in Objects /\ Sound(linked[e], circ[e])
      BY <1>1 DEF EndSound
    <3>2. linked[e].ptr[c] \in {0} \cup Ids
      BY <3>1 DEF Objects
    <3> QED BY <2>1, <3>1, <3>2 DEF Sound, LegsPointBack, PointersHaveReason
  <2> QED BY <1>1, <1>2, <1>3, <2>1
<1>5. /\ circ' \in [Ends -> [Circs -> CircStates]]
      /\ \A d \in Circs : circ'[Client][d] = IF d = c THEN "open" ELSE circ[Client][d]
      /\ \A d \in Circs : circ'[Exit][d] = IF d = c THEN "open" ELSE circ[Exit][d]
  BY <1>1, <1>2 DEF CircStates
<1>6. EndSound(Client)' /\ EndSound(Exit)'
  <2>1. Sound(linked[Client], circ'[Client])
    <3>1. \A d \in Circs : linked[Client].ptr[d] # 0 => circ'[Client][d] = circ[Client][d]
      BY <1>4, <1>5
    <3> QED BY <1>1, <3>1, OtherStates DEF EndSound
  <2>2. Sound(linked[Exit], circ'[Exit])
    <3>1. \A d \in Circs : linked[Exit].ptr[d] # 0 => circ'[Exit][d] = circ[Exit][d]
      BY <1>4, <1>5
    <3> QED BY <1>1, <3>1, OtherStates DEF EndSound
  <2> QED BY <1>1, <1>2, <2>1, <2>2 DEF EndSound, Held
<1>7. UnlinkedSound'
  <2>1. unlinked.legs \subseteq Circs /\ unlinked.linked \subseteq Circs
    BY <1>1 DEF Typed
  <2> QED BY <1>1, <1>2, <1>4, <1>5, <2>1 DEF UnlinkedSound
<1>8. LaunchesCounted'
  <2>1. PICK m \in 0 .. MaxLaunch : MadeSoFar(m)
    BY <1>1 DEF LaunchesCounted
  <2>2. ASSUME NEW d \in Circs
        PROVE  circ'[Client][d] # "none" <=> circ[Client][d] # "none"
    <3>1. CASE d = c
      <4>1. circ'[Client][d] = "open" /\ circ[Client][d] = "building"
        BY <1>2, <1>5, <3>1
      <4> QED BY <4>1
    <3>2. CASE d # c
      BY <1>5, <3>2
    <3> QED BY <3>1, <3>2
  <2>3. unlinked' = unlinked
    BY <1>2
  <2>4. MadeSoFar(m)'
    BY <2>1, <2>2, <2>3 DEF MadeSoFar
  <2> QED BY <2>4 DEF LaunchesCounted
<1>9. StateSound'
  BY <1>1, <1>2, <1>5, <1>6, <1>7, <1>8 DEF StateSound, Typed
<1>10. /\ "LINK" \in Cells /\ "LINKED" \in Cells
       /\ <<"LINK">> \in Seq(Cells) /\ Leads(<<"LINK">>)
       /\ \A y : Occurs(y, <<"LINK">>) <=> y = "LINK"
  <2>1. "LINK" \in Cells /\ "LINKED" \in Cells
    BY DEF Cells
  <2> QED BY <2>1, OneCell
<1>11. PICK q \in Seq(Cells) : q = <<"LINK">>
  BY <1>10
<1>12. /\ WireTyped' /\ wire'[Exit][c] = q
       /\ \A e \in Ends, d \in Circs : ~(e = Exit /\ d = c) => wire'[e][d] = wire[e][d]
  BY <1>1, <1>2, <1>11 DEF WireTyped
<1>13. ASSUME NEW d \in Circs, d # c PROVE WireSound(d)'
  <2>1. ExitKept(d) /\ ClientKept(d)
    BY <1>2, <1>5, <1>13 DEF ExitKept, ClientKept, LinkedByClient
  <2>2. ASSUME NEW e \in Ends PROVE NoNewCells(e, d) /\ wire'[e][d] = wire[e][d]
    <3>1. wire[e][d] \in Seq(Cells)
      BY <1>1 DEF WireTyped
    <3>2. Follows(wire[e][d], wire[e][d])
      BY <3>1, FollowsItself
    <3>3. wire'[e][d] = wire[e][d] /\ circ'[e][d] = circ[e][d]
      BY <1>1, <1>5, <1>12, <1>13
    <3>4. WireSound(d)
      BY DEF IInv
    <3>5. circ[e][d] # "open" => wire[e][d] = <<>>
      BY <3>4 DEF WireSound
    <3> QED BY <3>2, <3>3, <3>5 DEF NoNewCells
  <2>3. NoNews(d)
    BY <1>1, <2>2 DEF NoNews
  <2>4. WireSound(d)
    BY DEF IInv
  <2> QED BY <2>1, <2>3, <2>4, WireKept
<1>14. WireSound(c)'
  <2>1. wire'[Client][c] = <<>> /\ circ'[Client][c] = "open" /\ circ'[Exit][c] = "open"
    BY <1>1, <1>3, <1>5, <1>12
  <2>2. \A x : ~Occurs(x, wire'[Client][c])
    BY <2>1, NothingOccurs
  <2>3. Leads(wire'[Client][c]) /\ Leads(wire'[Exit][c])
    BY <1>10, <1>11, <1>12, <2>1, NothingOccurs
  <2>4. ~Occurs("LINKED_ACK", wire'[Exit][c])
    BY <1>10, <1>11, <1>12
  <2>5. ~LinkedByClient(c)'
    BY <1>1, <1>2, <1>4 DEF LinkedByClient, UnlinkedSound
  <2> QED BY <1>1, <1>2, <1>4, <2>1, <2>2, <2>3, <2>4, <2>5 DEF WireSound
<1>15. MadeByLinks'
  <2>1. Linking \subseteq Linking'
    <3> SUFFICES ASSUME NEW d \in Circs, circ[Exit][d] # "none", ~Occurs("LINK", wire[Exit][d])
                 PROVE  circ'[Exit][d] # "none" /\ ~Occurs("LINK", wire'[Exit][d])
      BY DEF Linking
    <3>1. d # c
      BY <1>3
    <3> QED BY <1>1, <1>5, <1>12, <3>1
  <2> QED BY <1>1, <1>2, <2>1, LinkingGrows, MadeNat
<1> QED BY <1>9, <1>12, <1>13, <1>14, <1>15 DEF IInv

(* A cell is taken and answered: the wires of the other circuits.          *)
LEMMA TakenElsewhere ==
  ASSUME IInv, NEW e \in Ends, NEW c \in Circs, NEW cell, Arrives(e, c, cell),
         NEW reply \in Seq(Cells), wire' = Taken(e, c, reply),
         NEW d \in Circs, d # c
  PROVE  NoNews(d)
<1>1. wire[e][c] # <<>> /\ WireTyped
  BY DEF Arrives, IInv
<1>2. \A x \in Ends : wire'[x][d] = IF circ'[x][d] = "open" THEN wire[x][d] ELSE <<>>
  BY <1>1, TakenAt
<1>3. ASSUME NEW x \in Ends PROVE NoNewCells(x, d)
  <2>1. wire[x][d] \in Seq(Cells)
    BY <1>1 DEF WireTyped
  <2>2. Follows(wire[x][d], wire[x][d])
    BY <2>1, FollowsItself
  <2> QED BY <1>2, <2>2 DEF NoNewCells
<1> QED BY <1>2, <1>3, TwoEnds DEF NoNews

(* conflux_process_link keeps the invariant: the exit has an object left   *)
(* for the leg, because each leg makes at most one.                        *)
LEMMA LinkStep ==
  ASSUME IInv, NEW c \in Circs, conflux_process_link(c)
  PROVE  IInv'
<1>1. /\ StateSound /\ Typed /\ EndSound(Client) /\ EndSound(Exit) /\ UnlinkedSound
      /\ WireTyped /\ WireSound(c) /\ MadeByLinks /\ LaunchesCounted
      /\ linked[Exit] \in Objects /\ linked \in [Ends -> Objects]
      /\ circ[Client] \in [Circs -> CircStates] /\ circ[Exit] \in [Circs -> CircStates]
      /\ Client \in Ends /\ Exit \in Ends /\ Client # Exit /\ Ends = {Client, Exit}
      /\ Other(Exit) = Client
      /\ wire[Exit][c] \in Seq(Cells) /\ wire[Client][c] \in Seq(Cells)
  BY TwoEnds DEF IInv, StateSound, Typed, WireTyped
<1>2. /\ Arrives(Exit, c, "LINK") /\ circ[Exit][c] = "open"
      /\ wire[Exit][c] # <<>> /\ Head(wire[Exit][c]) = "LINK"
  BY DEF conflux_process_link, Arrives
<1>3. CASE conflux_circuit_has_closed(Exit, c) /\ wire' = Taken(Exit, c, <<>>)
  <2>1. StateSound' /\ Kept
    BY <1>1, <1>2, <1>3, Closing
  <2>2. WireTyped' /\ \A d \in Circs : NoNews(d)
    BY <1>1, <1>2, <1>3, TakenQuiet
  <2> QED BY <2>1, <2>2, QuietStep
<1>4. CASE /\ linked[Exit].ptr[c] = 0
           /\ linked' = [linked EXCEPT ![Exit] = LegLinked(linked[Exit], c)]
           /\ UNCHANGED <<circ, unlinked>>
           /\ wire' = Taken(Exit, c, <<"LINKED">>)
  <2>1. /\ Follows(Tail(wire[Exit][c]), wire[Exit][c])
        /\ Occurs("LINK", wire[Exit][c])
        /\ Leads(Tail(wire[Exit][c]))
        /\ ~Occurs("LINK", Tail(wire[Exit][c]))
    BY <1>1, <1>2, FollowsTail DEF WireSound, Follows
  <2>2. wire[Client][c] = <<>>
    BY <1>1, <2>1 DEF WireSound
  <2>3. PICK S \in SUBSET Circs : S = Linking
    BY DEF Linking
  <2>4. c \notin S
    BY <2>1, <2>3 DEF Linking
  <2>5. /\ Cardinality(S) \in Nat /\ Cardinality(S) + 1 <= MaxLaunch /\ MaxLaunch \in Nat
        /\ IsFiniteSet(S \cup {c}) /\ Cardinality(S \cup {c}) = Cardinality(S) + 1
    <3>1. MaxLaunch \in Nat
      BY Sizes
    <3>2. PICK T \in SUBSET Circs : T = S \cup {c}
      OBVIOUS
    <3>3. IsFiniteSet(T) /\ Cardinality(T) \in 0 .. MaxLaunch /\ Cardinality(S) \in 0 .. MaxLaunch
      BY LinkingFinite
    <3>4. Cardinality(S \cup {c}) = Cardinality(S) + 1
      BY <2>4, LinkingFinite
    <3> QED BY <3>1, <3>2, <3>3, <3>4
  <2>6. PICK s \in Objects : s = linked[Exit]
    BY <1>1
  <2>7. PICK states \in [Circs -> CircStates] : states = circ[Exit]
    BY <1>1
  <2>8. PICK held : held = Held(Exit)
    OBVIOUS
  <2>9. s.made \in Nat /\ s.made <= Cardinality(S)
    BY <1>1, <2>3, <2>6, MadeNat DEF MadeByLinks
  <2>10. s.pool = 0 => s.made + 1 \in Ids
    <3>1. s.made + 1 \in 1 .. MaxLaunch
      BY <2>5, <2>9
    <3> QED BY <3>1, Sizes
  <2>11. Sound(s, states) /\ LivesWhilePointed(s, held) /\ states[c] = "open" /\ s.ptr[c] = 0
    BY <1>1, <1>2, <1>4, <2>6, <2>7, <2>8 DEF EndSound
  <2>12. PICK t : t = LegLinked(s, c)
    OBVIOUS
  <2>13. /\ t \in Objects /\ Sound(t, states) /\ LivesWhilePointed(t, held)
         /\ \A d \in Circs \ {c} : t.ptr[d] = s.ptr[d]
         /\ t.ptr[c] # 0 /\ t.made <= s.made + 1
    <3>1. /\ LegLinked(s, c) \in Objects
          /\ Sound(LegLinked(s, c), states)
          /\ LivesWhilePointed(LegLinked(s, c), held)
          /\ \A d \in Circs \ {c} : LegLinked(s, c).ptr[d] = s.ptr[d]
          /\ LegLinked(s, c).ptr[c] # 0
          /\ LegLinked(s, c).made <= s.made + 1
      BY <2>10, <2>11, LinkSound
    <3> QED BY <2>12, <3>1
  <2>14. /\ linked'[Exit] = t /\ linked'[Client] = linked[Client]
         /\ linked' \in [Ends -> Objects] /\ circ' = circ /\ unlinked' = unlinked
    BY <1>1, <1>4, <2>6, <2>12, <2>13
  <2>15. StateSound'
    <3>1. EndSound(Client)' /\ EndSound(Exit)'
      BY <1>1, <2>7, <2>8, <2>13, <2>14 DEF EndSound, Held
    <3>2. Typed' /\ UnlinkedSound'
      BY <1>1, <2>14 DEF Typed, UnlinkedSound
    <3>3. LaunchesCounted'
      BY <1>1, <2>14 DEF LaunchesCounted, MadeSoFar
    <3> QED BY <3>1, <3>2, <3>3 DEF StateSound
  <2>16. PICK reply \in Seq(Cells) : /\ reply = <<"LINKED">> /\ Leads(reply)
                                     /\ \A y : Occurs(y, reply) <=> y = "LINKED"
    <3>1. "LINKED" \in Cells
      BY DEF Cells
    <3> QED BY <3>1, OneCell
  <2>17. wire' = Taken(Exit, c, reply)
    BY <1>4, <2>16
  <2>18. /\ WireTyped'
         /\ wire'[Exit][c] = Tail(wire[Exit][c])
         /\ wire'[Client][c] = IF circ[Client][c] = "open" THEN reply ELSE <<>>
    <3>1. /\ WireTyped'
          /\ wire'[Exit][c] = IF circ'[Exit][c] = "open" THEN Tail(wire[Exit][c]) ELSE <<>>
          /\ wire'[Other(Exit)][c] =
               IF circ'[Other(Exit)][c] = "open" THEN wire[Other(Exit)][c] \o reply ELSE <<>>
      BY <1>1, <1>2, <2>17, TakenAt
    <3>2. <<>> \o reply = reply
      OBVIOUS
    <3> QED BY <1>1, <1>2, <2>2, <2>14, <3>1, <3>2
  <2>19. ASSUME NEW d \in Circs, d # c PROVE WireSound(d)' /\ NoNewCells(Exit, d)
    <3>1. ExitKept(d) /\ ClientKept(d)
      BY <2>6, <2>13, <2>14, <2>19 DEF ExitKept, ClientKept, LinkedByClient
    <3>2. NoNews(d)
      BY <1>1, <1>2, <2>17, <2>19, TakenElsewhere
    <3>3. WireSound(d)
      BY DEF IInv
    <3> QED BY <3>1, <3>2, <3>3, WireKept DEF NoNews
  <2>20. WireSound(c)'
    <3>1. circ[Client][c] = "open" => c \in unlinked.legs \ unlinked.linked
      <4>1. ~LinkedByClient(c)
        BY <1>1, <1>2, <1>4 DEF WireSound, LinkedByExit
      <4> QED BY <1>1, <4>1 DEF UnlinkedSound, LinkedByClient
    <3>2. LinkedByExit(c)'
      BY <2>13, <2>14 DEF LinkedByExit
    <3>3. /\ Leads(wire'[Client][c]) /\ Leads(wire'[Exit][c])
          /\ ~Occurs("LINK", wire'[Exit][c])
          /\ Occurs("LINKED", wire'[Client][c]) => circ[Client][c] = "open"
      BY <2>1, <2>16, <2>18, NothingOccurs
    <3>4. ASSUME NEW e \in Ends, circ'[e][c] # "open" PROVE wire'[e][c] = <<>>
      BY <1>1, <1>2, <2>14, <2>18, <3>4
    <3>5. circ'[Client][c] \in {"none", "building"} => circ'[Exit][c] = "none"
      BY <1>1, <2>14 DEF WireSound
    <3>6. linked'[Exit].ptr[c] # 0
      BY <2>13, <2>14
    <3> QED BY <2>14, <3>1, <3>2, <3>3, <3>4, <3>5, <3>6 DEF WireSound
  <2>21. MadeByLinks'
    <3>1. PICK T \in SUBSET Circs : T = Linking'
      BY DEF Linking
    <3>2. S \cup {c} \subseteq T
      <4> SUFFICES ASSUME NEW d \in S \cup {c} PROVE d \in T
        OBVIOUS
      <4>1. d \in Circs /\ circ'[Exit][d] # "none"
        BY <1>2, <2>3, <2>14 DEF Linking
      <4>2. ~Occurs("LINK", wire'[Exit][d])
        <5>1. CASE d = c
          BY <2>1, <2>18, <5>1
        <5>2. CASE d # c
          <6>1. ~Occurs("LINK", wire[Exit][d]) /\ NoNewCells(Exit, d)
            BY <2>3, <2>19, <4>1, <5>2 DEF Linking
          <6>2. "LINK" \in Cells /\ "LINK" \notin {"BEGIN", "DESTROY"}
            BY DEF Cells
          <6> QED BY <6>1, <6>2, NothingOccurs DEF NoNewCells, Follows
        <5> QED BY <5>1, <5>2
      <4> QED BY <3>1, <4>1, <4>2 DEF Linking
    <3>3. IsFiniteSet(T) /\ Cardinality(T) \in Nat
      BY LinkingFinite, Sizes
    <3>4. Cardinality(S \cup {c}) <= Cardinality(T)
      BY <3>2, <3>3, FS_Subset
    <3>5. t.made \in Nat
      BY <2>13, Sizes DEF Objects
    <3>6. t.made <= Cardinality(T)
      BY <2>5, <2>9, <2>13, <3>3, <3>4, <3>5
    <3> QED BY <2>14, <3>1, <3>6 DEF MadeByLinks
  <2> QED BY <2>15, <2>18, <2>19, <2>20, <2>21 DEF IInv
<1> QED BY <1>3, <1>4 DEF conflux_process_link

(* conflux_process_linked keeps the invariant: the answer finds its leg in *)
(* the unlinked set, whether or not it completes the set.                  *)
LEMMA LinkedStep ==
  ASSUME IInv, NEW c \in Circs, conflux_process_linked(c)
  PROVE  IInv'
<1>1. /\ StateSound /\ Typed /\ EndSound(Client) /\ EndSound(Exit) /\ UnlinkedSound
      /\ WireTyped /\ WireSound(c) /\ MadeByLinks /\ LaunchesCounted
      /\ linked[Client] \in Objects /\ linked \in [Ends -> Objects]
      /\ circ[Client] \in [Circs -> CircStates] /\ circ[Exit] \in [Circs -> CircStates]
      /\ Client \in Ends /\ Exit \in Ends /\ Client # Exit /\ Ends = {Client, Exit}
      /\ Other(Client) = Exit
      /\ wire[Exit][c] \in Seq(Cells) /\ wire[Client][c] \in Seq(Cells)
      /\ unlinked \in [exists : BOOLEAN, legs : SUBSET Circs,
                       linked : SUBSET Circs, launches : 0 .. MaxLaunch]
  BY TwoEnds DEF IInv, StateSound, Typed, WireTyped
<1>2. /\ Arrives(Client, c, "LINKED") /\ circ[Client][c] = "open"
      /\ wire[Client][c] # <<>> /\ Head(wire[Client][c]) = "LINKED"
  BY DEF conflux_process_linked, Arrives
<1>3. CASE conflux_circuit_has_closed(Client, c) /\ wire' = Taken(Client, c, <<>>)
  <2>1. StateSound' /\ Kept
    BY <1>1, <1>2, <1>3, Closing
  <2>2. WireTyped' /\ \A d \in Circs : NoNews(d)
    BY <1>1, <1>2, <1>3, TakenQuiet
  <2> QED BY <2>1, <2>2, QuietStep
<1>4. CASE /\ c \in unlinked.legs
           /\ try_finalize_set([unlinked EXCEPT !.linked = @ \cup {c}])
           /\ UNCHANGED circ
           /\ wire' = Taken(Client, c, <<"LINKED_ACK">>)
  <2>1. /\ Occurs("LINKED", wire[Client][c]) /\ Leads(Tail(wire[Client][c]))
        /\ ~Occurs("LINKED", Tail(wire[Client][c]))
    BY <1>1, <1>2, FollowsTail DEF WireSound, Follows
  <2>2. /\ c \in unlinked.legs \ unlinked.linked /\ LinkedByExit(c)
        /\ ~Occurs("LINK", wire[Exit][c])
    BY <1>1, <1>2, <2>1 DEF WireSound
  <2>3. /\ unlinked.exists = TRUE /\ linked[Client].made = 1
        /\ \A d \in Circs : linked[Client].ptr[d] = 0
    BY <1>1, <2>2 DEF UnlinkedSound
  <2>4. PICK set : set = [unlinked EXCEPT !.linked = @ \cup {c}]
    OBVIOUS
  <2>5. /\ set.exists = TRUE /\ set.legs = unlinked.legs /\ set.linked = unlinked.linked \cup {c}
        /\ set.launches = unlinked.launches
        /\ set \in [exists : BOOLEAN, legs : SUBSET Circs,
                    linked : SUBSET Circs, launches : 0 .. MaxLaunch]
    <3>1. PICK l : l = unlinked.linked \cup {c}
      OBVIOUS
    <3>2. l \in SUBSET Circs
      BY <1>1, <3>1
    <3>3. set = [unlinked EXCEPT !.linked = l]
      BY <1>1, <2>4, <3>1
    <3> QED BY <1>1, <2>3, <3>1, <3>2, <3>3
  <2>6. circ' = circ
    BY <1>4
  <2>7. \/ /\ set.linked = set.legs /\ unlinked' = NoSet
           /\ linked' = [linked EXCEPT ![Client] = Finalized(linked[Client], set.legs)]
        \/ unlinked' = set /\ linked' = linked
    BY <1>4, <2>4 DEF try_finalize_set
  <2>8. /\ StateSound' /\ linked'[Exit] = linked[Exit]
        /\ \A d \in Circs \ {c} : ClientKept(d)
    <3>1. CASE unlinked' = set /\ linked' = linked
      <4>1. EndSound(Client)' /\ EndSound(Exit)'
        BY <1>1, <2>3, <2>5, <2>6, <3>1 DEF EndSound, Held
      <4>2. UnlinkedSound'
        BY <1>1, <1>2, <2>2, <2>3, <2>5, <2>6, <3>1 DEF UnlinkedSound
      <4>3. LaunchesCounted'
        BY <1>1, <2>3, <2>5, <2>6, <3>1 DEF LaunchesCounted, MadeSoFar
      <4>4. Typed'
        BY <1>1, <2>5, <2>6, <3>1 DEF Typed
      <4>5. \A d \in Circs \ {c} : ClientKept(d)
        BY <2>5, <2>6, <3>1 DEF ClientKept, LinkedByClient
      <4> QED BY <3>1, <4>1, <4>2, <4>3, <4>4, <4>5 DEF StateSound
    <3>2. CASE /\ set.linked = set.legs /\ unlinked' = NoSet
               /\ linked' = [linked EXCEPT ![Client] = Finalized(linked[Client], set.legs)]
      <4>1. PICK s \in Objects : s = linked[Client]
        BY <1>1
      <4>2. PICK states \in [Circs -> CircStates] : states = circ[Client]
        BY <1>1
      <4>3. PICK legs \in SUBSET Circs : legs = set.legs
        BY <2>5
      <4>4. /\ Sound(s, states) /\ s.made = 1 /\ \A d \in Circs : s.ptr[d] = 0
            /\ legs # {} /\ LivesWhilePointed(s, {1})
        BY <1>1, <2>2, <2>3, <2>5, <4>1, <4>2, <4>3 DEF EndSound, Held
      <4>5. legs = unlinked.linked \cup {c} /\ legs = unlinked.legs
        BY <2>5, <3>2, <4>3
      <4>6. \A d \in legs : states[d] = "open"
        BY <1>1, <1>2, <4>2, <4>5 DEF UnlinkedSound
      <4>7. PICK t : t = Finalized(s, legs)
        OBVIOUS
      <4>8. /\ t \in Objects /\ Sound(t, states) /\ LivesWhilePointed(t, {}) /\ t.made = 1
            /\ \A d \in Circs : t.ptr[d] = IF d \in legs THEN 1 ELSE 0
        <5>1. /\ Finalized(s, legs) \in Objects
              /\ Sound(Finalized(s, legs), states)
              /\ LivesWhilePointed(Finalized(s, legs), {})
              /\ Finalized(s, legs).made = 1
              /\ \A d \in Circs : Finalized(s, legs).ptr[d] = IF d \in legs THEN 1 ELSE 0
          BY <4>4, <4>6, FinalizedSound
        <5> QED BY <4>7, <5>1
      <4>9. /\ linked'[Client] = t /\ linked'[Exit] = linked[Exit] /\ linked' \in [Ends -> Objects]
        BY <1>1, <3>2, <4>1, <4>3, <4>7, <4>8
      <4>10. /\ unlinked'.exists = FALSE /\ unlinked'.legs = {} /\ unlinked'.linked = {}
             /\ unlinked' \in [exists : BOOLEAN, legs : SUBSET Circs,
                               linked : SUBSET Circs, launches : 0 .. MaxLaunch]
        BY <3>2, Sizes DEF NoSet
      <4>11. EndSound(Client)' /\ EndSound(Exit)'
        BY <1>1, <2>6, <4>2, <4>8, <4>9, <4>10 DEF EndSound, Held
      <4>12. UnlinkedSound'
        <5>1. \A d \in Circs : circ[Client][d] \in {"building", "open"} => t.ptr[d] # 0
          BY <1>1, <2>3, <4>5, <4>8 DEF UnlinkedSound
        <5> QED BY <2>6, <4>8, <4>9, <4>10, <5>1 DEF UnlinkedSound
      <4>13. LaunchesCounted'
        BY <1>1, <2>6, <4>10 DEF LaunchesCounted, MadeSoFar
      <4>14. ASSUME NEW d \in Circs, d # c PROVE ClientKept(d)
        <5>1. LinkedByClient(d)' => LinkedByClient(d)
          BY <4>5, <4>8, <4>9, <4>10, <4>14 DEF LinkedByClient
        <5>2. d \notin unlinked.legs \ unlinked.linked
          BY <4>5, <4>14
        <5> QED BY <2>6, <5>1, <5>2 DEF ClientKept
      <4> QED BY <2>6, <1>1, <4>9, <4>10, <4>11, <4>12, <4>13, <4>14 DEF StateSound, Typed
    <3> QED BY <2>7, <3>1, <3>2
  <2>9. PICK reply \in Seq(Cells) : /\ reply = <<"LINKED_ACK">>
                                    /\ \A y : Occurs(y, reply) <=> y = "LINKED_ACK"
    <3>1. "LINKED_ACK" \in Cells
      BY DEF Cells
    <3> QED BY <3>1, OneCell
  <2>10. wire' = Taken(Client, c, reply)
    BY <1>4, <2>9
  <2>11. PICK q \in Seq(Cells) : q = wire[Exit][c]
    BY <1>1
  <2>12. PICK v : v = Append(q, "LINKED_ACK")
    OBVIOUS
  <2>13. /\ v = q \o reply /\ v \in Seq(Cells)
         /\ \A y : Occurs(y, v) <=> Occurs(y, q) \/ y = "LINKED_ACK"
         /\ Leads(q) => Leads(v)
    <3>1. "LINKED_ACK" \in Cells /\ "LINKED_ACK" \notin {"LINK", "LINKED"}
      BY DEF Cells
    <3> QED BY <2>9, <2>11, <2>12, <3>1, AddedCell
  <2>14. /\ WireTyped'
         /\ wire'[Client][c] = Tail(wire[Client][c])
         /\ wire'[Exit][c] = IF circ[Exit][c] = "open" THEN v ELSE <<>>
    <3>1. /\ WireTyped'
          /\ wire'[Client][c] = IF circ'[Client][c] = "open" THEN Tail(wire[Client][c]) ELSE <<>>
          /\ wire'[Other(Client)][c] =
               IF circ'[Other(Client)][c] = "open" THEN wire[Other(Client)][c] \o reply ELSE <<>>
      BY <1>1, <1>2, <2>10, TakenAt
    <3> QED BY <1>1, <1>2, <2>6, <2>11, <2>13, <3>1
  <2>15. ASSUME NEW d \in Circs, d # c PROVE WireSound(d)' /\ NoNewCells(Exit, d)
    <3>1. ExitKept(d) /\ ClientKept(d)
      BY <2>6, <2>8, <2>15 DEF ExitKept
    <3>2. NoNews(d)
      BY <1>1, <1>2, <2>10, <2>15, TakenElsewhere
    <3>3. WireSound(d)
      BY DEF IInv
    <3> QED BY <3>1, <3>2, <3>3, WireKept DEF NoNews
  <2>16. ~Occurs("LINK", wire'[Exit][c])
    BY <2>2, <2>11, <2>13, <2>14, NothingOccurs
  <2>17. WireSound(c)'
    <3>1. Leads(wire'[Client][c]) /\ Leads(wire'[Exit][c])
      BY <1>1, <2>1, <2>11, <2>13, <2>14, NothingOccurs DEF WireSound
    <3>2. ~Occurs("LINKED", wire'[Client][c])
      BY <2>1, <2>14
    <3>3. LinkedByExit(c)'
      BY <2>2, <2>6, <2>8 DEF LinkedByExit
    <3>4. Occurs("LINKED_ACK", wire'[Exit][c]) => linked'[Exit].ptr[c] # 0
      <4>1. Occurs("LINKED_ACK", wire'[Exit][c]) => circ[Exit][c] = "open"
        BY <2>14, NothingOccurs
      <4> QED BY <2>2, <2>8, <4>1 DEF LinkedByExit
    <3>5. ASSUME NEW e \in Ends, circ'[e][c] # "open" PROVE wire'[e][c] = <<>>
      BY <1>1, <1>2, <2>6, <2>14, <3>5
    <3>6. circ'[Client][c] \in {"none", "building"} => circ'[Exit][c] = "none"
      BY <1>1, <2>6 DEF WireSound
    <3> QED BY <2>16, <3>1, <3>2, <3>3, <3>4, <3>5, <3>6 DEF WireSound
  <2>18. MadeByLinks'
    <3>1. Linking \subseteq Linking'
      <4> SUFFICES ASSUME NEW d \in Circs, circ[Exit][d] # "none", ~Occurs("LINK", wire[Exit][d])
                   PROVE  circ'[Exit][d] # "none" /\ ~Occurs("LINK", wire'[Exit][d])
        BY DEF Linking
      <4>1. CASE d = c
        BY <2>6, <2>16, <4>1
      <4>2. CASE d # c
        <5>1. NoNewCells(Exit, d)
          BY <2>15, <4>2
        <5>2. "LINK" \in Cells /\ "LINK" \notin {"BEGIN", "DESTROY"}
          BY DEF Cells
        <5> QED BY <2>6, <5>1, <5>2, NothingOccurs DEF NoNewCells, Follows
      <4> QED BY <4>1, <4>2
    <3> QED BY <1>1, <2>8, <3>1, LinkingGrows, MadeNat
  <2> QED BY <2>8, <2>14, <2>15, <2>17, <2>18 DEF IInv
<1> QED BY <1>3, <1>4 DEF conflux_process_linked

-----------------------------------------------------------------------------
(* All steps together.                                                     *)

(* The initial states satisfy the invariant.                               *)
LEMMA InitInv ==
  ASSUME Init
  PROVE  IInv
<1>1. /\ circ = [e \in Ends |-> [c \in Circs |-> "none"]]
      /\ unlinked = NoSet
      /\ linked = [e \in Ends |-> NoObjects]
      /\ wire = [e \in Ends |-> [c \in Circs |-> <<>>]]
  BY DEF Init
<1>2. /\ Ends = {Client, Exit} /\ Client # Exit
      /\ MaxLaunch \in Nat \ {0} /\ Circs = 1 .. MaxLaunch /\ 0 \notin Ids /\ 1 \in Ids
  BY TwoEnds, Sizes
<1>3. PICK s : s = NoObjects
  OBVIOUS
<1>4. /\ s \in Objects /\ s.pool = 0 /\ s.live = {} /\ s.made = 0
      /\ \A k \in Ids : s.legs[k] = {}
      /\ \A c \in Circs : s.ptr[c] = 0
  BY <1>2, <1>3 DEF NoObjects, Objects
<1>5. /\ \A e \in Ends : linked[e] = s
      /\ \A e \in Ends, c \in Circs : circ[e][c] = "none" /\ wire[e][c] = <<>>
      /\ linked \in [Ends -> Objects]
      /\ circ \in [Ends -> [Circs -> CircStates]]
      /\ WireTyped
  BY <1>1, <1>3, <1>4, NothingOccurs DEF CircStates, WireTyped
<1>6. /\ unlinked.exists = FALSE /\ unlinked.legs = {} /\ unlinked.linked = {}
      /\ unlinked \in [exists : BOOLEAN, legs : SUBSET Circs,
                       linked : SUBSET Circs, launches : 0 .. MaxLaunch]
  BY <1>1, <1>2 DEF NoSet
<1>7. \A states : Sound(s, states)
  BY <1>2, <1>4 DEF Sound, LegsPointBack, PointersHaveReason, PoolHasLegs, MadeInOrder
<1>8. LivesWhilePointed(s, {})
  BY <1>2, <1>4 DEF LivesWhilePointed
<1>9. EndSound(Client) /\ EndSound(Exit)
  BY <1>2, <1>5, <1>6, <1>7, <1>8 DEF EndSound, Held
<1>10. UnlinkedSound
  BY <1>2, <1>4, <1>5, <1>6 DEF UnlinkedSound
<1>11. LaunchesCounted
  <2>1. MadeSoFar(0)
    BY <1>2, <1>5, <1>6 DEF MadeSoFar
  <2> QED BY <1>2, <2>1 DEF LaunchesCounted
<1>12. ASSUME NEW c \in Circs PROVE WireSound(c)
  BY <1>2, <1>4, <1>5, <1>6, NothingOccurs DEF WireSound, LinkedByClient
<1>13. MadeByLinks
  <2>1. PICK S \in SUBSET Circs : S = Linking
    BY DEF Linking
  <2>2. Cardinality(S) \in 0 .. MaxLaunch
    BY LinkingFinite
  <2> QED BY <1>2, <1>4, <1>5, <2>1, <2>2 DEF MadeByLinks
<1> QED BY <1>5, <1>6, <1>9, <1>10, <1>11, <1>12, <1>13 DEF IInv, StateSound, Typed

(* Every step keeps the invariant.                                         *)
LEMMA NextInv ==
  ASSUME IInv, [Next]_vars
  PROVE  IInv'
<1>1. CASE UNCHANGED vars
  <2>1. StateSound' /\ Kept
    BY <1>1, SameState DEF IInv, vars
  <2>2. WireTyped' /\ \A c \in Circs : WireSound(c)'
    BY <1>1 DEF IInv, vars, WireTyped, WireSound, LinkedByExit, LinkedByClient
  <2>3. MadeByLinks'
    BY <1>1 DEF IInv, vars, MadeByLinks, Linking
  <2> QED BY <2>1, <2>2, <2>3 DEF IInv
<1>2. CASE conflux_predict_new
  BY <1>2, PredictStep
<1>3. CASE ClientShutdown
  BY <1>3, ShutdownStep
<1>4. ASSUME NEW c \in Circs, conflux_circuit_has_opened(c) PROVE IInv'
  BY <1>4, OpenedStep
<1>5. ASSUME NEW c \in Circs, conflux_get_circ_for_conn(c) PROVE IInv'
  BY <1>5, AttachStep
<1>6. ASSUME NEW e \in Ends, NEW c \in Circs, CellArrives(e, c) PROVE IInv'
  <2>1. CASE conflux_process_link(c)
    BY <2>1, LinkStep
  <2>2. CASE conflux_process_linked(c)
    BY <2>2, LinkedStep
  <2>3. CASE conflux_process_linked_ack(c)
    BY <2>3, LinkedAckStep
  <2>4. CASE connection_exit_begin_conn(c)
    BY <2>4, BeginStep
  <2>5. CASE command_process_destroy_cell(e, c)
    BY <2>5, DestroyStep
  <2> QED BY <1>6, <2>1, <2>2, <2>3, <2>4, <2>5 DEF CellArrives
<1>7. ASSUME NEW e \in Ends, NEW c \in Circs, CloseCircuit(e, c) PROVE IInv'
  BY <1>7, CloseStep
<1>8. ASSUME NEW e \in Ends, NEW c \in Circs, circuit_about_to_free(e, c) PROVE IInv'
  BY <1>8, FreeStep
<1> QED BY <1>1, <1>2, <1>3, <1>4, <1>5, <1>6, <1>7, <1>8 DEF Next

(* The invariant implies ObjectsOwned.                                     *)
LEMMA InvObjectsOwned ==
  ASSUME IInv
  PROVE  ObjectsOwned
<1>1. /\ Ends = {Client, Exit} /\ Client # Exit /\ 0 \notin Ids
      /\ EndSound(Client) /\ EndSound(Exit)
      /\ linked[Client] \in Objects /\ linked[Exit] \in Objects
  BY TwoEnds, Sizes DEF IInv, StateSound, Typed
<1>2. ASSUME NEW e \in Ends, NEW k \in Ids
      PROVE  k \in linked[e].live <=>
               \/ \E c \in Circs : linked[e].ptr[c] = k
               \/ e = Client /\ k = 1 /\ unlinked.exists
  BY <1>1 DEF EndSound, LivesWhilePointed, Held
<1>3. ASSUME NEW e \in Ends PROVE linked[e].pool \in {0} \cup linked[e].live
  <2> SUFFICES ASSUME linked[e].pool # 0 PROVE linked[e].pool \in linked[e].live
    OBVIOUS
  <2>1. EndSound(e) /\ linked[e] \in Objects
    BY <1>1
  <2>2. linked[e].pool \in Ids /\ linked[e].legs[linked[e].pool] \subseteq Circs
    BY <2>1 DEF Objects
  <2>3. PICK c \in linked[e].legs[linked[e].pool] : TRUE
    BY <2>1 DEF EndSound, Sound, PoolHasLegs
  <2>4. c \in Circs /\ linked[e].ptr[c] = linked[e].pool
    BY <2>1, <2>2, <2>3 DEF EndSound, Sound, LegsPointBack
  <2> QED BY <1>2, <2>2, <2>4
<1> QED BY <1>2, <1>3 DEF ObjectsOwned

(* The invariant implies HandshakeAgrees.                                  *)
LEMMA InvHandshakeAgrees ==
  ASSUME IInv
  PROVE  HandshakeAgrees
<1>1. /\ Ends = {Client, Exit} /\ Client # Exit /\ 0 \notin Ids
      /\ EndSound(Client) /\ EndSound(Exit) /\ UnlinkedSound /\ Typed /\ WireTyped
      /\ linked[Client] \in Objects /\ linked[Exit] \in Objects
      /\ StateSound
  BY TwoEnds, Sizes DEF IInv, StateSound, Typed
<1>2. TypeOK
  BY <1>1 DEF TypeOK, Typed, WireTyped, Objects
<1>3. PooledLegsUsable
  <2> SUFFICES ASSUME NEW e \in Ends, NEW k \in Ids
               PROVE  /\ linked[e].pool = k => linked[e].legs[k] # {}
                      /\ \A c \in linked[e].legs[k] :
                            circ[e][c] = "open" /\ linked[e].ptr[c] = k
    BY DEF PooledLegsUsable
  <2>1. EndSound(e)
    BY <1>1
  <2> QED BY <1>1, <2>1 DEF EndSound, Sound, LegsPointBack, PoolHasLegs
<1>4. OneClientSet
  <2>1. unlinked.exists => linked[Client].pool = 0
    <3> SUFFICES ASSUME unlinked.exists, linked[Client].pool # 0 PROVE FALSE
      OBVIOUS
    <3>1. linked[Client].pool \in Ids /\ linked[Client].legs[linked[Client].pool] \subseteq Circs
      BY <1>1 DEF Objects
    <3>2. PICK c \in linked[Client].legs[linked[Client].pool] : TRUE
      BY <1>1 DEF EndSound, Sound, PoolHasLegs
    <3>3. c \in Circs /\ linked[Client].ptr[c] = linked[Client].pool
      BY <1>1, <3>1, <3>2 DEF EndSound, Sound, LegsPointBack
    <3> QED BY <1>1, <3>3 DEF UnlinkedSound
  <2>2. \A c \in unlinked.legs : c \in Circs /\ unlinked.exists
    BY <1>1 DEF Typed, UnlinkedSound
  <2>3. \A c \in unlinked.legs :
          circ[Client][c] \in {"building", "open"} /\ linked[Client].ptr[c] = 0
    BY <1>1, <2>2 DEF UnlinkedSound
  <2> QED BY <1>1, <2>1, <2>3 DEF OneClientSet, UnlinkedSound
<1>5. AnswersFindLegs
  <2> SUFFICES ASSUME NEW c \in Circs
               PROVE  /\ Arrives(Client, c, "LINKED") => c \in unlinked.legs
                      /\ Arrives(Exit, c, "LINKED_ACK") =>
                           /\ linked[Exit].ptr[c] # 0
                           /\ c \in linked[Exit].legs[linked[Exit].ptr[c]]
    BY DEF AnswersFindLegs
  <2>1. WireSound(c)
    BY DEF IInv
  <2>2. ASSUME NEW e \in Ends, NEW cell, Arrives(e, c, cell) PROVE Occurs(cell, wire[e][c])
    <3>1. wire[e][c] \in Seq(Cells) /\ wire[e][c] # <<>> /\ Head(wire[e][c]) = cell
      BY <1>1, <2>2 DEF WireTyped, Arrives
    <3> QED BY <3>1, FollowsTail
  <2>3. Arrives(Client, c, "LINKED") => c \in unlinked.legs
    BY <1>1, <2>1, <2>2 DEF WireSound
  <2>4. ASSUME Arrives(Exit, c, "LINKED_ACK")
        PROVE  linked[Exit].ptr[c] # 0 /\ c \in linked[Exit].legs[linked[Exit].ptr[c]]
    <3>1. linked[Exit].ptr[c] # 0
      BY <1>1, <2>1, <2>2, <2>4 DEF WireSound
    <3>2. circ[Exit][c] = "open"
      BY <2>4 DEF Arrives
    <3> QED BY <1>1, <3>1, <3>2, OpenLeg
  <2> QED BY <2>3, <2>4
<1>6. ExitLinksFirst
  BY DEF ExitLinksFirst, IInv, WireSound, LinkedByClient, LinkedByExit
<1> QED BY <1>2, <1>3, <1>4, <1>5, <1>6 DEF HandshakeAgrees

(* At both ends a conflux_t lives exactly as long as a circuit, or the     *)
(* client's unlinked set, refers to it, and the pool entry of the nonce is an*)
(* object that lives (conflux_free in linked_circuit_free and unlinked_free).*)
THEOREM ObjectsStayOwned == Spec => []ObjectsOwned
<1>1. Init => IInv
  BY InitInv
<1>2. IInv /\ [Next]_vars => IInv'
  BY NextInv
<1>3. IInv => ObjectsOwned
  BY InvObjectsOwned
<1> QED BY <1>1, <1>2, <1>3, PTL DEF Spec

(* A pooled set has a leg and only open legs that point back at it, a      *)
(* client's circuit is in the unlinked or in the linked set, an answer finds*)
(* its leg, and the exit has linked whatever the client has linked         *)
(* (conflux_process_linked, conflux_process_linked_ack and their assertions).*)
THEOREM HandshakeAlwaysAgrees == Spec => []HandshakeAgrees
<1>1. Init => IInv
  BY InitInv
<1>2. IInv /\ [Next]_vars => IInv'
  BY NextInv
<1>3. IInv => HandshakeAgrees
  BY InvHandshakeAgrees
<1> QED BY <1>1, <1>2, <1>3, PTL DEF Spec
=============================================================================
