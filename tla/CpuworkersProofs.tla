-------------------------- MODULE CpuworkersProofs ---------------------------
(***************************************************************************)
(* Proofs about the CPU workers (Cpuworkers), for any number of circuits,  *)
(* threads, items and updates, any limit on the tasks in the pool and any  *)
(* clock.  Of the onion queue: the counts are right, the queue holds live  *)
(* circuits that no worker has, and a task never points at a circuit that  *)
(* was freed.  Of the thread pool: no wakeup and no alert is lost, every   *)
(* argument of an update is freed once, and the pool is what WorkPool      *)
(* promises.                                                               *)
(*                                                                         *)
(* What makes the properties of the onion queue inductive is that a        *)
(* circuit is in the queue or in the pool only while it waits for its      *)
(* handshake (Waiters), and that its workqueue_entry is set exactly while  *)
(* it is in the pool: so a circuit that is freed leaves the queue, and one *)
(* that cannot leave the pool is kept.                                     *)
(*                                                                         *)
(* The invariant of the pool has three parts.  An item that was queued is  *)
(* in one place at a time (Places); an update argument is where the        *)
(* thread's generation says it is (Arguments); and while a thread sleeps   *)
(* there are at least as many threads about to look for work as there is   *)
(* work (Wakeups).                                                         *)
(***************************************************************************)
EXTENDS Cpuworkers, TLAPS, FiniteSetTheorems, WellFoundedInduction

-----------------------------------------------------------------------------
(* Queues.                                                                 *)

(* What is in a queue, and a queue that holds nothing twice.               *)
Occurs(i, q) == \E n \in 1 .. Len(q) : q[n] = i
NoRepeats(q) == \A m, n \in 1 .. Len(q) : q[m] = q[n] => m = n

(* A set of natural numbers has a least one: induction without an operator *)
(* for a parameter.                                                        *)
LEMMA NatLeast ==
  ASSUME NEW T, T \subseteq Nat, T # {}
  PROVE  \E m \in T : \A n \in T : m <= n
<1> DEFINE R == OpToRel(<, Nat)
<1>1. IsWellFoundedOn(R, Nat)
  BY NatLessThanWellFounded
<1>2. \A x, y \in Nat : <<y, x>> \in R <=> y < x
  BY DEF OpToRel
<1> HIDE DEF R
<1>3. PICK x \in T : \A y \in T : ~(<<y, x>> \in R)
  BY <1>1, WFMin
<1>4. ASSUME NEW n \in T PROVE x <= n
  <2>1. x \in Nat /\ n \in Nat
    OBVIOUS
  <2>2. ~(n < x)
    BY <2>1, <1>2, <1>3
  <2> QED BY <2>1, <2>2
<1> QED BY <1>4

(* What an item added at the end changes: it occurs, and nothing else does *)
(* that did not.                                                           *)
LEMMA AppendOccurs ==
  ASSUME NEW S, NEW q \in Seq(S), NEW i \in S
  PROVE  /\ Append(q, i) \in Seq(S) /\ Append(q, i) # <<>>
         /\ \A k : Occurs(k, Append(q, i)) <=> Occurs(k, q) \/ k = i
         /\ NoRepeats(q) /\ ~Occurs(i, q) => NoRepeats(Append(q, i))
<1> DEFINE r == Append(q, i)
<1>1. /\ r \in Seq(S) /\ Len(r) = Len(q) + 1 /\ Len(q) \in Nat
      /\ \A n \in 1 .. Len(q) : r[n] = q[n]
      /\ r[Len(q) + 1] = i
  OBVIOUS
<1> HIDE DEF r
<1>2. r # <<>>
  BY <1>1
<1>3. ASSUME NEW k PROVE Occurs(k, r) <=> Occurs(k, q) \/ k = i
  <2>1. 1 .. Len(r) = (1 .. Len(q)) \cup {Len(q) + 1}
    BY <1>1
  <2> QED BY <1>1, <2>1, Zenon DEF Occurs
<1>4. NoRepeats(q) /\ ~Occurs(i, q) => NoRepeats(r)
  BY <1>1 DEF NoRepeats, Occurs
<1> QED BY <1>1, <1>2, <1>3, <1>4 DEF r

(* What is left when the first item is taken.                              *)
LEMMA TailOccurs ==
  ASSUME NEW S, NEW q \in Seq(S), q # <<>>
  PROVE  /\ Head(q) \in S /\ Tail(q) \in Seq(S)
         /\ \A k : Occurs(k, q) <=> Occurs(k, Tail(q)) \/ k = Head(q)
         /\ NoRepeats(q) => NoRepeats(Tail(q)) /\ ~Occurs(Head(q), Tail(q))
<1> DEFINE r == Tail(q)
           h == Head(q)
<1>1. /\ r \in Seq(S) /\ Len(r) = Len(q) - 1 /\ Len(q) \in Nat \ {0}
      /\ \A n \in 1 .. Len(q) - 1 : r[n] = q[n + 1]
      /\ h = q[1] /\ h \in S
  OBVIOUS
<1> HIDE DEF r, h
<1>2. ASSUME NEW k PROVE Occurs(k, q) <=> Occurs(k, r) \/ k = h
  <2>1. ASSUME NEW n \in 1 .. Len(q), q[n] = k PROVE Occurs(k, r) \/ k = h
    <3>1. CASE n = 1
      BY <1>1, <2>1, <3>1
    <3>2. CASE n # 1
      <4>1. n - 1 \in 1 .. Len(r) /\ r[n - 1] = k
        BY <1>1, <2>1, <3>2
      <4> QED BY <4>1 DEF Occurs
    <3> QED BY <3>1, <3>2
  <2>2. ASSUME NEW n \in 1 .. Len(r), r[n] = k PROVE Occurs(k, q)
    <3>1. n + 1 \in 1 .. Len(q) /\ q[n + 1] = k
      BY <1>1, <2>2
    <3> QED BY <3>1 DEF Occurs
  <2>3. k = h => Occurs(k, q)
    BY <1>1 DEF Occurs
  <2> QED BY <2>1, <2>2, <2>3 DEF Occurs
<1>3. NoRepeats(q) => NoRepeats(r) /\ ~Occurs(h, r)
  <2> HAVE NoRepeats(q)
  <2>1. NoRepeats(r)
    BY <1>1 DEF NoRepeats
  <2>2. ~Occurs(h, r)
    BY <1>1 DEF NoRepeats, Occurs
  <2> QED BY <2>1, <2>2
<1> QED BY <1>1, <1>2, <1>3 DEF r, h

(* What is left when the first n entries are taken.                        *)
LEMMA DropOccurs ==
  ASSUME NEW S, NEW q \in Seq(S), NEW n \in 0 .. Len(q)
  PROVE  /\ SubSeq(q, n + 1, Len(q)) \in Seq(S)
         /\ Len(SubSeq(q, n + 1, Len(q))) = Len(q) - n
         /\ \A k : Occurs(k, SubSeq(q, n + 1, Len(q)))
                    <=> \E j \in n + 1 .. Len(q) : q[j] = k
         /\ NoRepeats(q) => NoRepeats(SubSeq(q, n + 1, Len(q)))
<1> DEFINE r == SubSeq(q, n + 1, Len(q))
<1>1. /\ r \in Seq(S) /\ Len(r) = Len(q) - n /\ Len(q) \in Nat
      /\ \A m \in 1 .. Len(q) - n : r[m] = q[m + n]
  OBVIOUS
<1> HIDE DEF r
<1>2. ASSUME NEW k PROVE Occurs(k, r) <=> \E j \in n + 1 .. Len(q) : q[j] = k
  <2>1. ASSUME NEW m \in 1 .. Len(r), r[m] = k PROVE \E j \in n + 1 .. Len(q) : q[j] = k
    <3>1. m + n \in n + 1 .. Len(q) /\ q[m + n] = k
      BY <1>1, <2>1
    <3> QED BY <3>1
  <2>2. ASSUME NEW j \in n + 1 .. Len(q), q[j] = k PROVE Occurs(k, r)
    <3>1. j - n \in 1 .. Len(r) /\ j - n + n = j
      BY <1>1, <2>2
    <3>2. r[j - n] = k
      BY <1>1, <2>2, <3>1
    <3> QED BY <3>1, <3>2 DEF Occurs
  <2> QED BY <2>1, <2>2 DEF Occurs
<1>3. NoRepeats(q) => NoRepeats(r)
  BY <1>1 DEF NoRepeats
<1> QED BY <1>1, <1>2, <1>3 DEF r

(* A queue without repetitions is as long as it has entries.               *)
LEMMA QueueLength ==
  ASSUME NEW S, NEW q \in Seq(S), NoRepeats(q)
  PROVE  /\ IsFiniteSet({q[n] : n \in 1 .. Len(q)})
         /\ Cardinality({q[n] : n \in 1 .. Len(q)}) = Len(q)
<1> DEFINE R == {q[n] : n \in 1 .. Len(q)}
           f == [n \in 1 .. Len(q) |-> q[n]]
<1>1. Len(q) \in Nat
  OBVIOUS
<1>2. f \in Bijection(1 .. Len(q), R)
  BY DEF NoRepeats, Bijection, Injection, Surjection, IsInjective
<1>3. ExistsBijection(1 .. Len(q), R)
  BY <1>2 DEF ExistsBijection
<1>4. IsFiniteSet(1 .. Len(q)) /\ Cardinality(1 .. Len(q)) = Len(q)
  BY SMTT(30), <1>1, FS_Interval
<1> QED BY <1>3, <1>4, FS_Bijection

-----------------------------------------------------------------------------
(* The onion queue: its inductive invariant.                               *)

(* The counts and the flag of the code agree with the queue and the pool.  *)
Counts ==
  /\ NoRepeats(ol_list)
  /\ ol_entries = Len(ol_list)
  /\ total_pending_tasks = Cardinality(InPool)
  /\ workqueue_entry = InPool

(* What is known of a circuit from where it is.                            *)
Waiters ==
  \A c \in Circs :
    /\ Occurs(c, ol_list) =>
         memory[c] = "live" /\ item[c] = "new" /\ state[c] = "onionskin_pending"
    /\ c \in InPool =>
         memory[c] \in {"live", "dead"} /\ state[c] = "onionskin_pending"
    /\ memory[c] = "dead" => c \in InPool
    /\ memory[c] = "none" => item[c] = "new"

QueueInv == TypeOK /\ Counts /\ Waiters /\ CullStops

-----------------------------------------------------------------------------
(* Lemmas about the queue.                                                 *)

(* The equation that defines Without.                                      *)
IsKept(f, q, S, m) ==
  f = [n \in 0 .. m |->
         IF n = 0 THEN <<>>
         ELSE IF q[n] \in S THEN f[n - 1] ELSE Append(f[n - 1], q[n])]

(* The equation of Without has a solution.                                 *)
LEMMA WithoutExists ==
  ASSUME NEW q, NEW S, NEW l \in Nat
  PROVE  \E f : IsKept(f, q, S, l)
<1> DEFINE Step(f, n) == IF q[n] \in S THEN f[n - 1] ELSE Append(f[n - 1], q[n])
           Bad == {m \in Nat : ~ \E f : IsKept(f, q, S, m)}
<1>1. ASSUME Bad # {} PROVE FALSE
  <2>0. Bad \subseteq Nat
    OBVIOUS
  <2>1. PICK m \in Nat : m \in Bad /\ \A n \in Bad : m <= n
    <3> HIDE DEF Bad
    <3> QED BY <1>1, <2>0, NatLeast
  <2>3. CASE m = 0
    <3>1. IsKept([n \in 0 .. 0 |-> <<>>], q, S, 0)
      BY DEF IsKept
    <3> QED BY <2>1, <2>3, <3>1
  <2>4. CASE m # 0
    <3>1. m - 1 \in Nat /\ ~(m <= m - 1)
      BY <2>1, <2>4
    <3>2. m - 1 \notin Bad
      <4> HIDE DEF Bad
      <4> QED BY <2>1, <3>1
    <3>3. PICK f : IsKept(f, q, S, m - 1)
      BY <3>1, <3>2
    <3> DEFINE g == [n \in 0 .. m |-> IF n = m THEN Step(f, m) ELSE f[n]]
    <3>4. ASSUME NEW n \in 0 .. m
          PROVE  g[n] = IF n = 0 THEN <<>> ELSE Step(g, n)
      <4>1. CASE n = 0
        BY <2>1, <2>4, <3>1, <3>3, <4>1 DEF IsKept
      <4>2. CASE n # 0 /\ n # m
        <5>1. n \in 0 .. m - 1 /\ n - 1 \in 0 .. m /\ n - 1 # m
          BY <2>1, <4>2
        <5>2. g[n] = f[n] /\ g[n - 1] = f[n - 1]
          BY <4>2, <5>1
        <5>3. f[n] = Step(f, n)
          BY <3>3, <4>2, <5>1 DEF IsKept
        <5> QED BY <4>2, <5>2, <5>3
      <4>3. CASE n # 0 /\ n = m
        <5>1. m - 1 \in 0 .. m /\ m - 1 # m
          BY <2>1, <3>1
        <5>2. g[n] = Step(f, m) /\ g[m - 1] = f[m - 1]
          BY <4>3, <5>1
        <5> QED BY <4>3, <5>2
      <4> QED BY <4>1, <4>2, <4>3
    <3>5. IsKept(g, q, S, m)
      <4>1. g = [n \in 0 .. m |-> g[n]]
        OBVIOUS
      <4>2. [n \in 0 .. m |-> g[n]] = [n \in 0 .. m |-> IF n = 0 THEN <<>> ELSE Step(g, n)]
        <5> HIDE DEF g, Step
        <5> QED BY <3>4
      <4> HIDE DEF g
      <4> QED BY <4>1, <4>2 DEF IsKept
    <3> HIDE DEF g
    <3> QED BY <2>1, <3>5
  <2> QED BY <2>3, <2>4
<1> QED BY <1>1

(* Without(q, S) holds the entries of q that are not in S, each as often   *)
(* as q does.                                                              *)
LEMMA WithoutOccurs ==
  ASSUME NEW C, NEW q \in Seq(C), NEW S, NoRepeats(q)
  PROVE  /\ Without(q, S) \in Seq(C) /\ NoRepeats(Without(q, S))
         /\ \A k : Occurs(k, Without(q, S)) <=> Occurs(k, q) /\ k \notin S
<1> DEFINE kept == CHOOSE f : IsKept(f, q, S, Len(q))
           Good(n) == /\ kept[n] \in Seq(C) /\ NoRepeats(kept[n])
                      /\ \A k : Occurs(k, kept[n])
                                 <=> (\E j \in 1 .. n : q[j] = k) /\ k \notin S
           Bad == {n \in 0 .. Len(q) : ~Good(n)}
<1>1. Len(q) \in Nat /\ \A n \in 1 .. Len(q) : q[n] \in C
  OBVIOUS
<1>2. IsKept(kept, q, S, Len(q))
  <2>1. \E f : IsKept(f, q, S, Len(q))
    BY <1>1, WithoutExists
  <2> QED BY <2>1
<1>3. Without(q, S) = kept[Len(q)]
  BY DEF Without, IsKept
<1> HIDE DEF kept
<1>4. kept[0] = <<>>
  BY <1>1, <1>2 DEF IsKept
<1>5. ASSUME NEW n \in 1 .. Len(q)
      PROVE  kept[n] = IF q[n] \in S THEN kept[n - 1] ELSE Append(kept[n - 1], q[n])
  <2> DEFINE V(k) == IF k = 0 THEN <<>>
                     ELSE IF q[k] \in S THEN kept[k - 1] ELSE Append(kept[k - 1], q[k])
  <2>1. n \in 0 .. Len(q) /\ n # 0
    BY <1>1
  <2>2. kept = [k \in 0 .. Len(q) |-> V(k)]
    BY <1>2 DEF IsKept
  <2>3. kept[n] = V(n)
    <3> HIDE DEF V
    <3> QED BY <2>1, <2>2
  <2> QED BY <2>1, <2>3
<1>6. ASSUME Bad # {} PROVE FALSE
  <2>0. Bad \subseteq Nat /\ Bad \subseteq 0 .. Len(q)
    BY <1>1
  <2>1. PICK m \in 0 .. Len(q) : m \in Bad /\ \A n \in Bad : m <= n
    <3> HIDE DEF Bad
    <3> QED BY <1>6, <2>0, NatLeast
  <2>2. CASE m = 0
    <3>1. Good(0)
      BY <1>4 DEF NoRepeats, Occurs
    <3> QED BY <2>1, <2>2, <3>1
  <2>3. CASE m # 0
    <3>1. m \in 1 .. Len(q) /\ m - 1 \in 0 .. Len(q) /\ ~(m <= m - 1)
      BY <1>1, <2>1, <2>3
    <3>2. Good(m - 1)
      <4>1. m - 1 \notin Bad
        <5> HIDE DEF Bad
        <5> QED BY <2>1, <3>1
      <4> HIDE DEF Good
      <4> QED BY <3>1, <4>1
    <3>3. 1 .. m = (1 .. m - 1) \cup {m}
      BY <1>1, <3>1
    <3>4. \A j \in 1 .. m - 1 : q[j] # q[m]
      BY <1>1, <3>1 DEF NoRepeats
    <3>5. CASE q[m] \in S
      <4>1. kept[m] = kept[m - 1]
        BY <1>5, <3>1, <3>5
      <4>2. \A k : Occurs(k, kept[m]) <=> (\E j \in 1 .. m : q[j] = k) /\ k \notin S
        BY <3>2, <3>3, <3>5, <4>1, Zenon
      <4>3. Good(m)
        BY <3>2, <4>1, <4>2
      <4> QED BY <2>1, <4>3
    <3>6. CASE q[m] \notin S
      <4>1. kept[m] = Append(kept[m - 1], q[m]) /\ q[m] \in C
        BY <1>1, <1>5, <3>1, <3>6
      <4>2. ~Occurs(q[m], kept[m - 1])
        BY <3>2, <3>4, Zenon
      <4>3. /\ kept[m] \in Seq(C) /\ NoRepeats(kept[m])
            /\ \A k : Occurs(k, kept[m]) <=> Occurs(k, kept[m - 1]) \/ k = q[m]
        BY <3>2, <4>1, <4>2, AppendOccurs
      <4>4. \A k : Occurs(k, kept[m]) <=> (\E j \in 1 .. m : q[j] = k) /\ k \notin S
        BY <3>2, <3>3, <3>6, <4>3, Zenon
      <4>5. Good(m)
        BY <4>3, <4>4
      <4> QED BY <2>1, <4>5
    <3> QED BY <3>5, <3>6
  <2> QED BY <2>2, <2>3
<1>7. Good(Len(q))
  <2>1. Len(q) \notin Bad
    BY <1>6
  <2> QED BY <1>1, <2>1
<1> QED BY <1>3, <1>7 DEF Occurs

(* The cull stops within the queue, and before its last entry when that    *)
(* has just been added and the cutoff is not zero.                         *)
LEMMA ElderlyStops ==
  ASSUME NEW q \in Seq(Circs)
  PROVE  /\ Elderly(q) \in 0 .. Len(q)
         /\ cutoff # 0 /\ q # <<>> /\ now \in Nat /\ when_added'[q[Len(q)]] = now
              => Elderly(q) # Len(q)
<1> DEFINE stops == {n \in 0 .. Len(q) :
                       n < Len(q) => now - when_added'[q[n + 1]] < cutoff}
<1>1. Len(q) \in Nat /\ Len(q) \in stops /\ stops \subseteq Nat /\ stops \subseteq 0 .. Len(q)
  OBVIOUS
<1>2. ASSUME cutoff # 0, q # <<>>, now \in Nat, when_added'[q[Len(q)]] = now
      PROVE  Len(q) - 1 \in stops
  <2>1. Len(q) - 1 \in 0 .. Len(q) /\ Len(q) - 1 + 1 = Len(q)
    BY <1>1, <1>2
  <2>2. now - now < cutoff
    BY <1>2, OnionQueueConstants
  <2>3. now - when_added'[q[Len(q) - 1 + 1]] < cutoff
    BY <1>2, <2>1, <2>2
  <2> QED BY <2>1, <2>3 DEF stops
<1>3. Elderly(q) = CHOOSE n \in stops : \A m \in stops : n <= m
  BY DEF Elderly
<1> HIDE DEF stops
<1>4. \E n \in stops : \A m \in stops : n <= m
  BY <1>1, NatLeast
<1>5. Elderly(q) \in stops /\ \A m \in stops : Elderly(q) <= m
  BY <1>3, <1>4
<1>6. Elderly(q) \in 0 .. Len(q)
  BY <1>1, <1>5
<1>7. ASSUME cutoff # 0, q # <<>>, now \in Nat, when_added'[q[Len(q)]] = now
      PROVE  Elderly(q) # Len(q)
  <2>1. Elderly(q) <= Len(q) - 1
    BY <1>2, <1>5, <1>7
  <2> QED BY <1>1, <1>6, <2>1
<1> QED BY <1>6, <1>7

(* queue_pending_tasks takes no more entries than there are.               *)
LEMMA TakesEntries ==
  ASSUME NEW q \in Seq(Circs), NEW n
  PROVE  TakenLength(q, n) \in 0 .. Len(q)
<1> DEFINE assigned(k) == Cardinality({j \in 1 .. k : q[j] \in p_chan})
           lengths == {k \in 0 .. Len(q) : assigned(k) = n} \cup {Len(q)}
<1>1. /\ Len(q) \in Nat /\ lengths # {}
      /\ lengths \subseteq Nat /\ lengths \subseteq 0 .. Len(q)
  OBVIOUS
<1>2. TakenLength(q, n) = CHOOSE k \in lengths : \A j \in lengths : k <= j
  BY DEF TakenLength
<1> HIDE DEF lengths
<1>3. \E k \in lengths : \A j \in lengths : k <= j
  BY <1>1, NatLeast
<1> QED BY <1>1, <1>2, <1>3

(* The pool has finitely many tasks.                                       *)
LEMMA PoolIsFinite ==
  /\ IsFiniteSet(InPool) /\ Cardinality(InPool) \in Nat
  /\ IsFiniteSet(InPool') /\ Cardinality(InPool') \in Nat
<1>1. InPool \subseteq Circs /\ InPool' \subseteq Circs
  BY DEF InPool
<1> QED BY <1>1, OnionQueueConstants, FS_Subset, FS_CardinalityType

-----------------------------------------------------------------------------
(* Every step keeps the invariant.                                         *)

(* A CREATE cell, whether its circuit waits in the queue, goes to the      *)
(* pool, is answered at once or is closed.                                 *)
LEMMA CreateStep ==
  ASSUME QueueInv, NEW c \in Circs, command_process_create_cell(c)
  PROVE  QueueInv'
<1>0. TypeOK /\ Counts /\ Waiters /\ CullStops
  BY DEF QueueInv
<1>1. /\ memory[c] = "none" /\ now' = now
      /\ memory' = [memory EXCEPT ![c] = "live"] /\ p_chan' = p_chan \cup {c}
  BY DEF command_process_create_cell
<1>2. /\ item[c] = "new" /\ ~Occurs(c, ol_list) /\ c \notin InPool
  BY <1>0, <1>1 DEF Waiters, InPool
<1>3. /\ memory' \in [Circs -> {"none", "live", "dead", "freed"}] /\ p_chan' \subseteq Circs
      /\ memory'[c] = "live" /\ \A k \in Circs \ {c} : memory'[k] = memory[k]
  BY <1>0, <1>1 DEF TypeOK
<1>4. ASSUME NEW s \in {"onionskin_pending", "open"}, state' = [state EXCEPT ![c] = s]
      PROVE  /\ state' \in [Circs -> {"none", "onionskin_pending", "open"}]
             /\ state'[c] = s /\ \A k \in Circs \ {c} : state'[k] = state[k]
  BY <1>0, <1>4 DEF TypeOK
<1>5. ASSUME NEW s \in {"onionskin_pending", "open"}, state' = [state EXCEPT ![c] = s],
             UNCHANGED <<queue, tasks, item, null_head>>,
             marked' = marked \/ marked' = marked \cup {c}
      PROVE  QueueInv'
  <2>1. TypeOK'
    BY <1>0, <1>1, <1>3, <1>4, <1>5 DEF TypeOK, queue, tasks
  <2>2. Counts'
    BY <1>0, <1>5 DEF Counts, queue, tasks, InPool, NoRepeats
  <2>3. \A k \in Circs : (Occurs(k, ol_list)' <=> Occurs(k, ol_list)) /\ (k \in InPool' <=> k \in InPool)
    BY <1>5 DEF queue, Occurs, InPool
  <2>4. Waiters'
    <3>1. ASSUME NEW k \in Circs, k # c
          PROVE  memory'[k] = memory[k] /\ state'[k] = state[k] /\ item'[k] = item[k]
      BY <1>3, <1>4, <1>5, <3>1
    <3> QED BY <1>0, <1>2, <1>3, <1>5, <2>3, <3>1 DEF Waiters
  <2>5. CullStops'
    BY <1>0, <1>5 DEF CullStops
  <2> QED BY <2>1, <2>2, <2>4, <2>5 DEF QueueInv
<1>6. ASSUME state' = [state EXCEPT ![c] = "onionskin_pending"], onion_pending_add(c)
      PROVE  QueueInv'
  <2> DEFINE q == Append(ol_list, c)
  <2>1. PICK n : n = Elderly(q)
    OBVIOUS
  <2>2. /\ when_added' = [when_added EXCEPT ![c] = now]
        /\ ol_list' = SubSeq(q, n + 1, Len(q))
        /\ ol_entries' = ol_entries + 1 - n
        /\ marked' = marked \cup {q[j] : j \in 1 .. n}
        /\ null_head' = (null_head \/ n = Len(q))
        /\ UNCHANGED <<tasks, item>>
    BY <1>6, <2>1 DEF onion_pending_add
  <2>3. /\ q \in Seq(Circs) /\ Len(q) = Len(ol_list) + 1 /\ Len(ol_list) \in Nat
        /\ q[Len(ol_list) + 1] = c
        /\ \A j \in 1 .. Len(q) : q[j] \in Circs
    BY <1>0 DEF TypeOK
  <2>4. NoRepeats(q) /\ \A k : Occurs(k, q) <=> Occurs(k, ol_list) \/ k = c
    BY <1>0, <1>2, AppendOccurs DEF TypeOK, Counts
  <2> HIDE DEF q
  <2>5. n \in 0 .. Len(q)
    BY <2>1, <2>3, ElderlyStops
  <2>6. /\ ol_list' \in Seq(Circs) /\ Len(ol_list') = Len(q) - n
        /\ NoRepeats(ol_list') /\ \A k : Occurs(k, ol_list') => Occurs(k, q)
    <3>1. /\ ol_list' \in Seq(Circs) /\ Len(ol_list') = Len(q) - n
          /\ NoRepeats(ol_list')
          /\ \A k : Occurs(k, ol_list') <=> \E j \in n + 1 .. Len(q) : q[j] = k
      BY <2>2, <2>3, <2>4, <2>5, DropOccurs
    <3>2. n + 1 .. Len(q) \subseteq 1 .. Len(q)
      BY <2>3, <2>5
    <3> QED BY <3>1, <3>2 DEF Occurs
  <2>7. TypeOK'
    <3>1. marked' \subseteq Circs /\ when_added' \in [Circs -> 0 .. MaxTime]
      BY SMTT(30), <1>0, <2>2, <2>3, <2>5 DEF TypeOK
    <3>2. ol_entries' \in Nat /\ null_head' \in BOOLEAN
      BY <1>0, <2>2, <2>3, <2>5 DEF TypeOK, Counts
    <3> QED BY <1>0, <1>1, <1>3, <1>4, <1>6, <2>2, <2>6, <3>1, <3>2 DEF TypeOK, tasks
  <2>8. Counts'
    <3>1. ol_entries' = Len(ol_list')
      BY <1>0, <2>2, <2>3, <2>5, <2>6 DEF Counts
    <3>2. InPool' = InPool
      BY <2>2 DEF InPool
    <3> QED BY <1>0, <2>2, <2>6, <3>1, <3>2 DEF Counts, tasks
  <2>9. Waiters'
    <3>1. \A k \in Circs : k \in InPool' <=> k \in InPool
      BY <2>2 DEF InPool
    <3>2. \A k \in Circs : Occurs(k, ol_list') => Occurs(k, ol_list) \/ k = c
      BY <2>4, <2>6
    <3>3. \A k \in Circs : k # c => memory'[k] = memory[k] /\ state'[k] = state[k]
      BY <1>3, <1>4, <1>6
    <3>4. state'[c] = "onionskin_pending"
      BY <1>4, <1>6
    <3> QED BY <1>0, <1>2, <1>3, <2>2, <3>1, <3>2, <3>3, <3>4 DEF Waiters
  <2>10. CullStops'
    <3>1. q # <<>> /\ q[Len(q)] = c
      BY <2>3
    <3>2. now \in Nat /\ when_added'[c] = now
      BY <1>0, <2>2 DEF TypeOK
    <3>3. cutoff # 0 => n # Len(q)
      BY <2>1, <2>3, <3>1, <3>2, ElderlyStops
    <3> QED BY <1>0, <2>2, <3>3 DEF CullStops
  <2> QED BY <2>7, <2>8, <2>9, <2>10 DEF QueueInv
<1>7. ASSUME state' = [state EXCEPT ![c] = "onionskin_pending"], ToPool(c) PROVE QueueInv'
  <2>1. /\ total_pending_tasks' = total_pending_tasks + 1
        /\ workqueue_entry' = workqueue_entry \cup {c}
        /\ item' = [item EXCEPT ![c] = "pending"]
        /\ UNCHANGED <<marked, queue, max_pending_tasks, null_head>>
    BY <1>7 DEF ToPool, Pool!Queue, Pool!Move
  <2>2. item' \in [Circs -> Pool!Stages]
    BY <1>0, <2>1 DEF TypeOK, Pool!Stages
  <2>3. item'[c] = "pending" /\ \A k \in Circs \ {c} : item'[k] = item[k]
    BY <1>0, <2>1 DEF TypeOK
  <2>4. InPool' = InPool \cup {c}
    BY <2>3 DEF InPool
  <2>5. TypeOK'
    BY <1>0, <1>1, <1>3, <1>4, <1>7, <2>1, <2>2 DEF TypeOK, queue
  <2>6. Counts'
    <3>1. Cardinality(InPool') = Cardinality(InPool) + 1
      BY <1>2, <2>4, PoolIsFinite, FS_AddElement
    <3> QED BY <1>0, <2>1, <2>4, <3>1 DEF Counts, queue, NoRepeats
  <2>7. Waiters'
    <3>1. \A k \in Circs : Occurs(k, ol_list)' <=> Occurs(k, ol_list)
      BY <2>1 DEF queue, Occurs
    <3>2. \A k \in Circs : k # c => memory'[k] = memory[k] /\ state'[k] = state[k]
      BY <1>3, <1>4, <1>7
    <3>3. state'[c] = "onionskin_pending"
      BY <1>4, <1>7
    <3> QED BY <1>0, <1>2, <1>3, <2>3, <2>4, <3>1, <3>2, <3>3 DEF Waiters
  <2>8. CullStops'
    BY <1>0, <2>1 DEF CullStops
  <2> QED BY <2>5, <2>6, <2>7, <2>8 DEF QueueInv
<1>8. CASE /\ assign_onionskin_to_cpuworker(c)
           /\ state' = [state EXCEPT ![c] = "onionskin_pending"]
  <2>1. CASE onion_pending_add(c) \/ ToPool(c)
    BY <1>6, <1>7, <1>8, <2>1
  <2>2. CASE NoRoom(c)
    BY <1>5, <1>8, <2>2 DEF NoRoom
  <2> QED BY <1>8, <2>1, <2>2 DEF assign_onionskin_to_cpuworker
<1> QED BY <1>5, <1>8 DEF command_process_create_cell

(* A thread takes a task, or has run it: the task stays in the pool.       *)
LEMMA WorkerStep ==
  ASSUME QueueInv, NEW c \in Circs,
         WorkerStarts(c) \/ cpuworker_onion_handshake_threadfn(c)
  PROVE  QueueInv'
<1>0. TypeOK /\ Counts /\ Waiters /\ CullStops
  BY DEF QueueInv
<1>1. PICK s \in {"running", "answered"} : item' = [item EXCEPT ![c] = s]
  BY DEF WorkerStarts, cpuworker_onion_handshake_threadfn, Pool!Start, Pool!Finish, Pool!Move
<1>2. item[c] \in {"pending", "running"}
  BY DEF WorkerStarts, cpuworker_onion_handshake_threadfn, Pool!Start, Pool!Finish, Pool!Move
<1>3. UNCHANGED <<state, memory, marked, p_chan, queue, tasks, now, null_head>>
  BY DEF WorkerStarts, cpuworker_onion_handshake_threadfn
<1>4. /\ item' \in [Circs -> Pool!Stages]
      /\ item'[c] = s /\ \A k \in Circs \ {c} : item'[k] = item[k]
  BY <1>0, <1>1 DEF TypeOK, Pool!Stages
<1>5. InPool' = InPool
  BY <1>2, <1>4 DEF InPool
<1>6. TypeOK'
  BY <1>0, <1>3, <1>4 DEF TypeOK, queue, tasks
<1>7. Counts' /\ CullStops'
  BY <1>0, <1>3, <1>5 DEF Counts, CullStops, queue, tasks, NoRepeats
<1>8. Waiters'
  <2>1. /\ memory' = memory /\ state' = state
        /\ \A k \in Circs : Occurs(k, ol_list)' <=> Occurs(k, ol_list)
    BY <1>3 DEF queue, Occurs
  <2>2. ~Occurs(c, ol_list) /\ memory[c] # "none"
    BY <1>0, <1>2 DEF Waiters
  <2> QED BY <1>0, <1>4, <1>5, <2>1, <2>2 DEF Waiters
<1> QED BY <1>6, <1>7, <1>8 DEF QueueInv

(* What changes no circuit that waits: marks, the clock, the consensus.    *)
LEMMA OtherStep ==
  ASSUME QueueInv, UNCHANGED <<state, memory, queue, workqueue_entry, total_pending_tasks,
                           item, null_head>>,
         marked' \subseteq Circs, p_chan' \subseteq Circs,
         max_pending_tasks' \in MaxPendings, now' \in 0 .. MaxTime
  PROVE  QueueInv'
<1>0. TypeOK /\ Counts /\ Waiters /\ CullStops
  BY DEF QueueInv
<1>1. InPool' = InPool
  BY DEF InPool
<1>2. TypeOK'
  BY <1>0 DEF TypeOK, queue
<1>3. Counts' /\ CullStops'
  BY <1>0, <1>1 DEF Counts, CullStops, queue, NoRepeats
<1>4. Waiters'
  BY <1>0, <1>1 DEF Waiters, queue, Occurs
<1> QED BY <1>2, <1>3, <1>4 DEF QueueInv

(* An answer: its task leaves the pool, and the circuits taken off the     *)
(* queue that still have a channel enter it.                               *)
LEMMA ReplyStep ==
  ASSUME QueueInv, NEW c \in Circs, cpuworker_onion_handshake_replyfn(c)
  PROVE  QueueInv'
<1>0. TypeOK /\ Counts /\ Waiters /\ CullStops
  BY DEF QueueInv
<1>1. /\ item[c] = "answered" /\ c \in InPool
      /\ queue_pending_tasks(c) /\ UNCHANGED <<p_chan, now, null_head>>
  BY DEF cpuworker_onion_handshake_replyfn, InPool
<1>2. /\ memory' \in [Circs -> {"none", "live", "dead", "freed"}]
      /\ state' \in [Circs -> {"none", "onionskin_pending", "open"}]
      /\ marked' \subseteq Circs
      /\ \A k \in Circs \ {c} : memory'[k] = memory[k] /\ state'[k] = state[k]
      /\ memory'[c] \in {"live", "freed"}
  <2>1. memory[c] \in {"live", "dead"}
    BY <1>0, <1>1 DEF Waiters
  <2> QED BY <1>0, <2>1 DEF cpuworker_onion_handshake_replyfn, TypeOK
<1>3. PICK room : room = max_pending_tasks - (total_pending_tasks - 1)
  OBVIOUS
<1>4. PICK n : n = IF room > 0 THEN TakenLength(ol_list, room) ELSE 0
  OBVIOUS
<1>5. PICK taken : taken = {ol_list[j] : j \in 1 .. n}
  OBVIOUS
<1>6. PICK new : new = taken \cap p_chan
  OBVIOUS
<1>7. /\ ol_list' = SubSeq(ol_list, n + 1, Len(ol_list))
      /\ ol_entries' = ol_entries - n
      /\ total_pending_tasks' = total_pending_tasks - 1 + Cardinality(new)
      /\ workqueue_entry' = (workqueue_entry \ {c}) \cup new
      /\ item' = [k \in Circs |-> IF k = c THEN "replied"
                                  ELSE IF k \in new THEN "pending" ELSE item[k]]
      /\ UNCHANGED <<when_added, max_pending_tasks>>
  BY <1>1, <1>3, <1>4, <1>5, <1>6 DEF queue_pending_tasks
<1>8. Len(ol_list) \in Nat /\ n \in 0 .. Len(ol_list) /\ ol_list \in Seq(Circs)
  BY <1>0, <1>4, TakesEntries DEF TypeOK
<1>9. \A k \in taken : k \in Circs /\ Occurs(k, ol_list)
  BY <1>5, <1>8 DEF Occurs
<1>10. /\ ol_list' \in Seq(Circs) /\ Len(ol_list') = Len(ol_list) - n
       /\ NoRepeats(ol_list')
       /\ \A k : Occurs(k, ol_list') => Occurs(k, ol_list) /\ k \notin taken
  <2>1. NoRepeats(ol_list)
    BY <1>0 DEF Counts
  <2>2. /\ ol_list' \in Seq(Circs) /\ Len(ol_list') = Len(ol_list) - n
        /\ NoRepeats(ol_list')
        /\ \A k : Occurs(k, ol_list') <=> \E j \in n + 1 .. Len(ol_list) : ol_list[j] = k
    BY <1>7, <1>8, <2>1, DropOccurs
  <2>3. ASSUME NEW j \in n + 1 .. Len(ol_list), NEW i \in 1 .. n
        PROVE  ol_list[j] # ol_list[i] /\ Occurs(ol_list[j], ol_list)
    <3>1. j \in 1 .. Len(ol_list) /\ i \in 1 .. Len(ol_list) /\ i # j
      BY <1>8
    <3> QED BY <2>1, <3>1 DEF NoRepeats, Occurs
  <2>4. ASSUME NEW j \in n + 1 .. Len(ol_list) PROVE Occurs(ol_list[j], ol_list)
    <3>1. j \in 1 .. Len(ol_list)
      BY <1>8
    <3> QED BY <3>1 DEF Occurs
  <2> QED BY <1>5, <2>2, <2>3, <2>4
<1>11. /\ new \subseteq Circs /\ c \notin new
       /\ \A k \in new : item[k] = "new" /\ k \notin InPool /\ memory[k] = "live"
                         /\ state[k] = "onionskin_pending"
  <2>1. \A k \in new : k \in Circs /\ Occurs(k, ol_list)
    BY <1>6, <1>9
  <2>2. \A k \in new : item[k] = "new" /\ memory[k] = "live" /\ state[k] = "onionskin_pending"
    BY <1>0, <2>1 DEF Waiters
  <2> QED BY <1>1, <2>1, <2>2 DEF InPool
<1>12. /\ item'[c] = "replied"
       /\ \A k \in new : item'[k] = "pending"
       /\ \A k \in Circs \ (new \cup {c}) : item'[k] = item[k]
  BY <1>7, <1>11
<1>13. InPool' = (InPool \ {c}) \cup new
  BY <1>11, <1>12 DEF InPool
<1>14. IsFiniteSet(new) /\ Cardinality(new) \in Nat
  BY <1>11, OnionQueueConstants, FS_Subset, FS_CardinalityType
<1>15. Cardinality(InPool') = Cardinality(InPool) - 1 + Cardinality(new)
  <2>1. /\ IsFiniteSet(InPool \ {c})
        /\ Cardinality(InPool \ {c}) = Cardinality(InPool) - 1
    BY <1>1, PoolIsFinite, FS_RemoveElement
  <2>2. Cardinality((InPool \ {c}) \cap new) = 0
    <3>1. (InPool \ {c}) \cap new = {}
      BY <1>11
    <3> QED BY <3>1, FS_EmptySet
  <2>3. Cardinality((InPool \ {c}) \cup new)
          = Cardinality(InPool \ {c}) + Cardinality(new) - Cardinality((InPool \ {c}) \cap new)
    BY <1>14, <2>1, FS_Union
  <2> QED BY <1>13, <1>14, <2>1, <2>2, <2>3, PoolIsFinite
<1>16. TypeOK'
  <2>1. item' \in [Circs -> Pool!Stages]
    BY <1>0, <1>7 DEF TypeOK, Pool!Stages
  <2>2. ol_entries' \in Nat
    BY <1>0, <1>7, <1>8 DEF Counts
  <2>3. total_pending_tasks' \in Nat
    BY <1>0, <1>7, <1>15, PoolIsFinite DEF Counts
  <2>4. workqueue_entry' \subseteq Circs
    BY <1>0, <1>7, <1>11 DEF TypeOK
  <2> QED BY <1>0, <1>1, <1>2, <1>7, <1>10, <2>1, <2>2, <2>3, <2>4 DEF TypeOK
<1>17. Counts'
  <2>1. ol_entries' = Len(ol_list')
    BY <1>0, <1>7, <1>8, <1>10 DEF Counts
  <2>2. total_pending_tasks' = Cardinality(InPool')
    BY <1>0, <1>7, <1>15 DEF Counts
  <2>3. workqueue_entry' = InPool'
    BY <1>0, <1>7, <1>13 DEF Counts
  <2> QED BY <1>10, <2>1, <2>2, <2>3 DEF Counts
<1>18. Waiters'
  <2>1. ~Occurs(c, ol_list') /\ c \notin InPool'
    BY <1>0, <1>1, <1>10, <1>11, <1>13 DEF Waiters
  <2>2. \A k \in Circs : Occurs(k, ol_list') => Occurs(k, ol_list) /\ k \notin new
    BY <1>6, <1>10
  <2>3. ASSUME NEW k \in Circs, k # c
        PROVE  /\ Occurs(k, ol_list') =>
                    memory'[k] = "live" /\ item'[k] = "new" /\ state'[k] = "onionskin_pending"
               /\ k \in InPool' =>
                    memory'[k] \in {"live", "dead"} /\ state'[k] = "onionskin_pending"
               /\ memory'[k] = "dead" => k \in InPool'
               /\ memory'[k] = "none" => item'[k] = "new"
    <3>1. CASE k \in new
      BY <1>2, <1>11, <1>12, <1>13, <2>2, <2>3, <3>1
    <3>2. CASE k \notin new
      <4>1. memory'[k] = memory[k] /\ state'[k] = state[k] /\ item'[k] = item[k]
        BY <1>2, <1>12, <2>3, <3>2
      <4>2. k \in InPool' <=> k \in InPool
        BY <1>13, <2>3, <3>2
      <4> QED BY <1>0, <2>2, <4>1, <4>2 DEF Waiters
    <3> QED BY <3>1, <3>2
  <2> QED BY <1>2, <2>1, <2>3 DEF Waiters
<1>19. CullStops'
  BY <1>0, <1>1 DEF CullStops
<1> QED BY <1>16, <1>17, <1>18, <1>19 DEF QueueInv

(* The marked circuits are freed: those that wait leave the queue, or the  *)
(* pool if no thread has taken their task.                                 *)
LEMMA CloseStep ==
  ASSUME QueueInv, circuit_close_all_marked
  PROVE  QueueInv'
<1>0. TypeOK /\ Counts /\ Waiters /\ CullStops
  BY DEF QueueInv
<1>1. PICK S : S = {c \in marked : memory[c] = "live"}
  OBVIOUS
<1>2. PICK W : W = {c \in S : state[c] = "onionskin_pending"}
  OBVIOUS
<1>3. PICK gone : gone = {c \in W \cap workqueue_entry : item[c] = "pending"}
  OBVIOUS
<1>4. /\ memory' = [c \in Circs |->
                       IF c \notin S THEN memory[c]
                       ELSE IF c \in workqueue_entry' THEN "dead" ELSE "freed"]
      /\ p_chan' = p_chan \ S
      /\ UNCHANGED <<state, marked, now, null_head, when_added, max_pending_tasks>>
      /\ ol_list' = Without(ol_list, W)
      /\ ol_entries' = ol_entries - Cardinality(W \cap InQueue)
      /\ item' = [c \in Circs |-> IF c \in gone THEN "cancelled" ELSE item[c]]
      /\ workqueue_entry' = workqueue_entry \ gone
      /\ total_pending_tasks' = total_pending_tasks - Cardinality(gone)
  BY <1>1, <1>2, <1>3
     DEF circuit_close_all_marked, onion_pending_remove, cpuworker_cancel_circ_handshake
<1>5. S \subseteq Circs /\ W \subseteq S /\ gone \subseteq W /\ gone \subseteq InPool
  BY <1>0, <1>1, <1>2, <1>3 DEF TypeOK, Counts
<1>6. /\ \A k \in gone : item'[k] = "cancelled"
      /\ \A k \in Circs \ gone : item'[k] = item[k]
  BY <1>4, <1>5
<1>7. InPool' = InPool \ gone
  BY <1>5, <1>6 DEF InPool
<1>8. Cardinality(InPool') = Cardinality(InPool) - Cardinality(gone)
  <2>1. InPool \cap gone = gone /\ IsFiniteSet(gone)
    BY <1>5, PoolIsFinite, FS_Subset
  <2> QED BY <1>7, <2>1, PoolIsFinite, FS_Difference
<1>9. /\ ol_list' \in Seq(Circs) /\ NoRepeats(ol_list')
      /\ \A k : Occurs(k, ol_list') <=> Occurs(k, ol_list) /\ k \notin W
  BY <1>0, <1>4, WithoutOccurs DEF TypeOK, Counts
<1>10. ol_entries' = Len(ol_list') /\ Len(ol_list') \in Nat
  <2>1. IsFiniteSet(InQueue) /\ Cardinality(InQueue) = Len(ol_list)
    BY <1>0, QueueLength DEF TypeOK, Counts, InQueue
  <2>2. Cardinality({ol_list'[n] : n \in 1 .. Len(ol_list')}) = Len(ol_list')
    BY <1>9, QueueLength
  <2>3. {ol_list'[n] : n \in 1 .. Len(ol_list')} = InQueue \ W
    BY <1>9 DEF Occurs, InQueue
  <2>4. Cardinality(InQueue \ W) = Cardinality(InQueue) - Cardinality(InQueue \cap W)
    <3>1. IsFiniteSet(W)
      BY <1>5, OnionQueueConstants, FS_Subset
    <3> QED BY <2>1, <3>1, FS_Difference
  <2>5. InQueue \cap W = W \cap InQueue
    OBVIOUS
  <2>6. Len(ol_list') \in Nat
    BY <1>9
  <2> QED BY <1>0, <1>4, <2>1, <2>2, <2>3, <2>4, <2>5, <2>6 DEF Counts
<1>11. TypeOK'
  <2>1. item' \in [Circs -> Pool!Stages]
    BY <1>0, <1>4 DEF TypeOK, Pool!Stages
  <2>2. memory' \in [Circs -> {"none", "live", "dead", "freed"}]
    BY <1>0, <1>4 DEF TypeOK
  <2>3. total_pending_tasks' \in Nat
    BY <1>0, <1>4, <1>8, PoolIsFinite DEF Counts
  <2>4. workqueue_entry' \subseteq Circs /\ p_chan' \subseteq Circs
    BY <1>0, <1>4 DEF TypeOK
  <2> QED BY <1>0, <1>4, <1>9, <1>10, <2>1, <2>2, <2>3, <2>4 DEF TypeOK
<1>12. Counts'
  BY <1>0, <1>4, <1>7, <1>8, <1>9, <1>10 DEF Counts
<1>13. Waiters'
  <2>1. \A k \in Circs : /\ k \notin S => memory'[k] = memory[k]
                         /\ k \in S /\ k \in InPool' => memory'[k] = "dead"
                         /\ k \in S /\ k \notin InPool' => memory'[k] = "freed"
    BY <1>4, <1>12 DEF Counts
  <2>2. ASSUME NEW k \in Circs, Occurs(k, ol_list')
        PROVE  memory'[k] = "live" /\ item'[k] = "new" /\ state'[k] = "onionskin_pending"
    <3>1. k \notin W /\ memory[k] = "live" /\ item[k] = "new" /\ state[k] = "onionskin_pending"
      BY <1>0, <1>9, <2>2 DEF Waiters
    <3>2. k \notin S
      BY <1>2, <3>1
    <3> QED BY <1>4, <1>5, <1>6, <2>1, <3>1, <3>2
  <2>3. ASSUME NEW k \in Circs
        PROVE  /\ k \in InPool' =>
                    memory'[k] \in {"live", "dead"} /\ state'[k] = "onionskin_pending"
               /\ memory'[k] = "dead" => k \in InPool'
               /\ memory'[k] = "none" => item'[k] = "new"
    <3>1. CASE k \in S
      <4>1. /\ k \in InPool' => memory'[k] = "dead"
            /\ k \notin InPool' => memory'[k] = "freed"
        BY <2>1, <3>1
      <4>2. k \in InPool' => state'[k] = "onionskin_pending"
        <5>1. state' = state
          BY <1>4
        <5>2. k \in InPool' => k \in InPool
          BY <1>7
        <5>3. k \in InPool => state[k] = "onionskin_pending"
          BY <1>0 DEF Waiters
        <5> QED BY <5>1, <5>2, <5>3
      <4> QED BY <4>1, <4>2
    <3>2. CASE k \notin S
      <4>1. k \notin gone /\ memory'[k] = memory[k] /\ state'[k] = state[k] /\ item'[k] = item[k]
        BY <1>4, <1>5, <1>6, <2>1, <3>2
      <4> QED BY <1>0, <1>7, <4>1 DEF Waiters
    <3> QED BY <3>1, <3>2
  <2> QED BY <2>2, <2>3 DEF Waiters
<1>14. CullStops'
  BY <1>0, <1>4 DEF CullStops
<1> QED BY <1>11, <1>12, <1>13, <1>14 DEF QueueInv

-----------------------------------------------------------------------------
(* The theorems.                                                           *)

(* The counts of the queue and of the tasks are right, and a circuit is    *)
(* where its state says, whatever closes meanwhile.                        *)
THEOREM QueueInvariance == Spec => []QueueInv
<1>1. Init => QueueInv
  <2> SUFFICES ASSUME Init PROVE QueueInv
    OBVIOUS
  <2>1. /\ state = [c \in Circs |-> "none"] /\ memory = [c \in Circs |-> "none"]
        /\ marked = {} /\ p_chan = {} /\ ol_list = <<>> /\ ol_entries = 0
        /\ when_added = [c \in Circs |-> 0]
        /\ workqueue_entry = {} /\ total_pending_tasks = 0
        /\ max_pending_tasks \in MaxPendings /\ now = 0
        /\ item = [c \in Circs |-> "new"] /\ null_head = FALSE
    BY DEF Init, Pool!Init
  <2>2. InPool = {}
    BY <2>1 DEF InPool
  <2>3. TypeOK
    <3>1. 0 \in 0 .. MaxTime /\ <<>> \in Seq(Circs)
      BY OnionQueueConstants
    <3>2. when_added \in [Circs -> 0 .. MaxTime]
      BY <2>1, <3>1
    <3>3. item \in [Circs -> Pool!Stages]
      BY <2>1 DEF Pool!Stages
    <3> QED BY <2>1, <3>1, <3>2, <3>3 DEF TypeOK
  <2>4. Counts
    BY <2>1, <2>2, FS_EmptySet DEF Counts, NoRepeats
  <2>5. Waiters
    BY <2>1, <2>2 DEF Waiters, Occurs
  <2>6. CullStops
    BY <2>1 DEF CullStops
  <2> QED BY <2>3, <2>4, <2>5, <2>6 DEF QueueInv
<1>2. QueueInv /\ [Next]_vars => QueueInv'
  <2> SUFFICES ASSUME QueueInv, [Next]_vars PROVE QueueInv'
    OBVIOUS
  <2>0. TypeOK
    BY DEF QueueInv
  <2>1. ASSUME NEW c \in Circs, command_process_create_cell(c) PROVE QueueInv'
    BY <2>1, CreateStep
  <2>2. ASSUME NEW c \in Circs,
               WorkerStarts(c) \/ cpuworker_onion_handshake_threadfn(c)
        PROVE  QueueInv'
    BY <2>2, WorkerStep
  <2>3. ASSUME NEW c \in Circs, cpuworker_onion_handshake_replyfn(c) PROVE QueueInv'
    BY <2>3, ReplyStep
  <2>4. ASSUME NEW c \in Circs, circuit_mark_for_close_(c) PROVE QueueInv'
    BY <2>0, <2>4, OtherStep DEF circuit_mark_for_close_, tasks, TypeOK
  <2>5. ASSUME NEW S \in SUBSET Circs, circuit_unlink_all_from_channel(S) PROVE QueueInv'
    BY <2>0, <2>5, OtherStep DEF circuit_unlink_all_from_channel, tasks, TypeOK
  <2>6. CASE circuit_close_all_marked
    BY <2>6, CloseStep
  <2>7. CASE cpuworker_consensus_has_changed
    BY <2>0, <2>7, OtherStep DEF cpuworker_consensus_has_changed, TypeOK
  <2>8. CASE Tick
    BY <2>0, <2>8, OtherStep, OnionQueueConstants DEF Tick, tasks, TypeOK
  <2>9. CASE UNCHANGED vars
    BY <2>0, <2>9, OtherStep DEF vars, tasks, TypeOK
  <2> QED BY <2>1, <2>2, <2>3, <2>4, <2>5, <2>6, <2>7, <2>8, <2>9 DEF Next
<1> QED BY <1>1, <1>2, PTL DEF Spec

-----------------------------------------------------------------------------
(* The thread pool: its inductive invariant.                               *)

LEMMA ThreadsAreFinite == Workers!WorkqueueConstants => IsFiniteSet(Threads)
BY DEF Workers!WorkqueueConstants, IsFiniteSet, Workers!IsFiniteSet

Answered(i) == Occurs(i, answers)
IsRun(i) == \E t \in Threads : job[t] = i

(* The pending items are those in the queue of their priority, each once.  *)
Queues ==
  /\ IsFiniteSet(pending)
  /\ \A p \in Workers!Priorities :
       /\ NoRepeats(work[p])
       /\ \A i \in Items : Occurs(i, work[p]) <=> i \in pending /\ Priority[i] = p
  /\ NoRepeats(answers)

(* An item that was queued is in one place at a time.                      *)
Places ==
  /\ \A t \in Threads : pc[t] = "running" <=> job[t] # NoItem
  /\ main = "reply" <=> reply # NoItem
  /\ \A t, u \in Threads : job[t] = job[u] /\ job[t] # NoItem => t = u
  /\ \A i \in Items :
       /\ i \in pending => Workers!Queued(i) /\ ~IsRun(i)
       /\ i \in pending \/ IsRun(i) => Workers!Queued(i) /\ ~Answered(i)
       /\ i \in pending \/ IsRun(i) \/ Answered(i) => Workers!Queued(i) /\ i # reply
       /\ i \in pending \/ IsRun(i) \/ Answered(i) \/ i = reply
            => Workers!Queued(i) /\ i \notin finished
       /\ i \in pending \/ IsRun(i) \/ Answered(i) \/ i = reply \/ i \in finished
            => Workers!Queued(i) /\ i \notin cancelled
       /\ i \in cancelled => Workers!Queued(i)

(* Who has which argument, and which updates an item was queued after.     *)
Arguments ==
  /\ \A t \in Threads :
       /\ thread_gen[t] <= generation
       /\ update_args[t] = IF thread_gen[t] = generation THEN 0 ELSE generation
       /\ pc[t] = "updating" <=> arg[t] # 0
       /\ main # "free" => old_args[t] = 0
       /\ \A g \in 1 .. MaxUpdates : Workers!Held(t, g) = IF g <= generation THEN 1 ELSE 0
  /\ \A i \in Items : Workers!Queued(i) => asked[i] <= generation

(* The threads that look for work next.                                    *)
Ready == {t \in Threads : pc[t] = "loop" /\ thread_gen[t] = generation}

(* While a thread sleeps, there is a thread for every item.                *)
Wakeups ==
  /\ Workers!Waiting # {} => Cardinality(pending) <= Cardinality(Ready)
  /\ \A t \in Workers!Waiting : thread_gen[t] = generation

PoolInv ==
  /\ Workers!TypeOK /\ Queues /\ Places /\ Arguments /\ Wakeups
  /\ Workers!NoLostAlert /\ Workers!RunsWithUpdate

-----------------------------------------------------------------------------
(* What is left when an entry is removed from the middle.                  *)
LEMMA RemovedOccurs ==
  ASSUME NEW S, NEW q \in Seq(S), NEW i, Occurs(i, q), NoRepeats(q)
  PROVE  /\ Workers!Without(q, i) \in Seq(S) /\ NoRepeats(Workers!Without(q, i))
         /\ \A k : Occurs(k, Workers!Without(q, i)) <=> Occurs(k, q) /\ k # i
<1> DEFINE n == CHOOSE k \in DOMAIN q : q[k] = i
           a == SubSeq(q, 1, n - 1)
           b == SubSeq(q, n + 1, Len(q))
           r == a \o b
<1>1. n \in 1 .. Len(q) /\ q[n] = i /\ Len(q) \in Nat
  <2>1. DOMAIN q = 1 .. Len(q) /\ Len(q) \in Nat
    OBVIOUS
  <2>2. \E k \in DOMAIN q : q[k] = i
    BY <2>1 DEF Occurs
  <2> QED BY <2>1, <2>2
<1> HIDE DEF n
<1>2. /\ a \in Seq(S) /\ Len(a) = n - 1 /\ \A k \in 1 .. n - 1 : a[k] = q[k]
      /\ b \in Seq(S) /\ Len(b) = Len(q) - n
      /\ \A k \in 1 .. Len(q) - n : b[k] = q[k + n]
  BY <1>1
<1> HIDE DEF a, b
<1>3. /\ r \in Seq(S) /\ Len(r) = Len(q) - 1
      /\ \A k \in 1 .. Len(q) - 1 : r[k] = IF k < n THEN q[k] ELSE q[k + 1]
  <2>1. r \in Seq(S) /\ Len(r) = Len(a) + Len(b)
    BY SMTT(30), <1>2
  <2>2. Len(r) = Len(q) - 1
    BY <1>1, <1>2, <2>1
  <2>3. ASSUME NEW k \in 1 .. Len(q) - 1, k < n PROVE r[k] = q[k]
    <3>1. k \in 1 .. Len(a) /\ a[k] = q[k]
      BY <1>1, <1>2, <2>3
    <3>2. r[k] = a[k]
      BY <1>2, <3>1
    <3> QED BY <3>1, <3>2
  <2>4. ASSUME NEW k \in 1 .. Len(q) - 1, ~(k < n) PROVE r[k] = q[k + 1]
    <3>1. k - Len(a) \in 1 .. Len(b) /\ b[k - Len(a)] = q[k + 1]
      <4>1. k - Len(a) = k - n + 1 /\ k - n + 1 \in 1 .. Len(q) - n
        BY <1>1, <1>2, <2>4
      <4>2. k - n + 1 + n = k + 1
        BY <1>1
      <4> QED BY <1>2, <4>1, <4>2
    <3>2. k \in Len(a) + 1 .. Len(a) + Len(b)
      BY <1>1, <1>2, <2>4
    <3>3. r[k] = b[k - Len(a)]
      BY <1>2, <3>2
    <3> QED BY <3>1, <3>3
  <2> QED BY <2>1, <2>2, <2>3, <2>4
<1> HIDE DEF r
<1>4. NoRepeats(r)
  BY SMTT(30), <1>1, <1>3 DEF NoRepeats
<1>5. ASSUME NEW k PROVE Occurs(k, r) <=> Occurs(k, q) /\ k # i
  <2>1. ASSUME NEW m \in 1 .. Len(r), r[m] = k PROVE Occurs(k, q) /\ k # i
    <3> DEFINE j == IF m < n THEN m ELSE m + 1
    <3>1. j \in 1 .. Len(q) /\ q[j] = k /\ j # n
      BY <1>1, <1>3, <2>1
    <3> QED BY <3>1, <1>1 DEF Occurs, NoRepeats
  <2>2. ASSUME NEW m \in 1 .. Len(q), q[m] = k, k # i PROVE Occurs(k, r)
    <3> DEFINE j == IF m < n THEN m ELSE m - 1
    <3>1. j \in 1 .. Len(r) /\ r[j] = k
      BY <1>1, <1>3, <2>2
    <3> QED BY <3>1 DEF Occurs
  <2> QED BY <2>1, <2>2 DEF Occurs
<1>6. Workers!Without(q, i) = r
  BY DEF Workers!Without, r, a, b, n
<1> QED BY <1>3, <1>4, <1>5, <1>6

-----------------------------------------------------------------------------
(* Types.                                                                  *)

(* A signal only wakes threads up that were waiting.                       *)
LEMMA Signals ==
  ASSUME pc \in [Threads -> Workers!ThreadStates],
         Workers!tor_cond_signal_one \/ Workers!tor_cond_signal_all
  PROVE  /\ pc' \in [Threads -> Workers!ThreadStates]
         /\ \A t \in Threads : \/ pc'[t] = pc[t]
                               \/ pc[t] = "waiting" /\ pc'[t] = "loop"
         /\ Workers!tor_cond_signal_all => \A t \in Threads : pc'[t] # "waiting"
BY DEF Workers!tor_cond_signal_one, Workers!tor_cond_signal_all, Workers!Waiting,
       Workers!ThreadStates

(* Moving one thread changes the place of that thread only.                *)
LEMMA Moves ==
  ASSUME pc \in [Threads -> Workers!ThreadStates], NEW t \in Threads,
         NEW l \in Workers!ThreadStates, Workers!Goto(t, l)
  PROVE  /\ pc' \in [Threads -> Workers!ThreadStates]
         /\ pc'[t] = l
         /\ \A u \in Threads \ {t} : pc'[u] = pc[u]
BY DEF Workers!Goto, Workers!ThreadStates

(* Every step keeps the types.                                             *)
LEMMA TypeStep ==
  ASSUME Workers!WorkqueueConstants, PoolInv, [Workers!Next]_Workers!vars
  PROVE  Workers!TypeOK'
<1> USE DEF Workers!WorkqueueConstants, Workers!queues, Workers!updates,
            Workers!history, Workers!Generations, Workers!Priorities
<1>0. /\ Workers!TypeOK
      /\ \A t \in Threads : pc[t] = "running" => job[t] \in Items
      /\ main = "reply" => reply \in Items
      /\ \A t \in Threads : pc[t] = "updating" => arg[t] \in 1 .. MaxUpdates
  BY SMTT(30) DEF PoolInv, Workers!TypeOK, Places, Arguments
<1>1. ASSUME NEW i \in Items, Workers!threadpool_queue_work_priority(i)
      PROVE  Workers!TypeOK'
  <2>1. Append(work[Priority[i]], i) \in Seq(Items)
    BY <1>0, AppendOccurs DEF Workers!TypeOK
  <2>2. pc' \in [Threads -> Workers!ThreadStates]
    BY <1>0, <1>1, Signals DEF Workers!TypeOK, Workers!threadpool_queue_work_priority
  <2>3. work' \in [Workers!Priorities -> Seq(Items)] /\ asked' \in [Items -> Nat]
        /\ pending' \subseteq Items
    BY <1>0, <1>1, <2>1 DEF Workers!TypeOK, Workers!threadpool_queue_work_priority
  <2> QED BY <1>0, <1>1, <2>2, <2>3 DEF Workers!TypeOK,
                                        Workers!threadpool_queue_work_priority
<1>2. ASSUME NEW i \in Items, Workers!workqueue_entry_cancel(i) PROVE Workers!TypeOK'
  <2>1. Workers!Without(work[Priority[i]], i) \in Seq(Items)
    <3>1. Occurs(i, work[Priority[i]]) /\ NoRepeats(work[Priority[i]])
      BY <1>2 DEF Workers!workqueue_entry_cancel, PoolInv, Queues
    <3> QED BY <1>0, <3>1, RemovedOccurs DEF Workers!TypeOK
  <2>2. work' \in [Workers!Priorities -> Seq(Items)]
    BY <1>0, <1>2, <2>1 DEF Workers!TypeOK, Workers!workqueue_entry_cancel
  <2> QED BY <1>0, <1>2, <2>2 DEF Workers!TypeOK, Workers!workqueue_entry_cancel
<1>3. ASSUME Workers!threadpool_queue_update PROVE Workers!TypeOK'
  <2>1. pc' \in [Threads -> Workers!ThreadStates]
    BY <1>0, <1>3, Signals DEF Workers!TypeOK, Workers!threadpool_queue_update
  <2> QED BY SMTT(30), <1>0, <1>3, <2>1 DEF Workers!TypeOK,
                                            Workers!threadpool_queue_update
<1>4. ASSUME Workers!FreeOldArgs PROVE Workers!TypeOK'
  <2>1. freed' \in [Threads -> [1 .. MaxUpdates -> Nat]]
    BY SMTT(30), <1>0, <1>4 DEF Workers!TypeOK, Workers!FreeOldArgs
  <2> QED BY <1>0, <1>4, <2>1 DEF Workers!TypeOK, Workers!FreeOldArgs
<1>5. ASSUME Workers!reply_event_cb PROVE Workers!TypeOK'
  BY <1>0, <1>5 DEF Workers!TypeOK, Workers!reply_event_cb
<1>6. ASSUME Workers!replyqueue_process PROVE Workers!TypeOK'
  <2>1. CASE answers = <<>>
    BY <1>0, <1>6, <2>1 DEF Workers!TypeOK, Workers!replyqueue_process
  <2>2. CASE answers # <<>>
    <3>1. Head(answers) \in Items /\ Tail(answers) \in Seq(Items)
      BY <1>0, <2>2, TailOccurs DEF Workers!TypeOK
    <3> QED BY <1>0, <1>6, <2>2, <3>1 DEF Workers!TypeOK, Workers!replyqueue_process
  <2> QED BY <2>1, <2>2
<1>7. ASSUME Workers!ReplyReturns PROVE Workers!TypeOK'
  BY <1>0, <1>7 DEF Workers!TypeOK, Workers!ReplyReturns
<1>8. ASSUME NEW t \in Threads, Workers!UpdateStart(t) PROVE Workers!TypeOK'
  <2>1. pc' \in [Threads -> Workers!ThreadStates]
    BY <1>0, <1>8, Moves DEF Workers!TypeOK, Workers!UpdateStart, Workers!ThreadStates
  <2>2. /\ arg' \in [Threads -> Workers!Generations]
        /\ thread_gen' \in [Threads -> Workers!Generations]
    BY <1>0, <1>8 DEF Workers!TypeOK, Workers!UpdateStart
  <2>3. update_args' \in [Threads -> Workers!Generations]
    BY <1>0, <1>8 DEF Workers!TypeOK, Workers!UpdateStart
  <2> QED BY <1>0, <1>8, <2>1, <2>2, <2>3 DEF Workers!TypeOK, Workers!UpdateStart
<1>9. ASSUME NEW t \in Threads, Workers!worker_thread_extract_next_work(t)
      PROVE  Workers!TypeOK'
  <2>1. PICK p \in Workers!Priorities :
          /\ work[p] # <<>>
          /\ job' = [job EXCEPT ![t] = Head(work[p])]
          /\ work' = [work EXCEPT ![p] = Tail(@)]
          /\ pending' = pending \ {Head(work[p])}
    BY <1>9 DEF Workers!worker_thread_extract_next_work
  <2>2. Head(work[p]) \in Items /\ Tail(work[p]) \in Seq(Items)
    BY <1>0, <2>1, TailOccurs DEF Workers!TypeOK
  <2>3. pc' \in [Threads -> Workers!ThreadStates]
    BY <1>0, <1>9, Moves DEF Workers!TypeOK, Workers!worker_thread_extract_next_work,
                             Workers!ThreadStates
  <2> QED BY <1>0, <1>9, <2>1, <2>2, <2>3 DEF Workers!TypeOK,
                                              Workers!worker_thread_extract_next_work
<1>10. ASSUME NEW t \in Threads, Workers!CondWait(t) \/ Workers!SpuriousWakeup(t)
       PROVE  Workers!TypeOK'
  BY <1>0, <1>10 DEF Workers!TypeOK, Workers!CondWait, Workers!SpuriousWakeup,
                     Workers!Goto, Workers!ThreadStates
<1>11. ASSUME NEW t \in Threads, Workers!UpdateReturns(t) PROVE Workers!TypeOK'
  <2>1. freed' \in [Threads -> [1 .. MaxUpdates -> Nat]]
    <3>1. arg[t] \in 1 .. MaxUpdates
      BY <1>0, <1>11 DEF Workers!UpdateReturns
    <3>2. freed[t] \in [1 .. MaxUpdates -> Nat]
      BY <1>0 DEF Workers!TypeOK
    <3>3. [freed[t] EXCEPT ![arg[t]] = @ + 1] \in [1 .. MaxUpdates -> Nat]
      BY <3>1, <3>2
    <3>4. freed' = [freed EXCEPT ![t] = [freed[t] EXCEPT ![arg[t]] = @ + 1]]
      BY <1>11 DEF Workers!UpdateReturns
    <3> QED BY <1>0, <3>3, <3>4 DEF Workers!TypeOK
  <2>2. pc' \in [Threads -> Workers!ThreadStates]
    BY <1>0, <1>11 DEF Workers!TypeOK, Workers!UpdateReturns, Workers!Goto,
                       Workers!ThreadStates
  <2>3. arg' \in [Threads -> Workers!Generations]
    BY <1>0, <1>11 DEF Workers!TypeOK, Workers!UpdateReturns
  <2> QED BY <1>0, <1>11, <2>1, <2>2, <2>3 DEF Workers!TypeOK, Workers!UpdateReturns
<1>12. ASSUME NEW t \in Threads, Workers!queue_reply(t) PROVE Workers!TypeOK'
  <2>1. Append(answers, job[t]) \in Seq(Items)
    BY <1>0, <1>12, AppendOccurs DEF Workers!TypeOK, Workers!queue_reply
  <2>2. pc' \in [Threads -> Workers!ThreadStates]
    BY <1>0, <1>12 DEF Workers!TypeOK, Workers!queue_reply, Workers!Goto,
                       Workers!ThreadStates
  <2> QED BY <1>0, <1>12, <2>1, <2>2 DEF Workers!TypeOK, Workers!queue_reply
<1>13. ASSUME NEW t \in Threads, Workers!WriteAlert(t) PROVE Workers!TypeOK'
  BY <1>0, <1>13 DEF Workers!TypeOK, Workers!WriteAlert, Workers!Goto,
                     Workers!ThreadStates
<1>14. CASE UNCHANGED Workers!vars
  BY <1>0, <1>14 DEF Workers!TypeOK, Workers!vars
<1> QED BY <1>1, <1>2, <1>3, <1>4, <1>5, <1>6, <1>7, <1>8, <1>9, <1>10, <1>11, <1>12,
           <1>13, <1>14 DEF Workers!Next, Workers!MainStep, Workers!ThreadStep

-----------------------------------------------------------------------------
(* Where an item is.                                                       *)

(* What extracting takes: the first item of a queue, which was pending.    *)
LEMMA Extracts ==
  ASSUME Workers!WorkqueueConstants, PoolInv, NEW t \in Threads,
         Workers!worker_thread_extract_next_work(t)
  PROVE  \E p \in Workers!Priorities, i \in Items :
           /\ work[p] # <<>> /\ i = Head(work[p])
           /\ i \in pending /\ Priority[i] = p
           /\ job' = [job EXCEPT ![t] = i]
           /\ work' = [work EXCEPT ![p] = Tail(@)]
           /\ pending' = pending \ {i}
<1>1. PICK p \in Workers!Priorities :
        /\ work[p] # <<>>
        /\ job' = [job EXCEPT ![t] = Head(work[p])]
        /\ work' = [work EXCEPT ![p] = Tail(@)]
        /\ pending' = pending \ {Head(work[p])}
  BY DEF Workers!worker_thread_extract_next_work
<1>2. Head(work[p]) \in Items /\ Occurs(Head(work[p]), work[p])
  BY <1>1, TailOccurs DEF PoolInv, Workers!TypeOK
<1>3. Head(work[p]) \in pending /\ Priority[Head(work[p])] = p
  BY <1>2 DEF PoolInv, Queues
<1> QED BY <1>1, <1>2, <1>3

(* Every step keeps the queues: an item joins the queue of its priority    *)
(* when it becomes pending and leaves it when a thread takes it or it is   *)
(* cancelled.                                                              *)
LEMMA QueuesStep ==
  ASSUME Workers!WorkqueueConstants, PoolInv, [Workers!Next]_Workers!vars
  PROVE  Queues'
<1> USE DEF Workers!WorkqueueConstants
<1>0. Workers!TypeOK /\ Queues /\ Places
  BY DEF PoolInv
<1>1. ASSUME NEW i \in Items, Workers!threadpool_queue_work_priority(i) PROVE Queues'
  <2> DEFINE q == work[Priority[i]]
  <2>1. q \in Seq(Items) /\ i \notin pending /\ Priority[i] \in Workers!Priorities
    BY <1>0, <1>1 DEF Workers!TypeOK, Places, Workers!threadpool_queue_work_priority
  <2>2. ~Occurs(i, q) /\ NoRepeats(q)
    BY <1>0, <2>1 DEF Queues
  <2> HIDE DEF q
  <2>3. /\ \A k : Occurs(k, Append(q, i)) <=> Occurs(k, q) \/ k = i
        /\ NoRepeats(Append(q, i))
    BY <2>1, <2>2, AppendOccurs
  <2>4. /\ work'[Priority[i]] = Append(q, i)
        /\ \A p \in Workers!Priorities \ {Priority[i]} : work'[p] = work[p]
        /\ pending' = pending \cup {i} /\ answers' = answers
    BY <1>0, <1>1 DEF Workers!TypeOK, Workers!threadpool_queue_work_priority, q
  <2>5. IsFiniteSet(pending')
    BY <1>0, <2>4, FS_AddElement DEF Queues
  <2>6. ASSUME NEW p \in Workers!Priorities
        PROVE  /\ NoRepeats(work'[p])
               /\ \A k \in Items : Occurs(k, work'[p]) <=> k \in pending' /\ Priority[k] = p
    <3>1. CASE p = Priority[i]
      <4>1. \A k \in Items : Occurs(k, q) <=> k \in pending /\ Priority[k] = p
        BY <1>0, <2>1, <3>1 DEF Queues, q
      <4>2. work'[p] = Append(q, i)
        BY <2>4, <3>1
      <4>3. ASSUME NEW k \in Items
            PROVE  Occurs(k, work'[p]) <=> k \in pending' /\ Priority[k] = p
        BY <2>3, <2>4, <3>1, <4>1, <4>2, Zenon
      <4> QED BY <2>3, <4>2, <4>3
    <3>2. CASE p # Priority[i]
      BY <1>0, <2>4, <3>2 DEF Queues
    <3> QED BY <3>1, <3>2
  <2> QED BY ZenonT(60), <1>0, <2>4, <2>5, <2>6 DEF Queues, NoRepeats, Occurs
<1>2. ASSUME NEW i \in Items, Workers!workqueue_entry_cancel(i) PROVE Queues'
  <2> DEFINE q == work[Priority[i]]
  <2>1. q \in Seq(Items) /\ i \in pending /\ Priority[i] \in Workers!Priorities
    BY <1>0, <1>2 DEF Workers!TypeOK, Workers!workqueue_entry_cancel
  <2>2. Occurs(i, q) /\ NoRepeats(q)
    BY <1>0, <2>1 DEF Queues
  <2> HIDE DEF q
  <2>3. /\ NoRepeats(Workers!Without(q, i))
        /\ \A k : Occurs(k, Workers!Without(q, i)) <=> Occurs(k, q) /\ k # i
    BY <2>1, <2>2, RemovedOccurs
  <2>4. /\ work'[Priority[i]] = Workers!Without(q, i)
        /\ \A p \in Workers!Priorities \ {Priority[i]} : work'[p] = work[p]
        /\ pending' = pending \ {i} /\ answers' = answers
    BY <1>0, <1>2 DEF Workers!TypeOK, Workers!workqueue_entry_cancel, q
  <2>5. IsFiniteSet(pending')
    BY <1>0, <2>4, FS_RemoveElement DEF Queues
  <2>6. ASSUME NEW p \in Workers!Priorities
        PROVE  /\ NoRepeats(work'[p])
               /\ \A k \in Items : Occurs(k, work'[p]) <=> k \in pending' /\ Priority[k] = p
    <3>1. CASE p = Priority[i]
      <4>1. \A k \in Items : Occurs(k, q) <=> k \in pending /\ Priority[k] = p
        BY <1>0, <2>1, <3>1 DEF Queues, q
      <4>2. work'[p] = Workers!Without(q, i)
        BY <2>4, <3>1
      <4>3. ASSUME NEW k \in Items
            PROVE  Occurs(k, work'[p]) <=> k \in pending' /\ Priority[k] = p
        BY <2>3, <2>4, <4>1, <4>2, Zenon
      <4> QED BY <2>3, <4>2, <4>3
    <3>2. CASE p # Priority[i]
      BY <1>0, <2>4, <3>2 DEF Queues
    <3> QED BY <3>1, <3>2
  <2> QED BY <1>0, <2>4, <2>5, <2>6 DEF Queues, NoRepeats, Occurs
<1>3. ASSUME NEW t \in Threads, Workers!worker_thread_extract_next_work(t)
      PROVE  Queues'
  <2>1. PICK p \in Workers!Priorities, i \in Items :
           /\ work[p] # <<>> /\ i = Head(work[p])
           /\ i \in pending /\ Priority[i] = p
           /\ job' = [job EXCEPT ![t] = i]
           /\ work' = [work EXCEPT ![p] = Tail(@)]
           /\ pending' = pending \ {i}
    BY <1>3, Extracts, Zenon
  <2>2. /\ NoRepeats(Tail(work[p])) /\ ~Occurs(i, Tail(work[p]))
        /\ \A k : Occurs(k, work[p]) <=> Occurs(k, Tail(work[p])) \/ k = i
    BY <1>0, <2>1, TailOccurs DEF Workers!TypeOK, Queues
  <2>3. /\ work'[p] = Tail(work[p])
        /\ \A r \in Workers!Priorities \ {p} : work'[r] = work[r]
        /\ answers' = answers
    BY <1>0, <1>3, <2>1 DEF Workers!TypeOK, Workers!worker_thread_extract_next_work
  <2>4. IsFiniteSet(pending')
    BY <1>0, <2>1, FS_RemoveElement DEF Queues
  <2>5. ASSUME NEW r \in Workers!Priorities
        PROVE  /\ NoRepeats(work'[r])
               /\ \A k \in Items : Occurs(k, work'[r]) <=> k \in pending' /\ Priority[k] = r
    <3>1. CASE r = p
      BY <1>0, <2>1, <2>2, <2>3, <3>1 DEF Queues
    <3>2. CASE r # p
      BY <1>0, <2>1, <2>3, <3>2 DEF Queues
    <3> QED BY <3>1, <3>2
  <2> QED BY <1>0, <2>3, <2>4, <2>5 DEF Queues, NoRepeats, Occurs
<1>4. ASSUME NEW t \in Threads, Workers!queue_reply(t) PROVE Queues'
  <2>1. job[t] \in Items /\ ~Occurs(job[t], answers)
    BY <1>0, <1>4 DEF Workers!TypeOK, Places, Workers!queue_reply, Answered, IsRun
  <2>2. answers' = Append(answers, job[t]) /\ work' = work /\ pending' = pending
    BY <1>4 DEF Workers!queue_reply
  <2>3. NoRepeats(answers')
    BY <1>0, <2>1, <2>2, AppendOccurs DEF Workers!TypeOK, Queues
  <2> QED BY <1>0, <2>2, <2>3 DEF Queues, NoRepeats, Occurs
<1>5. ASSUME Workers!replyqueue_process PROVE Queues'
  <2>1. work' = work /\ pending' = pending
    BY <1>5 DEF Workers!replyqueue_process
  <2>2. NoRepeats(answers')
    <3>1. CASE answers = <<>>
      BY <1>0, <1>5, <3>1 DEF Workers!replyqueue_process, Queues
    <3>2. CASE answers # <<>>
      <4>1. NoRepeats(Tail(answers))
        BY <1>0, <3>2, TailOccurs DEF Workers!TypeOK, Queues
      <4> QED BY <1>5, <3>2, <4>1 DEF Workers!replyqueue_process
    <3> QED BY <3>1, <3>2
  <2> QED BY <1>0, <2>1, <2>2 DEF Queues, NoRepeats, Occurs
<1>6. ASSUME UNCHANGED <<work, pending, answers>> PROVE Queues'
  BY <1>0, <1>6 DEF Queues, NoRepeats, Occurs
<1> QED
  BY <1>1, <1>2, <1>3, <1>4, <1>5, <1>6
  DEF Workers!Next, Workers!MainStep, Workers!ThreadStep, Workers!vars,
      Workers!queues, Workers!threadpool_queue_update, Workers!FreeOldArgs,
      Workers!reply_event_cb, Workers!ReplyReturns, Workers!UpdateStart,
      Workers!CondWait, Workers!SpuriousWakeup, Workers!UpdateReturns,
      Workers!WriteAlert

(* Every step keeps an item in one place.  It moves from pending to a      *)
(* thread, to the reply queue, to the main thread and to the finished      *)
(* ones, or from pending to the cancelled ones.                            *)
LEMMA PlacesStep ==
  ASSUME Workers!WorkqueueConstants, PoolInv, [Workers!Next]_Workers!vars
  PROVE  Places'
<1> USE DEF Workers!WorkqueueConstants
<1>0. Workers!TypeOK /\ Queues /\ Places
  BY DEF PoolInv
<1>1. ASSUME NEW i \in Items, Workers!threadpool_queue_work_priority(i) PROVE Places'
  <2>1. /\ job' = job /\ main' = main /\ reply' = reply /\ answers' = answers
        /\ finished' = finished /\ cancelled' = cancelled
        /\ pending' = pending \cup {i} /\ ~Workers!Queued(i)
        /\ asked' = [asked EXCEPT ![i] = generation]
    BY <1>1 DEF Workers!threadpool_queue_work_priority, Workers!updates
  <2>2. \A t \in Threads : pc[t] = "running" <=> pc'[t] = "running"
    <3>1. Workers!tor_cond_signal_one
      BY <1>1 DEF Workers!threadpool_queue_work_priority
    <3> QED BY <1>0, <3>1, Signals DEF Workers!TypeOK
  <2>3. Workers!Queued(i)' /\ \A k \in Items \ {i} : Workers!Queued(k)' <=> Workers!Queued(k)
    BY <1>0, <2>1 DEF Workers!TypeOK, Workers!Queued, Workers!Generations
  <2>4. \A k \in Items : (IsRun(k)' <=> IsRun(k)) /\ (Answered(k)' <=> Answered(k))
    BY <2>1 DEF IsRun, Answered, Occurs
  <2> QED BY <1>0, <2>1, <2>2, <2>3, <2>4 DEF Places
<1>2. ASSUME NEW i \in Items, Workers!workqueue_entry_cancel(i) PROVE Places'
  <2>1. /\ job' = job /\ main' = main /\ reply' = reply /\ answers' = answers
        /\ finished' = finished /\ cancelled' = cancelled \cup {i}
        /\ pending' = pending \ {i} /\ i \in pending
        /\ asked' = asked /\ pc' = pc
    BY <1>2 DEF Workers!workqueue_entry_cancel
  <2>2. \A k \in Items : /\ (Workers!Queued(k)' <=> Workers!Queued(k))
                         /\ (IsRun(k)' <=> IsRun(k))
                         /\ (Answered(k)' <=> Answered(k))
    BY <2>1 DEF IsRun, Answered, Occurs, Workers!Queued
  <2> QED BY <1>0, <2>1, <2>2 DEF Places
<1>3. ASSUME NEW t \in Threads, Workers!worker_thread_extract_next_work(t)
      PROVE  Places'
  <2>1. PICK i \in Items : i \in pending /\ pending' = pending \ {i}
                           /\ job' = [job EXCEPT ![t] = i]
    BY <1>3, Extracts, Zenon
  <2>2. /\ main' = main /\ reply' = reply /\ answers' = answers
        /\ finished' = finished /\ cancelled' = cancelled /\ asked' = asked
    BY <1>3 DEF Workers!worker_thread_extract_next_work, Workers!history
  <2>3. pc[t] = "loop" /\ pc'[t] = "running" /\ \A u \in Threads \ {t} : pc'[u] = pc[u]
    BY <1>0, <1>3 DEF Workers!worker_thread_extract_next_work, Workers!TypeOK,
                      Workers!Goto
  <2>4. /\ job[t] = NoItem /\ job'[t] = i /\ i # NoItem
        /\ \A u \in Threads \ {t} : job'[u] = job[u]
    BY <1>0, <2>1, <2>3 DEF Workers!TypeOK, Places
  <2>5. /\ IsRun(i)'
        /\ \A k \in Items \ {i} : IsRun(k)' <=> IsRun(k)
        /\ \A k \in Items : Answered(k)' <=> Answered(k)
        /\ \A k \in Items : Workers!Queued(k)' <=> Workers!Queued(k)
    BY <2>2, <2>4 DEF IsRun, Answered, Occurs, Workers!Queued
  <2>6. ~IsRun(i)
    BY <1>0, <2>1 DEF Places
  <2>7. /\ \A u \in Threads : pc'[u] = "running" <=> job'[u] # NoItem
        /\ \A u, v \in Threads : job'[u] = job'[v] /\ job'[u] # NoItem => u = v
    BY <1>0, <2>3, <2>4, <2>6 DEF Places, IsRun
  <2> QED BY <1>0, <2>1, <2>2, <2>5, <2>7 DEF Places
<1>4. ASSUME NEW t \in Threads, Workers!queue_reply(t) PROVE Places'
  <2>0. job[t] \in Items /\ pc[t] = "running"
    BY <1>0, <1>4 DEF Workers!TypeOK, Places, Workers!queue_reply
  <2>1. PICK i \in Items : i = job[t] /\ IsRun(i)
    BY <2>0 DEF IsRun
  <2>2. /\ main' = main /\ reply' = reply /\ finished' = finished /\ pending' = pending
        /\ cancelled' = cancelled /\ asked' = asked
        /\ answers' = Append(answers, i)
    BY <1>4, <2>1 DEF Workers!queue_reply, Workers!history
  <2>3. pc'[t] # "running" /\ \A u \in Threads \ {t} : pc'[u] = pc[u]
    BY <1>0, <1>4 DEF Workers!queue_reply, Workers!TypeOK, Workers!Goto
  <2>4. job'[t] = NoItem /\ \A u \in Threads \ {t} : job'[u] = job[u] /\ job[u] # i
    BY <1>0, <1>4, <2>1 DEF Workers!TypeOK, Places, Workers!queue_reply
  <2>5. /\ ~IsRun(i)'
        /\ \A k \in Items \ {i} : IsRun(k)' <=> IsRun(k)
        /\ \A k \in Items : Workers!Queued(k)' <=> Workers!Queued(k)
    BY <1>0, <2>1, <2>2, <2>4 DEF IsRun, Workers!Queued
  <2>6. \A k \in Items : Answered(k)' <=> Answered(k) \/ k = i
    <3>1. \A k : Occurs(k, Append(answers, i)) <=> Occurs(k, answers) \/ k = i
      BY <1>0, <2>1, AppendOccurs DEF Workers!TypeOK
    <3>2. \A k : Occurs(k, answers)' <=> Occurs(k, Append(answers, i))
      BY <2>2 DEF Occurs
    <3> QED BY <3>1, <3>2 DEF Answered
  <2>7. /\ \A u \in Threads : pc'[u] = "running" <=> job'[u] # NoItem
        /\ \A u, v \in Threads : job'[u] = job'[v] /\ job'[u] # NoItem => u = v
    BY <1>0, <2>3, <2>4 DEF Places
  <2> QED BY <1>0, <2>1, <2>2, <2>5, <2>6, <2>7 DEF Places
<1>5. ASSUME Workers!replyqueue_process PROVE Places'
  <2>1. CASE answers = <<>>
    <3>1. /\ UNCHANGED <<answers, reply, pending, pc, job, finished, cancelled, asked>>
          /\ main' = "idle" /\ main = "process"
      BY <1>5, <2>1 DEF Workers!replyqueue_process, Workers!history
    <3> QED BY <1>0, <3>1 DEF Places, Workers!Queued, IsRun, Answered, Occurs
  <2>2. CASE answers # <<>>
    <3>0. PICK i \in Items : i = Head(answers)
      BY <1>0, <2>2, TailOccurs DEF Workers!TypeOK
    <3>1. /\ UNCHANGED <<pending, pc, job, finished, cancelled, asked>>
          /\ main' = "reply" /\ main = "process"
          /\ reply' = i /\ answers' = Tail(answers)
      BY <1>5, <2>2, <3>0 DEF Workers!replyqueue_process, Workers!history
    <3>2. /\ ~Occurs(i, Tail(answers))
          /\ \A k : Occurs(k, answers) <=> Occurs(k, Tail(answers)) \/ k = i
      BY <1>0, <2>2, <3>0, TailOccurs DEF Workers!TypeOK, Queues
    <3>3. \A k : Occurs(k, answers)' <=> Occurs(k, Tail(answers))
      BY <3>1 DEF Occurs
    <3>4. /\ Answered(i) /\ ~Answered(i)'
          /\ \A k \in Items \ {i} : Answered(k)' <=> Answered(k)
      BY <3>2, <3>3 DEF Answered
    <3>5. \A k \in Items : (Workers!Queued(k)' <=> Workers!Queued(k))
            /\ (IsRun(k)' <=> IsRun(k))
      BY <3>1 DEF Workers!Queued, IsRun
    <3>6. reply = NoItem
      BY <1>0, <3>1 DEF Places
    <3> QED BY <1>0, <3>1, <3>2, <3>4, <3>5, <3>6 DEF Places
  <2> QED BY <2>1, <2>2
<1>6. ASSUME Workers!ReplyReturns PROVE Places'
  <2>1. /\ UNCHANGED <<answers, pending, pc, job, cancelled, asked>>
        /\ main = "reply" /\ main' = "process"
        /\ finished' = finished \cup {reply} /\ reply' = NoItem
    BY <1>6 DEF Workers!ReplyReturns, Workers!queues
  <2>2. \A k \in Items : /\ (Workers!Queued(k)' <=> Workers!Queued(k))
                         /\ (IsRun(k)' <=> IsRun(k))
                         /\ (Answered(k)' <=> Answered(k)) /\ k # NoItem
    BY <2>1 DEF IsRun, Answered, Occurs, Workers!Queued
  <2>3. reply \in Items
    BY <1>0, <2>1 DEF Workers!TypeOK, Places
  <2> QED BY <1>0, <2>1, <2>2, <2>3 DEF Places
<1>7. ASSUME UNCHANGED <<pending, answers, job, reply, finished, cancelled, asked>>,
             main' = main \/ ("reply" # main /\ "reply" # main'),
             \A t \in Threads : pc[t] = "running" <=> pc'[t] = "running"
      PROVE  Places'
  BY <1>0, <1>7 DEF Places, Workers!Queued, IsRun, Answered, Occurs
<1>8. ASSUME Workers!threadpool_queue_update PROVE Places'
  <2>1. \A t \in Threads : pc[t] = "running" <=> pc'[t] = "running"
    <3>1. Workers!tor_cond_signal_all
      BY <1>8 DEF Workers!threadpool_queue_update
    <3> QED BY <1>0, <3>1, Signals DEF Workers!TypeOK
  <2> QED BY <1>7, <1>8, <2>1 DEF Workers!threadpool_queue_update, Workers!queues,
                                  Workers!history
<1>9. ASSUME Workers!FreeOldArgs \/ Workers!reply_event_cb PROVE Places'
  BY <1>7, <1>9 DEF Workers!FreeOldArgs, Workers!reply_event_cb, Workers!queues,
                    Workers!history
<1>10. ASSUME NEW t \in Threads,
              \/ Workers!UpdateStart(t) \/ Workers!CondWait(t) \/ Workers!SpuriousWakeup(t)
              \/ Workers!UpdateReturns(t) \/ Workers!WriteAlert(t)
       PROVE  Places'
  <2>1. UNCHANGED <<pending, answers, job, main, reply, finished, cancelled, asked>>
    BY <1>10 DEF Workers!UpdateStart, Workers!CondWait, Workers!SpuriousWakeup,
                 Workers!UpdateReturns, Workers!WriteAlert, Workers!queues,
                 Workers!history
  <2>2. \A u \in Threads : pc[u] = "running" <=> pc'[u] = "running"
    BY <1>0, <1>10 DEF Workers!TypeOK, Workers!UpdateStart, Workers!CondWait,
                       Workers!SpuriousWakeup, Workers!UpdateReturns,
                       Workers!WriteAlert, Workers!Goto
  <2> QED BY <1>7, <2>1, <2>2
<1>11. CASE UNCHANGED Workers!vars
  BY <1>7, <1>11 DEF Workers!vars, Workers!queues, Workers!history
<1> QED BY <1>1, <1>2, <1>3, <1>4, <1>5, <1>6, <1>8, <1>9, <1>10, <1>11
        DEF Workers!Next, Workers!MainStep, Workers!ThreadStep

-----------------------------------------------------------------------------
(* Update arguments.                                                       *)

(* Every step keeps the arguments where the generations say they are, and  *)
(* counts the ones that are freed.                                         *)
LEMMA ArgumentsStep ==
  ASSUME Workers!WorkqueueConstants, PoolInv, [Workers!Next]_Workers!vars
  PROVE  Arguments' /\ Workers!RunsWithUpdate'
<1> USE DEF Workers!WorkqueueConstants
<1>0. Workers!TypeOK /\ Places /\ Arguments /\ Workers!RunsWithUpdate
  BY DEF PoolInv
<1>t. /\ generation \in Nat /\ generation <= MaxUpdates
      /\ \A t \in Threads :
           /\ thread_gen[t] \in Nat /\ update_args[t] \in Nat /\ arg[t] \in Nat
           /\ old_args[t] \in Nat
           /\ \A g \in 1 .. MaxUpdates : freed[t][g] \in Nat
  BY <1>0 DEF Workers!TypeOK, Workers!Generations
<1>1. ASSUME UNCHANGED <<Workers!updates, asked>>, main' = main \/ main' # "free",
             main = "free" => main' = "free",
             \A t \in Threads : pc[t] = "updating" <=> pc'[t] = "updating"
      PROVE  Arguments'
  BY <1>0, <1>1 DEF Arguments, Workers!updates, Workers!Held, Workers!Queued
<1>2. ASSUME UNCHANGED <<thread_gen, asked, job>>,
             \A t \in Threads : pc'[t] = "running" => pc[t] = "running"
      PROVE  Workers!RunsWithUpdate'
  BY <1>0, <1>2 DEF Workers!RunsWithUpdate
<1>3. ASSUME NEW i \in Items, Workers!threadpool_queue_work_priority(i)
      PROVE  Arguments' /\ Workers!RunsWithUpdate'
  <2>1. /\ UNCHANGED <<Workers!updates, job, main>> /\ ~Workers!Queued(i)
        /\ asked' = [asked EXCEPT ![i] = generation]
        /\ Workers!tor_cond_signal_one
    BY <1>3 DEF Workers!threadpool_queue_work_priority
  <2>2. \A t \in Threads : /\ pc[t] = "updating" <=> pc'[t] = "updating"
                           /\ pc[t] = "running" <=> pc'[t] = "running"
    BY <1>0, <2>1, Signals DEF Workers!TypeOK
  <2>3. \A k \in Items : asked'[k] = IF k = i THEN generation ELSE asked[k]
    BY <1>0, <2>1 DEF Workers!TypeOK
  <2>4. Arguments'
    <3>1. \A k \in Items : Workers!Queued(k)' => asked'[k] <= generation'
      BY <1>0, <1>t, <2>1, <2>3 DEF Arguments, Workers!updates, Workers!Queued
    <3> QED BY <1>0, <2>1, <2>2, <3>1 DEF Arguments, Workers!updates, Workers!Held
  <2>5. \A t \in Threads : pc[t] = "running" => job[t] \in Items /\ job[t] # i
    BY <1>0, <2>1 DEF Workers!TypeOK, Places, IsRun
  <2> QED BY <1>0, <2>1, <2>2, <2>3, <2>4, <2>5
     DEF Workers!RunsWithUpdate, Workers!updates
<1>4. ASSUME NEW i \in Items, Workers!workqueue_entry_cancel(i)
      PROVE  Arguments' /\ Workers!RunsWithUpdate'
  BY <1>1, <1>2, <1>4 DEF Workers!workqueue_entry_cancel, Workers!updates
<1>5. ASSUME Workers!threadpool_queue_update
      PROVE  Arguments' /\ Workers!RunsWithUpdate'
  <2>1. /\ UNCHANGED <<job, arg, thread_gen, freed, asked>>
        /\ main = "idle" /\ main' = "free" /\ Workers!tor_cond_signal_all
        /\ generation < MaxUpdates /\ generation' = generation + 1
        /\ old_args' = update_args
        /\ \A t \in Threads : update_args'[t] = generation + 1
    BY <1>5 DEF Workers!threadpool_queue_update, Workers!history
  <2>2. \A t \in Threads : /\ pc[t] = "updating" <=> pc'[t] = "updating"
                           /\ pc[t] = "running" <=> pc'[t] = "running"
    BY <1>0, <2>1, Signals DEF Workers!TypeOK
  <2>3. ASSUME NEW t \in Threads, NEW g \in 1 .. MaxUpdates
        PROVE  Workers!Held(t, g)' = IF g <= generation' THEN 1 ELSE 0
    <3>1. /\ Workers!Held(t, g) = IF g <= generation THEN 1 ELSE 0
          /\ old_args[t] = 0 /\ update_args[t] \in {0, generation}
      BY <1>0, <2>1 DEF Arguments
    <3>2. Workers!Held(t, g)' = freed[t][g] + (IF generation + 1 = g THEN 1 ELSE 0)
                         + (IF arg[t] = g THEN 1 ELSE 0)
                         + (IF update_args[t] = g THEN 1 ELSE 0)
      BY <2>1 DEF Workers!Held
    <3>3. Workers!Held(t, g) = freed[t][g] + (IF update_args[t] = g THEN 1 ELSE 0)
                        + (IF arg[t] = g THEN 1 ELSE 0)
      BY <1>t, <3>1 DEF Workers!Held
    <3> QED BY <1>t, <2>1, <3>1, <3>2, <3>3
  <2>4. \A t \in Threads :
          /\ thread_gen'[t] <= generation'
          /\ update_args'[t] = IF thread_gen'[t] = generation' THEN 0 ELSE generation'
          /\ pc'[t] = "updating" <=> arg'[t] # 0
          /\ main' # "free" => old_args'[t] = 0
    BY <1>0, <1>t, <2>1, <2>2 DEF Arguments
  <2>5. \A i \in Items : Workers!Queued(i)' => asked'[i] <= generation'
    BY <1>0, <1>t, <2>1 DEF Arguments, Workers!Queued, Workers!TypeOK
  <2> QED BY <1>2, <2>1, <2>2, <2>3, <2>4, <2>5 DEF Arguments
<1>6. ASSUME Workers!FreeOldArgs PROVE Arguments' /\ Workers!RunsWithUpdate'
  <2>1. /\ UNCHANGED <<generation, update_args, arg, thread_gen, pc, job, asked>>
        /\ main = "free" /\ main' = "idle"
        /\ \A t \in Threads : old_args'[t] = 0
        /\ \A t \in Threads : \A g \in 1 .. MaxUpdates :
             freed'[t][g] = freed[t][g] + IF old_args[t] = g THEN 1 ELSE 0
    BY <1>6 DEF Workers!FreeOldArgs, Workers!history
  <2>2. ASSUME NEW t \in Threads, NEW g \in 1 .. MaxUpdates
        PROVE  Workers!Held(t, g)' = Workers!Held(t, g)
    BY <1>t, <2>1 DEF Workers!Held
  <2>3. Arguments'
    BY <1>0, <2>1, <2>2 DEF Arguments, Workers!Queued
  <2> QED BY <1>2, <2>1, <2>3
<1>7. ASSUME Workers!reply_event_cb \/ Workers!replyqueue_process \/ Workers!ReplyReturns
      PROVE  Arguments' /\ Workers!RunsWithUpdate'
  BY <1>1, <1>2, <1>7
  DEF Workers!reply_event_cb, Workers!replyqueue_process, Workers!ReplyReturns,
      Workers!updates, Workers!history
<1>8. ASSUME NEW t \in Threads, Workers!UpdateStart(t)
      PROVE  Arguments' /\ Workers!RunsWithUpdate'
  <2>1. /\ UNCHANGED <<generation, old_args, freed, job, main, asked>>
        /\ pc[t] = "loop" /\ thread_gen[t] # generation
        /\ arg'[t] = update_args[t] /\ update_args'[t] = 0
        /\ thread_gen'[t] = generation /\ pc'[t] = "updating"
        /\ \A u \in Threads \ {t} :
             /\ arg'[u] = arg[u] /\ update_args'[u] = update_args[u]
             /\ thread_gen'[u] = thread_gen[u] /\ pc'[u] = pc[u]
    BY <1>0, <1>8 DEF Workers!UpdateStart, Workers!history, Workers!TypeOK,
                      Workers!Goto
  <2>2. arg[t] = 0 /\ update_args[t] = generation /\ generation # 0
    BY <1>0, <1>t, <2>1 DEF Arguments
  <2>3. ASSUME NEW u \in Threads, NEW g \in 1 .. MaxUpdates
        PROVE  Workers!Held(u, g)' = Workers!Held(u, g)
    <3>1. CASE u = t
      BY <1>t, <2>1, <2>2, <3>1 DEF Workers!Held
    <3>2. CASE u # t
      BY <2>1, <3>2 DEF Workers!Held
    <3> QED BY <3>1, <3>2
  <2>4. ASSUME NEW u \in Threads
        PROVE  /\ thread_gen'[u] <= generation'
               /\ update_args'[u] = IF thread_gen'[u] = generation' THEN 0 ELSE generation'
               /\ pc'[u] = "updating" <=> arg'[u] # 0
               /\ main' # "free" => old_args'[u] = 0
    BY <1>0, <1>t, <2>1, <2>2 DEF Arguments
  <2>5. Arguments'
    BY <1>0, <2>1, <2>3, <2>4 DEF Arguments, Workers!Queued
  <2> QED BY <1>0, <2>1, <2>5 DEF Workers!RunsWithUpdate
<1>9. ASSUME NEW t \in Threads, Workers!worker_thread_extract_next_work(t)
      PROVE  Arguments' /\ Workers!RunsWithUpdate'
  <2>1. PICK i \in Items : i \in pending /\ job' = [job EXCEPT ![t] = i]
    BY <1>9, Extracts, Zenon
  <2>2. /\ UNCHANGED <<Workers!updates, main, asked>> /\ thread_gen[t] = generation
        /\ pc[t] = "loop" /\ pc'[t] = "running"
        /\ \A u \in Threads \ {t} : pc'[u] = pc[u]
    BY <1>0, <1>9 DEF Workers!worker_thread_extract_next_work, Workers!TypeOK,
                      Workers!Goto, Workers!history
  <2>3. asked[i] <= generation
    BY <1>0, <2>1 DEF Places, Arguments
  <2>4. job'[t] = i /\ \A u \in Threads \ {t} : job'[u] = job[u]
    BY <1>0, <2>1 DEF Workers!TypeOK
  <2>5. Workers!RunsWithUpdate'
    BY <1>0, <2>2, <2>3, <2>4 DEF Workers!RunsWithUpdate, Workers!updates
  <2> QED BY <1>1, <2>2, <2>5
<1>10. ASSUME NEW t \in Threads, Workers!UpdateReturns(t)
       PROVE  Arguments' /\ Workers!RunsWithUpdate'
  <2>1. /\ UNCHANGED <<generation, old_args, thread_gen, update_args, job, main, asked>>
        /\ pc[t] = "updating" /\ arg'[t] = 0 /\ pc'[t] \in {"loop", "exited"}
        /\ freed' = [freed EXCEPT ![t][arg[t]] = @ + 1]
        /\ \A u \in Threads \ {t} : arg'[u] = arg[u] /\ pc'[u] = pc[u]
    BY <1>0, <1>10 DEF Workers!UpdateReturns, Workers!history, Workers!TypeOK,
                       Workers!Goto
  <2>2. arg[t] \in 1 .. MaxUpdates
    BY <1>0, <2>1 DEF Arguments, Workers!TypeOK, Workers!Generations
  <2>3. /\ \A u \in Threads \ {t} : freed'[u] = freed[u]
        /\ \A g \in 1 .. MaxUpdates :
             freed'[t][g] = IF g = arg[t] THEN freed[t][g] + 1 ELSE freed[t][g]
    BY <1>0, <2>1, <2>2 DEF Workers!TypeOK
  <2>4. ASSUME NEW u \in Threads, NEW g \in 1 .. MaxUpdates
        PROVE  Workers!Held(u, g)' = Workers!Held(u, g)
    <3>1. CASE u = t
      BY <1>t, <2>1, <2>2, <2>3, <3>1 DEF Workers!Held
    <3>2. CASE u # t
      BY <2>1, <2>3, <3>2 DEF Workers!Held
    <3> QED BY <3>1, <3>2
  <2>5. Arguments'
    BY <1>0, <2>1, <2>4 DEF Arguments, Workers!Queued
  <2>6. \A u \in Threads : pc'[u] = "running" => pc[u] = "running"
    BY <2>1
  <2> QED BY <1>2, <2>1, <2>5, <2>6
<1>11. ASSUME NEW t \in Threads,
              Workers!CondWait(t) \/ Workers!SpuriousWakeup(t) \/ Workers!WriteAlert(t)
       PROVE  Arguments' /\ Workers!RunsWithUpdate'
  <2>1. UNCHANGED <<Workers!updates, main, asked, job, thread_gen>>
    BY <1>11 DEF Workers!CondWait, Workers!SpuriousWakeup, Workers!WriteAlert,
                 Workers!history, Workers!updates
  <2>2. \A u \in Threads : /\ pc[u] = "updating" <=> pc'[u] = "updating"
                           /\ pc'[u] = "running" => pc[u] = "running"
    BY <1>0, <1>11 DEF Workers!TypeOK, Workers!CondWait, Workers!SpuriousWakeup,
                       Workers!WriteAlert, Workers!Goto
  <2> QED BY <1>1, <1>2, <2>1, <2>2
<1>12. ASSUME NEW t \in Threads, Workers!queue_reply(t)
       PROVE  Arguments' /\ Workers!RunsWithUpdate'
  <2>1. /\ UNCHANGED <<Workers!updates, main, asked>> /\ pc[t] = "running"
        /\ \A u \in Threads \ {t} : job'[u] = job[u]
    BY <1>0, <1>12 DEF Workers!queue_reply, Workers!history, Workers!TypeOK
  <2>2. /\ pc'[t] \notin {"running", "updating"}
        /\ \A u \in Threads \ {t} : pc'[u] = pc[u]
    BY <1>0, <1>12 DEF Workers!TypeOK, Workers!queue_reply, Workers!Goto
  <2>3. Workers!RunsWithUpdate'
    BY <1>0, <2>1, <2>2 DEF Workers!RunsWithUpdate, Workers!updates
  <2> QED BY <1>1, <2>1, <2>2, <2>3
<1>13. CASE UNCHANGED Workers!vars
  BY <1>1, <1>2, <1>13 DEF Workers!vars, Workers!history, Workers!updates
<1> QED BY <1>3, <1>4, <1>5, <1>6, <1>7, <1>8, <1>9, <1>10, <1>11, <1>12, <1>13
        DEF Workers!Next, Workers!MainStep, Workers!ThreadStep

-----------------------------------------------------------------------------
(* Wakeups and alerts.                                                     *)

(* Threads that are ready stay ready, unless they take an item.            *)
LEMMA ReadyGrows ==
  ASSUME Workers!WorkqueueConstants,
         \A t \in Threads : t \in Ready => pc'[t] = "loop" /\ thread_gen'[t] = thread_gen[t],
         generation' = generation
  PROVE  /\ IsFiniteSet(Ready) /\ IsFiniteSet(Ready')
         /\ Cardinality(Ready) \in Nat /\ Cardinality(Ready') \in Nat
         /\ Cardinality(Ready) <= Cardinality(Ready')
<1>1. Ready \subseteq Ready' /\ Ready' \subseteq Threads
  BY DEF Ready
<1>2. IsFiniteSet(Ready')
  BY <1>1, ThreadsAreFinite, FS_Subset
<1> QED BY <1>1, <1>2, FS_Subset, FS_CardinalityType

(* Every step keeps a ready thread for every item while a thread sleeps: a *)
(* new item wakes one, an update wakes all, and a thread goes to sleep     *)
(* only when there is nothing to do.                                       *)
LEMMA WakeupsStep ==
  ASSUME Workers!WorkqueueConstants, PoolInv, [Workers!Next]_Workers!vars
  PROVE  Wakeups'
<1> USE DEF Workers!WorkqueueConstants
<1>0. Workers!TypeOK /\ Queues /\ Places /\ Arguments /\ Wakeups
  BY DEF PoolInv
<1>c. IsFiniteSet(pending) /\ Cardinality(pending) \in Nat
  BY <1>0, FS_CardinalityType DEF Queues
<1>r. IsFiniteSet(Ready) /\ Cardinality(Ready) \in Nat
  <2>1. Ready \subseteq Threads
    BY DEF Ready
  <2> QED BY <2>1, ThreadsAreFinite, FS_Subset, FS_CardinalityType
<1>1. ASSUME UNCHANGED <<pending, generation>>, NEW t \in Threads,
             pc[t] # "loop", pc'[t] # "waiting",
             thread_gen' = thread_gen, \A u \in Threads \ {t} : pc'[u] = pc[u]
      PROVE  Wakeups'
  <2>1. Workers!Waiting' \subseteq Workers!Waiting
    BY <1>1 DEF Workers!Waiting
  <2>2. \A u \in Threads : u \in Ready => pc'[u] = "loop" /\ thread_gen'[u] = thread_gen[u]
    BY <1>1 DEF Ready
  <2>3. Cardinality(Ready) <= Cardinality(Ready') /\ Cardinality(Ready') \in Nat
    BY <1>1, <2>2, ReadyGrows
  <2> QED BY <1>0, <1>1, <1>c, <1>r, <2>1, <2>3 DEF Wakeups
<1>2. ASSUME UNCHANGED <<pending, generation, pc, thread_gen>> PROVE Wakeups'
  BY <1>0, <1>2 DEF Wakeups, Workers!Waiting, Ready
<1>3. ASSUME NEW i \in Items, Workers!threadpool_queue_work_priority(i) PROVE Wakeups'
  <2>1. /\ pending' = pending \cup {i} /\ UNCHANGED <<generation, thread_gen>>
        /\ Workers!tor_cond_signal_one
    BY <1>3 DEF Workers!threadpool_queue_work_priority, Workers!updates
  <2>2. CASE Workers!Waiting = {} /\ pc' = pc
    BY <2>1, <2>2 DEF Wakeups, Workers!Waiting
  <2>3. ASSUME NEW t \in Workers!Waiting, pc' = [pc EXCEPT ![t] = "loop"]
        PROVE  Wakeups'
    <3>1. /\ t \in Threads /\ pc[t] = "waiting" /\ pc'[t] = "loop"
          /\ \A u \in Threads \ {t} : pc'[u] = pc[u]
      BY <1>0, <2>3 DEF Workers!TypeOK, Workers!Waiting
    <3>2. thread_gen[t] = generation
      BY <1>0, <2>3 DEF Wakeups
    <3>3. Ready' = Ready \cup {t} /\ t \notin Ready
      BY <2>1, <3>1, <3>2 DEF Ready
    <3>4. Cardinality(Ready') = Cardinality(Ready) + 1
      BY <1>r, <3>3, FS_AddElement
    <3>5. Cardinality(pending') <= Cardinality(pending) + 1
      <4>1. Cardinality(pending') = IF i \in pending THEN Cardinality(pending)
                                    ELSE Cardinality(pending) + 1
        BY <1>c, <2>1, FS_AddElement
      <4> QED BY <1>c, <4>1
    <3>6. Workers!Waiting' \subseteq Workers!Waiting /\ Workers!Waiting # {}
      BY <2>3, <3>1 DEF Workers!Waiting
    <3>7. Cardinality(pending) <= Cardinality(Ready)
      BY <1>0, <3>6 DEF Wakeups
    <3>8. Cardinality(pending') \in Nat
      <4>1. IsFiniteSet(pending')
        BY <1>c, <2>1, FS_AddElement
      <4> QED BY <4>1, FS_CardinalityType
    <3>9. Cardinality(pending') <= Cardinality(Ready')
      BY <1>c, <1>r, <3>4, <3>5, <3>7, <3>8
    <3> QED BY <1>0, <2>1, <3>6, <3>9 DEF Wakeups
  <2> QED BY <2>1, <2>2, <2>3 DEF Workers!tor_cond_signal_one
<1>4. ASSUME NEW i \in Items, Workers!workqueue_entry_cancel(i) PROVE Wakeups'
  <2>1. UNCHANGED <<pc, generation, thread_gen>> /\ pending' = pending \ {i}
    BY <1>4 DEF Workers!workqueue_entry_cancel, Workers!updates
  <2>2. Cardinality(pending') <= Cardinality(pending) /\ Cardinality(pending') \in Nat
    <3>1. pending' \subseteq pending
      BY <2>1
    <3> QED BY <1>c, <3>1, ThreadsAreFinite, FS_Subset, FS_CardinalityType
  <2>3. Workers!Waiting' = Workers!Waiting /\ Ready' = Ready
    BY <2>1 DEF Workers!Waiting, Ready
  <2> QED BY <1>0, <1>c, <1>r, <2>1, <2>2, <2>3 DEF Wakeups
<1>5. ASSUME Workers!threadpool_queue_update PROVE Wakeups'
  <2>1. \A t \in Threads : pc'[t] # "waiting"
    BY <1>0, <1>5, Signals DEF Workers!TypeOK, Workers!threadpool_queue_update
  <2>2. Workers!Waiting' = {}
    BY <2>1 DEF Workers!Waiting
  <2> QED BY <2>2 DEF Wakeups
<1>6. ASSUME \/ Workers!FreeOldArgs \/ Workers!reply_event_cb
             \/ Workers!replyqueue_process \/ Workers!ReplyReturns
      PROVE  Wakeups'
  BY <1>2, <1>6 DEF Workers!FreeOldArgs, Workers!reply_event_cb,
                    Workers!replyqueue_process, Workers!ReplyReturns, Workers!queues,
                    Workers!updates
<1>7. ASSUME NEW t \in Threads, Workers!UpdateStart(t) PROVE Wakeups'
  <2>1. /\ UNCHANGED <<pending, generation>> /\ pc[t] = "loop" /\ pc'[t] = "updating"
        /\ thread_gen[t] # generation
        /\ \A u \in Threads \ {t} : pc'[u] = pc[u] /\ thread_gen'[u] = thread_gen[u]
    BY <1>0, <1>7 DEF Workers!UpdateStart, Workers!queues, Workers!TypeOK,
                      Workers!Goto
  <2>2. Ready' = Ready /\ Workers!Waiting' = Workers!Waiting /\ t \notin Workers!Waiting
    BY <2>1 DEF Ready, Workers!Waiting
  <2>3. \A u \in Workers!Waiting : thread_gen'[u] = thread_gen[u]
    BY <2>1, <2>2 DEF Workers!Waiting
  <2> QED BY <1>0, <2>1, <2>2, <2>3 DEF Wakeups
<1>8. ASSUME NEW t \in Threads, Workers!worker_thread_extract_next_work(t)
      PROVE  Wakeups'
  <2>1. PICK i \in Items : i \in pending /\ pending' = pending \ {i}
    BY <1>8, Extracts, Zenon
  <2>2. /\ UNCHANGED <<generation, thread_gen>> /\ thread_gen[t] = generation
        /\ pc[t] = "loop" /\ pc'[t] = "running"
        /\ \A u \in Threads \ {t} : pc'[u] = pc[u]
    BY <1>0, <1>8 DEF Workers!worker_thread_extract_next_work, Workers!updates,
                      Workers!TypeOK, Workers!Goto
  <2>3. Ready' = Ready \ {t} /\ t \in Ready /\ Workers!Waiting' = Workers!Waiting
    BY <2>2 DEF Ready, Workers!Waiting
  <2>4. /\ Cardinality(Ready') = Cardinality(Ready) - 1
        /\ Cardinality(pending') = Cardinality(pending) - 1
    BY <1>c, <1>r, <2>1, <2>3, FS_RemoveElement
  <2> QED BY <1>0, <1>c, <1>r, <2>2, <2>3, <2>4 DEF Wakeups
<1>9. ASSUME NEW t \in Threads, Workers!CondWait(t) PROVE Wakeups'
  <2>1. /\ UNCHANGED <<pending, generation, thread_gen>>
        /\ \A p \in Workers!Priorities : work[p] = <<>>
        /\ thread_gen[t] = generation
        /\ pc' = [pc EXCEPT ![t] = "waiting"]
    BY <1>9 DEF Workers!CondWait, Workers!queues, Workers!updates,
                Workers!worker_thread_has_work, Workers!Goto
  <2>2. pending = {}
    <3>1. ASSUME NEW i \in pending PROVE FALSE
      <4>1. i \in Items /\ Occurs(i, work[Priority[i]]) /\ Priority[i] \in Workers!Priorities
        <5>1. i \in Items /\ Priority[i] \in Workers!Priorities
          BY <1>0 DEF Workers!TypeOK
        <5> QED BY <1>0, <5>1 DEF Queues
      <4>2. work[Priority[i]] = <<>>
        BY <2>1, <4>1
      <4> QED BY <4>1, <4>2 DEF Occurs
    <3> QED BY <3>1
  <2>3. Cardinality(pending') = 0
    BY <2>1, <2>2, FS_EmptySet
  <2>4. Cardinality(Ready') \in Nat
    <3>1. Ready' \subseteq Threads
      BY DEF Ready
    <3> QED BY <3>1, ThreadsAreFinite, FS_Subset, FS_CardinalityType
  <2>5. \A u \in Workers!Waiting' : u = t \/ u \in Workers!Waiting
    BY <1>0, <2>1 DEF Workers!TypeOK, Workers!Waiting
  <2> QED BY <1>0, <2>1, <2>3, <2>4, <2>5 DEF Wakeups
<1>10. ASSUME NEW t \in Threads,
              \/ Workers!SpuriousWakeup(t) \/ Workers!UpdateReturns(t) \/ Workers!queue_reply(t)
                                 \/ Workers!WriteAlert(t)
       PROVE  Wakeups'
  <2>1. UNCHANGED <<pending, generation, thread_gen>>
    BY <1>10 DEF Workers!SpuriousWakeup, Workers!UpdateReturns, Workers!queue_reply,
                 Workers!WriteAlert, Workers!queues, Workers!updates
  <2>2. /\ pc[t] # "loop" /\ pc'[t] # "waiting"
        /\ \A u \in Threads \ {t} : pc'[u] = pc[u]
    BY <1>0, <1>10 DEF Workers!SpuriousWakeup, Workers!UpdateReturns,
                       Workers!queue_reply, Workers!WriteAlert, Workers!TypeOK,
                       Workers!Goto
  <2> QED BY <1>1, <2>1, <2>2
<1>11. CASE UNCHANGED Workers!vars
  BY <1>2, <1>11 DEF Workers!vars, Workers!queues, Workers!updates
<1> QED BY <1>3, <1>4, <1>5, <1>6, <1>7, <1>8, <1>9, <1>10, <1>11
        DEF Workers!Next, Workers!MainStep, Workers!ThreadStep

(* Every step keeps someone who will look at the reply queue.              *)
LEMMA AlertStep ==
  ASSUME Workers!WorkqueueConstants, PoolInv, [Workers!Next]_Workers!vars
  PROVE  Workers!NoLostAlert'
<1>0. Workers!TypeOK /\ Workers!NoLostAlert
  BY DEF PoolInv
<1>1. ASSUME answers' = answers, alert' = alert,
             main' = main \/ main \notin {"process", "reply"},
             \A t \in Threads : pc[t] \in {"alerting", "stopping"} => pc'[t] = pc[t]
      PROVE  Workers!NoLostAlert'
  BY <1>0, <1>1 DEF Workers!NoLostAlert
<1>2. ASSUME NEW i \in Items,
             Workers!threadpool_queue_work_priority(i) \/ Workers!workqueue_entry_cancel(i)
      PROVE  Workers!NoLostAlert'
  <2>1. UNCHANGED <<answers, alert, main>>
    BY <1>2 DEF Workers!threadpool_queue_work_priority, Workers!workqueue_entry_cancel
  <2>2. Workers!tor_cond_signal_one \/ pc' = pc
    BY <1>2 DEF Workers!threadpool_queue_work_priority, Workers!workqueue_entry_cancel
  <2>3. \A t \in Threads : pc[t] \in {"alerting", "stopping"} => pc'[t] = pc[t]
    BY <1>0, <2>2, Signals DEF Workers!TypeOK
  <2> QED BY <1>1, <2>1, <2>3
<1>3. ASSUME Workers!threadpool_queue_update PROVE Workers!NoLostAlert'
  <2>1. \A t \in Threads : pc[t] \in {"alerting", "stopping"} => pc'[t] = pc[t]
    BY <1>0, <1>3, Signals DEF Workers!TypeOK, Workers!threadpool_queue_update
  <2> QED BY <1>1, <1>3, <2>1 DEF Workers!threadpool_queue_update, Workers!queues
<1>4. ASSUME Workers!FreeOldArgs PROVE Workers!NoLostAlert'
  BY <1>1, <1>4 DEF Workers!FreeOldArgs, Workers!queues
<1>5. ASSUME Workers!reply_event_cb \/ Workers!ReplyReturns PROVE Workers!NoLostAlert'
  BY <1>5 DEF Workers!reply_event_cb, Workers!ReplyReturns, Workers!NoLostAlert
<1>6. ASSUME Workers!replyqueue_process PROVE Workers!NoLostAlert'
  BY <1>6 DEF Workers!replyqueue_process, Workers!NoLostAlert
<1>7. ASSUME NEW t \in Threads,
             \/ Workers!UpdateStart(t) \/ Workers!worker_thread_extract_next_work(t)
             \/ Workers!CondWait(t)
             \/ Workers!SpuriousWakeup(t) \/ Workers!UpdateReturns(t)
      PROVE  Workers!NoLostAlert'
  <2>1. UNCHANGED <<answers, alert, main>>
    BY <1>7 DEF Workers!UpdateStart, Workers!worker_thread_extract_next_work,
                Workers!CondWait, Workers!SpuriousWakeup, Workers!UpdateReturns,
                Workers!queues
  <2>2. \A u \in Threads : pc[u] \in {"alerting", "stopping"} => pc'[u] = pc[u]
    BY <1>0, <1>7 DEF Workers!UpdateStart, Workers!worker_thread_extract_next_work,
                      Workers!CondWait, Workers!SpuriousWakeup, Workers!UpdateReturns,
                      Workers!TypeOK, Workers!Goto
  <2> QED BY <1>1, <2>1, <2>2
<1>8. ASSUME NEW t \in Threads, Workers!queue_reply(t) PROVE Workers!NoLostAlert'
  <2>1. /\ alert' = alert /\ main' = main /\ pc[t] = "running"
        /\ answers = <<>> => pc'[t] \in {"alerting", "stopping"}
        /\ \A u \in Threads \ {t} : pc'[u] = pc[u]
    BY <1>0, <1>8 DEF Workers!queue_reply, Workers!TypeOK, Workers!Goto
  <2> QED BY <1>0, <2>1 DEF Workers!NoLostAlert
<1>9. ASSUME NEW t \in Threads, Workers!WriteAlert(t) PROVE Workers!NoLostAlert'
  BY <1>9 DEF Workers!WriteAlert, Workers!NoLostAlert
<1>10. CASE UNCHANGED Workers!vars
  BY <1>1, <1>10 DEF Workers!vars, Workers!queues
<1> QED BY <1>2, <1>3, <1>4, <1>5, <1>6, <1>7, <1>8, <1>9, <1>10
        DEF Workers!Next, Workers!MainStep, Workers!ThreadStep

-----------------------------------------------------------------------------
(* The invariants.                                                         *)

(* The empty pool satisfies the invariant.                                 *)
LEMMA PoolInit ==
  ASSUME Workers!WorkqueueConstants, Workers!Init
  PROVE  PoolInv
<1> USE DEF Workers!WorkqueueConstants, Workers!Init
<1>1. Workers!TypeOK
  <2>1. /\ work \in [Workers!Priorities -> Seq(Items)] /\ answers \in Seq(Items)
        /\ pc \in [Threads -> Workers!ThreadStates]
    BY DEF Workers!ThreadStates
  <2>2. /\ asked \in [Items -> Nat]
        /\ freed \in [Threads -> [1 .. MaxUpdates -> Nat]]
    OBVIOUS
  <2>3. 0 \in Workers!Generations
    BY DEF Workers!Generations
  <2>4. /\ update_args \in [Threads -> Workers!Generations]
        /\ arg \in [Threads -> Workers!Generations]
        /\ thread_gen \in [Threads -> Workers!Generations]
        /\ old_args \in [Threads -> Workers!Generations]
        /\ job \in [Threads -> Items \cup {NoItem}]
    BY <2>3
  <2> QED BY <2>1, <2>2, <2>3, <2>4 DEF Workers!TypeOK
<1>2. Queues
  <2>1. IsFiniteSet(pending)
    BY FS_EmptySet
  <2> QED BY <2>1 DEF Queues, NoRepeats, Occurs
<1>3. Places
  BY DEF Places, IsRun, Answered, Occurs, Workers!Queued
<1>4. Arguments
  <2>1. \A t \in Threads : \A g \in 1 .. MaxUpdates : Workers!Held(t, g) = 0
    BY DEF Workers!Held
  <2> QED BY <2>1 DEF Arguments, Workers!Queued
<1>5. Wakeups /\ Workers!NoLostAlert /\ Workers!RunsWithUpdate
  BY DEF Wakeups, Workers!Waiting, Workers!NoLostAlert, Workers!RunsWithUpdate
<1> QED BY <1>1, <1>2, <1>3, <1>4, <1>5 DEF PoolInv

(* Every step of the pool keeps the invariant.                             *)
LEMMA PoolStep ==
  ASSUME Workers!WorkqueueConstants, PoolInv, [Workers!Next]_Workers!vars
  PROVE  PoolInv'
BY TypeStep, QueuesStep, PlacesStep, ArgumentsStep, WakeupsStep, AlertStep DEF PoolInv

(* In every reachable state an item is in one place, an argument has one   *)
(* owner, and no wakeup and no alert is lost.                              *)
THEOREM PoolInvariance ==
  ASSUME Workers!WorkqueueConstants
  PROVE  Workers!Spec => []PoolInv
<1>1. Workers!Init => PoolInv
  BY PoolInit
<1>2. PoolInv /\ [Workers!Next]_Workers!vars => PoolInv'
  BY PoolStep
<1> QED BY <1>1, <1>2, PTL DEF Workers!Spec

(* While there is work and a thread is alive, a thread is awake.           *)
LEMMA SomeoneIsAwake ==
  ASSUME Workers!WorkqueueConstants, PoolInv
  PROVE  Workers!NoLostWakeup
<1>0. Workers!TypeOK /\ Queues /\ Wakeups
  BY DEF PoolInv
<1>1. ASSUME NEW p \in Workers!Priorities, work[p] # <<>>, Workers!Live # {}
      PROVE  Workers!Live \ Workers!Waiting # {}
  <2>1. CASE Workers!Waiting = {}
    BY <1>1, <2>1
  <2>2. CASE Workers!Waiting # {}
    <3>1. Head(work[p]) \in Items /\ Occurs(Head(work[p]), work[p])
      BY <1>0, <1>1, TailOccurs DEF Workers!TypeOK
    <3>2. pending # {} /\ IsFiniteSet(pending)
      BY <1>0, <3>1 DEF Queues
    <3>3. Cardinality(pending) \in Nat /\ Cardinality(pending) # 0
      BY <3>2, FS_EmptySet, FS_CardinalityType
    <3>4. Ready # {}
      <4>1. Cardinality(pending) <= Cardinality(Ready)
        BY <1>0, <2>2 DEF Wakeups
      <4> QED BY <3>3, <4>1, FS_EmptySet
    <3>5. Ready \subseteq Workers!Live \ Workers!Waiting
      BY DEF Ready, Workers!Live, Workers!Waiting
    <3> QED BY <3>4, <3>5
  <2> QED BY <2>1, <2>2
<1>2. \A t \in Workers!Waiting : thread_gen[t] = generation
  BY <1>0 DEF Wakeups
<1> QED BY <1>1, <1>2 DEF Workers!NoLostWakeup

-----------------------------------------------------------------------------
(* The pool is a WorkPool.                                                 *)

(* The place an item is in is its stage.                                   *)
LEMMA StageOf ==
  ASSUME PoolInv, PoolInv', NEW i \in Items
  PROVE  /\ Workers!Stage[i] = IF i \in cancelled THEN "cancelled"
                       ELSE IF i \in finished THEN "replied"
                       ELSE IF i = reply \/ Answered(i) THEN "answered"
                       ELSE IF IsRun(i) THEN "running"
                       ELSE IF i \in pending THEN "pending" ELSE "new"
         /\ Workers!Stage'[i] = IF i \in cancelled' THEN "cancelled"
                        ELSE IF i \in finished' THEN "replied"
                        ELSE IF i = reply' \/ Answered(i)' THEN "answered"
                        ELSE IF IsRun(i)' THEN "running"
                        ELSE IF i \in pending' THEN "pending" ELSE "new"
BY DEF Workers!Stage, Answered, IsRun, Occurs

(* A change of one stage is a step of the WorkPool.                        *)
LEMMA StageMoves ==
  ASSUME NEW i \in Items, NEW from, NEW to, Workers!Stage[i] = from,
         \A k \in Items : Workers!Stage'[k] = IF k = i THEN to ELSE Workers!Stage[k]
  PROVE  Workers!Pool!Move(i, from, to)
<1>1. Workers!Stage' = [Workers!Stage EXCEPT ![i] = to]
  BY ZenonT(60) DEF Workers!Stage
<1> QED BY <1>1 DEF Workers!Pool!Move

(* Every step of the pool moves one item to its next stage, or none.       *)
LEMMA StepRefines ==
  ASSUME Workers!WorkqueueConstants, PoolInv, PoolInv', [Workers!Next]_Workers!vars
  PROVE  [Workers!Pool!Next]_Workers!Stage
<1> USE DEF Workers!WorkqueueConstants
<1>0. Workers!TypeOK /\ Queues /\ Places
  BY DEF PoolInv
<1>1. ASSUME UNCHANGED <<pending, answers, job, reply, finished, cancelled>>
      PROVE  Workers!Stage' = Workers!Stage
  BY <1>1 DEF Workers!Stage
<1>2. ASSUME NEW i \in Items, Workers!threadpool_queue_work_priority(i)
      PROVE  Workers!Pool!Queue(i)
  <2>1. /\ UNCHANGED <<job, reply, answers, finished, cancelled>>
        /\ pending' = pending \cup {i} /\ ~Workers!Queued(i)
    BY <1>2 DEF Workers!threadpool_queue_work_priority
  <2>2. /\ i \notin pending /\ ~IsRun(i) /\ ~Answered(i) /\ i # reply
        /\ i \notin finished /\ i \notin cancelled
    BY <1>0, <2>1 DEF Places
  <2>3. \A k \in Items : (IsRun(k)' <=> IsRun(k)) /\ (Answered(k)' <=> Answered(k))
    BY <2>1 DEF IsRun, Answered, Occurs
  <2>4. /\ Workers!Stage[i] = "new"
        /\ \A k \in Items : Workers!Stage'[k] = IF k = i THEN "pending" ELSE Workers!Stage[k]
    BY <2>1, <2>2, <2>3, StageOf
  <2> QED BY <2>4, StageMoves DEF Workers!Pool!Queue
<1>3. ASSUME NEW i \in Items, Workers!workqueue_entry_cancel(i)
      PROVE  Workers!Pool!Cancel(i)
  <2>1. /\ UNCHANGED <<job, reply, answers, finished>> /\ i \in pending
        /\ pending' = pending \ {i} /\ cancelled' = cancelled \cup {i}
    BY <1>3 DEF Workers!workqueue_entry_cancel
  <2>2. ~IsRun(i) /\ ~Answered(i) /\ i # reply /\ i \notin finished /\ i \notin cancelled
    BY <1>0, <2>1 DEF Places
  <2>3. \A k \in Items : (IsRun(k)' <=> IsRun(k)) /\ (Answered(k)' <=> Answered(k))
    BY <2>1 DEF IsRun, Answered, Occurs
  <2>4. /\ Workers!Stage[i] = "pending"
        /\ \A k \in Items : Workers!Stage'[k] = IF k = i THEN "cancelled" ELSE Workers!Stage[k]
    BY <2>1, <2>2, <2>3, StageOf
  <2> QED BY <2>4, StageMoves DEF Workers!Pool!Cancel
<1>4. ASSUME NEW t \in Threads, Workers!worker_thread_extract_next_work(t)
      PROVE  \E i \in Items : Workers!Pool!Start(i)
  <2>1. PICK i \in Items : i \in pending /\ pending' = pending \ {i}
                           /\ job' = [job EXCEPT ![t] = i]
    BY <1>4, Extracts, Zenon
  <2>2. UNCHANGED <<reply, answers, finished, cancelled>> /\ pc[t] = "loop"
    BY <1>4 DEF Workers!worker_thread_extract_next_work, Workers!history
  <2>3. ~IsRun(i) /\ ~Answered(i) /\ i # reply /\ i \notin finished /\ i \notin cancelled
    BY <1>0, <2>1 DEF Places
  <2>4. /\ job[t] = NoItem /\ job'[t] = i /\ i # NoItem
        /\ \A u \in Threads \ {t} : job'[u] = job[u]
    BY <1>0, <2>1, <2>2 DEF Workers!TypeOK, Places
  <2>5. /\ IsRun(i)' /\ \A k \in Items \ {i} : IsRun(k)' <=> IsRun(k)
        /\ \A k \in Items : Answered(k)' <=> Answered(k)
    BY <2>2, <2>4 DEF IsRun, Answered, Occurs
  <2>6. /\ Workers!Stage[i] = "pending"
        /\ \A k \in Items : Workers!Stage'[k] = IF k = i THEN "running" ELSE Workers!Stage[k]
    BY <2>1, <2>2, <2>3, <2>5, StageOf
  <2> QED BY <2>6, StageMoves DEF Workers!Pool!Start
<1>5. ASSUME NEW t \in Threads, Workers!queue_reply(t)
      PROVE  \E i \in Items : Workers!Pool!Finish(i)
  <2>1. PICK i \in Items : i = job[t]
    BY <1>0, <1>5 DEF Workers!TypeOK, Places, Workers!queue_reply
  <2>2. /\ UNCHANGED <<reply, pending, finished, cancelled>>
        /\ answers' = Append(answers, i)
    BY <1>5, <2>1 DEF Workers!queue_reply, Workers!history
  <2>3. IsRun(i)
    BY <2>1 DEF IsRun
  <2>4. ~Answered(i) /\ i # reply /\ i \notin finished /\ i \notin cancelled
    BY <1>0, <2>3 DEF Places
  <2>5. job'[t] = NoItem /\ \A u \in Threads \ {t} : job'[u] = job[u] /\ job[u] # i
    BY <1>0, <1>5, <2>1 DEF Workers!TypeOK, Places, Workers!queue_reply
  <2>6. \A k \in Items \ {i} : IsRun(k)' <=> IsRun(k)
    BY <2>1, <2>5 DEF IsRun
  <2>7. \A k \in Items : Answered(k)' <=> Answered(k) \/ k = i
    <3>1. \A k : Occurs(k, Append(answers, i)) <=> Occurs(k, answers) \/ k = i
      BY <1>0, AppendOccurs DEF Workers!TypeOK
    <3>2. \A k : Occurs(k, answers)' <=> Occurs(k, Append(answers, i))
      BY <2>2 DEF Occurs
    <3> QED BY <3>1, <3>2 DEF Answered
  <2>8. /\ Workers!Stage[i] = "running"
        /\ \A k \in Items : Workers!Stage'[k] = IF k = i THEN "answered" ELSE Workers!Stage[k]
    BY <2>2, <2>3, <2>4, <2>6, <2>7, StageOf
  <2> QED BY <2>8, StageMoves DEF Workers!Pool!Finish
<1>6. ASSUME Workers!replyqueue_process PROVE Workers!Stage' = Workers!Stage
  <2>1. CASE answers = <<>>
    BY <1>1, <1>6, <2>1 DEF Workers!replyqueue_process, Workers!history
  <2>2. CASE answers # <<>>
    <3>1. PICK i \in Items : i = Head(answers)
      BY <1>0, <2>2, TailOccurs DEF Workers!TypeOK
    <3>2. /\ UNCHANGED <<pending, job, finished, cancelled>>
          /\ main = "process" /\ reply' = i /\ answers' = Tail(answers)
      BY <1>6, <2>2, <3>1 DEF Workers!replyqueue_process, Workers!history
    <3>3. \A k : Occurs(k, answers) <=> Occurs(k, Tail(answers)) \/ k = i
      BY <1>0, <2>2, <3>1, TailOccurs DEF Workers!TypeOK
    <3>4. \A k : Occurs(k, answers)' <=> Occurs(k, Tail(answers))
      BY <3>2 DEF Occurs
    <3>5. \A k \in Items : /\ (k = reply' \/ Answered(k)') <=> (k = reply \/ Answered(k))
                           /\ IsRun(k)' <=> IsRun(k)
      <4>1. \A k \in Items : k # reply
        BY <1>0, <3>2 DEF Places
      <4> QED BY <3>2, <3>3, <3>4, <4>1 DEF Answered, IsRun
    <3>6. \A k \in Items : Workers!Stage'[k] = Workers!Stage[k]
      BY <3>2, <3>5, StageOf
    <3> QED BY <3>6 DEF Workers!Stage
  <2> QED BY <2>1, <2>2
<1>7. ASSUME Workers!ReplyReturns PROVE \E i \in Items : Workers!Pool!Reply(i)
  <2>1. PICK i \in Items : i = reply
    BY <1>0, <1>7 DEF Workers!TypeOK, Places, Workers!ReplyReturns
  <2>2. /\ UNCHANGED <<answers, pending, job, cancelled>>
        /\ finished' = finished \cup {i} /\ reply' = NoItem
    BY <1>7, <2>1 DEF Workers!ReplyReturns, Workers!queues
  <2>3. i \notin finished /\ i \notin cancelled
    BY <1>0, <2>1 DEF Places
  <2>4. \A k \in Items : /\ (IsRun(k)' <=> IsRun(k)) /\ (Answered(k)' <=> Answered(k))
                         /\ k # NoItem
    BY <2>2 DEF IsRun, Answered, Occurs
  <2>5. /\ Workers!Stage[i] = "answered"
        /\ \A k \in Items : Workers!Stage'[k] = IF k = i THEN "replied" ELSE Workers!Stage[k]
    BY <2>1, <2>2, <2>3, <2>4, StageOf
  <2> QED BY <2>5, StageMoves DEF Workers!Pool!Reply
<1>8. ASSUME Workers!threadpool_queue_update \/ Workers!FreeOldArgs \/ Workers!reply_event_cb
      PROVE  Workers!Stage' = Workers!Stage
  BY <1>1, <1>8 DEF Workers!threadpool_queue_update, Workers!FreeOldArgs,
                    Workers!reply_event_cb, Workers!queues, Workers!history
<1>9. ASSUME NEW t \in Threads,
             \/ Workers!UpdateStart(t) \/ Workers!CondWait(t) \/ Workers!SpuriousWakeup(t)
             \/ Workers!UpdateReturns(t) \/ Workers!WriteAlert(t)
      PROVE  Workers!Stage' = Workers!Stage
  BY <1>1, <1>9 DEF Workers!UpdateStart, Workers!CondWait, Workers!SpuriousWakeup,
                    Workers!UpdateReturns, Workers!WriteAlert, Workers!queues,
                    Workers!history
<1>10. CASE UNCHANGED Workers!vars
  BY <1>1, <1>10 DEF Workers!vars, Workers!queues, Workers!history
<1>11. CASE Workers!Stage' = Workers!Stage
  BY <1>11
<1>12. CASE \E i \in Items : \/ Workers!Pool!Queue(i) \/ Workers!Pool!Start(i) \/ Workers!Pool!Finish(i)
                             \/ Workers!Pool!Reply(i) \/ Workers!Pool!Cancel(i)
  BY <1>12 DEF Workers!Pool!Next
<1> QED BY <1>2, <1>3, <1>4, <1>5, <1>6, <1>7, <1>8, <1>9, <1>10, <1>11, <1>12
        DEF Workers!Next, Workers!MainStep, Workers!ThreadStep

-----------------------------------------------------------------------------
(* The two together.                                                       *)

(* Every behaviour of the CPU workers is one of the onion queue, and one   *)
(* of the pool.                                                            *)
LEMMA EachKeepsItsSpec == CpuworkersSpec => Spec /\ Workers!Spec
<1>1. CpuworkersInit => Init /\ Workers!Init
  BY DEF CpuworkersInit
<1>2. [CpuworkersNext]_allVars => [Next]_vars /\ [Workers!Next]_Workers!vars
  <2> SUFFICES ASSUME [CpuworkersNext]_allVars
               PROVE  [Next]_vars /\ [Workers!Next]_Workers!vars
    OBVIOUS
  <2>1. ASSUME UNCHANGED poolVars PROVE UNCHANGED Workers!vars
    BY <2>1 DEF poolVars, Workers!vars, Workers!queues, Workers!updates,
                Workers!history
  <2>2. CASE RelaySteps /\ Next
    BY <2>1, <2>2 DEF RelaySteps
  <2>3. CASE PoolSteps /\ Workers!Next
    BY <2>3 DEF PoolSteps
  <2>4. CASE UNCHANGED allVars
    BY <2>1, <2>4 DEF allVars
  <2> QED BY <2>2, <2>3, <2>4 DEF CpuworkersNext
<1> QED BY <1>1, <1>2, PTL DEF CpuworkersSpec, Spec, Workers!Spec

(* Whatever the number of threads, items and updates, and however threads  *)
(* end: no thread sleeps in tor_cond_wait while it has work or an update,  *)
(* the main thread is told of every answer, and no item is run by a thread *)
(* that has not applied the updates queued before it.                      *)
THEOREM NobodySleeps == CpuworkersSpec => []NobodySleepsOnWork
<1>1. PoolInv => NobodySleepsOnWork
  BY WorkersConstants, SomeoneIsAwake
     DEF PoolInv, NobodySleepsOnWork, Workers!NobodySleepsOnWork
<1>2. Workers!Spec => []PoolInv
  BY WorkersConstants, PoolInvariance
<1> QED BY <1>1, <1>2, EachKeepsItsSpec, PTL

(* Every copy of an update's argument is freed exactly once, by the update *)
(* function or by the update that replaces it, and no update function is   *)
(* given NULL.                                                             *)
THEOREM FreedOnce == CpuworkersSpec => []ArgsFreedOnce
<1>1. PoolInv => ArgsFreedOnce
  BY DEF PoolInv, Arguments, ArgsFreedOnce, Workers!ArgsFreedOnce
<1>2. Workers!Spec => []PoolInv
  BY WorkersConstants, PoolInvariance
<1> QED BY <1>1, <1>2, EachKeepsItsSpec, PTL

(* The thread pool keeps the promise that the code that queues work relies *)
(* on: every item is run by one thread and at most once, its reply         *)
(* function is run once after that, and an item is cancelled only before a *)
(* thread has taken it.                                                    *)
THEOREM ImplementsWorkPool == CpuworkersSpec => IsWorkPool
<1>1. Workers!Init => Workers!Pool!Init
  BY WorkersConstants
     DEF Workers!Init, Workers!Pool!Init, Workers!Stage, Workers!WorkqueueConstants
<1>2. PoolInv /\ PoolInv' /\ [Workers!Next]_Workers!vars
        => [Workers!Pool!Next]_Workers!Stage
  BY WorkersConstants, StepRefines
<1>3. Workers!Spec => []PoolInv
  BY WorkersConstants, PoolInvariance
<1> QED BY <1>1, <1>2, <1>3, EachKeepsItsSpec, PTL
        DEF Workers!Spec, IsWorkPool, Workers!IsWorkPool, Workers!Pool!Spec

(* A task in the pool points at memory that is still there, and a dead     *)
(* circuit has a reply coming that frees it.                               *)
THEOREM TasksKeepTheirCircuits == CpuworkersSpec => []TasksKeepCircuits
<1>1. QueueInv => TasksKeepCircuits
  BY DEF QueueInv, Waiters, TasksKeepCircuits
<1> QED BY <1>1, QueueInvariance, EachKeepsItsSpec, PTL

(* The queue, its count and the count of tasks agree with the circuits,    *)
(* whatever the limits and onion_queue_wait_cutoff are; only at a cutoff   *)
(* of zero, which the code allows, may culling run past the last entry.    *)
THEOREM QueueAlwaysAgrees == CpuworkersSpec => []QueueAgrees
<1>1. QueueInv => QueueAgrees
  <2> SUFFICES ASSUME QueueInv PROVE QueueAgrees
    OBVIOUS
  <2>0. TypeOK /\ Counts /\ Waiters /\ CullStops
    BY DEF QueueInv
  <2>1. TasksCounted
    BY <2>0 DEF Counts, TasksCounted
  <2>2. Cardinality(InQueue) = Len(ol_list)
    BY <2>0, QueueLength DEF TypeOK, Counts, InQueue
  <2>3. ASSUME NEW c \in InQueue PROVE memory[c] = "live" /\ c \notin InPool
    <3>1. c \in Circs /\ Occurs(c, ol_list)
      BY <2>0 DEF InQueue, Occurs, TypeOK
    <3> QED BY <2>0, <3>1 DEF Waiters, InPool
  <2> QED BY <2>0, <2>1, <2>2, <2>3 DEF QueueAgrees, QueueIsAlive, CullStops
<1> QED BY <1>1, QueueInvariance, EachKeepsItsSpec, PTL
=============================================================================
