------------------------- MODULE SharedRandomProofs --------------------------
(***************************************************************************)
(* Why the shared random value that clients get is the same everywhere:    *)
(* whatever votes, signatures and authorities are lost, at most one        *)
(* consensus is published per round.                                       *)
(*                                                                         *)
(* An authority publishes what a majority signed, and while a round is     *)
(* published no signature changes; two majorities share a signer, and a    *)
(* signer signs once in a round.  The second part shows what keeps an      *)
(* authority that reboots from committing twice, the third why the value   *)
(* that a run agreed on is not replaced.                                   *)
(***************************************************************************)
EXTENDS SharedRandom, TLAPS, FiniteSetTheorems, SequenceTheorems

Stages == {"publish", "vote", "compute"}

Types ==
  /\ clock \in Nat /\ stage \in Stages
  /\ at \in [Auths -> {"down", "todo", "done"}]
  /\ mine = [a \in Auths |-> mine[a]]
  /\ signed = [a \in Auths |-> signed[a]]

(* A pending consensus is for the next valid-after time, and is given up   *)
(* when that time's consensus is published.                                *)
Pending(a) ==
  mine[a] # None =>
    \/ stage = "compute" /\ at[a] = "done" /\ mine[a].valid_after = clock + 1
    \/ stage = "publish" /\ at[a] = "todo" /\ mine[a].valid_after = clock

Signers(c) == {b \in Auths : signed[b] = c}

(* A published consensus is not of the future, and while those of its      *)
(* round are published its signatures are there.                           *)
Backed(c) ==
  /\ c.valid_after \in Nat /\ c.valid_after <= clock
  /\ stage = "publish" /\ c.valid_after = clock => Cardinality(Signers(c)) >= Majority

IInv ==
  /\ Types
  /\ \A a \in Auths : Pending(a)
  /\ \A c \in published : Backed(c)
  /\ OneConsensusPerRound

(* Two majorities of the authorities have a member in common.              *)
LEMMA MajoritiesMeet ==
  ASSUME NEW S \in SUBSET Auths, NEW T \in SUBSET Auths,
         Cardinality(S) >= Majority, Cardinality(T) >= Majority
  PROVE  S \cap T # {}
<1>1. IsFiniteSet(Auths)
  BY RoundsAssumption
<1>2. PICK n \in Nat, k \in Nat, j \in Nat :
        n = Cardinality(Auths) /\ k = Cardinality(S) /\ j = Cardinality(T)
  <2>1. IsFiniteSet(S) /\ IsFiniteSet(T)
    BY <1>1, FS_Subset
  <2> QED BY <1>1, <2>1, FS_CardinalityType
<1>3. k >= n \div 2 + 1 /\ j >= n \div 2 + 1
  BY <1>2 DEF Majority
<1>4. k + j > n
  BY <1>3
<1> QED BY <1>1, <1>2, <1>4, FS_MajoritiesIntersect

(* EnoughSignatures(): two consensuses that a majority signed are the same *)
(* one, for an authority posts a signature for one consensus.              *)
LEMMA MajoritiesAgree ==
  ASSUME NEW p, NEW q,
         Cardinality(Signers(p)) >= Majority, Cardinality(Signers(q)) >= Majority
  PROVE  p = q
<1>1. PICK S \in SUBSET Auths, T \in SUBSET Auths : S = Signers(p) /\ T = Signers(q)
  BY DEF Signers
<1>2. S \cap T # {}
  BY <1>1, MajoritiesMeet
<1> QED BY <1>1, <1>2 DEF Signers

(* A handler ends or is cut short by a crash.                              *)
LEMMA OutcomeAt ==
  ASSUME Types, NEW a \in Auths, NEW saves, NEW next \in {"todo", "done"},
         Outcome(a, saves, next)
  PROVE  /\ at' \in [Auths -> {"down", "todo", "done"}]
         /\ at'[a] \in {"down", next}
         /\ \A b \in Auths \ {a} : at'[b] = at[b]
<1>1. \E v \in {"down", next} : at' = [at EXCEPT ![a] = v]
  BY Zenon DEF Outcome
<1> QED BY <1>1 DEF Types

(* Nothing is pending or published when the authorities boot.              *)
LEMMA Initially == Init => IInv
<1> SUFFICES ASSUME Init PROVE IInv
  OBVIOUS
<1>1. Types
  BY RoundsAssumption DEF Init, Types, Stages, NoVotes
<1>2. \A a \in Auths : mine[a] = None
  BY DEF Init
<1> QED BY <1>1, <1>2 DEF Init, IInv, Pending, OneConsensusPerRound

(* Steps that neither publish, sign nor change the stage.                  *)
LEMMA QuietStep ==
  ASSUME IInv, Types', UNCHANGED <<clock, stage, signed, published>>,
         \A b \in Auths : mine'[b] # None => mine'[b] = mine[b] /\ at'[b] = at[b]
  PROVE  IInv'
<1>1. ASSUME NEW a \in Auths PROVE Pending(a)'
  BY <1>1 DEF IInv, Pending
<1>2. ASSUME NEW c \in published PROVE Backed(c)'
  BY <1>2 DEF IInv, Backed, Signers
<1> QED BY <1>1, <1>2 DEF IInv, OneConsensusPerRound

(* sr_state_init(): an authority that boots has nothing pending.           *)
LEMMA BootStep ==
  ASSUME IInv, NEW a \in Auths, sr_state_init(a)
  PROVE  IInv'
<1>1. PICK saves, next : Outcome(a, saves, next) /\ next \in {"todo", "done"}
  <2>1. PICK next : next = IF stage = "vote" THEN "todo" ELSE "done"
    OBVIOUS
  <2>2. \E saves : Outcome(a, saves, next)
    BY <2>1, Zenon DEF sr_state_init
  <2> QED BY <2>1, <2>2
<1>2. /\ at[a] = "down" /\ UNCHANGED <<clock, stage, mine, signed, published>>
  BY DEF sr_state_init, Up
<1>3. mine[a] = None
  BY <1>2 DEF IInv, Pending
<1>4. /\ at' \in [Auths -> {"down", "todo", "done"}]
      /\ \A b \in Auths \ {a} : at'[b] = at[b]
  BY <1>1, OutcomeAt DEF IInv
<1>5. Types'
  BY <1>2, <1>4 DEF IInv, Types
<1> QED BY <1>2, <1>3, <1>4, <1>5, QuietStep

(* A crash forgets what is pending and keeps what was signed.              *)
LEMMA CrashStep ==
  ASSUME IInv, NEW a \in Auths, Crash(a)
  PROVE  IInv'
<1>1. /\ at' = [at EXCEPT ![a] = "down"] /\ mine' = [mine EXCEPT ![a] = None]
      /\ UNCHANGED <<clock, stage, signed, published>>
  BY DEF Crash
<1>2. Types'
  BY <1>1 DEF IInv, Types
<1>3. \A b \in Auths : mine'[b] # None => mine'[b] = mine[b] /\ at'[b] = at[b]
  BY <1>1 DEF IInv, Types
<1> QED BY <1>1, <1>2, <1>3, QuietStep

(* A consensus that is fetched late has been published already.            *)
LEMMA FetchStep ==
  ASSUME IInv, NEW a \in Auths, FetchConsensus(a)
  PROVE  IInv'
<1>1. PICK saves : Outcome(a, saves, "done")
  BY DEF FetchConsensus
<1>2. /\ at[a] = "done" /\ stage = "publish"
      /\ UNCHANGED <<clock, stage, mine, signed, published>>
  BY DEF FetchConsensus
<1>3. mine[a] = None
  BY <1>2 DEF IInv, Pending
<1>4. /\ at' \in [Auths -> {"down", "todo", "done"}]
      /\ \A b \in Auths \ {a} : at'[b] = at[b]
  BY <1>1, OutcomeAt DEF IInv
<1>5. Types'
  BY <1>2, <1>4 DEF IInv, Types
<1> QED BY <1>2, <1>3, <1>4, <1>5, QuietStep

(* While votes are exchanged no consensus is pending.                      *)
LEMMA VoteStep ==
  ASSUME IInv, NEW a \in Auths, NEW S, Vote(a, S)
  PROVE  IInv'
<1>1. /\ stage = "vote" /\ at' = [at EXCEPT ![a] = "done"]
      /\ UNCHANGED <<clock, stage, mine, signed, published>>
  BY DEF Vote
<1>2. Types'
  BY <1>1 DEF IInv, Types
<1>3. \A b \in Auths : mine[b] = None
  BY <1>1 DEF IInv, Pending
<1> QED BY <1>1, <1>2, <1>3, QuietStep

(* Only a consensus that a majority signed joins the published ones.       *)
LEMMA PublishStep ==
  ASSUME IInv, NEW a \in Auths, Publish(a)
  PROVE  IInv'
<1>1. PICK saves : Outcome(a, saves, "done")
  BY DEF Publish
<1>2. /\ stage = "publish" /\ at[a] = "todo"
      /\ mine' = [mine EXCEPT ![a] = None]
      /\ UNCHANGED <<clock, stage, signed>>
  BY DEF Publish
<1>3. /\ at' \in [Auths -> {"down", "todo", "done"}]
      /\ \A b \in Auths \ {a} : at'[b] = at[b]
  BY <1>1, OutcomeAt DEF IInv
<1>4. Types'
  BY <1>2, <1>3 DEF IInv, Types
<1>5. \A b \in Auths : mine'[b] # None => mine'[b] = mine[b] /\ at'[b] = at[b]
  BY <1>2, <1>3 DEF IInv, Types
<1>6. CASE published' = published
  BY <1>2, <1>4, <1>5, <1>6, QuietStep
<1>7. CASE EnoughSignatures(a) /\ published' = published \cup {mine[a]}
  <2>1. PICK c : c = mine[a]
    OBVIOUS
  <2>2. c # None /\ Cardinality(Signers(c)) >= Majority
    BY <1>7, <2>1 DEF EnoughSignatures, Signers
  <2>3. c.valid_after = clock /\ clock \in Nat
    BY <1>2, <2>1, <2>2 DEF IInv, Pending, Types
  <2>4. Signers(c)' = Signers(c) /\ Majority' = Majority
    BY <1>2 DEF Signers, Majority
  <2>5. Backed(c)'
    BY <1>2, <2>2, <2>3, <2>4 DEF Backed
  <2>6. ASSUME NEW q \in published PROVE Backed(q)'
    BY <1>2, <2>6 DEF IInv, Backed, Signers, Majority
  <2>7. ASSUME NEW q \in published, q.valid_after = c.valid_after PROVE q = c
    <3>1. Cardinality(Signers(q)) >= Majority
      BY <1>2, <2>3, <2>7 DEF IInv, Backed
    <3> QED BY <2>2, <3>1, MajoritiesAgree
  <2>8. OneConsensusPerRound'
    BY <1>7, <2>1, <2>7 DEF IInv, OneConsensusPerRound
  <2>9. ASSUME NEW b \in Auths PROVE Pending(b)'
    BY <1>2, <1>5, <2>9 DEF IInv, Pending
  <2> QED BY <1>4, <1>7, <2>1, <2>5, <2>6, <2>8, <2>9 DEF IInv
<1> QED BY <1>6, <1>7 DEF Publish

(* dirvote_compute_consensuses(): the consensus is that of the next        *)
(* valid-after time, and its own signature is the only one that changes.   *)
LEMMA ComputeStep ==
  ASSUME IInv, NEW a \in Auths, NEW S, Compute(a, S)
  PROVE  IInv'
<1>1. PICK m : /\ m # None => m.valid_after = clock + 1
               /\ mine' = [mine EXCEPT ![a] = m]
  <2>1. PICK votes, fresh :
          mine' = [mine EXCEPT ![a] = dirvote_compute_consensuses(votes, fresh)]
    BY DEF Compute
  <2>2. PICK m : m = dirvote_compute_consensuses(votes, fresh)
    OBVIOUS
  <2>3. m # None => m.valid_after = clock + 1
    BY <2>2 DEF dirvote_compute_consensuses
  <2> QED BY <2>1, <2>2, <2>3
<1>2. /\ stage = "compute" /\ at' = [at EXCEPT ![a] = "done"]
      /\ UNCHANGED <<clock, stage, published>>
  BY DEF Compute
<1>3. PICK g : signed' = [signed EXCEPT ![a] = g]
  BY DEF Compute
<1>4. Types'
  BY <1>1, <1>2, <1>3 DEF IInv, Types
<1>5. ASSUME NEW b \in Auths PROVE Pending(b)'
  <2>1. CASE b = a
    <3>1. mine'[a] = m /\ at'[a] = "done"
      BY <1>1, <1>2 DEF IInv, Types
    <3> QED BY <1>1, <1>2, <2>1, <3>1 DEF Pending
  <2>2. CASE b # a
    <3>1. mine'[b] = mine[b] /\ at'[b] = at[b]
      BY <1>1, <1>2, <2>2 DEF IInv, Types
    <3> QED BY <1>2, <3>1 DEF IInv, Pending
  <2> QED BY <2>1, <2>2
<1>6. ASSUME NEW c \in published PROVE Backed(c)'
  BY <1>2, <1>6 DEF IInv, Backed
<1> QED BY <1>2, <1>4, <1>5, <1>6 DEF IInv, OneConsensusPerRound

(* A stage ends when every authority has done it: then nothing is pending  *)
(* unless the consensuses are just computed.                               *)
LEMMA AdvanceStep ==
  ASSUME IInv, Advance
  PROVE  IInv'
<1>1. /\ \A a \in Auths : at[a] \in {"down", "done"}
      /\ at' = [a \in Auths |-> IF at[a] # "down" THEN "todo" ELSE "down"]
      /\ UNCHANGED <<mine, published>>
  BY DEF Advance, Up
<1>2. clock \in Nat /\ clock' \in Nat /\ clock' >= clock /\ stage' \in Stages
  BY DEF Advance, IInv, Types, Stages
<1>3. Types'
  BY <1>1, <1>2 DEF Advance, IInv, Types
<1>4. ASSUME NEW a \in Auths PROVE Pending(a)'
  <2>1. mine[a] # None => /\ stage = "compute" /\ at[a] = "done"
                          /\ mine[a].valid_after = clock + 1
    BY <1>1 DEF IInv, Pending
  <2>2. mine'[a] = mine[a] /\ (at[a] = "done" => at'[a] = "todo")
    BY <1>1
  <2>3. stage = "compute" => stage' = "publish" /\ clock' = clock + 1
    BY DEF Advance
  <2> QED BY <2>1, <2>2, <2>3 DEF Pending
<1>5. ASSUME NEW c \in published PROVE Backed(c)'
  <2>1. c.valid_after \in Nat /\ c.valid_after <= clock
    BY <1>5 DEF IInv, Backed
  <2>2. stage' = "publish" => clock' = clock + 1
    BY DEF Advance
  <2> QED BY <1>2, <2>1, <2>2 DEF Backed
<1> QED BY <1>1, <1>3, <1>4, <1>5 DEF IInv, OneConsensusPerRound

(* Every step keeps the invariant.                                         *)
LEMMA NextKeeps == IInv /\ [Next]_vars => IInv'
<1> SUFFICES ASSUME IInv, [Next]_vars PROVE IInv'
  OBVIOUS
<1>1. CASE UNCHANGED vars
  BY <1>1 DEF vars, IInv, Types, Pending, Backed, Signers, Majority, OneConsensusPerRound
<1>2. CASE Ended
  BY <1>1, <1>2 DEF Ended
<1>3. ASSUME NEW a \in Auths,
             sr_state_init(a) \/ Crash(a) \/ Publish(a) \/ FetchConsensus(a)
      PROVE  IInv'
  BY <1>3, BootStep, CrashStep, PublishStep, FetchStep
<1>4. ASSUME NEW a \in Auths, NEW S \in SUBSET Auths, Vote(a, S) \/ Compute(a, S)
      PROVE  IInv'
  BY <1>4, VoteStep, ComputeStep
<1>5. CASE Advance
  BY <1>5, AdvanceStep
<1> QED BY <1>1, <1>2, <1>3, <1>4, <1>5 DEF Next

(* Everything above holds in every reachable state.                        *)
THEOREM Invariance == Spec => []IInv
  BY Initially, NextKeeps, PTL DEF Spec

(* However votes, signatures and authorities are lost and whatever the     *)
(* number of authorities: the consensuses that gather enough signatures    *)
(* for one valid-after time are one consensus, so all clients get the same *)
(* shared random value.                                                    *)
THEOREM OneConsensus == Spec => []OneConsensusPerRound
<1>1. IInv => OneConsensusPerRound
  BY DEF IInv
<1> QED BY Invariance, <1>1, PTL

-------------------------------------------------------------------------------
(***************************************************************************)
(* Why an authority that reboots does not vote twice.  It generates a      *)
(* commitment only in a commit phase, and none for a run it knows one of,  *)
(* for then its state is of that run, or later, and holds a commitment     *)
(* until the run is over (Guarded).  What it has posted or holds is Known; *)
(* a file that a crash cut short is as good as a whole one as long as the  *)
(* authority is down, and may miss the next run when it boots with it.     *)
(***************************************************************************)

(* The round in which run r begins.                                        *)
First(r) == r * TotalRounds

(* Runs are consecutive and of equal length.                               *)
LEMMA RunsInOrder ==
  ASSUME NEW r \in Nat, NEW q \in Nat
  PROVE  /\ First(r) \in Nat /\ First(r + 1) = First(r) + TotalRounds
         /\ r < q => First(r) + TotalRounds <= First(q)
<1>1. PICK n \in Nat : n = TotalRounds /\ n > 0
  BY RoundsAssumption DEF TotalRounds
<1>2. r * n \in Nat /\ (r + 1) * n = r * n + n
  BY <1>1
<1>3. ASSUME r < q PROVE r * n + n <= q * n
  <2>1. PICK d \in Nat : q = r + 1 + d
    <3>1. q - (r + 1) \in Nat /\ q = r + 1 + (q - (r + 1))
      BY <1>3
    <3> QED BY <3>1
  <2>2. q * n = (r + 1) * n + d * n /\ d * n \in Nat
    BY <2>1
  <2> QED BY <1>2, <2>2
<1> QED BY <1>1, <1>2, <1>3 DEF First

(* Every round is one of the rounds of its run.                            *)
LEMMA RoundsOfRuns ==
  ASSUME NEW t \in Nat
  PROVE  /\ RunOf(t) \in Nat
         /\ First(RunOf(t)) <= t /\ t < First(RunOf(t)) + TotalRounds
         /\ get_sr_protocol_phase(t) = "commit" <=> t < First(RunOf(t)) + N_ROUNDS
<1>1. PICK n \in Nat : n = TotalRounds /\ n > 0
  BY RoundsAssumption DEF TotalRounds
<1>2. PICK q \in Nat, m \in Nat : q = t \div n /\ m = t % n /\ m < n /\ t = n * q + m
  BY <1>1
<1>3. q * n = n * q /\ q * n \in Nat
  BY <1>1
<1>4. RunOf(t) = q /\ First(q) = q * n
  BY <1>1, <1>2 DEF RunOf, First
<1>5. get_sr_protocol_phase(t) = "commit" <=> m < N_ROUNDS
  BY <1>1, <1>2, RoundsAssumption DEF get_sr_protocol_phase
<1>6. N_ROUNDS \in Nat
  BY RoundsAssumption
<1>7. m < N_ROUNDS <=> t < q * n + N_ROUNDS
  BY <1>2, <1>3, <1>6
<1> QED BY <1>1, <1>2, <1>3, <1>4, <1>5, <1>7

(* get_state_valid_until_time() of a round and of the clock: the state is  *)
(* kept until the last round of the run, at least.                         *)
LEMMA ValidUntil ==
  ASSUME clock \in Nat, NEW t \in {clock, clock + 1}
  PROVE  /\ get_state_valid_until_time(t) \in Nat
         /\ First(RunOf(t)) + TotalRounds <= get_state_valid_until_time(t) + 1
<1>1. PICK n \in Nat : n = TotalRounds /\ n > 0
  BY RoundsAssumption DEF TotalRounds
<1>2. t \in Nat
  OBVIOUS
<1>3. PICK q \in Nat, m \in Nat : q = t \div n /\ m = t % n /\ m < n /\ t = n * q + m
  BY <1>1, <1>2
<1>4. q * n = n * q /\ q * n \in Nat
  BY <1>1
<1>5. First(RunOf(t)) = q * n /\ get_state_valid_until_time(t) = clock + n - m
  BY <1>1, <1>3 DEF First, RunOf, get_state_valid_until_time
<1> QED BY <1>1, <1>2, <1>3, <1>4, <1>5

(* saves are states that a handler writes to disk: the last is v, the ones *)
(* before it are in S.                                                     *)
Saves(saves, S, v) ==
  /\ saves \in Seq(S \cup {v}) /\ Len(saves) > 0 /\ Last(saves) = v
  /\ \A i \in 1 .. Len(saves) - 1 : saves[i] \in S

(* A handler that saves one state.                                         *)
LEMMA OneSave == ASSUME NEW v PROVE Saves(<<v>>, {}, v)
  BY DEF Saves, Last

(* A handler that goes on to save w, as Then has it.                       *)
LEMMA MoreSaves ==
  ASSUME NEW q, NEW S, NEW v, Saves(q, S, v), NEW w
  PROVE  Saves(Append(q, w), S \cup {v}, w)
<1>1. PICK X : X = S \cup {v} \cup {w}
  OBVIOUS
<1>2. q \in Seq(X) /\ w \in X
  <2>1. \A i \in 1 .. Len(q) : q[i] \in X
    BY <1>1 DEF Saves
  <2> QED BY <1>1, <2>1 DEF Saves
<1>3. PICK r : r = Append(q, w)
  OBVIOUS
<1>4. /\ r \in Seq(X) /\ Len(r) = Len(q) + 1 /\ r[Len(q) + 1] = w
      /\ \A i \in 1 .. Len(q) : r[i] = q[i]
  BY <1>2, <1>3
<1>5. Len(q) \in Nat /\ Len(q) > 0
  BY DEF Saves
<1>6. \A i \in 1 .. Len(r) - 1 : r[i] \in S \cup {v}
  <2>1. \A i \in 1 .. Len(q) : q[i] \in S \cup {v}
    BY DEF Saves
  <2> QED BY <1>4, <1>5, <2>1
<1>7. X = (S \cup {v}) \cup {w}
  BY <1>1
<1>8. Saves(r, S \cup {v}, w)
  BY <1>4, <1>5, <1>6, <1>7 DEF Saves, Last
<1> QED BY <1>3, <1>8

(* A handler that runs after another one.                                  *)
LEMMA ManySaves ==
  ASSUME NEW q, NEW S, NEW v, Saves(q, S, v),
         NEW r, NEW T, NEW w, Saves(r, T, w)
  PROVE  Saves(q \o r, S \cup {v} \cup T, w)
<1>1. PICK X : X = S \cup {v} \cup T \cup {w}
  OBVIOUS
<1>2. q \in Seq(X) /\ r \in Seq(X)
  <2>1. /\ \A i \in 1 .. Len(q) : q[i] \in X
        /\ \A i \in 1 .. Len(r) : r[i] \in X
    BY <1>1 DEF Saves
  <2> QED BY <2>1 DEF Saves
<1>3. PICK p : p = q \o r
  OBVIOUS
<1>4. PICK m \in Nat, n \in Nat : m = Len(q) /\ n = Len(r) /\ n > 0
  BY DEF Saves
<1>5. /\ p \in Seq(X) /\ Len(p) = m + n
      /\ \A i \in 1 .. m : p[i] = q[i]
      /\ \A i \in 1 .. n : p[m + i] = r[i]
  BY <1>2, <1>3, <1>4
<1>6. ASSUME NEW i \in 1 .. m + n - 1 PROVE p[i] \in S \cup {v} \cup T
  <2>1. CASE i <= m
    BY <1>4, <1>5, <2>1 DEF Saves
  <2>2. CASE i > m
    <3>1. PICK j \in 1 .. n - 1 : i = m + j
      <4>1. i - m \in 1 .. n - 1 /\ i = m + (i - m)
        BY <1>4, <2>2
      <4> QED BY <4>1
    <3>2. p[i] = r[j] /\ r[j] \in T
      BY <1>4, <1>5, <3>1 DEF Saves
    <3> QED BY <3>2
  <2> QED BY <2>1, <2>2
<1>7. p[m + n] = w
  BY <1>4, <1>5 DEF Saves, Last
<1>8. Saves(p, S \cup {v} \cup T, w)
  BY <1>1, <1>4, <1>5, <1>6, <1>7 DEF Saves, Last
<1> QED BY <1>3, <1>8

(* A state of the program, and what handlers make of the parts of it that  *)
(* decide when an authority commits.                                       *)
IsState(s) ==
  /\ s = [phase |-> s.phase, valid_after |-> s.valid_after, valid_until |-> s.valid_until,
          commits |-> s.commits, revealed |-> s.revealed, previous |-> s.previous,
          current |-> s.current, fresh |-> s.fresh]
  /\ s.phase \in {"commit", "reveal"} /\ s.valid_after \in Nat /\ s.valid_until \in Nat
  /\ s.commits = [b \in Auths |-> s.commits[b]]

Kept(u, s) ==
  /\ IsState(u) /\ u.commits = s.commits
  /\ u.valid_after = s.valid_after /\ u.valid_until = s.valid_until

Emptied(u, t) ==
  /\ IsState(u) /\ u.commits = NoCommits
  /\ u.valid_after = t /\ u.valid_until = get_state_valid_until_time(t)

Made(u, a, t) ==
  /\ IsState(u) /\ u.commits[a] = sr_generate_our_commit(a, t)
  /\ u.valid_after = t /\ u.valid_until = get_state_valid_until_time(t)

Generates(s, t) ==
  /\ t > s.valid_after /\ get_sr_protocol_phase(t) = "commit"
  /\ s.phase = "reveal" \/ s.commits = NoCommits

(* What sr_state_update() makes of s.                                      *)
Updated(u, s, a, t) ==
  \/ t <= s.valid_after /\ Kept(u, s) /\ u.phase = s.phase
  \/ /\ t > s.valid_after /\ IsState(u)
     /\ u.valid_after = t /\ u.phase = get_sr_protocol_phase(t)
     /\ \/ ~Generates(s, t) /\ u.commits = s.commits /\ u.valid_until = s.valid_until
        \/ /\ Generates(s, t) /\ u.commits[a] = sr_generate_our_commit(a, t)
           /\ \/ s.phase = "reveal" /\ u.valid_until = get_state_valid_until_time(t)
              \/ s.phase = "commit" /\ u.valid_until = s.valid_until

(* What a crash in sr_state_update() may leave of s, but for the phase: s   *)
(* itself, or in a new run the emptied state or one with the commitment.   *)
Saved(u, s, a, t) ==
  \/ Kept(u, s)
  \/ Generates(s, t) /\ (Emptied(u, t) \/ Made(u, a, t))
  \/ /\ Generates(s, t) /\ s.phase = "commit"
     /\ IsState(u) /\ u.commits[a] = sr_generate_our_commit(a, t)
     /\ u.valid_after = s.valid_after /\ u.valid_until = s.valid_until

(* The states that a handler saves when it updates s.                      *)
Written(saves, s, a, t) ==
  \E S, v : /\ Saves(saves, S, v) /\ Updated(v, s, a, t)
            /\ \A u \in S : Saved(u, s, a, t)

(* sr_state_add_commit() of a new commitment of our own.                   *)
LEMMA AddCommit ==
  ASSUME NEW s, IsState(s), NEW a \in Auths, NEW t, NEW u,
         u = sr_state_add_commit(s, sr_generate_our_commit(a, t))
  PROVE  /\ IsState(u) /\ u.commits[a] = sr_generate_our_commit(a, t)
         /\ u.valid_after = s.valid_after /\ u.valid_until = s.valid_until
         /\ u.phase = s.phase /\ u.current = s.current
<1>1. PICK c : c = sr_generate_our_commit(a, t)
  OBVIOUS
<1>2. c.by = a
  BY <1>1 DEF sr_generate_our_commit
<1>3. PICK f, g : f = [s.commits EXCEPT ![a] = c] /\ g = s.revealed \cup {a}
  OBVIOUS
<1>4. u = [s EXCEPT !.commits = f, !.revealed = g]
  <2>1. [s EXCEPT !.commits[c.by] = c] = [s EXCEPT !.commits = f]
    BY <1>2, <1>3 DEF IsState
  <2> QED BY <1>1, <1>2, <1>3, <2>1 DEF sr_state_add_commit, IsState
<1>5. f = [b \in Auths |-> f[b]] /\ f[a] = c
  BY <1>3 DEF IsState
<1> QED BY <1>1, <1>4, <1>5 DEF IsState

(* A round is in one of two phases.                                        *)
LEMMA Phases ==
  ASSUME NEW t
  PROVE  get_sr_protocol_phase(t) \in {"commit", "reveal"}
  BY DEF get_sr_protocol_phase

(* Rotating and computing values leaves the rest of a state alone.         *)
LEMMA RotateSaves ==
  ASSUME NEW s, IsState(s)
  PROVE  \E S, v : /\ Saves(state_rotate_srv(s), S, v)
                   /\ \A u \in S \cup {v} : Kept(u, s) /\ u.phase = s.phase
<1>1. PICK x, y, z : /\ x = [s EXCEPT !.previous = None]
                     /\ y = [s EXCEPT !.previous = s.current]
                     /\ z = [s EXCEPT !.previous = s.current, !.current = None]
  OBVIOUS
<1>2. state_rotate_srv(s) = <<x, y, z>>
  BY <1>1 DEF state_rotate_srv
<1>3. /\ Kept(x, s) /\ x.phase = s.phase /\ Kept(y, s) /\ y.phase = s.phase
      /\ Kept(z, s) /\ z.phase = s.phase
  BY <1>1 DEF Kept, IsState
<1>4. Saves(<<x, y, z>>, {x, y}, z)
  BY DEF Saves, Last
<1> QED BY <1>2, <1>3, <1>4

(* The state that sr_state_update() prepares and, at last, gives its phase *)
(* and valid-after time.                                                   *)
Prepared(s, a, t) ==
  IF s.phase # get_sr_protocol_phase(t)
  THEN IF get_sr_protocol_phase(t) = "commit" THEN new_protocol_run(s, a, t) ELSE <<s>>
  ELSE IF s.phase = "commit" /\ s.commits = NoCommits
       THEN <<sr_state_add_commit(s, sr_generate_our_commit(a, t))>>
       ELSE <<s>>

(* The state v that sr_state_update() ends with, from the prepared one u.   *)
Stamped(v, u, t) ==
  /\ IsState(v) /\ v.phase = get_sr_protocol_phase(t) /\ v.valid_after = t
  /\ v.commits = u.commits /\ v.valid_until = u.valid_until /\ v.current = u.current

(* sr_state_update() adds the round and its phase to what is prepared.     *)
LEMMA LastSave ==
  ASSUME NEW s, NEW a, NEW t \in Nat, s.valid_after \in Nat, t > s.valid_after,
         NEW S, NEW u, Saves(Prepared(s, a, t), S, u), IsState(u)
  PROVE  \E v : Saves(sr_state_update(s, a, t), S \cup {u}, v) /\ Stamped(v, u, t)
<1>1. PICK next \in {"commit", "reveal"} : next = get_sr_protocol_phase(t)
  BY Phases
<1>2. PICK q : q = Prepared(s, a, t) /\ Last(q) = u
  BY DEF Saves
<1>3. PICK v : v = [u EXCEPT !.phase = next, !.valid_after = t]
  OBVIOUS
<1>4. sr_state_update(s, a, t) = Append(q, v)
  <2>1. ~(t <= s.valid_after)
    OBVIOUS
  <2>2. sr_state_update(s, a, t) = Append(q, [Last(q) EXCEPT !.phase = next, !.valid_after = t])
    BY <1>1, <1>2, <2>1 DEF sr_state_update, Then, Prepared
  <2> QED BY <1>2, <1>3, <2>2
<1>5. /\ IsState(v) /\ v.phase = next /\ v.valid_after = t
      /\ v.commits = u.commits /\ v.valid_until = u.valid_until /\ v.current = u.current
  BY <1>1, <1>3 DEF IsState
<1>6. Saves(Append(q, v), S \cup {u}, v)
  BY <1>2, MoreSaves
<1> QED BY <1>1, <1>4, <1>5, <1>6 DEF Stamped

(* sr_state_update(): what is saved before the last state is the state     *)
(* before the call, the emptied one, or one with the new commitment.       *)
LEMMA UpdateSaves ==
  ASSUME clock \in Nat, NEW a \in Auths, NEW s, IsState(s), NEW t \in {clock, clock + 1}
  PROVE  Written(sr_state_update(s, a, t), s, a, t)
<1>1. t \in Nat /\ s.valid_after \in Nat /\ get_state_valid_until_time(t) \in Nat
  BY ValidUntil DEF IsState
<1>2. CASE t <= s.valid_after
  <2>1. sr_state_update(s, a, t) = <<s>>
    BY <1>2 DEF sr_state_update
  <2>2. Saves(<<s>>, {}, s)
    BY OneSave
  <2>3. Updated(s, s, a, t)
    BY <1>2 DEF Updated, Kept
  <2> QED BY <2>1, <2>2, <2>3 DEF Written
<1>3. CASE t > s.valid_after /\ ~Generates(s, t)
  <2>0. t > s.valid_after
    BY <1>3
  <2>1. Prepared(s, a, t) = <<s>>
    BY <1>3 DEF Prepared, Generates, IsState, get_sr_protocol_phase
  <2>2. PICK S : S = {} /\ Saves(Prepared(s, a, t), S, s)
    BY <2>1, OneSave
  <2>3. PICK v : Saves(sr_state_update(s, a, t), S \cup {s}, v) /\ Stamped(v, s, t)
    BY <1>1, <2>0, <2>2, LastSave, Zenon
  <2>4. Updated(v, s, a, t) /\ \A u \in S \cup {s} : Kept(u, s)
    BY <1>3, <2>2, <2>3 DEF Updated, Kept, Stamped
  <2> QED BY <2>3, <2>4 DEF Written, Saved
<1>4. CASE Generates(s, t) /\ s.phase = "commit"
  <2>0. t > s.valid_after
    BY <1>4 DEF Generates
  <2>1. PICK u : u = sr_state_add_commit(s, sr_generate_our_commit(a, t))
    OBVIOUS
  <2>2. /\ IsState(u) /\ u.commits[a] = sr_generate_our_commit(a, t)
        /\ u.valid_until = s.valid_until /\ u.valid_after = s.valid_after
    BY <2>1, AddCommit
  <2>3. Prepared(s, a, t) = <<u>>
    BY <1>4, <2>1 DEF Prepared, Generates
  <2>4. PICK S : S = {} /\ Saves(Prepared(s, a, t), S, u)
    BY <2>3, OneSave
  <2>5. PICK v : Saves(sr_state_update(s, a, t), S \cup {u}, v) /\ Stamped(v, u, t)
    BY <1>1, <2>0, <2>2, <2>4, LastSave, Zenon
  <2>6. Updated(v, s, a, t)
    BY <1>4, <2>2, <2>5 DEF Updated, Generates, Stamped
  <2>7. \A x \in S \cup {u} : Saved(x, s, a, t)
    BY <1>4, <2>2, <2>4 DEF Saved
  <2> QED BY <2>5, <2>6, <2>7 DEF Written
<1>5. CASE Generates(s, t) /\ s.phase = "reveal"
  <2>0. t > s.valid_after
    BY <1>5 DEF Generates
  <2>1. PICK S, w : /\ Saves(state_rotate_srv(s), S, w)
                    /\ \A u \in S \cup {w} : Kept(u, s) /\ u.phase = s.phase
    BY RotateSaves
  <2>2. PICK q : q = state_rotate_srv(s) /\ Last(q) = w
    BY <2>1 DEF Saves
  <2>3. PICK x : x = sr_compute_srv(w)
    OBVIOUS
  <2>4. Kept(x, s)
    <3>1. PICK z : x = [w EXCEPT !.current = z, !.fresh = TRUE]
      BY <2>3 DEF sr_compute_srv
    <3>2. Kept(w, s)
      BY <2>1
    <3> QED BY <3>1, <3>2 DEF Kept, IsState
  <2>5. PICK y : y = reset_state_for_new_protocol_run(x, t)
    OBVIOUS
  <2>6. Emptied(y, t)
    BY <1>1, <2>4, <2>5 DEF Kept, Emptied, IsState, reset_state_for_new_protocol_run, NoCommits
  <2>7. PICK z : z = sr_state_add_commit(y, sr_generate_our_commit(a, t))
    OBVIOUS
  <2>8. Made(z, a, t)
    BY <2>6, <2>7, AddCommit DEF Emptied, Made
  <2>9. PICK q1, q2, q3 : /\ q1 = Append(q, x) /\ q2 = Append(q1, y) /\ q3 = Append(q2, z)
                          /\ Saves(q1, S \cup {w}, x)
                          /\ Saves(q2, S \cup {w} \cup {x}, y)
                          /\ Saves(q3, S \cup {w} \cup {x} \cup {y}, z)
    <3>1. PICK q1 : q1 = Append(q, x)
      OBVIOUS
    <3>2. PICK q2 : q2 = Append(q1, y)
      OBVIOUS
    <3>3. PICK q3 : q3 = Append(q2, z)
      OBVIOUS
    <3>4. Saves(q1, S \cup {w}, x)
      BY <2>1, <2>2, <3>1, MoreSaves
    <3>5. Saves(q2, S \cup {w} \cup {x}, y)
      BY <3>2, <3>4, MoreSaves
    <3>6. Saves(q3, S \cup {w} \cup {x} \cup {y}, z)
      BY <3>3, <3>5, MoreSaves
    <3> QED BY <3>1, <3>2, <3>3, <3>4, <3>5, <3>6
  <2>10. Last(q1) = x /\ Last(q2) = y /\ Last(q3) = z
    BY <2>9 DEF Saves
  <2>11. new_protocol_run(s, a, t) = q3
    BY <1>5, <2>2, <2>3, <2>5, <2>7, <2>9, <2>10 DEF new_protocol_run, Then
  <2>12. Prepared(s, a, t) = q3
    BY <1>5, <2>11 DEF Prepared, Generates
  <2>13. PICK R : R = S \cup {w} \cup {x} \cup {y} /\ Saves(Prepared(s, a, t), R, z)
    BY <2>9, <2>12
  <2>14. PICK v : Saves(sr_state_update(s, a, t), R \cup {z}, v) /\ Stamped(v, z, t)
    <3>1. IsState(z)
      BY <2>8 DEF Made
    <3> QED BY <1>1, <2>0, <2>13, <3>1, LastSave, Zenon
  <2>15. Updated(v, s, a, t)
    BY <1>5, <2>8, <2>14 DEF Updated, Made, Generates, Stamped
  <2>16. ASSUME NEW u \in R \cup {z}
         PROVE  Kept(u, s) \/ Emptied(u, t) \/ Made(u, a, t)
    <3>1. u \in S \cup {w} \/ u = x \/ u = y \/ u = z
      BY <2>13, <2>16
    <3>2. CASE u \in S \cup {w}
      BY <2>1, <3>2
    <3> QED BY <2>4, <2>6, <2>8, <3>1, <3>2
  <2>17. \A u \in R \cup {z} : Saved(u, s, a, t)
    BY <1>5, <2>16 DEF Saved
  <2> QED BY <2>14, <2>15, <2>17 DEF Written
<1> QED BY <1>1, <1>2, <1>3, <1>4, <1>5 DEF Generates, IsState

(* Handlers that register the values of a consensus before they update.    *)
LEMMA LaterSaves ==
  ASSUME clock \in Nat, NEW a \in Auths, NEW s, NEW t, NEW w, NEW q, NEW S,
         Saves(q, S, w), \A u \in S \cup {w} : Kept(u, s), w.phase = s.phase,
         NEW r, Written(r, w, a, t)
  PROVE  Written(q \o r, s, a, t)
<1>1. PICK T, v : Saves(r, T, v) /\ Updated(v, w, a, t) /\ \A u \in T : Saved(u, w, a, t)
  BY DEF Written
<1>2. Saves(q \o r, S \cup {w} \cup T, v)
  BY <1>1, ManySaves
<1>3. Kept(w, s)
  OBVIOUS
<1>4. Generates(w, t) <=> Generates(s, t)
  BY <1>3 DEF Generates, Kept
<1>5. Updated(v, s, a, t)
  BY <1>1, <1>3, <1>4 DEF Updated, Kept
<1>6. \A u \in T : Saved(u, s, a, t)
  BY <1>1, <1>3, <1>4 DEF Saved, Kept
<1>7. \A u \in S \cup {w} \cup T : Saved(u, s, a, t)
  BY <1>6 DEF Saved
<1> QED BY <1>2, <1>5, <1>7, Zenon DEF Written

(* sr_state_init() saves the state it loaded or made, then updates it.      *)
LEMMA BootSaves ==
  ASSUME clock \in Nat, NEW a \in Auths, NEW s, IsState(s)
  PROVE  Written(<<s>> \o sr_state_update(s, a, clock + 1), s, a, clock + 1)
<1>1. PICK q, S : q = <<s>> /\ S = {} /\ Saves(q, S, s)
  BY OneSave
<1>2. \A u \in S \cup {s} : Kept(u, s)
  BY <1>1 DEF Kept
<1>3. PICK t, r : t = clock + 1 /\ r = sr_state_update(s, a, t)
  OBVIOUS
<1>4. Written(r, s, a, t)
  BY <1>3, UpdateSaves
<1>5. Written(q \o r, s, a, t)
  BY <1>1, <1>2, <1>4, LaterSaves
<1> QED BY <1>1, <1>3, <1>5

(* sr_act_post_consensus(), whatever consensus it is given.                *)
LEMMA PostConsensusSaves ==
  ASSUME clock \in Nat, NEW a \in Auths, NEW s, IsState(s), NEW t \in {clock, clock + 1},
         NEW c
  PROVE  Written(sr_act_post_consensus(s, a, c, t), s, a, t)
<1>1. PICK q, S, w : /\ q = PostConsensus(s, c) /\ Saves(q, S, w)
                     /\ \A u \in S \cup {w} : Kept(u, s) /\ u.phase = s.phase
  <2>1. CASE c = None
    <3>1. PostConsensus(s, c) = <<s>> /\ Saves(<<s>>, {}, s)
      BY <2>1, OneSave DEF PostConsensus
    <3>2. \A u \in {} \cup {s} : Kept(u, s) /\ u.phase = s.phase
      BY DEF Kept
    <3> QED BY <3>1, <3>2
  <2>2. CASE c # None
    <3>1. PICK x, y, z, w :
            /\ x = [s EXCEPT !.previous = None]
            /\ y = [s EXCEPT !.previous = None, !.current = None]
            /\ z = [s EXCEPT !.previous = c.previous, !.current = None, !.fresh = FALSE]
            /\ w = [s EXCEPT !.previous = c.previous, !.current = c.current, !.fresh = FALSE]
      OBVIOUS
    <3>2. PostConsensus(s, c) = <<x, y, z, w>>
      BY <2>2, <3>1 DEF PostConsensus
    <3>3. /\ Kept(x, s) /\ x.phase = s.phase /\ Kept(y, s) /\ y.phase = s.phase
          /\ Kept(z, s) /\ z.phase = s.phase /\ Kept(w, s) /\ w.phase = s.phase
      BY <3>1 DEF Kept, IsState
    <3>4. Saves(<<x, y, z, w>>, {x, y, z}, w)
      BY DEF Saves, Last
    <3> QED BY <3>2, <3>3, <3>4
  <2> QED BY <2>1, <2>2
<1>2. Last(q) = w /\ IsState(w) /\ w.phase = s.phase /\ \A u \in S \cup {w} : Kept(u, s)
  BY <1>1 DEF Saves, Kept
<1>3. PICK r : r = sr_state_update(w, a, t)
  OBVIOUS
<1>4. Written(r, w, a, t)
  BY <1>2, <1>3, UpdateSaves
<1>5. Written(q \o r, s, a, t)
  BY <1>1, <1>2, <1>4, LaterSaves
<1>6. sr_act_post_consensus(s, a, c, t) = q \o r
  BY <1>1, <1>2, <1>3 DEF sr_act_post_consensus
<1> QED BY <1>5, <1>6

(* The two outcomes of a handler: it ends with the updated state, or a     *)
(* crash leaves one of the states it saved.                                *)
Completed(a, s, t, next) ==
  /\ UNCHANGED <<crashes, cut>> /\ at' = [at EXCEPT ![a] = next]
  /\ \E v : Updated(v, s, a, t) /\ sr' = [sr EXCEPT ![a] = v]

CutShort(a, s, t) ==
  /\ crashes' = crashes + 1 /\ cut' = cut \cup {a} /\ at' = [at EXCEPT ![a] = "down"]
  /\ \E u : Saved(u, s, a, t) /\ sr' = [sr EXCEPT ![a] = OnDisk(u)]

(* A handler has one of these outcomes.                                    *)
LEMMA OutcomeOf ==
  ASSUME NEW a \in Auths, NEW saves, NEW s, NEW t, NEW next,
         Written(saves, s, a, t), Outcome(a, saves, next)
  PROVE  Completed(a, s, t, next) \/ CutShort(a, s, t)
<1>1. PICK S, v : /\ Saves(saves, S, v) /\ Updated(v, s, a, t)
                  /\ \A u \in S : Saved(u, s, a, t)
  BY DEF Written
<1>2. Last(saves) = v /\ \A i \in 1 .. Len(saves) - 1 : saves[i] \in S
  BY <1>1 DEF Saves
<1> QED BY <1>1, <1>2, Zenon DEF Outcome, Completed, CutShort

(* What an authority has committed to: the commitments it posted, and the  *)
(* one in its state.                                                       *)
Known(s, a, posts) == posts \cup ({s.commits[a]} \ {None})

(* The authority commits no second time in run r: the run is over, or its  *)
(* state is of the run or later and, in the run's commit phase, has a      *)
(* commitment and is kept on disk until the run ends.                      *)
Guarded(s, a, r, loose) ==
  \/ First(r) + TotalRounds <= clock + 1
  \/ /\ First(r) <= s.valid_after
     /\ s.valid_after < First(r) + N_ROUNDS =>
          /\ s.commits[a] # None
          /\ loose \/ First(r) + TotalRounds <= s.valid_until + 1

(* A state that takes part in every commit phase it is in, with at most    *)
(* one commitment in each run.  One that a crash left between two saves    *)
(* (torn) may lack the commitment, and a later one may then outlive the    *)
(* file.                                                                   *)
Sound(s, a, posts, torn, up) ==
  /\ torn \/ (get_sr_protocol_phase(s.valid_after) = "commit" => s.commits[a] # None)
  /\ \A c \in Known(s, a, posts) : Guarded(s, a, c.run, torn /\ up)
  /\ \A c, d \in Known(s, a, posts) : c.run = d.run => c = d

(* sr_generate_our_commit() makes a commitment for the run of the round.   *)
LEMMA NewCommit ==
  ASSUME clock \in Nat, crashes \in Nat, NEW a \in Auths, NEW t \in {clock, clock + 1},
         NEW g, g = sr_generate_our_commit(a, t)
  PROVE  g \in Commitments /\ g # None /\ g.by = a /\ g.run = RunOf(t)
<1>1. RunOf(t) \in Nat
  BY RoundsOfRuns
<1>2. PICK m : m = <<clock, crashes>> /\ m \in Seq(Nat)
  <2>1. <<clock, crashes>> \in Seq(Nat)
    OBVIOUS
  <2> QED BY <2>1
<1>3. g = [by |-> a, run |-> RunOf(t), made |-> m]
  BY <1>2 DEF sr_generate_our_commit
<1>4. g \in Commitments /\ g.by = a /\ g.run = RunOf(t)
  BY <1>1, <1>2, <1>3 DEF Commitments
<1> QED BY <1>4, NoneAssumption

(* A state that was not saved long ago, and its next round.                *)
Current(s) ==
  /\ clock \in Nat /\ crashes \in Nat /\ IsState(s) /\ s.valid_after <= clock + 1

(* The commitment in the state of a is its own.                            *)
Honest(s, a) ==
  s.commits[a] = None \/ (s.commits[a] \in Commitments /\ s.commits[a].by = a)

(* A run has two phases of N_ROUNDS rounds.                                *)
LEMMA Lengths ==
  /\ N_ROUNDS \in Nat /\ N_ROUNDS > 0
  /\ TotalRounds \in Nat /\ TotalRounds = N_ROUNDS + N_ROUNDS
  BY RoundsAssumption DEF TotalRounds

(* A round of a run that is not over is in its commit phase if it comes    *)
(* before the run's reveal phase.                                          *)
LEMMA SameRun ==
  ASSUME NEW t \in Nat, NEW r \in Nat, First(r) <= t, t < First(r) + N_ROUNDS
  PROVE  RunOf(t) = r /\ get_sr_protocol_phase(t) = "commit"
<1>1. PICK n \in Nat, q \in Nat, f \in Nat, g \in Nat :
        n = N_ROUNDS /\ n > 0 /\ TotalRounds = n + n /\ q = RunOf(t) /\ f = First(r) /\ g = First(q)
  <2>1. RunOf(t) \in Nat
    BY RoundsOfRuns
  <2>2. First(r) \in Nat /\ First(RunOf(t)) \in Nat
    BY <2>1, RunsInOrder
  <2> QED BY <2>1, <2>2, Lengths
<1>2. g <= t /\ t < g + n + n /\ (get_sr_protocol_phase(t) = "commit" <=> t < g + n)
  BY <1>1, RoundsOfRuns
<1>3. (r < q => f + n + n <= g) /\ (q < r => g + n + n <= f)
  BY <1>1, RunsInOrder, SMTT(30)
<1>4. q = r
  BY <1>1, <1>2, <1>3
<1> QED BY <1>1, <1>2, <1>4

(* The phase in which an authority generates belongs to a run it has not   *)
(* committed to.                                                           *)
LEMMA NoneOfThisRun ==
  ASSUME NEW s, Current(s), s.phase = get_sr_protocol_phase(s.valid_after),
         NEW t \in {clock, clock + 1}, NEW a \in Auths, NEW posts, NEW torn, NEW up,
         Sound(s, a, posts, torn, up), Generates(s, t), NEW c \in Known(s, a, posts)
  PROVE  c.run # RunOf(t)
<1> SUFFICES ASSUME c.run = RunOf(t) PROVE FALSE
  OBVIOUS
<1>1. PICK n \in Nat, r \in Nat, f \in Nat, m \in Nat :
        /\ n = N_ROUNDS /\ n > 0 /\ TotalRounds = n + n /\ r = RunOf(t) /\ f = First(r)
        /\ m = s.valid_after
  <2>1. t \in Nat /\ s.valid_after \in Nat
    BY DEF Current, IsState
  <2>2. RunOf(t) \in Nat
    BY <2>1, RoundsOfRuns
  <2>3. First(RunOf(t)) \in Nat
    BY <2>2, RunsInOrder
  <2> QED BY <2>1, <2>2, <2>3, Lengths
<1>2. t < f + n /\ m < t
  BY <1>1, RoundsOfRuns DEF Generates, Current
<1>3. ~(f + (n + n) <= clock + 1)
  BY <1>1, <1>2 DEF Current
<1>4. PICK loose : Guarded(s, a, r, loose)
  BY <1>1 DEF Sound
<1>5. f <= m /\ (m < f + n => s.commits[a] # None)
  BY <1>1, <1>3, <1>4 DEF Guarded
<1>6. m < f + n
  BY <1>1, <1>2 DEF Current
<1>7. get_sr_protocol_phase(s.valid_after) = "commit"
  BY <1>1, <1>5, <1>6, SameRun
<1>8. s.commits = NoCommits
  BY <1>7 DEF Generates
<1> QED BY <1>5, <1>6, <1>8 DEF NoCommits

(* The round t of a run not over yet and after the state is still guarded. *)
LEMMA OtherRuns ==
  ASSUME NEW s, Current(s), NEW t \in {clock, clock + 1}, t > s.valid_after,
         NEW a, NEW r \in Nat, NEW loose, Guarded(s, a, r, loose), r # RunOf(t),
         NEW v, v.valid_after = t, NEW tight
  PROVE  Guarded(v, a, r, tight)
<1>1. PICK n \in Nat, f \in Nat, m \in Nat :
        n = N_ROUNDS /\ TotalRounds = n + n /\ f = First(r) /\ m = s.valid_after
  BY RoundsAssumption, RunsInOrder DEF TotalRounds, Current, IsState
<1>2. CASE f + (n + n) <= clock + 1
  BY <1>1, <1>2 DEF Guarded
<1>3. CASE ~(f + (n + n) <= clock + 1)
  <2>1. f <= t
    BY <1>1, <1>3 DEF Guarded, Current
  <2>2. ~(t < f + n)
    BY <1>1, <2>1, SameRun DEF Current
  <2> QED BY <1>1, <2>1, <2>2 DEF Guarded
<1> QED BY <1>2, <1>3

(* What an authority knows are commitments, and None is not among them.    *)
LEMMA KnownRuns ==
  ASSUME NEW s, NEW a, NEW posts, posts \subseteq Commitments,
         s.commits[a] = None \/ s.commits[a] \in Commitments
  PROVE  \A c \in Known(s, a, posts) : c \in Commitments /\ c.run \in Nat /\ c # None
<1>1. \A c \in Known(s, a, posts) : c \in Commitments
  BY DEF Known
<1> QED BY <1>1, NoneAssumption DEF Commitments

(* A state that keeps its times and its commitment, or learns one that the *)
(* authority posted, is as sound as before.                                *)
LEMMA SoundKept ==
  ASSUME NEW s, NEW u, u.valid_after = s.valid_after, u.valid_until = s.valid_until,
         NEW a, NEW posts, posts \subseteq Commitments,
         \/ u.commits[a] = s.commits[a]
         \/ s.commits[a] = None /\ u.commits[a] \in posts,
         NEW more, more \subseteq Known(s, a, posts),
         NEW torn \in BOOLEAN, NEW up \in BOOLEAN, NEW also \in BOOLEAN,
         Sound(s, a, posts, torn, up), torn /\ up => also
  PROVE  Sound(u, a, more, torn, also)
<1>1. \A c \in Known(u, a, more) : c \in Known(s, a, posts)
  BY DEF Known
<1>2. s.commits[a] # None => u.commits[a] # None
  OBVIOUS
<1>3. ASSUME NEW c \in Known(s, a, posts) PROVE Guarded(u, a, c.run, torn /\ also)
  <2>1. Guarded(s, a, c.run, torn /\ up)
    BY DEF Sound
  <2> QED BY <1>2, <2>1, Zenon DEF Guarded
<1> QED BY <1>1, <1>2, <1>3 DEF Sound

(* What the authority knew of other runs stays guarded in a later round.   *)
LEMMA OthersGuarded ==
  ASSUME NEW a \in Auths, NEW s, Current(s), Honest(s, a),
         NEW posts, posts \subseteq Commitments, NEW torn, NEW up,
         Sound(s, a, posts, torn, up),
         NEW t \in {clock, clock + 1}, t > s.valid_after, NEW v, v.valid_after = t,
         NEW c \in Known(s, a, posts), c.run # RunOf(t), NEW loose
  PROVE  Guarded(v, a, c.run, loose)
<1>1. PICK r \in Nat : r = c.run /\ r # RunOf(t)
  BY KnownRuns DEF Honest
<1>2. PICK l : Guarded(s, a, r, l)
  BY <1>1 DEF Sound
<1>3. Guarded(v, a, r, loose)
  BY <1>1, <1>2, OtherRuns
<1> QED BY <1>1, <1>3

(* The last state is given a commitment of a run the authority knew none of. *)
LEMMA SoundNew ==
  ASSUME clock \in Nat, crashes \in Nat, NEW a \in Auths, NEW s, NEW posts,
         NEW t \in {clock, clock + 1}, NEW v, v.valid_after = t, NEW loose,
         \A c \in Known(s, a, posts) : c.run # RunOf(t) /\ Guarded(v, a, c.run, loose),
         \A c, d \in Known(s, a, posts) : c.run = d.run => c = d,
         v.commits[a] = sr_generate_our_commit(a, t),
         loose \/ First(RunOf(t)) + TotalRounds <= v.valid_until + 1
  PROVE  /\ \A c \in Known(v, a, posts) : Guarded(v, a, c.run, loose)
         /\ \A c, d \in Known(v, a, posts) : c.run = d.run => c = d
<1>1. PICK g : g = sr_generate_our_commit(a, t)
  OBVIOUS
<1>2. g # None /\ g.run = RunOf(t)
  BY <1>1, NewCommit
<1>3. \A c \in Known(v, a, posts) : c \in Known(s, a, posts) \/ c = g
  BY <1>1 DEF Known
<1>4. Guarded(v, a, RunOf(t), loose)
  <2>1. First(RunOf(t)) <= t
    BY RoundsOfRuns
  <2> QED BY <1>1, <1>2, <2>1 DEF Guarded
<1>5. \A c \in Known(v, a, posts) : Guarded(v, a, c.run, loose)
  BY <1>2, <1>3, <1>4
<1>6. \A c, d \in Known(v, a, posts) : c.run = d.run => c = d
  BY <1>2, <1>3
<1> QED BY <1>5, <1>6

(* sr_state_update() of a state that is in its phase.                      *)
LEMMA SoundUpdated ==
  ASSUME NEW a \in Auths, NEW s, Current(s), Honest(s, a),
         s.phase = get_sr_protocol_phase(s.valid_after),
         NEW posts, posts \subseteq Commitments,
         NEW torn \in BOOLEAN, Sound(s, a, posts, torn, TRUE),
         NEW t \in {clock, clock + 1}, NEW v, Updated(v, s, a, t)
  PROVE  Sound(v, a, posts, torn, TRUE)
<1>1. CASE t <= s.valid_after
  <2>1. Kept(v, s)
    BY <1>1 DEF Updated, Current, IsState
  <2>2. posts \subseteq Known(s, a, posts)
    BY DEF Known
  <2>3. PICK yes \in BOOLEAN : yes = TRUE
    OBVIOUS
  <2>4. Sound(s, a, posts, torn, yes)
    BY <2>3
  <2>5. Sound(v, a, posts, torn, yes)
    BY <2>1, <2>2, <2>4, SoundKept DEF Kept
  <2> QED BY <2>3, <2>5
<1>2. CASE t > s.valid_after /\ ~Generates(s, t)
  <2>1. /\ v.valid_after = t /\ v.commits = s.commits /\ v.valid_until = s.valid_until
    BY <1>2 DEF Updated, Current, IsState
  <2>2. Known(v, a, posts) = Known(s, a, posts)
    BY <2>1 DEF Known
  <2>3. torn \/ (get_sr_protocol_phase(t) = "commit" => s.commits[a] # None)
    <3>1. get_sr_protocol_phase(t) = "commit" => s.phase = "commit"
      BY <1>2 DEF Generates, Current, IsState
    <3> QED BY <3>1 DEF Sound
  <2>4. ASSUME NEW c \in Known(s, a, posts) PROVE Guarded(v, a, c.run, torn /\ TRUE)
    <3>1. PICK r \in Nat : r = c.run
      BY KnownRuns DEF Honest
    <3>2. Guarded(s, a, r, torn /\ TRUE)
      BY <3>1 DEF Sound
    <3>3. First(r) \in Nat
      BY RunsInOrder
    <3>4. PICK n \in Nat, f \in Nat, m \in Nat :
            n = N_ROUNDS /\ f = First(r) /\ m = s.valid_after /\ t \in Nat
      BY <3>3, Lengths DEF Current, IsState
    <3>5. Guarded(v, a, r, torn /\ TRUE)
      BY <1>2, <2>1, <3>2, <3>4 DEF Guarded
    <3> QED BY <3>1, <3>5
  <2> QED BY <2>1, <2>2, <2>3, <2>4 DEF Sound
<1>3. CASE Generates(s, t)
  <2>1. t > s.valid_after /\ v.valid_after = t /\ v.commits[a] = sr_generate_our_commit(a, t)
    BY <1>3 DEF Generates, Updated, Current, IsState
  <2>2. ASSUME ~torn PROVE First(RunOf(t)) + TotalRounds <= v.valid_until + 1
    <3>1. s.phase # "commit"
      BY <1>3, <2>2 DEF Generates, Sound, NoCommits
    <3>2. v.valid_until = get_state_valid_until_time(t)
      BY <1>3, <3>1 DEF Generates, Updated, Current, IsState
    <3> QED BY <3>2, ValidUntil DEF Current
  <2>3. torn \/ First(RunOf(t)) + TotalRounds <= v.valid_until + 1
    BY <2>2
  <2>4. \A c \in Known(s, a, posts) : c.run # RunOf(t)
    BY <1>3, NoneOfThisRun
  <2>5. \A c \in Known(s, a, posts) : Guarded(v, a, c.run, torn)
    BY <2>1, <2>4, OthersGuarded
  <2>6. /\ \A c \in Known(v, a, posts) : Guarded(v, a, c.run, torn)
        /\ \A c, d \in Known(v, a, posts) : c.run = d.run => c = d
    BY <2>1, <2>3, <2>4, <2>5, SoundNew DEF Sound, Current
  <2>7. v.commits[a] # None
    BY <2>1, NewCommit DEF Current
  <2> QED BY <2>6, <2>7 DEF Sound, Guarded
<1>5. t \in Nat /\ s.valid_after \in Nat
  BY DEF Current, IsState
<1>6. t <= s.valid_after \/ t > s.valid_after
  BY <1>5
<1> QED BY <1>1, <1>2, <1>3, <1>6

(* A crash within sr_act_post_consensus(), the only handler it can tear.   *)
LEMMA SoundTorn ==
  ASSUME NEW a \in Auths, NEW s, Current(s), Honest(s, a),
         s.phase = get_sr_protocol_phase(s.valid_after),
         NEW posts, posts \subseteq Commitments, Sound(s, a, posts, FALSE, TRUE),
         NEW t \in {clock, clock + 1}, NEW u, Saved(u, s, a, t)
  PROVE  Sound(u, a, posts, TRUE, FALSE)
<1>1. CASE Kept(u, s)
  <2>1. posts \subseteq Known(s, a, posts)
    BY DEF Known
  <2>2. PICK no \in BOOLEAN, yes \in BOOLEAN : no = FALSE /\ yes = TRUE
    OBVIOUS
  <2>3. Sound(u, a, posts, no, no)
    BY <1>1, <2>1, <2>2, SoundKept DEF Kept
  <2> QED BY <2>2, <2>3 DEF Sound, Guarded
<1>2. CASE Generates(s, t) /\ (Emptied(u, t) \/ Made(u, a, t))
  <2>1. t > s.valid_after /\ u.valid_after = t
    BY <1>2 DEF Generates, Emptied, Made
  <2>2. /\ First(RunOf(t)) + TotalRounds <= u.valid_until + 1
        /\ u.commits[a] = None \/ u.commits[a] = sr_generate_our_commit(a, t)
    BY <1>2, ValidUntil DEF Emptied, Made, Current, NoCommits
  <2>3. \A c \in Known(s, a, posts) : c.run # RunOf(t)
    BY <1>2, NoneOfThisRun
  <2>4. PICK loose \in BOOLEAN : loose = FALSE
    OBVIOUS
  <2>5. \A c \in Known(s, a, posts) : Guarded(u, a, c.run, loose)
    BY <2>1, <2>3, OthersGuarded
  <2>6. /\ \A c \in Known(u, a, posts) : Guarded(u, a, c.run, loose)
        /\ \A c, d \in Known(u, a, posts) : c.run = d.run => c = d
    <3>1. \A c, d \in Known(s, a, posts) : c.run = d.run => c = d
      BY DEF Sound
    <3>2. CASE u.commits[a] = None
      <4>1. \A c \in Known(u, a, posts) : c \in Known(s, a, posts)
        BY <3>2 DEF Known
      <4> QED BY <2>5, <3>1, <4>1
    <3>3. CASE u.commits[a] = sr_generate_our_commit(a, t)
      <4>1. loose \/ First(RunOf(t)) + TotalRounds <= u.valid_until + 1
        BY <2>2
      <4>2. clock \in Nat /\ crashes \in Nat /\ u.valid_after = t
        BY <2>1 DEF Current
      <4>3. \A c \in Known(s, a, posts) : c.run # RunOf(t) /\ Guarded(u, a, c.run, loose)
        BY <2>3, <2>5
      <4> QED BY <3>1, <3>3, <4>1, <4>2, <4>3, SoundNew
    <3> QED BY <2>2, <3>2, <3>3
  <2> QED BY <2>4, <2>6 DEF Sound, Guarded
<1>3. CASE Generates(s, t) /\ s.phase = "commit"
  <2>1. s.commits[a] # None
    BY <1>3 DEF Sound
  <2> QED BY <1>3, <2>1 DEF Generates, NoCommits
<1> QED BY <1>1, <1>2, <1>3 DEF Saved

(* sr_state_init() with a file that is no longer valid: the run of every   *)
(* known commitment is over or in its reveal phase.                        *)
LEMMA SoundFresh ==
  ASSUME NEW a \in Auths, NEW s, Current(s), Honest(s, a),
         NEW posts, posts \subseteq Commitments,
         Sound(s, a, posts, TRUE, FALSE), ~disk_state_validate(s),
         NEW t, t = clock + 1, NEW v, Updated(v, state_new, a, t)
  PROVE  Sound(v, a, posts, FALSE, TRUE)
<1>1. PICK n \in Nat, m \in Nat, k \in Nat, now \in Nat :
        /\ n = N_ROUNDS /\ n > 0 /\ TotalRounds = n + n
        /\ m = s.valid_after /\ k = s.valid_until /\ now = clock
        /\ m <= now + 1 /\ (k <= now \/ m >= k)
  <2>1. ~(s.valid_until > clock) \/ ~(s.valid_after < s.valid_until)
    BY DEF disk_state_validate
  <2> QED BY <2>1, Lengths DEF Current, IsState
<1>2. ASSUME NEW c \in Known(s, a, posts)
      PROVE  \/ First(c.run) + TotalRounds <= clock + 1
             \/ First(c.run) + N_ROUNDS <= t
  <2>1. PICK r \in Nat, f \in Nat : r = c.run /\ f = First(r)
    BY KnownRuns, RunsInOrder DEF Honest
  <2>2. Guarded(s, a, r, FALSE)
    BY <2>1 DEF Sound, Guarded
  <2>3. \/ f + (n + n) <= now + 1
        \/ f <= m /\ (m < f + n => f + (n + n) <= k + 1)
    BY <1>1, <2>1, <2>2 DEF Guarded
  <2>4. f + (n + n) <= now + 1 \/ f + n <= now + 1
    BY <1>1, <2>3
  <2> QED BY <1>1, <2>1, <2>4
<1>3. PICK new : new = state_new
  OBVIOUS
<1>4. /\ new.valid_after = 0 /\ new.commits = NoCommits
      /\ new.phase = get_sr_protocol_phase(clock)
      /\ new.valid_until = get_state_valid_until_time(clock)
  BY <1>3 DEF state_new
<1>5. t > new.valid_after /\ ~(t <= new.valid_after) /\ v.valid_after = t
  BY <1>1, <1>3, <1>4 DEF Updated
<1>6. ASSUME NEW c \in Known(s, a, posts), NEW loose
      PROVE  Guarded(v, a, c.run, loose)
  <2>1. PICK f \in Nat : f = First(c.run)
    BY KnownRuns, RunsInOrder DEF Honest
  <2>2. f + (n + n) <= now + 1 \/ (f <= t /\ ~(t < f + n))
    BY <1>1, <1>2, <2>1
  <2> QED BY <1>1, <1>5, <2>1, <2>2 DEF Guarded
<1>7. CASE get_sr_protocol_phase(t) = "commit"
  <2>1. Generates(new, t)
    BY <1>4, <1>5, <1>7 DEF Generates
  <2>2. v.commits[a] = sr_generate_our_commit(a, t)
    BY <1>3, <1>5, <2>1 DEF Updated
  <2>3. First(RunOf(t)) + TotalRounds <= v.valid_until + 1
    <3>1. CASE new.phase = "reveal"
      <4>1. v.valid_until = get_state_valid_until_time(t)
        BY <1>3, <1>5, <2>1, <3>1 DEF Updated
      <4> QED BY <4>1, ValidUntil DEF Current
    <3>2. CASE new.phase = "commit"
      <4>1. v.valid_until = get_state_valid_until_time(clock)
        BY <1>3, <1>4, <1>5, <2>1, <3>2 DEF Updated
      <4>2. RunOf(t) = RunOf(clock)
        <5>1. PICK r \in Nat, f \in Nat :
                /\ r = RunOf(clock) /\ f = First(r) /\ f <= now /\ now < f + n
          <6>1. RunOf(clock) \in Nat
            BY <1>1, RoundsOfRuns
          <6>2. First(RunOf(clock)) \in Nat
            BY <6>1, RunsInOrder
          <6> QED BY <1>1, <1>4, <3>2, <6>1, <6>2, RoundsOfRuns
        <5>2. CASE now + 1 < f + n
          BY <1>1, <5>1, <5>2, SameRun
        <5>3. CASE now + 1 = f + n
          <6>1. PICK q \in Nat, g \in Nat :
                  /\ q = RunOf(t) /\ g = First(q) /\ g <= t /\ t < g + n
            <7>1. RunOf(t) \in Nat
              BY <1>1, RoundsOfRuns
            <7>2. First(RunOf(t)) \in Nat
              BY <7>1, RunsInOrder
            <7> QED BY <1>1, <1>7, <7>1, <7>2, RoundsOfRuns
          <6>2. (q < r => g + (n + n) <= f) /\ (r < q => f + (n + n) <= g)
            BY <1>1, <5>1, <6>1, RunsInOrder
          <6> QED BY <1>1, <5>1, <5>3, <6>1, <6>2
        <5> QED BY <1>1, <5>1, <5>2, <5>3
      <4> QED BY <4>1, <4>2, ValidUntil DEF Current
    <3> QED BY <1>4, <3>1, <3>2, Phases
  <2>4. \A c \in Known(s, a, posts) : c.run # RunOf(t)
    <3> SUFFICES ASSUME NEW c \in Known(s, a, posts), c.run = RunOf(t) PROVE FALSE
      OBVIOUS
    <3>1. PICK f \in Nat : f = First(RunOf(t)) /\ t < f + n
      <4>1. RunOf(t) \in Nat
        BY <1>1, RoundsOfRuns
      <4>2. First(RunOf(t)) \in Nat
        BY <4>1, RunsInOrder
      <4> QED BY <1>1, <1>7, <4>2, RoundsOfRuns
    <3>2. f + (n + n) <= now + 1 \/ f + n <= t
      BY <1>1, <1>2, <3>1
    <3> QED BY <1>1, <3>1, <3>2
  <2>8. PICK loose \in BOOLEAN : loose = FALSE
    OBVIOUS
  <2>5. \A c \in Known(s, a, posts) : Guarded(v, a, c.run, loose)
    BY <1>6
  <2>6. /\ \A c \in Known(v, a, posts) : Guarded(v, a, c.run, loose)
        /\ \A c, d \in Known(v, a, posts) : c.run = d.run => c = d
    BY <1>1, <1>5, <2>2, <2>3, <2>4, <2>5, SoundNew DEF Sound, Current
  <2>7. v.commits[a] # None
    BY <1>1, <2>2, NewCommit DEF Current
  <2> QED BY <2>6, <2>7, <2>8 DEF Sound, Guarded
<1>8. CASE get_sr_protocol_phase(t) # "commit"
  <2>1. v.commits = NoCommits
    BY <1>3, <1>4, <1>5, <1>8 DEF Updated, Generates
  <2>2. \A c \in Known(v, a, posts) : c \in Known(s, a, posts)
    BY <2>1 DEF Known, NoCommits
  <2>3. \A c \in Known(s, a, posts) : Guarded(v, a, c.run, FALSE /\ TRUE)
    BY <1>6
  <2> QED BY <1>5, <1>8, <2>2, <2>3 DEF Sound
<1> QED BY <1>7, <1>8

Posts(a) == {c \in committed : c.by = a}

(* The variables and the state of each authority.                          *)
CommitTypes ==
  /\ crashes \in Nat /\ committed \subseteq Commitments
  /\ sr = [a \in Auths |-> sr[a]]
  /\ pending = [a \in Auths |-> pending[a]]
  /\ \A a \in Auths : pending[a] = [b \in Auths |-> pending[a][b]]

Authority(a) ==
  /\ Current(sr[a]) /\ Honest(sr[a], a)
  /\ at[a] # "down" => sr[a].phase = get_sr_protocol_phase(sr[a].valid_after)
  /\ at[a] = "down" \/ a \in cut => crashes >= 1

(* What others got from an authority it has posted.                        *)
Carried(a) ==
  \A x \in Auths : pending[x][a] # None => pending[x][a].commit \in Posts(a) \cup {None}

(* One crash at any save does no harm, nor do any that come between        *)
(* handlers.                                                               *)
Single(a) ==
  crashes <= 1 \/ a \notin cut =>
    Sound(sr[a], a, Posts(a), a \in cut, at[a] # "down")

CommitInv ==
  /\ CommitTypes
  /\ \A a \in Auths : Authority(a) /\ Carried(a) /\ Single(a)

(* The types of what a handler makes of a state.                           *)
LEMMA UpdatedTypes ==
  ASSUME NEW a \in Auths, NEW s, Current(s), Honest(s, a), NEW t \in {clock, clock + 1},
         NEW v, Updated(v, s, a, t)
  PROVE  /\ Current(v) /\ Honest(v, a)
         /\ s.phase = get_sr_protocol_phase(s.valid_after)
              => v.phase = get_sr_protocol_phase(v.valid_after)
<1>1. CASE t <= s.valid_after
  BY <1>1 DEF Updated, Current, Honest, Kept, IsState
<1>2. CASE t > s.valid_after
  <2>1. IsState(v) /\ v.valid_after = t /\ v.phase = get_sr_protocol_phase(t)
    BY <1>2 DEF Updated, Current, IsState
  <2>2. v.commits[a] = s.commits[a] \/ v.commits[a] = sr_generate_our_commit(a, t)
    BY <1>2 DEF Updated, Current, IsState
  <2>3. Current(v)
    BY <2>1 DEF Current
  <2>4. Honest(v, a)
    BY <2>2, NewCommit DEF Honest, Current
  <2> QED BY <2>1, <2>3, <2>4
<1> QED BY <1>1, <1>2 DEF Current, IsState

(* The types of what a crash leaves of a state on disk.                    *)
LEMMA SavedTypes ==
  ASSUME NEW a \in Auths, NEW s, Current(s), Honest(s, a), NEW t \in {clock, clock + 1},
         NEW u, Saved(u, s, a, t), NEW w, w = OnDisk(u)
  PROVE  /\ Current(w) /\ Honest(w, a) /\ w.commits = u.commits
         /\ w.valid_after = u.valid_after /\ w.valid_until = u.valid_until
<1>1. IsState(u) /\ u.valid_after <= clock + 1
  BY DEF Saved, Kept, Emptied, Made, Current, IsState
<1>2. /\ IsState(w) /\ w.commits = u.commits
      /\ w.valid_after = u.valid_after /\ w.valid_until = u.valid_until
  BY <1>1 DEF OnDisk, IsState
<1>3. \/ u.commits[a] = s.commits[a] \/ u.commits[a] = None
      \/ u.commits[a] = sr_generate_our_commit(a, t)
  BY DEF Saved, Kept, Emptied, Made, NoCommits
<1>4. Honest(u, a)
  BY <1>3, NewCommit DEF Honest, Current
<1> QED BY <1>1, <1>2, <1>4 DEF Current, Honest

(* state_new() is a state without commitments and without a round.         *)
LEMMA NewState ==
  ASSUME clock \in Nat, crashes \in Nat, NEW a \in Auths
  PROVE  /\ Current(state_new) /\ Honest(state_new, a)
         /\ state_new.valid_after = 0 /\ state_new.commits[a] = None
         /\ state_new.phase = get_sr_protocol_phase(clock)
<1>1. get_state_valid_until_time(clock) \in Nat
  BY ValidUntil
<1>2. PICK s : s = state_new
  OBVIOUS
<1>3. /\ s.commits = NoCommits /\ s.valid_after = 0 /\ s.phase = get_sr_protocol_phase(clock)
      /\ IsState(s)
  BY <1>1, <1>2, Phases DEF state_new, IsState, NoCommits
<1> QED BY <1>2, <1>3 DEF Current, Honest, NoCommits

(* The authorities begin with new states, prepared for the first round.    *)
LEMMA InitiallyOnce == Init => CommitInv
<1> SUFFICES ASSUME Init PROVE CommitInv
  OBVIOUS
<1>1. clock \in Nat /\ crashes = 0 /\ committed = {} /\ cut = {}
  BY RoundsAssumption DEF Init
<1>2. \A x, a \in Auths : pending[x][a] = None
  BY DEF Init, NoVotes
<1>3. CommitTypes
  BY <1>1 DEF Init, CommitTypes, NoVotes
<1>4. ASSUME NEW a \in Auths PROVE Authority(a) /\ Single(a)
  <2>1. PICK new, t : new = state_new /\ t = clock + 1
    OBVIOUS
  <2>2. /\ Current(new) /\ Honest(new, a) /\ new.valid_after = 0 /\ new.commits[a] = None
        /\ IsState(new)
    BY <1>1, <2>1, NewState DEF Current
  <2>3. Written(sr_state_update(new, a, t), new, a, t)
    BY <1>1, <2>1, <2>2, UpdateSaves
  <2>4. sr[a] = Last(sr_state_update(new, a, t)) /\ at[a] = "todo"
    BY <2>1 DEF Init
  <2>5. Updated(sr[a], new, a, t)
    BY <2>3, <2>4 DEF Written, Saves
  <2>6. PICK v : v = sr[a]
    OBVIOUS
  <2>7. Current(v) /\ Honest(v, a) /\ v.phase = get_sr_protocol_phase(v.valid_after)
    <3>1. Current(v) /\ Honest(v, a)
      BY <2>1, <2>2, <2>5, <2>6, UpdatedTypes
    <3>2. t > new.valid_after /\ ~(t <= new.valid_after)
      BY <1>1, <2>1, <2>2
    <3> QED BY <2>5, <2>6, <3>1, <3>2 DEF Updated
  <2>8. PICK s, posts : s = [new EXCEPT !.valid_until = 0] /\ posts = {}
    OBVIOUS
  <2>9. /\ Current(s) /\ Honest(s, a) /\ s.commits[a] = None /\ ~disk_state_validate(s)
    BY <1>1, <2>2, <2>8 DEF Current, IsState, Honest, disk_state_validate
  <2>10. Sound(s, a, posts, TRUE, FALSE)
    BY <2>8, <2>9 DEF Sound, Known
  <2>11. Updated(v, state_new, a, t) /\ posts \subseteq Commitments
    BY <2>1, <2>5, <2>6, <2>8
  <2>12. Sound(v, a, posts, FALSE, TRUE)
    BY <2>1, <2>9, <2>10, <2>11, SoundFresh
  <2>13. Posts(a) = posts
    BY <1>1, <2>8 DEF Posts
  <2>14. Single(a)
    <3>1. (a \in cut) = FALSE /\ (at[a] # "down") = TRUE
      BY <1>1, <2>4
    <3>2. Sound(sr[a], a, Posts(a), FALSE, TRUE)
      BY <2>6, <2>12, <2>13
    <3> QED BY <3>1, <3>2 DEF Single
  <2> QED BY <1>1, <2>4, <2>6, <2>7, <2>14 DEF Authority
<1> QED BY <1>2, <1>3, <1>4 DEF CommitInv, Carried

(* A step that leaves authority b alone, whoever crashes in it.            *)
LEMMA LeftAlone ==
  ASSUME CommitInv, NEW b \in Auths, sr'[b] = sr[b], at'[b] = at[b],
         b \in cut' <=> b \in cut, crashes' \in {crashes, crashes + 1},
         UNCHANGED <<clock, committed>>
  PROVE  Authority(b)' /\ Single(b)'
<1>1. Authority(b) /\ Single(b) /\ crashes \in Nat
  BY DEF CommitInv, CommitTypes
<1>2. PICK s : s = sr[b] /\ s = sr'[b]
  OBVIOUS
<1>3. Current(s) => Current(s)'
  BY <1>1 DEF Current, IsState
<1>4. Authority(b)'
  BY <1>1, <1>2, <1>3 DEF Authority, Honest
<1>5. PICK torn, up : /\ torn = (b \in cut) /\ torn = (b \in cut')
                      /\ up = (at[b] # "down") /\ up = (at'[b] # "down")
  <2>1. (b \in cut) = (b \in cut') /\ (at[b] # "down") = (at'[b] # "down")
    OBVIOUS
  <2> QED BY <2>1
<1>6. PICK posts : posts = Posts(b) /\ posts = Posts(b)'
  BY DEF Posts
<1>7. ASSUME crashes' <= 1 \/ b \notin cut' PROVE Sound(s, b, posts, torn, up)
  <2>1. crashes <= 1 \/ b \notin cut
    BY <1>1, <1>7
  <2> QED BY <1>1, <1>2, <1>5, <1>6, <2>1 DEF Single
<1>8. Sound(s, b, posts, torn, up) => Sound(s, b, posts, torn, up)'
  BY DEF Sound, Guarded
<1> QED BY <1>2, <1>4, <1>5, <1>6, <1>7, <1>8, Zenon DEF Single

(* Votes that are only forgotten were posted.                              *)
LEMMA StillCarried ==
  ASSUME CommitInv, UNCHANGED committed, NEW a \in Auths,
         pending' = pending \/ pending' = [pending EXCEPT ![a] = NoVotes]
  PROVE  /\ pending' = [x \in Auths |-> pending'[x]]
         /\ \A x \in Auths : pending'[x] = [b \in Auths |-> pending'[x][b]]
         /\ \A b \in Auths : Carried(b)'
<1>1. /\ pending = [x \in Auths |-> pending[x]]
      /\ \A x \in Auths : pending[x] = [b \in Auths |-> pending[x][b]]
  BY DEF CommitInv, CommitTypes
<1>2. \A x \in Auths : pending'[x] = pending[x] \/ pending'[x] = NoVotes
  BY <1>1
<1>3. pending' = [x \in Auths |-> pending'[x]]
  BY <1>1
<1>4. ASSUME NEW x \in Auths PROVE pending'[x] = [b \in Auths |-> pending'[x][b]]
  BY <1>1, <1>2 DEF NoVotes
<1>5. ASSUME NEW b \in Auths PROVE Carried(b)'
  <2>1. \A x \in Auths : pending'[x][b] # None => pending'[x][b] = pending[x][b]
    BY <1>2 DEF NoVotes
  <2>2. Posts(b)' = Posts(b)
    BY DEF Posts
  <2> QED BY <2>1, <2>2 DEF CommitInv, Carried
<1> QED BY <1>3, <1>4, <1>5

(* A handler updates s, the state of a or the one that it boots with, or a *)
(* crash leaves one of the states it saved.                                *)
LEMMA HandlerStep ==
  ASSUME CommitInv, Types, NEW a \in Auths, NEW s, NEW t \in {clock, clock + 1},
         Current(s), Honest(s, a), at[a] # "down" => s = sr[a],
         NEW saves, NEW next \in {"todo", "done"},
         Written(saves, s, a, t), Outcome(a, saves, next),
         \A v : Updated(v, s, a, t) => v.phase = get_sr_protocol_phase(v.valid_after),
         \A v : /\ Updated(v, s, a, t)
                /\ crashes <= 1 \/ a \notin cut
                => Sound(v, a, Posts(a), a \in cut, TRUE),
         UNCHANGED <<clock, committed>>,
         pending' = pending \/ pending' = [pending EXCEPT ![a] = NoVotes]
  PROVE  CommitInv'
<1>1. Authority(a) /\ Single(a) /\ crashes \in Nat /\ sr = [b \in Auths |-> sr[b]]
  BY DEF CommitInv, CommitTypes
<1>2. /\ pending' = [x \in Auths |-> pending'[x]]
      /\ \A x \in Auths : pending'[x] = [b \in Auths |-> pending'[x][b]]
      /\ \A b \in Auths : Carried(b)'
  BY StillCarried
<1>3. PICK posts : posts = Posts(a) /\ posts = Posts(a)' /\ posts \subseteq Commitments
  <2>1. Posts(a) \subseteq Commitments /\ Posts(a)' = Posts(a)
    BY DEF Posts, CommitInv, CommitTypes
  <2> QED BY <2>1
<1>4. CASE Completed(a, s, t, next)
  <2>0. UNCHANGED <<crashes, cut>> /\ at' = [at EXCEPT ![a] = next]
    BY <1>4 DEF Completed
  <2>1. PICK v : Updated(v, s, a, t) /\ sr' = [sr EXCEPT ![a] = v]
    BY <1>4 DEF Completed
  <2>2. sr'[a] = v /\ at'[a] = next /\ \A b \in Auths \ {a} : sr'[b] = sr[b] /\ at'[b] = at[b]
    BY <1>1, <2>0, <2>1 DEF Types
  <2>3. CommitTypes'
    BY <1>1, <1>2, <2>0, <2>1 DEF CommitInv, CommitTypes
  <2>4. ASSUME NEW b \in Auths \ {a} PROVE Authority(b)' /\ Single(b)'
    BY <1>1, <2>0, <2>2, LeftAlone
  <2>5. Current(v) /\ Honest(v, a) /\ v.phase = get_sr_protocol_phase(v.valid_after)
    BY <2>1, UpdatedTypes
  <2>6. Authority(a)'
    <3>1. Current(v)'
      BY <2>0, <2>5 DEF Current, IsState
    <3>2. a \in cut' => crashes' >= 1
      BY <1>1, <2>0 DEF Authority
    <3> QED BY <2>2, <2>5, <3>1, <3>2 DEF Authority, Honest
  <2>7. Single(a)'
    <3> SUFFICES ASSUME crashes' <= 1 \/ a \notin cut'
                 PROVE  Sound(sr[a], a, Posts(a), a \in cut, at[a] # "down")'
      BY DEF Single
    <3>1. PICK torn : torn = (a \in cut) /\ torn = (a \in cut')
      BY <2>0
    <3>2. Sound(v, a, posts, torn, TRUE)
      BY <1>3, <2>0, <2>1, <3>1
    <3>3. Sound(v, a, posts, torn, TRUE)'
      BY <3>2 DEF Sound, Guarded
    <3>4. (at'[a] # "down") = TRUE
      BY <2>2
    <3> QED BY <1>3, <2>2, <3>1, <3>3, <3>4
  <2> QED BY <1>2, <2>3, <2>4, <2>6, <2>7 DEF CommitInv
<1>5. CASE CutShort(a, s, t)
  <2>0. /\ crashes' = crashes + 1 /\ cut' = cut \cup {a} /\ at' = [at EXCEPT ![a] = "down"]
        /\ crashes' \in Nat
    BY <1>1, <1>5 DEF CutShort
  <2>1. PICK u, w : Saved(u, s, a, t) /\ w = OnDisk(u) /\ sr' = [sr EXCEPT ![a] = w]
    BY <1>5 DEF CutShort
  <2>2. sr'[a] = w /\ at'[a] = "down" /\ \A b \in Auths \ {a} : sr'[b] = sr[b] /\ at'[b] = at[b]
    BY <1>1, <2>0, <2>1 DEF Types
  <2>3. CommitTypes'
    BY <1>1, <1>2, <2>0, <2>1 DEF CommitInv, CommitTypes
  <2>4. ASSUME NEW b \in Auths \ {a} PROVE Authority(b)' /\ Single(b)'
    BY <1>1, <2>0, <2>2, LeftAlone
  <2>5. /\ Current(w) /\ Honest(w, a) /\ w.commits = u.commits
        /\ w.valid_after = u.valid_after /\ w.valid_until = u.valid_until
    BY <2>1, SavedTypes
  <2>6. Authority(a)'
    <3>1. Current(w)'
      BY <1>1, <2>0, <2>5 DEF Current, IsState
    <3>2. crashes' >= 1
      BY <1>1, <2>0
    <3> QED BY <2>2, <2>5, <3>1, <3>2 DEF Authority, Honest
  <2>7. Single(a)'
    <3> SUFFICES ASSUME crashes' <= 1 \/ a \notin cut'
                 PROVE  Sound(sr[a], a, Posts(a), a \in cut, at[a] # "down")'
      BY DEF Single
    <3>1. crashes = 0 /\ a \notin cut /\ at[a] # "down"
      BY <1>1, <2>0 DEF Authority
    <3>2. Sound(s, a, posts, FALSE, TRUE)
      <4>1. (a \in cut) = FALSE /\ (at[a] # "down") = TRUE
        BY <3>1
      <4> QED BY <1>1, <1>3, <3>1, <4>1 DEF Single
    <3>3. PICK no \in BOOLEAN, yes \in BOOLEAN : no = FALSE /\ yes = TRUE
      OBVIOUS
    <3>4. Sound(u, a, posts, TRUE, FALSE)
      <4>1. s.phase = get_sr_protocol_phase(s.valid_after)
        BY <1>1, <3>1 DEF Authority
      <4> QED BY <1>3, <2>1, <3>2, <4>1, SoundTorn
    <3>5. Sound(u, a, posts, yes, no)
      BY <3>3, <3>4
    <3>6. posts \subseteq Known(u, a, posts)
      BY DEF Known
    <3>7. Sound(w, a, posts, yes, no)
      BY <1>3, <2>5, <3>5, <3>6, SoundKept
    <3>8. Sound(w, a, posts, yes, no)'
      BY <2>0, <3>7 DEF Sound, Guarded
    <3>9. (a \in cut') = TRUE /\ (at'[a] # "down") = FALSE
      BY <2>0, <2>2
    <3> QED BY <1>3, <2>2, <3>3, <3>8, <3>9
  <2> QED BY <1>2, <2>3, <2>4, <2>6, <2>7 DEF CommitInv
<1> QED BY <1>4, <1>5, OutcomeOf

(* sr_act_post_consensus() at an authority that is up.                     *)
LEMMA PostConsensusStep ==
  ASSUME CommitInv, Types, NEW a \in Auths, at[a] # "down",
         NEW c, NEW t \in {clock, clock + 1},
         Outcome(a, sr_act_post_consensus(sr[a], a, c, t), "done"),
         UNCHANGED <<clock, committed>>,
         pending' = pending \/ pending' = [pending EXCEPT ![a] = NoVotes]
  PROVE  CommitInv'
<1>1. PICK s, saves : s = sr[a] /\ saves = sr_act_post_consensus(s, a, c, t)
  OBVIOUS
<1>2. /\ Current(s) /\ Honest(s, a) /\ s.phase = get_sr_protocol_phase(s.valid_after)
      /\ clock \in Nat /\ IsState(s)
  BY <1>1 DEF CommitInv, Authority, Current
<1>3. Written(saves, s, a, t)
  BY <1>1, <1>2, PostConsensusSaves
<1>4. PICK posts : posts = Posts(a) /\ posts \subseteq Commitments
  <2>1. Posts(a) \subseteq Commitments
    BY DEF Posts, CommitInv, CommitTypes
  <2> QED BY <2>1
<1>5. PICK torn \in BOOLEAN : torn = (a \in cut)
  <2>1. (a \in cut) \in BOOLEAN
    OBVIOUS
  <2> QED BY <2>1
<1>6. ASSUME crashes <= 1 \/ a \notin cut PROVE Sound(s, a, posts, torn, TRUE)
  <2>1. (at[a] # "down") = TRUE
    OBVIOUS
  <2> QED BY <1>1, <1>4, <1>5, <1>6, <2>1 DEF CommitInv, Single
<1>7. ASSUME NEW v, Updated(v, s, a, t), crashes <= 1 \/ a \notin cut
      PROVE  Sound(v, a, Posts(a), a \in cut, TRUE)
  <2>1. Sound(s, a, posts, torn, TRUE)
    BY <1>6, <1>7
  <2>2. Sound(v, a, posts, torn, TRUE)
    <3>1. Updated(v, s, a, t) /\ posts \subseteq Commitments
      BY <1>4, <1>7
    <3>2. Current(s) /\ Honest(s, a) /\ s.phase = get_sr_protocol_phase(s.valid_after)
      BY <1>2
    <3> QED BY <2>1, <3>1, <3>2, SoundUpdated, ZenonT(60)
  <2> QED BY <1>4, <1>5, <2>2
<1>8. Outcome(a, saves, "done")
  BY <1>1
<1>9. \A v : Updated(v, s, a, t) => v.phase = get_sr_protocol_phase(v.valid_after)
  BY <1>2, UpdatedTypes
<1> QED BY <1>1, <1>2, <1>3, <1>7, <1>8, <1>9, HandlerStep

(* dirvote_publish_consensus() and what follows, with the new consensus or *)
(* without one.                                                            *)
LEMMA PublishOnce ==
  ASSUME CommitInv, Types, NEW a \in Auths, Publish(a)
  PROVE  CommitInv'
<1>1. /\ at[a] # "down" /\ UNCHANGED <<clock, committed>>
      /\ pending' = [pending EXCEPT ![a] = NoVotes]
  BY DEF Publish
<1>2. \E c, t : /\ t \in {clock, clock + 1}
                /\ Outcome(a, sr_act_post_consensus(sr[a], a, c, t), "done")
  <2>1. \/ Outcome(a, sr_act_post_consensus(sr[a], a, mine[a], clock + 1), "done")
        \/ Outcome(a, sr_act_post_consensus(sr[a], a, consensus[a], clock), "done")
    BY DEF Publish
  <2>2. clock \in {clock, clock + 1} /\ clock + 1 \in {clock, clock + 1}
    OBVIOUS
  <2> QED BY <2>1, <2>2, Zenon
<1>3. PICK c, t : /\ t \in {clock, clock + 1}
                  /\ Outcome(a, sr_act_post_consensus(sr[a], a, c, t), "done")
  BY <1>2, Zenon
<1> QED BY <1>1, <1>3, PostConsensusStep

(* handle_response_fetch_consensus(), with a consensus of this round.      *)
LEMMA FetchOnce ==
  ASSUME CommitInv, Types, NEW a \in Auths, FetchConsensus(a)
  PROVE  CommitInv'
<1>1. /\ at[a] # "down" /\ UNCHANGED <<clock, committed>> /\ pending' = pending
  BY DEF FetchConsensus
<1>2. PICK t \in {clock, clock + 1} : t = clock + 1
  OBVIOUS
<1>3. PICK c : Outcome(a, sr_act_post_consensus(sr[a], a, c, t), "done")
  BY <1>2, Zenon DEF FetchConsensus
<1> QED BY <1>1, <1>3, PostConsensusStep

(* sr_state_init(): a file that is kept is as sound as the state was, and  *)
(* one that is refused is of no run that is in its commit phase.           *)
LEMMA BootOnce ==
  ASSUME CommitInv, Types, NEW a \in Auths, sr_state_init(a)
  PROVE  CommitInv'
<1>1. PICK s : s = IF disk_state_validate(sr[a]) THEN disk_state_parse(sr[a]) ELSE state_new
  OBVIOUS
<1>2. PICK next \in {"todo", "done"} : next = IF stage = "vote" THEN "todo" ELSE "done"
  <2>1. (IF stage = "vote" THEN "todo" ELSE "done") \in {"todo", "done"}
    OBVIOUS
  <2> QED BY <2>1
<1>3. PICK t \in {clock, clock + 1} : t = clock + 1
  OBVIOUS
<1>4. PICK saves : saves = <<s>> \o sr_state_update(s, a, t) /\ Outcome(a, saves, next)
  BY <1>1, <1>2, <1>3, Zenon DEF sr_state_init
<1>5. at[a] = "down" /\ UNCHANGED <<clock, committed>> /\ pending' = pending
  BY DEF sr_state_init, Up
<1>6. PICK disk : /\ disk = sr[a] /\ Current(disk) /\ Honest(disk, a) /\ IsState(disk)
                  /\ clock \in Nat /\ crashes \in Nat
  BY DEF CommitInv, Authority, Current
<1>7. PICK posts : posts = Posts(a) /\ posts \subseteq Commitments
  <2>1. Posts(a) \subseteq Commitments
    BY DEF Posts, CommitInv, CommitTypes
  <2> QED BY <2>1
<1>8. PICK torn \in BOOLEAN : torn = (a \in cut)
  <2>1. (a \in cut) \in BOOLEAN
    OBVIOUS
  <2> QED BY <2>1
<1>9. ASSUME crashes <= 1 \/ a \notin cut PROVE Sound(disk, a, posts, torn, FALSE)
  <2>1. (at[a] # "down") = FALSE
    BY <1>5
  <2> QED BY <1>6, <1>7, <1>8, <1>9, <2>1 DEF CommitInv, Single
<1>10. /\ Current(s) /\ Honest(s, a) /\ IsState(s)
       /\ \A v : Updated(v, s, a, t) => v.phase = get_sr_protocol_phase(v.valid_after)
       /\ \A v : /\ Updated(v, s, a, t)
                 /\ crashes <= 1 \/ a \notin cut
                 => Sound(v, a, posts, torn, TRUE)
  <2>1. CASE disk_state_validate(disk)
    <3>1. s = [disk EXCEPT !.phase = get_sr_protocol_phase(disk.valid_after)]
      BY <1>1, <1>6, <2>1 DEF disk_state_parse
    <3>2. /\ Current(s) /\ Honest(s, a) /\ IsState(s) /\ s.commits = disk.commits
          /\ s.valid_after = disk.valid_after /\ s.valid_until = disk.valid_until
          /\ s.phase = get_sr_protocol_phase(s.valid_after)
      BY <1>6, <3>1, Phases DEF Current, Honest, IsState
    <3>3. ASSUME NEW v, Updated(v, s, a, t), crashes <= 1 \/ a \notin cut
          PROVE  Sound(v, a, posts, torn, TRUE)
      <4>1. PICK no \in BOOLEAN, yes \in BOOLEAN : no = FALSE /\ yes = TRUE
        OBVIOUS
      <4>2. Sound(disk, a, posts, torn, no)
        BY <1>9, <3>3, <4>1
      <4>3. posts \subseteq Known(disk, a, posts)
        BY DEF Known
      <4>4. Sound(s, a, posts, torn, yes)
        <5>1. torn /\ no => yes
          BY <4>1
        <5> QED BY <1>7, <3>2, <4>2, <4>3, <5>1, SoundKept
      <4>5. Sound(s, a, posts, torn, TRUE)
        BY <4>1, <4>4
      <4> QED BY <1>7, <3>2, <3>3, <4>5, SoundUpdated
    <3>4. \A v : Updated(v, s, a, t) => v.phase = get_sr_protocol_phase(v.valid_after)
      BY <3>2, UpdatedTypes
    <3> QED BY <3>2, <3>3, <3>4
  <2>2. CASE ~disk_state_validate(disk)
    <3>1. s = state_new
      BY <1>1, <1>6, <2>2
    <3>2. /\ Current(s) /\ Honest(s, a) /\ s.valid_after = 0
      BY <1>6, <3>1, NewState
    <3>3. ASSUME NEW v, Updated(v, s, a, t), crashes <= 1 \/ a \notin cut
          PROVE  Sound(v, a, posts, torn, TRUE)
      <4>1. Sound(disk, a, posts, TRUE, FALSE)
        BY <1>9, <3>3 DEF Sound, Guarded
      <4>2. Updated(v, state_new, a, t)
        BY <3>1, <3>3
      <4>3. Sound(v, a, posts, FALSE, TRUE)
        BY <1>3, <1>6, <1>7, <2>2, <4>1, <4>2, SoundFresh
      <4> QED BY <4>3 DEF Sound, Guarded
    <3>4. ASSUME NEW v, Updated(v, s, a, t)
          PROVE  v.phase = get_sr_protocol_phase(v.valid_after)
      <4>1. ~(t <= s.valid_after)
        BY <1>3, <1>6, <3>2
      <4> QED BY <3>4, <4>1 DEF Updated
    <3> QED BY <3>2, <3>3, <3>4 DEF Current
  <2> QED BY <2>1, <2>2
<1>11. Written(saves, s, a, t)
  BY <1>3, <1>4, <1>6, <1>10, BootSaves
<1>12. \A v : /\ Updated(v, s, a, t)
              /\ crashes <= 1 \/ a \notin cut
              => Sound(v, a, Posts(a), a \in cut, TRUE)
  BY <1>7, <1>8, <1>10
<1> QED BY <1>4, <1>5, <1>10, <1>11, <1>12, HandlerStep

(* An authority that is stopped between two handlers has everything on     *)
(* disk but its phase.                                                     *)
LEMMA CrashOnce ==
  ASSUME CommitInv, Types, NEW a \in Auths, Crash(a)
  PROVE  CommitInv'
<1>1. /\ at[a] # "down" /\ crashes' = crashes + 1
      /\ at' = [at EXCEPT ![a] = "down"] /\ pending' = [pending EXCEPT ![a] = NoVotes]
      /\ UNCHANGED <<clock, committed, cut>>
  BY DEF Crash, Up
<1>2. PICK s, w : s = sr[a] /\ w = OnDisk(s) /\ sr' = [sr EXCEPT ![a] = w]
  BY DEF Crash
<1>3. /\ Authority(a) /\ Single(a) /\ crashes \in Nat /\ sr = [b \in Auths |-> sr[b]]
      /\ committed \subseteq Commitments
  BY DEF CommitInv, CommitTypes
<1>4. /\ pending' = [x \in Auths |-> pending'[x]]
      /\ \A x \in Auths : pending'[x] = [b \in Auths |-> pending'[x][b]]
      /\ \A b \in Auths : Carried(b)'
  BY <1>1, StillCarried
<1>5. sr'[a] = w /\ at'[a] = "down" /\ \A b \in Auths \ {a} : sr'[b] = sr[b] /\ at'[b] = at[b]
  BY <1>1, <1>2, <1>3 DEF Types
<1>6. CommitTypes'
  <2>1. crashes' \in Nat
    BY <1>1, <1>3
  <2> QED BY <1>1, <1>2, <1>3, <1>4, <2>1 DEF CommitTypes
<1>7. ASSUME NEW b \in Auths \ {a} PROVE Authority(b)' /\ Single(b)'
  BY <1>1, <1>5, LeftAlone
<1>8. /\ Current(w) /\ Honest(w, a) /\ w.commits = s.commits
      /\ w.valid_after = s.valid_after /\ w.valid_until = s.valid_until
  BY <1>2, <1>3 DEF OnDisk, Authority, Current, IsState, Honest
<1>9. Authority(a)'
  <2>1. Current(w)'
    BY <1>1, <1>3, <1>8 DEF Current, IsState
  <2>2. crashes' >= 1
    BY <1>1, <1>3
  <2> QED BY <1>5, <1>8, <2>1, <2>2 DEF Authority, Honest
<1>10. Single(a)'
  <2> SUFFICES ASSUME crashes' <= 1 \/ a \notin cut'
               PROVE  Sound(sr[a], a, Posts(a), a \in cut, at[a] # "down")'
    BY DEF Single
  <2>1. a \notin cut
    BY <1>1, <1>3 DEF Authority
  <2>2. PICK posts : posts = Posts(a) /\ posts = Posts(a)'
    BY <1>1 DEF Posts
  <2>3. PICK no \in BOOLEAN, yes \in BOOLEAN : no = FALSE /\ yes = TRUE
    OBVIOUS
  <2>4. Sound(s, a, posts, no, yes)
    <3>1. (a \in cut) = FALSE /\ (at[a] # "down") = TRUE
      BY <1>1, <2>1
    <3> QED BY <1>2, <1>3, <2>1, <2>2, <2>3, <3>1 DEF Single
  <2>5. posts \subseteq Known(s, a, posts) /\ posts \subseteq Commitments
    BY <1>3, <2>2 DEF Known, Posts
  <2>6. Sound(w, a, posts, no, no)
    BY <1>8, <2>3, <2>4, <2>5, SoundKept
  <2>7. Sound(w, a, posts, no, no)'
    BY <1>1, <2>6 DEF Sound, Guarded
  <2>8. (a \in cut') = FALSE /\ (at'[a] # "down") = FALSE
    BY <1>1, <1>5, <2>1
  <2> QED BY <1>5, <2>2, <2>3, <2>7, <2>8
<1> QED BY <1>4, <1>6, <1>7, <1>9, <1>10 DEF CommitInv

(* What authority b knows after a step in which it neither changes the     *)
(* times of its state nor commits, and posts what it has committed to.     *)
LEMMA StaysSingle ==
  ASSUME CommitInv, NEW b \in Auths, IsState(sr'[b]), sr'[b].phase = sr[b].phase,
         sr'[b].valid_after = sr[b].valid_after, sr'[b].valid_until = sr[b].valid_until,
         \/ sr'[b].commits[b] = sr[b].commits[b]
         \/ sr[b].commits[b] = None /\ sr'[b].commits[b] \in Posts(b),
         at'[b] # "down" <=> at[b] # "down",
         UNCHANGED <<clock, crashes, cut>>,
         Posts(b)' \subseteq Known(sr[b], b, Posts(b))
  PROVE  Authority(b)' /\ Single(b)'
<1>1. Authority(b) /\ Single(b) /\ crashes \in Nat /\ committed \subseteq Commitments
  BY DEF CommitInv, CommitTypes
<1>2. PICK s, w, posts, more : /\ s = sr[b] /\ w = sr'[b]
                               /\ posts = Posts(b) /\ more = Posts(b)'
  OBVIOUS
<1>3. posts \subseteq Commitments /\ \A c \in posts : c.by = b
  BY <1>1, <1>2 DEF Posts
<1>4. Current(w) /\ Honest(w, b)
  <2>1. Current(w)
    BY <1>1, <1>2 DEF Authority, Current
  <2>2. Honest(w, b)
    BY <1>1, <1>2, <1>3 DEF Authority, Honest
  <2> QED BY <2>1, <2>2
<1>5. Authority(b)'
  <2>1. Current(w)'
    BY <1>4 DEF Current, IsState
  <2>2. at'[b] # "down" => w.phase = get_sr_protocol_phase(w.valid_after)
    BY <1>1, <1>2 DEF Authority
  <2>3. at'[b] = "down" \/ b \in cut' => crashes' >= 1
    BY <1>1 DEF Authority
  <2> QED BY <1>2, <1>4, <2>1, <2>2, <2>3 DEF Authority, Honest
<1>6. PICK torn \in BOOLEAN, up \in BOOLEAN :
        /\ torn = (b \in cut) /\ torn = (b \in cut')
        /\ up = (at[b] # "down") /\ up = (at'[b] # "down")
  <2>1. /\ (b \in cut) = (b \in cut') /\ (at[b] # "down") = (at'[b] # "down")
        /\ (b \in cut) \in BOOLEAN /\ (at[b] # "down") \in BOOLEAN
    OBVIOUS
  <2> QED BY <2>1
<1>7. Single(b)'
  <2> SUFFICES ASSUME crashes' <= 1 \/ b \notin cut'
               PROVE  Sound(sr[b], b, Posts(b), b \in cut, at[b] # "down")'
    BY DEF Single
  <2>1. Sound(s, b, posts, torn, up)
    BY <1>1, <1>2, <1>6 DEF Single
  <2>2. more \subseteq Known(s, b, posts)
    BY <1>2
  <2>3. Sound(w, b, more, torn, up)
    <3>1. torn /\ up => up
      OBVIOUS
    <3>2. \/ w.commits[b] = s.commits[b]
          \/ s.commits[b] = None /\ w.commits[b] \in posts
      BY <1>2
    <3>3. w.valid_after = s.valid_after /\ w.valid_until = s.valid_until
      BY <1>2
    <3> QED BY <1>3, <2>1, <2>2, <3>1, <3>2, <3>3, SoundKept
  <2>4. Sound(w, b, more, torn, up)'
    BY <2>3 DEF Sound, Guarded
  <2> QED BY <1>2, <1>6, <2>4
<1> QED BY <1>5, <1>7

(* sr_handle_received_commits() of the vote of a changes nothing of what   *)
(* authority b knows of itself.                                            *)
LEMMA ReceivedCommits ==
  ASSUME NEW s, IsState(s), NEW a \in Auths, NEW v, NEW b \in Auths,
         a = b => v.commit = s.commits[b],
         NEW u, u = sr_handle_received_commits(s, a, v)
  PROVE  /\ IsState(u) /\ u.phase = s.phase /\ u.commits[b] = s.commits[b]
         /\ u.valid_after = s.valid_after /\ u.valid_until = s.valid_until
         /\ u.current = s.current
<1>1. CASE ~should_keep_commit(s, a, v)
  BY <1>1 DEF sr_handle_received_commits
<1>2. CASE should_keep_commit(s, a, v) /\ s.phase = "commit"
  <2>1. PICK f : f = [s.commits EXCEPT ![a] = v.commit]
    OBVIOUS
  <2>2. u = [s EXCEPT !.commits = f]
    BY <1>2, <2>1 DEF sr_handle_received_commits, save_commit_to_state, IsState
  <2>3. f = [x \in Auths |-> f[x]] /\ f[b] = s.commits[b]
    BY <2>1 DEF IsState
  <2> QED BY <2>2, <2>3 DEF IsState
<1>3. CASE should_keep_commit(s, a, v) /\ s.phase = "reveal"
  <2>1. PICK g : u = [s EXCEPT !.revealed = g]
    BY <1>3 DEF sr_handle_received_commits, save_commit_to_state
  <2> QED BY <2>1 DEF IsState
<1> QED BY <1>1, <1>2, <1>3 DEF IsState

(* dirvote_perform_vote(): the voter posts the commitment in its state.    *)
LEMMA VoteOnce ==
  ASSUME CommitInv, Types, NEW a \in Auths, NEW others, Vote(a, others)
  PROVE  CommitInv'
<1>1. PICK v : /\ v = sr_get_string_for_vote(sr[a], a,
                          IF posted[a] = None THEN 1 ELSE posted[a].n + 1)
               /\ pending' = [b \in Auths |-> IF b \in others
                                THEN dirvote_add_vote(pending[b], sr[b], a, v).list ELSE pending[b]]
               /\ sr' = [b \in Auths |-> IF b \in others
                           THEN dirvote_add_vote(pending[b], sr[b], a, v).state ELSE sr[b]]
               /\ committed' = committed \cup ({v.commit} \ {None})
  BY Zenon DEF Vote
<1>2. /\ at[a] # "down" /\ at' = [at EXCEPT ![a] = "done"]
      /\ UNCHANGED <<clock, crashes, cut>>
  BY DEF Vote
<1>3. PICK own : own = sr[a].commits[a]
  OBVIOUS
<1>4. v.commit = own
  BY <1>1, <1>3 DEF sr_get_string_for_vote
<1>5. /\ crashes \in Nat /\ committed \subseteq Commitments
      /\ own = None \/ (own \in Commitments /\ own.by = a)
      /\ \A b \in Auths : IsState(sr[b])
      /\ \A x \in Auths : pending[x] = [b \in Auths |-> pending[x][b]]
  BY <1>3 DEF CommitInv, CommitTypes, Authority, Current, Honest
<1>6. committed' = committed \cup ({own} \ {None}) /\ committed' \subseteq Commitments
  BY <1>1, <1>4, <1>5
<1>7. ASSUME NEW b \in Auths
      PROVE  /\ IsState(sr'[b]) /\ sr'[b].phase = sr[b].phase
             /\ sr'[b].valid_after = sr[b].valid_after /\ sr'[b].valid_until = sr[b].valid_until
             /\ sr'[b].commits[b] = sr[b].commits[b]
  <2>1. PICK s, u : s = sr[b] /\ u = sr_handle_received_commits(s, a, v)
    OBVIOUS
  <2>2. a = b => v.commit = s.commits[b]
    BY <1>3, <1>4, <2>1
  <2>3. /\ IsState(u) /\ u.phase = s.phase /\ u.commits[b] = s.commits[b]
        /\ u.valid_after = s.valid_after /\ u.valid_until = s.valid_until
    <3>1. IsState(s)
      BY <1>5, <2>1
    <3>2. u = sr_handle_received_commits(s, a, v)
      BY <2>1
    <3> QED BY <2>2, <3>1, <3>2, ReceivedCommits, SMTT(30)
  <2>4. sr'[b] = u \/ sr'[b] = s
    BY <1>1, <2>1 DEF dirvote_add_vote
  <2> QED BY <1>5, <2>1, <2>3, <2>4
<1>8. ASSUME NEW x \in Auths
      PROVE  \/ pending'[x] = pending[x]
             \/ pending'[x] = [pending[x] EXCEPT ![a] = v]
  BY <1>1 DEF dirvote_add_vote
<1>9. CommitTypes'
  <2>1. sr' = [b \in Auths |-> sr'[b]] /\ pending' = [b \in Auths |-> pending'[b]]
    BY <1>1
  <2>2. ASSUME NEW x \in Auths PROVE pending'[x] = [b \in Auths |-> pending'[x][b]]
    BY <1>5, <1>8
  <2> QED BY <1>2, <1>5, <1>6, <2>1, <2>2 DEF CommitTypes
<1>10. ASSUME NEW b \in Auths
       PROVE  /\ Posts(b) \subseteq Posts(b)'
              /\ Posts(b)' \subseteq Known(sr[b], b, Posts(b))
              /\ b = a => own \in Posts(b)' \cup {None}
  <2>1. \A c \in Posts(b)' : c \in Posts(b) \/ (c = own /\ own # None /\ b = a)
    BY <1>5, <1>6 DEF Posts
  <2>2. b = a => own \in Posts(b)' \cup {None}
    BY <1>5, <1>6 DEF Posts
  <2>3. Posts(b) \subseteq Posts(b)'
    BY <1>6 DEF Posts
  <2> QED BY <1>3, <2>1, <2>2, <2>3 DEF Known
<1>11. ASSUME NEW b \in Auths PROVE Authority(b)' /\ Single(b)'
  <2>1. at'[b] # "down" <=> at[b] # "down"
    BY <1>2 DEF Types
  <2> QED BY <1>2, <1>7, <1>10, <2>1, StaysSingle
<1>12. ASSUME NEW b \in Auths PROVE Carried(b)'
  <2>1. ASSUME NEW x \in Auths, pending'[x][b] # None
        PROVE  pending'[x][b].commit \in Posts(b)' \cup {None}
    <3>1. CASE pending'[x][b] = pending[x][b]
      <4>1. pending[x][b].commit \in Posts(b) \cup {None}
        BY <2>1, <3>1 DEF CommitInv, Carried
      <4> QED BY <1>10, <3>1, <4>1
    <3>2. CASE pending'[x][b] = v /\ b = a
      BY <1>4, <1>10, <3>2
    <3> QED BY <1>5, <1>8, <3>1, <3>2
  <2> QED BY <2>1 DEF Carried
<1> QED BY <1>9, <1>11, <1>12 DEF CommitInv

(* dirvote_fetch_missing_votes(): an authority that lost its commitment    *)
(* may learn it again from a vote it posted.                               *)
LEMMA ComputeOnce ==
  ASSUME CommitInv, Types, NEW a \in Auths, NEW fetched, Compute(a, fetched)
  PROVE  CommitInv'
<1>11. PICK from \in [fetched -> Auths] :
        LET kept == {b \in fetched : should_keep_commit(sr[a], b, pending[from[b]][b])}
            votes == [b \in Auths |-> IF b \in fetched THEN pending[from[b]][b] ELSE pending[a][b]]
        IN  /\ fetched \subseteq {b \in Auths : /\ pending[a][b] = None
                                            /\ \E c \in Auths : pending[c][b] # None}
            /\ \A b \in fetched : pending[from[b]][b] # None
            /\ pending' = [pending EXCEPT ![a] = votes]
            /\ sr' = [sr EXCEPT
                  ![a].commits = [b \in Auths |-> IF b \in kept THEN pending[from[b]][b].commit ELSE @[b]],
                  ![a].revealed = IF sr[a].phase = "reveal" THEN @ \cup kept ELSE @]
  BY Zenon DEF Compute
<1>12. PICK kept : kept = {b \in fetched : should_keep_commit(sr[a], b, pending[from[b]][b])}
  OBVIOUS
<1>13. PICK votes : votes = [b \in Auths |-> IF b \in fetched THEN pending[from[b]][b] ELSE pending[a][b]]
  OBVIOUS
<1>14. PICK reveals : reveals = IF sr[a].phase = "reveal" THEN sr[a].revealed \cup kept ELSE sr[a].revealed
  OBVIOUS
<1>1. /\ kept = {b \in fetched : should_keep_commit(sr[a], b, pending[from[b]][b])}
      /\ from \in [fetched -> Auths] /\ fetched \subseteq Auths
      /\ \A b \in fetched : pending[from[b]][b] # None
      /\ votes = [b \in Auths |-> IF b \in fetched THEN pending[from[b]][b] ELSE pending[a][b]]
      /\ pending' = [pending EXCEPT ![a] = votes]
      /\ sr' = [sr EXCEPT
                 ![a].commits = [b \in Auths |-> IF b \in kept THEN pending[from[b]][b].commit ELSE @[b]],
                 ![a].revealed = reveals]
  BY <1>11, <1>12, <1>13, <1>14
<1>2. /\ at[a] # "down" /\ at' = [at EXCEPT ![a] = "done"]
      /\ UNCHANGED <<clock, crashes, cut, committed>>
  BY DEF Compute
<1>3. /\ sr = [b \in Auths |-> sr[b]] /\ \A b \in Auths : IsState(sr[b])
      /\ pending = [x \in Auths |-> pending[x]]
      /\ \A x \in Auths : pending[x] = [b \in Auths |-> pending[x][b]]
  BY SMTT(30) DEF CommitInv, CommitTypes, Authority, Current
<1>4. PICK s, f : /\ s = sr[a] /\ IsState(s)
                  /\ f = [b \in Auths |-> IF b \in kept THEN pending[from[b]][b].commit ELSE s.commits[b]]
                  /\ sr' = [sr EXCEPT ![a] = [s EXCEPT !.commits = f, !.revealed = reveals]]
  BY <1>1, <1>3, ZenonT(30)
<1>5. \A b \in Auths : Posts(b)' = Posts(b)
  BY <1>2 DEF Posts
<1>6. ASSUME NEW x \in Auths, NEW b \in Auths
      PROVE  \E y \in Auths : pending'[x][b] = pending[y][b]
  BY <1>1, <1>3
<1>7. CommitTypes'
  <2>1. pending' = [x \in Auths |-> pending'[x]]
    BY <1>1, <1>3, ZenonT(30)
  <2>2. ASSUME NEW x \in Auths PROVE pending'[x] = [b \in Auths |-> pending'[x][b]]
    BY <1>1, <1>3
  <2>3. sr' = [b \in Auths |-> sr'[b]]
    BY <1>3, <1>4
  <2> QED BY <1>2, <2>1, <2>2, <2>3, SMTT(30) DEF CommitInv, CommitTypes
<1>8. ASSUME NEW b \in Auths PROVE Carried(b)'
  <2>1. ASSUME NEW x \in Auths, pending'[x][b] # None
        PROVE  pending'[x][b].commit \in Posts(b) \cup {None}
    <3>1. PICK y \in Auths : pending'[x][b] = pending[y][b]
      BY <1>6
    <3> QED BY <2>1, <3>1 DEF CommitInv, Carried
  <2> QED BY <1>5, <2>1 DEF Carried
<1>9. f[a] = s.commits[a] \/ (s.commits[a] = None /\ f[a] \in Posts(a))
  <2>1. CASE a \notin kept
    BY <1>4, <2>1
  <2>2. CASE a \in kept
    <3>1. PICK v : v = pending[from[a]][a]
      OBVIOUS
    <3>2. should_keep_commit(s, a, v) /\ v # None /\ f[a] = v.commit /\ from[a] \in Auths
      BY <1>1, <1>4, <2>2, <3>1
    <3>3. v.commit \in Posts(a) \cup {None}
      BY <3>1, <3>2 DEF CommitInv, Carried
    <3> QED BY <3>2, <3>3 DEF should_keep_commit
  <2> QED BY <2>1, <2>2
<1>10. ASSUME NEW b \in Auths PROVE Authority(b)' /\ Single(b)'
  <2>1. at'[b] # "down" <=> at[b] # "down"
    BY <1>2 DEF Types
  <2>2. /\ IsState(sr'[b]) /\ sr'[b].phase = sr[b].phase
        /\ sr'[b].valid_after = sr[b].valid_after /\ sr'[b].valid_until = sr[b].valid_until
        /\ \/ sr'[b].commits[b] = sr[b].commits[b]
           \/ sr[b].commits[b] = None /\ sr'[b].commits[b] \in Posts(b)
    <3>1. CASE b = a
      <4>1. PICK u : u = [s EXCEPT !.commits = f, !.revealed = reveals]
        OBVIOUS
      <4>2. sr'[a] = u
        BY <1>3, <1>4, <4>1
      <4>3. f = [x \in Auths |-> f[x]]
        BY <1>4
      <4>4. IsState(u) /\ u.commits = f /\ u.phase = s.phase
            /\ u.valid_after = s.valid_after /\ u.valid_until = s.valid_until
        BY <1>4, <4>1, <4>3 DEF IsState
      <4> QED BY <1>4, <1>9, <3>1, <4>2, <4>4
    <3>2. CASE b # a
      BY <1>3, <1>4, <3>2
    <3> QED BY <3>1, <3>2
  <2>3. Posts(b)' \subseteq Known(sr[b], b, Posts(b))
    BY <1>5 DEF Known
  <2> QED BY <1>2, <2>1, <2>2, <2>3, StaysSingle
<1> QED BY <1>7, <1>8, <1>10 DEF CommitInv

(* As time passes runs end.                                                *)
LEMMA AdvanceOnce ==
  ASSUME CommitInv, Types, Advance
  PROVE  CommitInv'
<1>1. /\ UNCHANGED <<sr, pending, crashes, cut, committed>>
      /\ clock \in Nat /\ clock' \in {clock, clock + 1}
      /\ \A a \in Auths : at'[a] # "down" <=> at[a] # "down"
  BY DEF Advance, Up, Types
<1>2. CommitTypes'
  BY <1>1 DEF CommitInv, CommitTypes
<1>3. ASSUME NEW a \in Auths PROVE Authority(a)' /\ Carried(a)' /\ Single(a)'
  <2>1. Authority(a) /\ Carried(a) /\ Single(a) /\ crashes \in Nat
    BY DEF CommitInv, CommitTypes
  <2>2. PICK s : s = sr[a] /\ s = sr'[a]
    BY <1>1
  <2>3. Current(s) => Current(s)'
    BY <1>1 DEF Current, IsState
  <2>4. Authority(a)'
    BY <1>1, <2>1, <2>2, <2>3 DEF Authority, Honest
  <2>5. PICK posts : posts = Posts(a) /\ posts = Posts(a)'
    BY <1>1 DEF Posts
  <2>6. posts \subseteq Commitments /\ Honest(s, a)
    BY <2>1, <2>2, <2>5 DEF Posts, CommitInv, CommitTypes, Authority
  <2>7. ASSUME NEW torn, NEW up, Sound(s, a, posts, torn, up)
        PROVE  Sound(s, a, posts, torn, up)'
    <3>1. ASSUME NEW c \in Known(s, a, posts), NEW loose, Guarded(s, a, c.run, loose)
          PROVE  Guarded(s, a, c.run, loose)'
      <4>1. PICK e \in Nat : e = First(c.run) + TotalRounds
        <5>1. First(c.run) \in Nat
          BY <2>6, KnownRuns, RunsInOrder DEF Honest
        <5>2. First(c.run) + TotalRounds \in Nat
          BY <5>1, Lengths
        <5> QED BY <5>2
      <4>2. e <= clock + 1 => e <= clock' + 1
        <5>1. clock' = clock \/ clock' = clock + 1
          BY <1>1
        <5>2. clock \in Nat
          BY <1>1
        <5>3. CASE clock' = clock
          BY <5>3
        <5>4. CASE clock' = clock + 1
          BY <5>2, <5>4
        <5> QED BY <5>1, <5>3, <5>4
      <4> QED BY <3>1, <4>1, <4>2 DEF Guarded
    <3>2. \A c \in Known(s, a, posts) : Guarded(s, a, c.run, torn /\ up)
      BY <2>7 DEF Sound
    <3>3. \A c \in Known(s, a, posts) : Guarded(s, a, c.run, torn /\ up)'
      BY <3>1, <3>2
    <3> QED BY <2>7, <3>3, Zenon DEF Sound
  <2>8. PICK torn, up : /\ torn = (a \in cut) /\ torn = (a \in cut')
                        /\ up = (at[a] # "down") /\ up = (at'[a] # "down")
    <3>1. (a \in cut) = (a \in cut') /\ (at[a] # "down") = (at'[a] # "down")
      BY <1>1
    <3> QED BY <3>1
  <2>9. crashes' <= 1 \/ a \notin cut' => Sound(s, a, posts, torn, up)
    BY <1>1, <2>1, <2>2, <2>5, <2>8 DEF Single
  <2>10. Single(a)'
    BY <2>2, <2>5, <2>7, <2>8, <2>9, Zenon DEF Single
  <2>11. Carried(a)'
    BY <1>1, <2>1, <2>5 DEF Carried
  <2> QED BY <2>4, <2>10, <2>11
<1> QED BY <1>2, <1>3 DEF CommitInv

(* Every step keeps the files sound.                                       *)
LEMMA NextKeepsOnce == CommitInv /\ Types /\ [Next]_vars => CommitInv'
<1> SUFFICES ASSUME CommitInv, Types, [Next]_vars PROVE CommitInv'
  OBVIOUS
<1>1. CASE UNCHANGED vars
  <2>1. CommitTypes'
    BY <1>1 DEF vars, CommitInv, CommitTypes
  <2>2. ASSUME NEW a \in Auths PROVE Authority(a)' /\ Single(a)'
    <3>1. crashes' \in {crashes, crashes + 1} /\ (a \in cut' <=> a \in cut)
      BY <1>1 DEF vars
    <3>2. sr'[a] = sr[a] /\ at'[a] = at[a] /\ UNCHANGED <<clock, committed>>
      BY <1>1 DEF vars
    <3> QED BY <3>1, <3>2, LeftAlone
  <2>3. ASSUME NEW a \in Auths PROVE Carried(a)'
    BY <1>1 DEF vars, CommitInv, Carried, Posts
  <2> QED BY <2>1, <2>2, <2>3 DEF CommitInv
<1>2. CASE Ended
  BY <1>1, <1>2 DEF Ended
<1>3. ASSUME NEW a \in Auths,
             sr_state_init(a) \/ Crash(a) \/ Publish(a) \/ FetchConsensus(a)
      PROVE  CommitInv'
  BY <1>3, BootOnce, CrashOnce, PublishOnce, FetchOnce
<1>4. ASSUME NEW a \in Auths, NEW S \in SUBSET Auths, Vote(a, S) \/ Compute(a, S)
      PROVE  CommitInv'
  BY <1>4, VoteOnce, ComputeOnce
<1>5. CASE Advance
  BY <1>5, AdvanceOnce
<1> QED BY <1>1, <1>2, <1>3, <1>4, <1>5 DEF Next

(* The state files that stay sound, in every reachable state.              *)
THEOREM FilesStaySound == Spec => []CommitInv
<1>1. IInv => Types
  BY DEF IInv
<1> QED BY InitiallyOnce, NextKeepsOnce, Invariance, <1>1, PTL DEF Spec

(* "To avoid double voting": for any authorities, rounds and agreements an *)
(* authority posts one commitment in each run, however often it reboots    *)
(* between its handlers, and if one crash cuts a handler short at any save.*)
THEOREM OneCommit == Spec => []OneCommitPerRun
<1>1. ASSUME CommitInv PROVE OneCommitPerRun
  <2> SUFFICES ASSUME NEW c \in committed, NEW d \in committed, c.by = d.by, c.run = d.run,
                      crashes <= 1 \/ c.by \notin cut
               PROVE  c = d
    BY DEF OneCommitPerRun
  <2>1. PICK a \in Auths : a = c.by
    BY <1>1 DEF CommitInv, CommitTypes, Commitments
  <2>2. c \in Known(sr[a], a, Posts(a)) /\ d \in Known(sr[a], a, Posts(a))
    BY <2>1 DEF Known, Posts
  <2>3. PICK torn, up : Sound(sr[a], a, Posts(a), torn, up)
    BY <1>1, <2>1 DEF CommitInv, Single
  <2> QED BY <2>2, <2>3 DEF Sound
<1> QED BY FilesStaySound, <1>1, PTL

-------------------------------------------------------------------------------
(***************************************************************************)
(* Why the value of a run is not replaced once it is agreed on.  When a    *)
(* majority has registered a consensus p, its members (Loyal) have no      *)
(* older consensus, vote for no other value, and make none themselves: an  *)
(* authority makes a value when it goes from the reveal phase of one run   *)
(* to the commit phase of the next, so one whose state is of the run       *)
(* cannot, and a file of an earlier run is refused (Recent).  Whatever the *)
(* majority of another round of the run is, it has one of them in it.      *)
(***************************************************************************)

(* The time at which a state of round t is given up, at the latest.        *)
LastKept(t) == First(RunOf(t)) + TotalRounds

(* A state file is refused when the run of its round is over; one that no  *)
(* round was recorded in, when the run it was made in is.                  *)
Expires(s) ==
  \/ s.valid_until <= LastKept(s.valid_after)
  \/ s.valid_after = 0 /\ s.valid_until <= LastKept(clock)

(* The authority goes from one run to the next, and makes a value.         *)
Computes(s, t) ==
  t > s.valid_after /\ s.phase = "reveal" /\ get_sr_protocol_phase(t) = "commit"

(* Later rounds are of later runs.                                         *)
LEMMA LaterRuns ==
  ASSUME NEW t \in Nat, NEW u \in Nat, t <= u
  PROVE  /\ RunOf(t) \in Nat /\ RunOf(u) \in Nat /\ RunOf(t) <= RunOf(u)
         /\ LastKept(t) \in Nat /\ LastKept(u) \in Nat /\ LastKept(t) <= LastKept(u)
<1>1. PICK n \in Nat, q \in Nat, r \in Nat, f \in Nat, g \in Nat :
        /\ n = TotalRounds /\ q = RunOf(t) /\ r = RunOf(u)
        /\ f = First(RunOf(t)) /\ g = First(RunOf(u))
  <2>1. RunOf(t) \in Nat /\ RunOf(u) \in Nat
    BY RoundsOfRuns
  <2>2. First(RunOf(t)) \in Nat /\ First(RunOf(u)) \in Nat
    BY <2>1, RunsInOrder
  <2> QED BY <2>1, <2>2, Lengths
<1>2. f <= t /\ u < g + n
  BY <1>1, RoundsOfRuns
<1>3. (r < q => g + n <= f) /\ (q < r => f + n <= g) /\ (q = r => f = g)
  BY <1>1, RunsInOrder
<1>4. q <= r /\ f + n <= g + n
  BY <1>2, <1>3
<1> QED BY <1>1, <1>4 DEF LastKept

(* The rounds between two rounds of a run are of that run.                 *)
LEMMA RunsBetween ==
  ASSUME NEW t \in Nat, NEW m \in Nat, NEW u \in Nat, t <= m, m <= u, RunOf(t) = RunOf(u)
  PROVE  RunOf(m) = RunOf(t)
<1>1. RunOf(t) <= RunOf(m) /\ RunOf(m) <= RunOf(u)
  BY LaterRuns
<1>2. RunOf(t) \in Nat /\ RunOf(m) \in Nat
  BY RoundsOfRuns
<1> QED BY <1>1, <1>2

(* Once the reveal phase of a run has begun it has no commit phase.        *)
LEMMA OnePhaseChange ==
  ASSUME NEW t \in Nat, NEW m \in Nat, NEW u \in Nat, t <= m, m < u, RunOf(t) = RunOf(u),
         get_sr_protocol_phase(m) = "reveal"
  PROVE  get_sr_protocol_phase(u) = "reveal"
<1>1. RunOf(m) = RunOf(u)
  BY RunsBetween
<1>2. PICK b \in Nat : b = First(RunOf(m)) + N_ROUNDS /\ b = First(RunOf(u)) + N_ROUNDS
  <2>1. First(RunOf(m)) \in Nat
    BY RoundsOfRuns, RunsInOrder
  <2>2. First(RunOf(m)) + N_ROUNDS \in Nat
    BY <2>1, Lengths
  <2> QED BY <1>1, <2>2
<1>3. ~(m < b)
  BY <1>2, RoundsOfRuns
<1>4. ~(u < b)
  BY <1>2, <1>3
<1>5. get_sr_protocol_phase(u) # "commit"
  BY <1>2, <1>4, RoundsOfRuns
<1> QED BY <1>5, Phases

(* get_state_valid_until_time(): no state is kept longer than its run.     *)
LEMMA KeptNoLonger ==
  ASSUME clock \in Nat, NEW t \in {clock, clock + 1}
  PROVE  get_state_valid_until_time(t) <= LastKept(t)
<1>1. PICK n \in Nat : n = TotalRounds /\ n > 0
  BY RoundsAssumption DEF TotalRounds
<1>2. t \in Nat
  OBVIOUS
<1>3. PICK q \in Nat, m \in Nat : q = t \div n /\ m = t % n /\ m < n /\ t = n * q + m
  BY <1>1, <1>2
<1>4. q * n = n * q /\ q * n \in Nat
  BY <1>1
<1>5. LastKept(t) = q * n + n /\ get_state_valid_until_time(t) = clock + n - m
  BY <1>1, <1>3 DEF LastKept, First, RunOf, get_state_valid_until_time
<1> QED BY <1>1, <1>2, <1>3, <1>4, <1>5

(* The states that a handler saves name values of V alone.                 *)
Names(saves, V) ==
  \E S, v : Saves(saves, S, v) /\ \A u \in S \cup {v} : IsState(u) /\ u.current \in V

(* sr_state_update() changes the value only when it computes one.          *)
LEMMA UpdateNames ==
  ASSUME NEW a \in Auths, NEW s, IsState(s), NEW t \in Nat, ~Computes(s, t),
         NEW V, s.current \in V
  PROVE  Names(sr_state_update(s, a, t), V)
<1>1. s.valid_after \in Nat /\ s.phase \in {"commit", "reveal"}
  BY DEF IsState
<1>2. CASE t <= s.valid_after
  <2>1. sr_state_update(s, a, t) = <<s>>
    BY <1>2 DEF sr_state_update
  <2>2. Saves(<<s>>, {}, s)
    BY OneSave
  <2> QED BY <2>1, <2>2 DEF Names
<1>3. CASE t > s.valid_after
  <2>1. PICK w : Prepared(s, a, t) = <<w>> /\ IsState(w) /\ w.current = s.current
    <3>1. PICK w : w = sr_state_add_commit(s, sr_generate_our_commit(a, t))
      OBVIOUS
    <3>2. IsState(w) /\ w.current = s.current
      BY <3>1, AddCommit
    <3>3. Prepared(s, a, t) = <<s>> \/ Prepared(s, a, t) = <<w>>
      BY <1>1, <1>3, <3>1, Phases DEF Prepared, Computes
    <3> QED BY <3>2, <3>3
  <2>2. PICK S : S = {} /\ Saves(Prepared(s, a, t), S, w)
    BY <2>1, OneSave
  <2>3. PICK v : Saves(sr_state_update(s, a, t), S \cup {w}, v) /\ Stamped(v, w, t)
    BY <1>1, <1>3, <2>1, <2>2, LastSave, Zenon
  <2>4. \A u \in S \cup {w} \cup {v} : IsState(u) /\ u.current \in V
    BY <2>1, <2>2, <2>3 DEF Stamped
  <2> QED BY <2>3, <2>4 DEF Names
<1> QED BY <1>1, <1>2, <1>3

(* A handler that saves states before it updates.                          *)
LEMMA MoreNames ==
  ASSUME NEW V, NEW q, NEW r, Names(q, V), Names(r, V)
  PROVE  Names(q \o r, V)
<1>1. PICK S, v : Saves(q, S, v) /\ \A u \in S \cup {v} : IsState(u) /\ u.current \in V
  BY DEF Names
<1>2. PICK T, w : Saves(r, T, w) /\ \A u \in T \cup {w} : IsState(u) /\ u.current \in V
  BY DEF Names
<1>3. Saves(q \o r, S \cup {v} \cup T, w)
  BY <1>1, <1>2, ManySaves
<1> QED BY <1>1, <1>2, <1>3 DEF Names

(* sr_act_post_consensus() names what it had, what the consensus names, or *)
(* nothing.                                                                *)
LEMMA PostConsensusNames ==
  ASSUME NEW a \in Auths, NEW s, IsState(s), NEW t \in Nat, ~Computes(s, t), NEW c,
         NEW V, s.current \in V, None \in V, c # None => c.current \in V
  PROVE  Names(sr_act_post_consensus(s, a, c, t), V)
<1>1. PICK q, w : /\ q = PostConsensus(s, c) /\ Names(q, V) /\ Last(q) = w
                  /\ IsState(w) /\ w.current \in V
                  /\ w.phase = s.phase /\ w.valid_after = s.valid_after
  <2>1. CASE c = None
    <3>1. PostConsensus(s, c) = <<s>> /\ Saves(<<s>>, {}, s)
      BY <2>1, OneSave DEF PostConsensus
    <3>2. Names(<<s>>, V)
      BY <3>1 DEF Names
    <3> QED BY <3>1, <3>2 DEF Saves
  <2>2. CASE c # None
    <3>1. PICK x, y, z, w :
            /\ x = [s EXCEPT !.previous = None]
            /\ y = [s EXCEPT !.previous = None, !.current = None]
            /\ z = [s EXCEPT !.previous = c.previous, !.current = None, !.fresh = FALSE]
            /\ w = [s EXCEPT !.previous = c.previous, !.current = c.current, !.fresh = FALSE]
      OBVIOUS
    <3>2. PostConsensus(s, c) = <<x, y, z, w>>
      BY <2>2, <3>1 DEF PostConsensus
    <3>3. /\ IsState(x) /\ x.current = s.current /\ IsState(y) /\ y.current = None
          /\ IsState(z) /\ z.current = None /\ IsState(w) /\ w.current = c.current
          /\ w.phase = s.phase /\ w.valid_after = s.valid_after
      BY <3>1 DEF IsState
    <3>4. Saves(<<x, y, z, w>>, {x, y, z}, w) /\ Last(<<x, y, z, w>>) = w
      BY DEF Saves, Last
    <3>5. \A u \in {x, y, z} \cup {w} : IsState(u) /\ u.current \in V
      BY <2>2, <3>3
    <3>6. Names(<<x, y, z, w>>, V)
      BY <3>4, <3>5 DEF Names
    <3> QED BY <2>2, <3>2, <3>3, <3>4, <3>6
  <2> QED BY <2>1, <2>2
<1>2. ~Computes(w, t)
  BY <1>1 DEF Computes
<1>3. PICK r : r = sr_state_update(w, a, t) /\ Names(r, V)
  BY <1>1, <1>2, UpdateNames
<1>4. Names(q \o r, V)
  BY <1>1, <1>3, MoreNames
<1>5. sr_act_post_consensus(s, a, c, t) = q \o r
  BY <1>1, <1>3 DEF sr_act_post_consensus
<1> QED BY <1>4, <1>5

(* Whether the handler ends or a crash cuts it short, the state of the     *)
(* authority names one of these values.                                    *)
LEMMA OutcomeNames ==
  ASSUME NEW a \in Auths, sr = [b \in Auths |-> sr[b]], NEW saves, NEW next, NEW V,
         Names(saves, V), Outcome(a, saves, next)
  PROVE  sr'[a].current \in V
<1>1. PICK S, v : Saves(saves, S, v) /\ \A u \in S \cup {v} : IsState(u) /\ u.current \in V
  BY DEF Names
<1>2. Last(saves) = v /\ \A i \in 1 .. Len(saves) - 1 : saves[i] \in S
  BY <1>1 DEF Saves
<1>3. \/ sr' = [sr EXCEPT ![a] = v]
      \/ \E u \in S : sr' = [sr EXCEPT ![a] = OnDisk(u)]
  BY <1>2, Zenon DEF Outcome
<1>4. \A u \in S : OnDisk(u).current = u.current
  BY <1>1 DEF OnDisk, IsState
<1>5. sr'[a] = v \/ \E u \in S : sr'[a] = OnDisk(u)
  BY <1>3
<1> QED BY <1>1, <1>4, <1>5

(* What voting and fetching votes leave of every state.                    *)
VoteKeeps(a) ==
  \A b \in Auths : /\ sr'[b].valid_after = sr[b].valid_after
                   /\ sr'[b].valid_until = sr[b].valid_until
                   /\ sr'[b].current = sr[b].current

(* dirvote_add_vote() changes the commits of a state alone.                *)
LEMMA VoteStates ==
  ASSUME CommitInv, NEW a \in Auths, NEW others, Vote(a, others)
  PROVE  VoteKeeps(a)
<1>1. PICK v : /\ v = sr_get_string_for_vote(sr[a], a,
                          IF posted[a] = None THEN 1 ELSE posted[a].n + 1)
               /\ sr' = [b \in Auths |-> IF b \in others
                           THEN dirvote_add_vote(pending[b], sr[b], a, v).state ELSE sr[b]]
  BY Zenon DEF Vote
<1>2. v.commit = sr[a].commits[a] /\ \A b \in Auths : IsState(sr[b])
  BY <1>1 DEF sr_get_string_for_vote, CommitInv, Authority, Current
<1>3. ASSUME NEW b \in Auths
      PROVE  /\ sr'[b].valid_after = sr[b].valid_after /\ sr'[b].valid_until = sr[b].valid_until
             /\ sr'[b].current = sr[b].current
  <2>1. PICK s, u : s = sr[b] /\ u = sr_handle_received_commits(s, a, v)
    OBVIOUS
  <2>2. a = b => v.commit = s.commits[b]
    BY <1>2, <2>1
  <2>3. /\ u.valid_after = s.valid_after /\ u.valid_until = s.valid_until
        /\ u.current = s.current
    <3>1. IsState(s)
      BY <1>2, <2>1
    <3>2. u = sr_handle_received_commits(s, a, v)
      BY <2>1
    <3> QED BY <2>2, <3>1, <3>2, ReceivedCommits, SMTT(30)
  <2>4. sr'[b] = u \/ sr'[b] = s
    BY <1>1, <2>1 DEF dirvote_add_vote
  <2> QED BY <2>1, <2>3, <2>4
<1> QED BY <1>3 DEF VoteKeeps

(* dirvote_fetch_missing_votes() likewise.                                 *)
LEMMA ComputeStates ==
  ASSUME CommitInv, NEW a \in Auths, NEW fetched, Compute(a, fetched)
  PROVE  VoteKeeps(a)
<1>0. PICK from :
        LET kept == {b \in fetched : should_keep_commit(sr[a], b, pending[from[b]][b])}
        IN  sr' = [sr EXCEPT
                ![a].commits = [b \in Auths |-> IF b \in kept THEN pending[from[b]][b].commit ELSE @[b]],
                ![a].revealed = IF sr[a].phase = "reveal" THEN @ \cup kept ELSE @]
  BY Zenon DEF Compute
<1>1. \E f, g : sr' = [sr EXCEPT ![a].commits = f, ![a].revealed = g]
  BY <1>0
<1>2. sr = [b \in Auths |-> sr[b]] /\ IsState(sr[a])
  BY DEF CommitInv, CommitTypes, Authority, Current
<1>3. PICK f, g, s, u : s = sr[a] /\ u = [s EXCEPT !.commits = f, !.revealed = g] /\ IsState(s)
                       /\ sr' = [sr EXCEPT ![a].commits = f, ![a].revealed = g]
  BY <1>1, <1>2
<1>4. sr' = [sr EXCEPT ![a] = u]
  BY <1>2, <1>3
<1>5. u.valid_after = s.valid_after /\ u.valid_until = s.valid_until /\ u.current = s.current
  BY <1>3 DEF IsState
<1>6. sr'[a] = u /\ \A b \in Auths \ {a} : sr'[b] = sr[b]
  BY <1>2, <1>4
<1> QED BY <1>3, <1>5, <1>6 DEF VoteKeeps

(* The state that an authority keeps or loads is of the present round, or  *)
(* of the one before until it has published that round's consensus.        *)
Recent(a) ==
  /\ Expires(sr[a])
  /\ at[a] # "down" =>
       \/ clock <= sr[a].valid_after
       \/ stage = "publish" /\ at[a] = "todo" /\ clock <= sr[a].valid_after + 1

(* An authority has no votes once it has published, nor when it is down.   *)
Cleared(a) ==
  at[a] = "down" \/ (stage = "publish" /\ at[a] = "done") => pending[a] = NoVotes

(* The consensus that an authority has is one that was published.          *)
Latest(a) == consensus[a] # None => consensus[a] \in published

FileInv ==
  /\ consensus = [a \in Auths |-> consensus[a]] /\ None \notin published
  /\ \A a \in Auths : Recent(a) /\ Cleared(a) /\ Latest(a)

(* A state that is updated, whether or not a crash interrupts it, is kept  *)
(* no longer than its run.                                                 *)
LEMMA UpdateExpires ==
  ASSUME clock \in Nat, NEW a, NEW s, IsState(s), Expires(s), NEW t \in {clock, clock + 1},
         NEW u, Updated(u, s, a, t) \/ Saved(u, s, a, t)
  PROVE  Expires(u)
<1>1. PICK e \in Nat : e = LastKept(t) /\ get_state_valid_until_time(t) <= e /\ LastKept(clock) <= e
  <2>1. t \in Nat /\ clock <= t
    OBVIOUS
  <2> QED BY <2>1, LaterRuns, KeptNoLonger
<1>2. s.valid_after \in Nat /\ s.valid_until \in Nat /\ LastKept(clock) \in Nat
  BY LaterRuns DEF IsState
<1>3. CASE u.valid_after = s.valid_after /\ u.valid_until = s.valid_until
  BY <1>3 DEF Expires
<1>4. CASE u.valid_after = t /\ u.valid_until = get_state_valid_until_time(t)
  BY <1>1, <1>4 DEF Expires
<1>5. CASE t > s.valid_after /\ u.valid_after = t /\ u.valid_until = s.valid_until
  <2>1. CASE s.valid_until <= LastKept(s.valid_after)
    <3>1. LastKept(s.valid_after) \in Nat /\ LastKept(s.valid_after) <= e
      <4>1. t \in Nat /\ s.valid_after <= t
        BY <1>2, <1>5
      <4> QED BY <1>1, <1>2, <4>1, LaterRuns
    <3> QED BY <1>1, <1>2, <1>5, <2>1, <3>1 DEF Expires
  <2>2. CASE s.valid_until <= LastKept(clock)
    BY <1>1, <1>2, <1>5, <2>2 DEF Expires
  <2> QED BY <2>1, <2>2 DEF Expires
<1>6. \/ u.valid_after = s.valid_after /\ u.valid_until = s.valid_until
      \/ u.valid_after = t /\ u.valid_until = get_state_valid_until_time(t)
      \/ t > s.valid_after /\ u.valid_after = t /\ u.valid_until = s.valid_until
  BY DEF Updated, Saved, Kept, Emptied, Made
<1> QED BY <1>3, <1>4, <1>5, <1>6

(* A handler leaves its authority recent, and the others alone.            *)
LEMMA HandlerRecent ==
  ASSUME Types, CommitTypes, NEW a \in Auths, NEW s, IsState(s), Expires(s),
         NEW t \in {clock, clock + 1}, NEW saves, NEW next \in {"todo", "done"},
         Written(saves, s, a, t), Outcome(a, saves, next),
         UNCHANGED <<clock, stage>>
  PROVE  /\ Recent(a)'
         /\ sr'[a].valid_after \in Nat => t <= sr'[a].valid_after \/ at'[a] = "down"
         /\ at'[a] \in {"down", next}
         /\ \A b \in Auths \ {a} : sr'[b] = sr[b] /\ at'[b] = at[b]
<1>1. clock \in Nat /\ at \in [Auths -> {"down", "todo", "done"}] /\ sr = [b \in Auths |-> sr[b]]
  BY DEF Types, CommitTypes
<1>2. CASE Completed(a, s, t, next)
  <2>1. PICK v : Updated(v, s, a, t) /\ sr' = [sr EXCEPT ![a] = v] /\ at' = [at EXCEPT ![a] = next]
    BY <1>2 DEF Completed
  <2>2. Expires(v)
    BY <1>1, <2>1, UpdateExpires
  <2>3. v.valid_after \in Nat /\ t <= v.valid_after
    BY <1>1, <2>1 DEF Updated, Kept, IsState
  <2>4. sr'[a] = v /\ at'[a] = next /\ \A b \in Auths \ {a} : sr'[b] = sr[b] /\ at'[b] = at[b]
    BY <1>1, <2>1
  <2>5. clock <= v.valid_after
    BY <1>1, <2>3
  <2>6. Recent(a)'
    BY <2>2, <2>4, <2>5 DEF Recent, Expires
  <2> QED BY <2>3, <2>4, <2>6
<1>3. CASE CutShort(a, s, t)
  <2>1. PICK u, w : /\ Saved(u, s, a, t) /\ w = OnDisk(u) /\ sr' = [sr EXCEPT ![a] = w]
                    /\ at' = [at EXCEPT ![a] = "down"]
    BY <1>3 DEF CutShort
  <2>2. Expires(u)
    BY <1>1, <2>1, UpdateExpires
  <2>3. IsState(u)
    BY <2>1 DEF Saved, Kept, Emptied, Made
  <2>4. w.valid_after = u.valid_after /\ w.valid_until = u.valid_until
    BY <2>1, <2>3 DEF OnDisk, IsState
  <2>5. sr'[a] = w /\ at'[a] = "down" /\ \A b \in Auths \ {a} : sr'[b] = sr[b] /\ at'[b] = at[b]
    BY <1>1, <2>1
  <2>6. Recent(a)'
    BY <2>2, <2>4, <2>5 DEF Recent, Expires
  <2> QED BY <2>5, <2>6
<1> QED BY <1>2, <1>3, OutcomeOf

(* sr_state_init(): the state that is loaded or made.                      *)
Loaded(a) == IF disk_state_validate(sr[a]) THEN disk_state_parse(sr[a]) ELSE state_new

(* A loaded state is in the phase of its round, one that is made in that   *)
(* of the clock and without a value.                                       *)
LEMMA LoadedState ==
  ASSUME clock \in Nat, crashes \in Nat, NEW a \in Auths, IsState(sr[a]), Expires(sr[a]),
         NEW s, s = Loaded(a)
  PROVE  /\ IsState(s) /\ Expires(s)
         /\ s.current = None \/ s.current = sr[a].current
         /\ \/ /\ s.valid_after = sr[a].valid_after /\ clock < sr[a].valid_until
               /\ s.phase = get_sr_protocol_phase(s.valid_after)
               /\ s.valid_until = sr[a].valid_until
            \/ s.valid_after = 0 /\ s.phase = get_sr_protocol_phase(clock) /\ s.current = None
<1>1. CASE disk_state_validate(sr[a])
  <2>1. PICK disk : disk = sr[a] /\ IsState(disk) /\ Expires(disk)
    OBVIOUS
  <2>2. s = [disk EXCEPT !.phase = get_sr_protocol_phase(disk.valid_after)]
    BY <1>1, <2>1 DEF Loaded, disk_state_parse
  <2>3. /\ IsState(s) /\ s.current = disk.current /\ s.valid_after = disk.valid_after
        /\ s.valid_until = disk.valid_until /\ s.phase = get_sr_protocol_phase(s.valid_after)
    BY <2>1, <2>2, Phases DEF IsState
  <2>4. Expires(s)
    BY <2>1, <2>3 DEF Expires
  <2>5. clock < disk.valid_until
    BY <1>1, <2>1 DEF disk_state_validate, IsState
  <2> QED BY <2>1, <2>3, <2>4, <2>5
<1>2. CASE ~disk_state_validate(sr[a])
  <2>1. s = state_new
    BY <1>2 DEF Loaded
  <2>2. IsState(s) /\ s.valid_after = 0 /\ s.phase = get_sr_protocol_phase(clock)
    BY <2>1, NewState DEF Current
  <2>3. s.current = None /\ s.valid_until = get_state_valid_until_time(clock)
    BY <2>1 DEF state_new
  <2>4. Expires(s)
    BY <2>2, <2>3, KeptNoLonger DEF Expires
  <2> QED BY <2>2, <2>3, <2>4
<1> QED BY <1>1, <1>2

(* The handler of sr_state_init(), what it writes and when it ends.        *)
LEMMA BootHandler ==
  ASSUME Types, CommitInv, FileInv, NEW a \in Auths, sr_state_init(a)
  PROVE  \E s, saves, next :
            /\ s = Loaded(a) /\ saves = <<s>> \o sr_state_update(s, a, clock + 1)
            /\ next \in {"todo", "done"} /\ Outcome(a, saves, next)
            /\ IsState(s) /\ Expires(s) /\ Written(saves, s, a, clock + 1)
<1>1. PICK s : s = Loaded(a)
  OBVIOUS
<1>2. PICK next \in {"todo", "done"} : next = IF stage = "vote" THEN "todo" ELSE "done"
  <2>1. (IF stage = "vote" THEN "todo" ELSE "done") \in {"todo", "done"}
    OBVIOUS
  <2> QED BY <2>1
<1>3. PICK t : t = clock + 1
  OBVIOUS
<1>4. PICK saves : saves = <<s>> \o sr_state_update(s, a, t) /\ Outcome(a, saves, next)
  BY <1>1, <1>2, <1>3, Zenon DEF sr_state_init, Loaded
<1>5. clock \in Nat /\ crashes \in Nat /\ IsState(sr[a]) /\ Expires(sr[a])
  BY DEF Types, CommitInv, CommitTypes, Authority, Current, FileInv, Recent
<1>6. IsState(s) /\ Expires(s)
  BY <1>1, <1>5, LoadedState
<1>7. Written(saves, s, a, t)
  BY <1>3, <1>4, <1>5, <1>6, BootSaves
<1> QED BY <1>1, <1>2, <1>3, <1>4, <1>6, <1>7

(* What an authority that changes nothing of another's files does.         *)
LEMMA FilesLeftAlone ==
  ASSUME FileInv, NEW b \in Auths, UNCHANGED <<clock, stage>>,
         sr'[b].valid_after = sr[b].valid_after, sr'[b].valid_until = sr[b].valid_until,
         at'[b] = at[b] \/ (stage # "publish" /\ at[b] # "down")
  PROVE  Recent(b)'
<1>1. Recent(b)
  BY DEF FileInv
<1>2. PICK s, w : s = sr[b] /\ w = sr'[b]
  OBVIOUS
<1>3. Expires(w)'
  BY <1>1, <1>2 DEF Recent, Expires
<1> QED BY <1>1, <1>2, <1>3 DEF Recent

(* The state of every authority is recent after a step.                    *)
LEMMA StayRecent ==
  ASSUME Types, IInv, CommitInv, FileInv, [Next]_vars, NEW b \in Auths
  PROVE  Recent(b)'
<1>0. /\ clock \in Nat /\ sr = [a \in Auths |-> sr[a]] /\ CommitTypes
      /\ at \in [Auths -> {"down", "todo", "done"}]
      /\ \A a \in Auths : IsState(sr[a]) /\ Expires(sr[a])
  BY DEF Types, CommitInv, CommitTypes, Authority, Current, FileInv, Recent
<1>1. CASE UNCHANGED vars \/ Ended
  BY <1>1, FilesLeftAlone DEF vars, Ended
<1>2. ASSUME NEW a \in Auths, sr_state_init(a) PROVE Recent(b)'
  <2>1. PICK s, saves, next, t :
           /\ next \in {"todo", "done"} /\ Outcome(a, saves, next) /\ t = clock + 1
           /\ IsState(s) /\ Expires(s) /\ Written(saves, s, a, t)
    BY <1>2, BootHandler
  <2>2. UNCHANGED <<clock, stage>>
    BY <1>2 DEF sr_state_init
  <2>3. t \in {clock, clock + 1}
    BY <2>1
  <2>4. Recent(a)' /\ \A x \in Auths \ {a} : sr'[x] = sr[x] /\ at'[x] = at[x]
    BY <1>0, <2>1, <2>2, <2>3, HandlerRecent
  <2> QED BY <2>2, <2>4, FilesLeftAlone
<1>3. ASSUME NEW a \in Auths, Publish(a) \/ FetchConsensus(a) PROVE Recent(b)'
  <2>1. PICK c, t : /\ t \in {clock, clock + 1}
                    /\ Outcome(a, sr_act_post_consensus(sr[a], a, c, t), "done")
    <3>1. clock \in {clock, clock + 1} /\ clock + 1 \in {clock, clock + 1}
      OBVIOUS
    <3> QED BY <1>3, <3>1, Zenon DEF Publish, FetchConsensus
  <2>2. PICK s, saves : s = sr[a] /\ saves = sr_act_post_consensus(s, a, c, t)
    OBVIOUS
  <2>3. IsState(s) /\ Expires(s) /\ Outcome(a, saves, "done") /\ Written(saves, s, a, t)
    BY <1>0, <2>1, <2>2, PostConsensusSaves
  <2>4. UNCHANGED <<clock, stage>>
    BY <1>3 DEF Publish, FetchConsensus
  <2>5. Recent(a)' /\ \A x \in Auths \ {a} : sr'[x] = sr[x] /\ at'[x] = at[x]
    BY <1>0, <2>1, <2>3, <2>4, HandlerRecent
  <2> QED BY <2>4, <2>5, FilesLeftAlone
<1>4. ASSUME NEW a \in Auths, Crash(a) PROVE Recent(b)'
  <2>1. PICK s, w : s = sr[a] /\ w = OnDisk(s) /\ sr' = [sr EXCEPT ![a] = w]
    BY <1>4 DEF Crash
  <2>2. at' = [at EXCEPT ![a] = "down"] /\ UNCHANGED <<clock, stage>>
    BY <1>4 DEF Crash
  <2>3. w.valid_after = s.valid_after /\ w.valid_until = s.valid_until
    BY <1>0, <2>1 DEF OnDisk, IsState
  <2>4. CASE b = a
    <3>1. sr'[a] = w /\ at'[a] = "down" /\ Expires(s)
      BY <1>0, <2>1, <2>2
    <3> QED BY <2>2, <2>3, <2>4, <3>1 DEF Recent, Expires
  <2>5. CASE b # a
    BY <1>0, <2>1, <2>2, <2>5, FilesLeftAlone
  <2> QED BY <2>4, <2>5
<1>5. ASSUME NEW a \in Auths, NEW others, Vote(a, others) PROVE Recent(b)'
  <2>1. /\ stage = "vote" /\ at' = [at EXCEPT ![a] = "done"] /\ at[a] # "down"
        /\ UNCHANGED <<clock, stage>>
    BY <1>5 DEF Vote
  <2>2. VoteKeeps(a)
    BY <1>0, <1>5, VoteStates
  <2> QED BY <1>0, <2>1, <2>2, FilesLeftAlone DEF VoteKeeps
<1>6. ASSUME NEW a \in Auths, NEW fetched, Compute(a, fetched) PROVE Recent(b)'
  <2>1. /\ stage = "compute" /\ at' = [at EXCEPT ![a] = "done"] /\ at[a] # "down"
        /\ UNCHANGED <<clock, stage>>
    BY <1>6 DEF Compute
  <2>2. VoteKeeps(a)
    BY <1>0, <1>6, ComputeStates
  <2> QED BY <1>0, <2>1, <2>2, FilesLeftAlone DEF VoteKeeps
<1>7. CASE Advance
  <2>1. /\ \A a \in Auths : at[a] \in {"down", "done"}
        /\ at' = [a \in Auths |-> IF Up(a) THEN "todo" ELSE "down"] /\ UNCHANGED sr
        /\ \/ UNCHANGED clock
           \/ stage' = "publish" /\ clock' = clock + 1
    BY <1>7 DEF Advance
  <2>2. PICK s : s = sr[b] /\ s = sr'[b] /\ s.valid_after \in Nat /\ s.valid_until \in Nat
    BY <1>0, <2>1 DEF IsState
  <2>3. clock' \in Nat /\ clock <= clock' /\ clock' <= clock + 1
    BY <1>0, <2>1
  <2>4. Expires(s)'
    <3>1. PICK d \in Nat, e \in Nat : d = LastKept(clock) /\ e = LastKept(clock') /\ d <= e
      BY <1>0, <2>3, LaterRuns
    <3> QED BY <1>0, <2>2, <3>1 DEF Expires
  <2>5. at'[b] # "down" => at'[b] = "todo" /\ clock <= s.valid_after
    <3>1. Recent(b) /\ at[b] \in {"down", "done"}
      BY <2>1 DEF FileInv
    <3> QED BY <2>1, <2>2, <3>1 DEF Recent, Up
  <2> QED BY <1>0, <2>1, <2>2, <2>3, <2>4, <2>5 DEF Recent
<1>8. (\E a \in Auths : \/ sr_state_init(a) \/ Crash(a) \/ Publish(a) \/ FetchConsensus(a)
                        \/ \E S \in SUBSET Auths : Vote(a, S) \/ Compute(a, S))
      \/ Advance \/ Ended \/ UNCHANGED vars
  BY DEF Next
<1> QED BY <1>1, <1>2, <1>3, <1>4, <1>5, <1>6, <1>7, <1>8

(* Votes are taken in between publishing and the next round's publishing,  *)
(* by authorities that are up.                                             *)
LEMMA StayCleared ==
  ASSUME Types, CommitInv, FileInv, [Next]_vars, NEW b \in Auths
  PROVE  Cleared(b)'
<1>0. /\ at \in [Auths -> {"down", "todo", "done"}] /\ Cleared(b)
      /\ pending = [a \in Auths |-> pending[a]]
  BY DEF Types, CommitInv, CommitTypes, FileInv
<1>1. CASE UNCHANGED vars \/ Ended
  BY <1>0, <1>1 DEF vars, Ended, Cleared, NoVotes
<1>2. ASSUME NEW a \in Auths, sr_state_init(a) PROVE Cleared(b)'
  <2>1. PICK saves, next : next \in {"todo", "done"} /\ Outcome(a, saves, next)
    BY <1>2, BootHandler
  <2>2. at[a] = "down" /\ UNCHANGED <<stage, pending>>
    BY <1>2 DEF sr_state_init, Up
  <2>3. \A x \in Auths \ {a} : at'[x] = at[x]
    BY <2>1, OutcomeAt
  <2> QED BY <1>0, <2>2, <2>3 DEF Cleared, NoVotes
<1>3. ASSUME NEW a \in Auths, Publish(a) \/ Crash(a) PROVE Cleared(b)'
  <2>1. pending' = [pending EXCEPT ![a] = NoVotes] /\ UNCHANGED stage
    BY <1>3 DEF Publish, Crash
  <2>2. \A x \in Auths \ {a} : at'[x] = at[x]
    <3>1. CASE Crash(a)
      BY <1>0, <3>1 DEF Crash
    <3>2. CASE Publish(a)
      <4>1. PICK saves : Outcome(a, saves, "done")
        BY <3>2 DEF Publish
      <4> QED BY <4>1, OutcomeAt
    <3> QED BY <1>3, <3>1, <3>2
  <2> QED BY <1>0, <2>1, <2>2 DEF Cleared, NoVotes
<1>4. ASSUME NEW a \in Auths, FetchConsensus(a) PROVE Cleared(b)'
  <2>1. stage = "publish" /\ at[a] = "done" /\ UNCHANGED <<stage, pending>>
    BY <1>4 DEF FetchConsensus
  <2>2. PICK saves : Outcome(a, saves, "done")
    BY <1>4 DEF FetchConsensus
  <2>3. \A x \in Auths \ {a} : at'[x] = at[x]
    BY <2>2, OutcomeAt
  <2> QED BY <1>0, <2>1, <2>3 DEF Cleared, NoVotes
<1>5. ASSUME NEW a \in Auths, NEW others, Vote(a, others) PROVE Cleared(b)'
  <2>1. /\ stage = "vote" /\ stage' = stage /\ at' = [at EXCEPT ![a] = "done"] /\ at[a] = "todo"
        /\ others \subseteq {x \in Auths : at[x] # "down"}
    BY <1>5 DEF Vote, Up
  <2>2. PICK f : pending' = [x \in Auths |-> IF x \in others THEN f[x] ELSE pending[x]]
    <3>1. PICK v : pending' = [x \in Auths |-> IF x \in others
                       THEN dirvote_add_vote(pending[x], sr[x], a, v).list ELSE pending[x]]
      BY <1>5, Zenon DEF Vote
    <3>2. PICK f : f = [x \in Auths |-> dirvote_add_vote(pending[x], sr[x], a, v).list]
      OBVIOUS
    <3>3. pending' = [x \in Auths |-> IF x \in others THEN f[x] ELSE pending[x]]
      BY <3>1, <3>2
    <3> QED BY <3>3
  <2>3. at'[b] = "down" => at[b] = "down" /\ b \notin others
    BY <1>0, <2>1
  <2> QED BY <1>0, <2>1, <2>2, <2>3 DEF Cleared, NoVotes
<1>6. ASSUME NEW a \in Auths, NEW fetched, Compute(a, fetched) PROVE Cleared(b)'
  <2>1. /\ stage = "compute" /\ stage' = stage /\ at' = [at EXCEPT ![a] = "done"]
        /\ at[a] = "todo"
    BY <1>6 DEF Compute
  <2>2. PICK f : pending' = [pending EXCEPT ![a] = f]
    BY <1>6 DEF Compute
  <2>3. at'[b] = "down" => at[b] = "down" /\ b # a
    BY <1>0, <2>1
  <2> QED BY <1>0, <2>1, <2>2, <2>3 DEF Cleared, NoVotes
<1>7. CASE Advance
  <2>1. /\ at' = [a \in Auths |-> IF Up(a) THEN "todo" ELSE "down"] /\ UNCHANGED pending
    BY <1>7 DEF Advance
  <2>2. at'[b] # "done" /\ (at'[b] = "down" => at[b] = "down")
    BY <2>1 DEF Up
  <2> QED BY <1>0, <2>1, <2>2 DEF Cleared, NoVotes
<1>8. (\E a \in Auths : \/ sr_state_init(a) \/ Crash(a) \/ Publish(a) \/ FetchConsensus(a)
                        \/ \E S \in SUBSET Auths : Vote(a, S) \/ Compute(a, S))
      \/ Advance \/ Ended \/ UNCHANGED vars
  BY DEF Next
<1> QED BY <1>1, <1>2, <1>3, <1>4, <1>5, <1>6, <1>7, <1>8

(* An authority has what it published itself or fetched.                   *)
LEMMA StayLatest ==
  ASSUME FileInv, [Next]_vars
  PROVE  /\ consensus' = [a \in Auths |-> consensus'[a]] /\ published \subseteq published'
         /\ None \notin published'
         /\ \A b \in Auths : Latest(b)'
<1>0. /\ consensus = [a \in Auths |-> consensus[a]] /\ None \notin published
      /\ \A b \in Auths : Latest(b)
  BY DEF FileInv
<1>1. \/ UNCHANGED <<consensus, published>>
      \/ \E a \in Auths : \E c :
           /\ consensus' = [consensus EXCEPT ![a] = c]
           /\ c \in published' /\ c # None
           /\ published' = published \/ published' = published \cup {c}
  <2>1. CASE UNCHANGED vars \/ Ended
    BY <2>1 DEF vars, Ended
  <2>2. ASSUME NEW a \in Auths, sr_state_init(a) \/ Crash(a)
        PROVE  UNCHANGED <<consensus, published>>
    BY <2>2 DEF sr_state_init, Crash
  <2>3. ASSUME NEW a \in Auths, Publish(a)
        PROVE  \/ UNCHANGED <<consensus, published>>
               \/ \E c : /\ consensus' = [consensus EXCEPT ![a] = c]
                         /\ published' = published \cup {c} /\ c # None
    BY <2>3 DEF Publish, EnoughSignatures
  <2>4. ASSUME NEW a \in Auths, FetchConsensus(a)
        PROVE  /\ published' = published
               /\ \E c : /\ consensus' = [consensus EXCEPT ![a] = c]
                         /\ c \in published' /\ c # None
    BY <1>0, <2>4 DEF FetchConsensus
  <2>5. ASSUME NEW a \in Auths, NEW S, Vote(a, S) \/ Compute(a, S)
        PROVE  UNCHANGED <<consensus, published>>
    BY <2>5 DEF Vote, Compute
  <2>6. CASE Advance
    BY <2>6 DEF Advance
  <2>7. (\E a \in Auths : \/ sr_state_init(a) \/ Crash(a) \/ Publish(a) \/ FetchConsensus(a)
                          \/ \E S \in SUBSET Auths : Vote(a, S) \/ Compute(a, S))
        \/ Advance \/ Ended \/ UNCHANGED vars
    BY DEF Next
  <2> QED BY <2>1, <2>2, <2>3, <2>4, <2>5, <2>6, <2>7
<1>2. CASE UNCHANGED <<consensus, published>>
  BY <1>0, <1>2 DEF Latest
<1>3. ASSUME NEW a \in Auths, NEW c, consensus' = [consensus EXCEPT ![a] = c],
             c \in published', c # None,
             published' = published \/ published' = published \cup {c}
      PROVE  /\ consensus' = [x \in Auths |-> consensus'[x]] /\ published \subseteq published'
             /\ None \notin published'
             /\ \A b \in Auths : Latest(b)'
  BY <1>0, <1>3 DEF Latest
<1> QED BY <1>1, <1>2, <1>3

(* The files and what goes with them, when all authorities have booted.    *)
LEMMA InitialFiles == Init => FileInv
<1> SUFFICES ASSUME Init PROVE FileInv
  OBVIOUS
<1>1. clock \in Nat /\ crashes \in Nat /\ clock + 1 \in {clock, clock + 1}
  BY RoundsAssumption DEF Init
<1>2. ASSUME NEW a \in Auths PROVE Recent(a)
  <2>1. PICK new, t : new = state_new /\ t = clock + 1
    OBVIOUS
  <2>2. IsState(new) /\ new.valid_after = 0 /\ new.valid_until = get_state_valid_until_time(clock)
    <3>1. new.valid_until = get_state_valid_until_time(clock)
      BY <2>1 DEF state_new
    <3> QED BY <1>1, <2>1, <3>1, NewState DEF Current
  <2>3. Expires(new)
    BY <1>1, <2>2, KeptNoLonger DEF Expires
  <2>4. Written(sr_state_update(new, a, t), new, a, t)
    BY <1>1, <2>1, <2>2, UpdateSaves
  <2>5. PICK v : v = sr[a] /\ v = Last(sr_state_update(new, a, t))
    BY <2>1 DEF Init
  <2>6. Updated(v, new, a, t)
    BY <2>4, <2>5 DEF Written, Saves
  <2>7. Expires(v)
    BY <1>1, <2>1, <2>2, <2>3, <2>6, UpdateExpires
  <2>8. clock <= v.valid_after
    <3>1. ~(t <= new.valid_after)
      BY <1>1, <2>1, <2>2
    <3>2. v.valid_after = t
      BY <2>6, <3>1 DEF Updated
    <3> QED BY <1>1, <2>1, <3>2
  <2> QED BY <2>5, <2>7, <2>8 DEF Recent
<1>3. \A a \in Auths : Cleared(a) /\ Latest(a)
  BY DEF Init, Cleared, Latest
<1>4. consensus = [b \in Auths |-> consensus[b]] /\ None \notin published
  BY DEF Init
<1> QED BY <1>2, <1>3, <1>4 DEF FileInv

(* Files, votes and consensuses are of the present, in every reachable     *)
(* state.                                                                  *)
LEMMA FilesAreRecent == Spec => []FileInv
<1>1. IInv /\ CommitInv /\ FileInv /\ [Next]_vars => FileInv'
  <2> SUFFICES ASSUME IInv, CommitInv, FileInv, [Next]_vars PROVE FileInv'
    OBVIOUS
  <2>1. Types
    BY DEF IInv
  <2>2. \A b \in Auths : Recent(b)' /\ Cleared(b)'
    BY <2>1, StayRecent, StayCleared
  <2> QED BY <2>2, StayLatest DEF FileInv
<1> QED BY InitialFiles, Invariance, FilesStaySound, <1>1, PTL DEF Spec

(* v is the value that p names, or none.                                   *)
Agrees(v, p) == v \in {None, p.current}

(* A member of the majority that registered p: for the rest of the run its *)
(* latest consensus, its state and its votes agree with p.                 *)
Loyal(a, p) ==
  /\ consensus[a] # None /\ RunOf(p.valid_after) <= RunOf(consensus[a].valid_after)
  /\ RunOf(consensus[a].valid_after) = RunOf(p.valid_after) => Agrees(consensus[a].current, p)
  /\ RunOf(clock + 1) = RunOf(p.valid_after) =>
       /\ Agrees(sr[a].current, p)
       /\ stage # "publish" =>
            \A x \in Auths : pending[x][a] # None => Agrees(pending[x][a].current, p)

(* The consensuses that are being signed agree with p.                     *)
SignedAgree(p) ==
  \A b \in Auths :
    mine[b] # None /\ RunOf(mine[b].valid_after) = RunOf(p.valid_after) => Agrees(mine[b].current, p)

(* Those that are being published agree with p.                            *)
PublishedAgree(p) ==
  stage = "publish" /\ RunOf(clock) = RunOf(p.valid_after) =>
    \A q \in published : q.valid_after = clock => Agrees(q.current, p)

Settled(p) ==
  /\ p \in published /\ (stage = "publish" => p.valid_after < clock)
  /\ \E G \in SUBSET Auths : Cardinality(G) >= Majority /\ \A a \in G : Loyal(a, p)
  /\ SignedAgree(p) /\ PublishedAgree(p)

SrvInv == \A p \in adopted : Settled(p)

(* The rounds and values that an adopted consensus and the clock are of.   *)
LEMMA AdoptedRounds ==
  ASSUME IInv, NEW p, Settled(p)
  PROVE  /\ p.valid_after \in Nat /\ clock \in Nat /\ p.valid_after <= clock
         /\ stage = "publish" => p.valid_after < clock
         /\ RunOf(clock + 1) = RunOf(p.valid_after) => RunOf(clock) = RunOf(p.valid_after)
         /\ RunOf(p.valid_after) <= RunOf(clock)
<1>1. /\ p.valid_after \in Nat /\ clock \in Nat /\ p.valid_after <= clock
      /\ stage = "publish" => p.valid_after < clock
  BY DEF Settled, IInv, Backed, Types
<1>2. RunOf(clock + 1) = RunOf(p.valid_after) => RunOf(clock) = RunOf(p.valid_after)
  <2>1. clock + 1 \in Nat /\ clock <= clock + 1
    BY <1>1
  <2> QED BY <1>1, <2>1, RunsBetween
<1> QED BY <1>1, <1>2, LaterRuns

(* An authority whose state is of the run makes no value in it.            *)
LEMMA ComputesNone ==
  ASSUME NEW p, p.valid_after \in Nat, clock \in Nat, p.valid_after <= clock,
         RunOf(clock + 1) = RunOf(p.valid_after), NEW t \in {clock, clock + 1},
         NEW s, s.valid_after \in Nat, s.phase = get_sr_protocol_phase(s.valid_after),
         p.valid_after <= s.valid_after \/ clock < LastKept(s.valid_after)
  PROVE  ~Computes(s, t)
<1> SUFFICES ASSUME Computes(s, t) PROVE FALSE
  OBVIOUS
<1>1. PICK m \in Nat, k \in Nat, now \in Nat :
        m = s.valid_after /\ k = p.valid_after /\ now = clock /\ k <= now
  OBVIOUS
<1>2. t \in Nat /\ m < t /\ k <= t /\ t <= now + 1
  BY <1>1 DEF Computes
<1>3. RunOf(t) = RunOf(k)
  <2>1. now + 1 \in Nat /\ RunOf(k) = RunOf(now + 1)
    BY <1>1
  <2> QED BY <1>2, <2>1, RunsBetween
<1>4. RunOf(m) = RunOf(t)
  <2>1. CASE k <= m
    <3>1. m <= t
      BY <1>2
    <3> QED BY <1>2, <1>3, <2>1, <3>1, RunsBetween
  <2>2. CASE ~(k <= m)
    <3>1. PICK q \in Nat, r \in Nat, f \in Nat, g \in Nat, n \in Nat :
            /\ q = RunOf(m) /\ r = RunOf(k) /\ f = First(RunOf(m)) /\ g = First(RunOf(k))
            /\ n = TotalRounds
      <4>1. RunOf(m) \in Nat /\ RunOf(k) \in Nat
        BY RoundsOfRuns
      <4> QED BY <4>1, RunsInOrder, Lengths
    <3>2. q <= r
      BY <2>2, <3>1, LaterRuns
    <3>3. g <= k /\ now < f + n
      BY <1>1, <2>2, <3>1, RoundsOfRuns DEF LastKept
    <3>4. q < r => f + n <= g
      BY <3>1, RunsInOrder
    <3>5. q = r
      BY <1>1, <3>2, <3>3, <3>4
    <3> QED BY <1>3, <3>1, <3>5
  <2> QED BY <2>1, <2>2
<1>5. get_sr_protocol_phase(t) = "reveal"
  <2>1. m <= m
    OBVIOUS
  <2> QED BY <1>1, <1>2, <1>4, <2>1, OnePhaseChange DEF Computes
<1> QED BY <1>5 DEF Computes

(* Nor does one that boots: the file of an earlier run is refused, and a   *)
(* new state is in the phase of the clock.                                 *)
LEMMA BootComputesNone ==
  ASSUME NEW p, p.valid_after \in Nat, clock \in Nat, p.valid_after <= clock, crashes \in Nat,
         RunOf(clock + 1) = RunOf(p.valid_after),
         NEW a \in Auths, IsState(sr[a]), Expires(sr[a]), NEW s, s = Loaded(a)
  PROVE  ~Computes(s, clock + 1)
<1>1. /\ IsState(s) /\ Expires(s) /\ s.valid_after \in Nat /\ s.valid_until \in Nat
      /\ \/ /\ clock < s.valid_until /\ s.phase = get_sr_protocol_phase(s.valid_after)
         \/ s.valid_after = 0 /\ s.phase = get_sr_protocol_phase(clock)
  BY LoadedState DEF IsState
<1>2. PICK t \in {clock, clock + 1} : t = clock + 1
  OBVIOUS
<1>3. CASE s.phase = get_sr_protocol_phase(clock)
  <2> SUFFICES ASSUME Computes(s, t) PROVE FALSE
    BY <1>2
  <2>1. RunOf(clock) = RunOf(t)
    <3>1. t \in Nat /\ clock <= t /\ RunOf(p.valid_after) = RunOf(t)
      BY <1>2
    <3> QED BY <3>1, RunsBetween
  <2>2. get_sr_protocol_phase(t) = "reveal"
    <3>1. t \in Nat /\ clock <= clock /\ clock < t /\ get_sr_protocol_phase(clock) = "reveal"
      BY <1>2, <1>3 DEF Computes
    <3> QED BY <2>1, <3>1, OnePhaseChange
  <2> QED BY <2>2 DEF Computes
<1>4. CASE clock < s.valid_until /\ s.phase = get_sr_protocol_phase(s.valid_after)
  <2>1. CASE s.valid_until <= LastKept(s.valid_after)
    <3>1. clock < LastKept(s.valid_after)
      BY <1>1, <1>4, <2>1, LaterRuns
    <3> QED BY <1>1, <1>2, <1>4, <3>1, ComputesNone
  <2>2. CASE s.valid_after = 0
    <3>1. get_sr_protocol_phase(0) = "commit"
      <4>1. First(RunOf(0)) \in Nat
        BY RoundsOfRuns, RunsInOrder
      <4>2. 0 < First(RunOf(0)) + N_ROUNDS
        BY <4>1, Lengths
      <4> QED BY <4>2, RoundsOfRuns
    <3> QED BY <1>4, <2>2, <3>1 DEF Computes
  <2> QED BY <1>1, <2>1, <2>2 DEF Expires
<1> QED BY <1>1, <1>3, <1>4

(* An authority stays loyal when what it registers agrees with p and it    *)
(* makes no value, and its votes are those it had or say what it holds.    *)
LEMMA LoyalStays ==
  ASSUME NEW a \in Auths, NEW p, Loyal(a, p), UNCHANGED <<clock, stage>>,
         \/ consensus'[a] = consensus[a]
         \/ /\ consensus'[a] # None
            /\ RunOf(p.valid_after) <= RunOf(consensus'[a].valid_after)
            /\ RunOf(consensus'[a].valid_after) = RunOf(p.valid_after)
                 => Agrees(consensus'[a].current, p),
         RunOf(clock + 1) = RunOf(p.valid_after) => Agrees(sr'[a].current, p),
         \A x \in Auths :
           \/ pending'[x][a] = None
           \/ \E y \in Auths : pending'[x][a] = pending[y][a]
           \/ pending'[x][a].current = sr[a].current
  PROVE  Loyal(a, p)'
<1>1. ASSUME RunOf(clock + 1) = RunOf(p.valid_after), stage # "publish",
             NEW x \in Auths, pending'[x][a] # None
      PROVE  Agrees(pending'[x][a].current, p)
  BY <1>1 DEF Loyal
<1>2. /\ consensus'[a] # None
      /\ RunOf(p.valid_after) <= RunOf(consensus'[a].valid_after)
      /\ RunOf(consensus'[a].valid_after) = RunOf(p.valid_after)
                 => Agrees(consensus'[a].current, p)
  BY DEF Loyal
<1>3. PICK c, s : c = consensus'[a] /\ s = sr'[a]
  OBVIOUS
<1>4. RunOf(clock + 1)' = RunOf(clock + 1) /\ stage' = stage
  BY DEF RunOf, TotalRounds
<1> QED BY <1>1, <1>2, <1>3, <1>4 DEF Loyal, Agrees, RunOf, TotalRounds

(* So does the majority, when its members do.                              *)
LEMMA SettledStays ==
  ASSUME NEW p, Settled(p), published \subseteq published', UNCHANGED <<clock, stage>>,
         \A a \in Auths : Loyal(a, p) => Loyal(a, p)',
         SignedAgree(p)', PublishedAgree(p)'
  PROVE  Settled(p)'
<1>1. PICK G \in SUBSET Auths : Cardinality(G) >= Majority /\ \A a \in G : Loyal(a, p)
  BY DEF Settled
<1>2. Cardinality(G) >= Majority /\ \A a \in G : Loyal(a, p)'
  BY <1>1
<1>3. \E H \in SUBSET Auths : Cardinality(H) >= Majority /\ \A a \in H : Loyal(a, p)'
  BY <1>2
<1>4. (\E H \in SUBSET Auths : Cardinality(H) >= Majority /\ \A a \in H : Loyal(a, p))'
  BY <1>3 DEF Majority
<1>5. p \in published' /\ (stage' = "publish" => p.valid_after < clock')
  BY DEF Settled
<1> QED BY <1>4, <1>5 DEF Settled

(* Steps that sign and publish nothing.                                    *)
LEMMA NoneSigned ==
  ASSUME NEW p, Settled(p), UNCHANGED <<clock, stage, published>>,
         \A b \in Auths : mine'[b] # None => mine'[b] = mine[b]
  PROVE  SignedAgree(p)' /\ PublishedAgree(p)'
<1>1. SignedAgree(p)'
  BY DEF Settled, SignedAgree, Agrees, RunOf, TotalRounds
<1>2. PublishedAgree(p)'
  BY DEF Settled, PublishedAgree, Agrees, RunOf, TotalRounds
<1> QED BY <1>1, <1>2

(* The variables that the parts of the invariant are about.                *)
LEMMA SrvTypes ==
  ASSUME IInv, CommitInv, FileInv
  PROVE  /\ Types /\ clock \in Nat /\ crashes \in Nat
         /\ at \in [Auths -> {"down", "todo", "done"}]
         /\ sr = [a \in Auths |-> sr[a]] /\ mine = [a \in Auths |-> mine[a]]
         /\ consensus = [a \in Auths |-> consensus[a]]
         /\ pending = [a \in Auths |-> pending[a]]
         /\ \A a \in Auths : /\ pending[a] = [b \in Auths |-> pending[a][b]]
                             /\ IsState(sr[a]) /\ Expires(sr[a]) /\ sr[a].valid_after \in Nat
                             /\ at[a] # "down" => sr[a].phase = get_sr_protocol_phase(sr[a].valid_after)
  BY DEF IInv, Types, CommitInv, CommitTypes, Authority, Current, IsState, FileInv, Recent

(* What a handler does with the state of its authority.                    *)
LEMMA OthersStates ==
  ASSUME sr = [b \in Auths |-> sr[b]], NEW a \in Auths, NEW saves, NEW next,
         Outcome(a, saves, next)
  PROVE  \A b \in Auths \ {a} : sr'[b] = sr[b]
  BY DEF Outcome

(* sr_state_init(): the value of the file, if any, is kept.                *)
LEMMA SettledBoot ==
  ASSUME IInv, CommitInv, FileInv, NEW p, Settled(p), NEW a \in Auths, sr_state_init(a)
  PROVE  Settled(p)'
<1>1. UNCHANGED <<clock, stage, pending, mine, consensus, published>>
  BY DEF sr_state_init
<1>2. PICK s, saves, next, t :
        /\ s = Loaded(a) /\ t = clock + 1 /\ saves = <<s>> \o sr_state_update(s, a, t)
        /\ Outcome(a, saves, next) /\ IsState(s)
  BY BootHandler, SrvTypes
<1>3. clock \in Nat /\ p.valid_after \in Nat /\ p.valid_after <= clock
  BY AdoptedRounds
<1>4. ASSUME NEW b \in Auths, Loyal(b, p) PROVE Loyal(b, p)'
  <2>1. ASSUME RunOf(clock + 1) = RunOf(p.valid_after) PROVE Agrees(sr'[b].current, p)
    <3>1. Agrees(sr[b].current, p)
      BY <1>4, <2>1 DEF Loyal
    <3>2. CASE b # a
      <4>1. sr'[b] = sr[b]
        BY <1>2, <3>2, OthersStates, SrvTypes
      <4> QED BY <3>1, <4>1
    <3>3. CASE b = a
      <4>1. PICK V : V = {None, p.current} /\ s.current \in V
        <5>1. s.current = None \/ s.current = sr[a].current
          BY <1>2, <1>3, LoadedState, SrvTypes
        <5> QED BY <3>1, <3>3, <5>1 DEF Agrees
      <4>2. ~Computes(s, t)
        BY <1>2, <1>3, <2>1, BootComputesNone, SrvTypes
      <4>3. PICK q, r : q = <<s>> /\ r = sr_state_update(s, a, t)
        OBVIOUS
      <4>4. Names(r, V)
        <5>1. t \in Nat
          BY <1>2, <1>3
        <5> QED BY <1>2, <4>1, <4>2, <4>3, <5>1, UpdateNames
      <4>5. Names(q, V)
        <5>1. PICK S : S = {} /\ Saves(q, S, s)
          BY <4>3, OneSave
        <5>2. \A u \in S \cup {s} : IsState(u) /\ u.current \in V
          BY <1>2, <4>1, <5>1
        <5> QED BY <5>1, <5>2, Zenon DEF Names
      <4>6. Names(saves, V)
        <5>1. Names(q \o r, V)
          BY <4>4, <4>5, MoreNames
        <5> QED BY <1>2, <4>3, <5>1
      <4>7. sr'[a].current \in V
        BY <1>2, <4>6, OutcomeNames, SrvTypes
      <4> QED BY <3>3, <4>1, <4>7 DEF Agrees
    <3> QED BY <3>2, <3>3
  <2> QED BY <1>1, <1>4, <2>1, LoyalStays
<1>5. SignedAgree(p)' /\ PublishedAgree(p)'
  BY <1>1, NoneSigned
<1> QED BY <1>1, <1>4, <1>5, SettledStays

(* What a crash between handlers leaves names the same value.              *)
LEMMA SettledCrash ==
  ASSUME IInv, CommitInv, FileInv, NEW p, Settled(p), NEW a \in Auths, Crash(a)
  PROVE  Settled(p)'
<1>1. /\ UNCHANGED <<clock, stage, consensus, published>>
      /\ pending' = [pending EXCEPT ![a] = NoVotes] /\ mine' = [mine EXCEPT ![a] = None]
  BY DEF Crash
<1>2. PICK s, w : s = sr[a] /\ w = OnDisk(s) /\ sr' = [sr EXCEPT ![a] = w] /\ IsState(s)
  BY SrvTypes DEF Crash
<1>3. w.current = s.current
  BY <1>2 DEF OnDisk, IsState
<1>4. \A b \in Auths : sr'[b].current = sr[b].current
  <2>1. sr'[a] = w /\ \A b \in Auths \ {a} : sr'[b] = sr[b]
    BY <1>2, SrvTypes
  <2> QED BY <1>2, <1>3, <2>1
<1>5. ASSUME NEW b \in Auths, NEW x \in Auths
      PROVE  pending'[x][b] = None \/ pending'[x][b] = pending[x][b]
  BY <1>1, SrvTypes DEF NoVotes
<1>6. ASSUME NEW b \in Auths, Loyal(b, p) PROVE Loyal(b, p)'
  <2>1. RunOf(clock + 1) = RunOf(p.valid_after) => Agrees(sr'[b].current, p)
    BY <1>4, <1>6 DEF Loyal
  <2> QED BY <1>1, <1>5, <1>6, <2>1, LoyalStays
<1>7. SignedAgree(p)' /\ PublishedAgree(p)'
  <2>1. \A b \in Auths : mine'[b] # None => mine'[b] = mine[b]
    BY <1>1, SrvTypes
  <2> QED BY <1>1, <2>1, NoneSigned
<1> QED BY <1>1, <1>6, <1>7, SettledStays

(* sr_act_post_consensus() of a consensus that agrees with p if it is of   *)
(* its run, at an authority that is up.                                    *)
LEMMA PostConsensusAgrees ==
  ASSUME IInv, CommitInv, FileInv, NEW p, Settled(p), NEW a \in Auths, at[a] # "down",
         stage = "publish", NEW c, NEW t \in {clock, clock + 1},
         Outcome(a, sr_act_post_consensus(sr[a], a, c, t), "done"),
         RunOf(clock + 1) = RunOf(p.valid_after),
         Agrees(sr[a].current, p), c # None => Agrees(c.current, p)
  PROVE  Agrees(sr'[a].current, p)
<1>1. PICK s, saves : s = sr[a] /\ saves = sr_act_post_consensus(s, a, c, t)
  OBVIOUS
<1>2. /\ IsState(s) /\ s.valid_after \in Nat /\ s.phase = get_sr_protocol_phase(s.valid_after)
      /\ clock \in Nat /\ t \in Nat
  BY <1>1, SrvTypes
<1>3. p.valid_after \in Nat /\ p.valid_after < clock
  BY AdoptedRounds
<1>4. clock <= s.valid_after + 1
  BY <1>1, <1>2 DEF FileInv, Recent
<1>5. p.valid_after <= s.valid_after /\ p.valid_after <= clock
  BY <1>2, <1>3, <1>4
<1>6. ~Computes(s, t)
  BY <1>2, <1>3, <1>5, ComputesNone
<1>7. PICK V : V = {None, p.current}
  OBVIOUS
<1>8. s.current \in V /\ None \in V /\ (c # None => c.current \in V)
  BY <1>1, <1>7 DEF Agrees
<1>9. Names(saves, V)
  BY <1>1, <1>2, <1>6, <1>8, PostConsensusNames
<1>10. sr'[a].current \in V
  BY <1>1, <1>9, OutcomeNames, SrvTypes
<1> QED BY <1>7, <1>10 DEF Agrees

(* handle_response_fetch_consensus(): what is fetched is being published.  *)
LEMMA SettledFetch ==
  ASSUME IInv, CommitInv, FileInv, NEW p, Settled(p), NEW a \in Auths, FetchConsensus(a)
  PROVE  Settled(p)'
<1>1. /\ stage = "publish" /\ at[a] # "down"
      /\ UNCHANGED <<clock, stage, pending, mine, published>>
  BY DEF FetchConsensus
<1>2. PICK t : t = clock + 1 /\ t \in {clock, clock + 1}
  OBVIOUS
<1>3. PICK c : /\ c \in published /\ c.valid_after = clock /\ c # None
               /\ consensus' = [consensus EXCEPT ![a] = c]
               /\ Outcome(a, sr_act_post_consensus(sr[a], a, c, t), "done")
  <2>1. PICK c : /\ c \in published /\ c.valid_after = clock
                 /\ consensus' = [consensus EXCEPT ![a] = c]
                 /\ Outcome(a, sr_act_post_consensus(sr[a], a, c, t), "done")
    BY <1>2, Zenon DEF FetchConsensus
  <2>2. None \notin published
    BY DEF FileInv
  <2> QED BY <2>1, <2>2
<1>4. /\ RunOf(p.valid_after) <= RunOf(clock)
      /\ RunOf(clock + 1) = RunOf(p.valid_after) => RunOf(clock) = RunOf(p.valid_after)
  BY AdoptedRounds
<1>5. RunOf(clock) = RunOf(p.valid_after) => Agrees(c.current, p)
  BY <1>1, <1>3 DEF Settled, PublishedAgree
<1>6. ASSUME NEW b \in Auths, Loyal(b, p) PROVE Loyal(b, p)'
  <2>1. ASSUME RunOf(clock + 1) = RunOf(p.valid_after) PROVE Agrees(sr'[b].current, p)
    <3>1. Agrees(sr[b].current, p)
      BY <1>6, <2>1 DEF Loyal
    <3>2. CASE b # a
      BY <1>3, <3>1, <3>2, OthersStates, SrvTypes
    <3>3. CASE b = a
      BY <1>1, <1>2, <1>3, <1>4, <1>5, <2>1, <3>1, <3>3, PostConsensusAgrees
    <3> QED BY <3>2, <3>3
  <2>2. consensus'[b] = consensus[b] \/ (consensus'[b] = c /\ b = a)
    BY <1>3, SrvTypes
  <2>3. CASE consensus'[b] = consensus[b]
    BY <1>1, <1>6, <2>1, <2>3, LoyalStays
  <2>4. CASE consensus'[b] = c
    BY <1>1, <1>3, <1>4, <1>5, <1>6, <2>1, <2>4, LoyalStays
  <2> QED BY <2>2, <2>3, <2>4
<1>7. SignedAgree(p)' /\ PublishedAgree(p)'
  BY <1>1, NoneSigned
<1> QED BY <1>1, <1>6, <1>7, SettledStays

(* dirvote_publish_consensus(): a new consensus was computed from votes of *)
(* the majority too.                                                       *)
LEMMA SettledPublish ==
  ASSUME IInv, CommitInv, FileInv, NEW p, Settled(p), NEW a \in Auths, Publish(a)
  PROVE  /\ Settled(p)'
         /\ \A q \in published' \ published :
              RunOf(p.valid_after) = RunOf(q.valid_after) => Agrees(q.current, p)
<1>1. /\ stage = "publish" /\ at[a] # "down" /\ UNCHANGED <<clock, stage>>
      /\ pending' = [pending EXCEPT ![a] = NoVotes] /\ mine' = [mine EXCEPT ![a] = None]
  BY DEF Publish
<1>2. /\ RunOf(p.valid_after) <= RunOf(clock)
      /\ RunOf(clock + 1) = RunOf(p.valid_after) => RunOf(clock) = RunOf(p.valid_after)
  BY AdoptedRounds
<1>3. PICK m : m = mine[a] /\ (m # None => m.valid_after = clock)
  BY <1>1 DEF IInv, Pending
<1>4. m # None /\ RunOf(clock) = RunOf(p.valid_after) => Agrees(m.current, p)
  BY <1>3 DEF Settled, SignedAgree
<1>5. PICK c, t : /\ t \in {clock, clock + 1}
                  /\ Outcome(a, sr_act_post_consensus(sr[a], a, c, t), "done")
                  /\ \/ /\ c = m /\ m # None /\ consensus' = [consensus EXCEPT ![a] = m]
                        /\ published' = published \cup {m}
                     \/ c = consensus[a] /\ UNCHANGED <<consensus, published>>
  <2>1. CASE /\ EnoughSignatures(a) /\ consensus' = [consensus EXCEPT ![a] = mine[a]]
             /\ published' = published \cup {mine[a]}
             /\ Outcome(a, sr_act_post_consensus(sr[a], a, mine[a], clock + 1), "done")
    <3>1. PICK t : t = clock + 1 /\ t \in {clock, clock + 1}
      OBVIOUS
    <3> QED BY <1>3, <2>1, <3>1 DEF EnoughSignatures
  <2>2. CASE /\ UNCHANGED <<consensus, published>>
             /\ Outcome(a, sr_act_post_consensus(sr[a], a, consensus[a], clock), "done")
    <3>1. PICK t : t = clock /\ t \in {clock, clock + 1}
      OBVIOUS
    <3> QED BY <2>2, <3>1
  <2> QED BY <2>1, <2>2 DEF Publish
<1>6. ASSUME NEW b \in Auths, Loyal(b, p) PROVE Loyal(b, p)'
  <2>1. ASSUME RunOf(clock + 1) = RunOf(p.valid_after) PROVE Agrees(sr'[b].current, p)
    <3>1. Agrees(sr[b].current, p)
      BY <1>6, <2>1 DEF Loyal
    <3>2. CASE b # a
      BY <1>5, <3>1, <3>2, OthersStates, SrvTypes
    <3>3. CASE b = a
      <4>1. c # None => Agrees(c.current, p)
        <5>1. CASE c = m
          BY <1>2, <1>4, <2>1, <5>1
        <5>2. CASE c = consensus[a]
          <6>1. consensus[a].valid_after \in Nat /\ consensus[a].valid_after <= clock
            BY <1>6, <3>3 DEF Loyal, FileInv, Latest, IInv, Backed
          <6>2. RunOf(consensus[a].valid_after) <= RunOf(clock)
            BY <6>1, SrvTypes, LaterRuns
          <6>3. RunOf(p.valid_after) <= RunOf(consensus[a].valid_after)
            BY <1>6, <3>3 DEF Loyal
          <6>4. PICK x \in Nat, y \in Nat, z \in Nat :
                  /\ x = RunOf(p.valid_after) /\ y = RunOf(consensus[a].valid_after)
                  /\ z = RunOf(clock)
            BY <6>1, AdoptedRounds, RoundsOfRuns
          <6>5. RunOf(consensus[a].valid_after) = RunOf(p.valid_after)
            BY <1>2, <2>1, <6>2, <6>3, <6>4
          <6> QED BY <1>6, <3>3, <5>2, <6>5 DEF Loyal
        <5> QED BY <1>5, <5>1, <5>2
      <4> QED BY <1>1, <1>5, <2>1, <3>1, <3>3, <4>1, PostConsensusAgrees
    <3> QED BY <3>2, <3>3
  <2>2. \A x \in Auths : pending'[x][b] = None \/ \E y \in Auths : pending'[x][b] = pending[y][b]
    BY <1>1, SrvTypes DEF NoVotes
  <2>3. consensus'[b] = consensus[b] \/ (m # None /\ consensus'[b] = m)
    BY <1>5, SrvTypes
  <2>4. CASE consensus'[b] = consensus[b]
    BY <1>1, <1>6, <2>1, <2>2, <2>4, LoyalStays
  <2>5. CASE m # None /\ consensus'[b] = m
    BY <1>1, <1>2, <1>3, <1>4, <1>6, <2>1, <2>2, <2>5, LoyalStays
  <2> QED BY <2>3, <2>4, <2>5
<1>7. SignedAgree(p)'
  <2>1. \A b \in Auths : mine'[b] # None => mine'[b] = mine[b]
    BY <1>1, SrvTypes
  <2> QED BY <2>1 DEF Settled, SignedAgree, Agrees, RunOf, TotalRounds
<1>8. ASSUME NEW q \in published', q.valid_after = clock, RunOf(clock) = RunOf(p.valid_after)
      PROVE  Agrees(q.current, p)
  <2>1. CASE q \in published
    BY <1>1, <1>8, <2>1 DEF Settled, PublishedAgree
  <2>2. CASE q = m /\ m # None
    BY <1>4, <1>8, <2>2
  <2> QED BY <1>5, <2>1, <2>2
<1>9. PublishedAgree(p)'
  BY <1>1, <1>8 DEF PublishedAgree, Agrees, RunOf, TotalRounds
<1>10. published \subseteq published'
  BY <1>5
<1>11. Settled(p)'
  BY <1>1, <1>6, <1>7, <1>9, <1>10, SettledStays
<1>12. ASSUME NEW q \in published' \ published, RunOf(p.valid_after) = RunOf(q.valid_after)
       PROVE  Agrees(q.current, p)
  <2>1. q = m /\ m # None
    BY <1>5, <1>12
  <2> QED BY <1>3, <1>4, <1>12, <2>1
<1> QED BY <1>11, <1>12

(* dirvote_perform_vote(): a vote names the value of the voter's state.    *)
LEMMA SettledVote ==
  ASSUME IInv, CommitInv, FileInv, NEW p, Settled(p), NEW a \in Auths, NEW others,
         Vote(a, others)
  PROVE  Settled(p)'
<1>1. UNCHANGED <<clock, stage, mine, consensus, published>>
  BY DEF Vote
<1>2. PICK v : /\ v.current = sr[a].current
               /\ pending' = [x \in Auths |-> IF x \in others
                       THEN dirvote_add_vote(pending[x], sr[x], a, v).list ELSE pending[x]]
  <2>1. PICK v : /\ v = sr_get_string_for_vote(sr[a], a,
                          IF posted[a] = None THEN 1 ELSE posted[a].n + 1)
                 /\ pending' = [x \in Auths |-> IF x \in others
                       THEN dirvote_add_vote(pending[x], sr[x], a, v).list ELSE pending[x]]
    BY Zenon DEF Vote
  <2> QED BY <2>1 DEF sr_get_string_for_vote
<1>3. ASSUME NEW x \in Auths, NEW b \in Auths
      PROVE  pending'[x][b] = pending[x][b] \/ (b = a /\ pending'[x][b] = v)
  <2>1. pending'[x] = pending[x] \/ pending'[x] = [pending[x] EXCEPT ![a] = v]
    BY <1>2 DEF dirvote_add_vote
  <2>2. pending[x] = [y \in Auths |-> pending[x][y]]
    BY SrvTypes
  <2> QED BY <2>1, <2>2
<1>4. ASSUME NEW b \in Auths, Loyal(b, p) PROVE Loyal(b, p)'
  <2>1. sr'[b].current = sr[b].current
    BY VoteStates DEF VoteKeeps
  <2>2. RunOf(clock + 1) = RunOf(p.valid_after) => Agrees(sr'[b].current, p)
    BY <1>4, <2>1 DEF Loyal
  <2>3. \A x \in Auths : \/ \E y \in Auths : pending'[x][b] = pending[y][b]
                         \/ pending'[x][b].current = sr[b].current
    BY <1>2, <1>3
  <2> QED BY <1>1, <1>4, <2>2, <2>3, LoyalStays
<1>5. SignedAgree(p)' /\ PublishedAgree(p)'
  BY <1>1, NoneSigned
<1> QED BY <1>1, <1>4, <1>5, SettledStays

(* get_majority_srv_from_votes(): the majority that names a value meets    *)
(* the one whose votes agree with p.                                       *)
LEMMA MajoritySrv ==
  ASSUME NEW p, NEW votes, NEW fresh, NEW G \in SUBSET Auths, Cardinality(G) >= Majority,
         \A a \in G : votes[a] # None => Agrees(votes[a].current, p)
  PROVE  Agrees(get_majority_srv_from_votes(votes, fresh, "current"), p)
<1>1. PICK voters : voters = {b \in Auths : votes[b] # None}
  OBVIOUS
<1>2. PICK kept : kept = {v \in {votes[b].current : b \in voters} \ {None} :
          should_keep_srv(Cardinality({b \in voters : votes[b].current = v}), fresh)}
  OBVIOUS
<1>3. get_majority_srv_from_votes(votes, fresh, "current")
        = IF kept = {} THEN None ELSE CHOOSE v \in kept : TRUE
  BY <1>1, <1>2 DEF get_majority_srv_from_votes
<1>4. ASSUME NEW v \in kept PROVE Agrees(v, p)
  <2>1. PICK H : H = {b \in voters : votes[b].current = v}
    OBVIOUS
  <2>2. should_keep_srv(Cardinality(H), fresh) /\ H \in SUBSET Auths
    BY <1>1, <1>2, <2>1
  <2>3. Cardinality(H) >= Majority
    BY <2>2 DEF should_keep_srv
  <2>4. PICK a \in G : a \in H
    BY <2>2, <2>3, MajoritiesMeet
  <2>5. votes[a] # None /\ votes[a].current = v
    BY <1>1, <2>1, <2>4
  <2> QED BY <2>5
<1>5. CASE kept = {}
  BY <1>3, <1>5 DEF Agrees
<1>6. CASE kept # {}
  <2>1. (CHOOSE v \in kept : TRUE) \in kept
    BY <1>6
  <2> QED BY <1>3, <1>4, <1>6, <2>1
<1> QED BY <1>5, <1>6

(* dirvote_compute_consensuses(): the consensus of another round of the    *)
(* run agrees with p.                                                      *)
LEMMA SettledCompute ==
  ASSUME IInv, CommitInv, FileInv, NEW p, Settled(p), NEW a \in Auths, NEW fetched,
         Compute(a, fetched)
  PROVE  Settled(p)'
<1>1. stage = "compute" /\ UNCHANGED <<clock, stage, consensus, published>>
  BY DEF Compute
<1>2. PICK from, votes, fresh :
        /\ from \in [fetched -> Auths]
        /\ votes = [b \in Auths |-> IF b \in fetched THEN pending[from[b]][b] ELSE pending[a][b]]
        /\ pending' = [pending EXCEPT ![a] = votes]
        /\ mine' = [mine EXCEPT ![a] = dirvote_compute_consensuses(votes, fresh)]
  <2>1. PICK from \in [fetched -> Auths] :
          LET votes == [b \in Auths |-> IF b \in fetched THEN pending[from[b]][b] ELSE pending[a][b]]
          IN  /\ pending' = [pending EXCEPT ![a] = votes]
              /\ mine' = [mine EXCEPT ![a] = dirvote_compute_consensuses(votes, sr[a].fresh)]
    BY Zenon DEF Compute
  <2>2. PICK votes, fresh :
          /\ votes = [b \in Auths |-> IF b \in fetched THEN pending[from[b]][b] ELSE pending[a][b]]
          /\ fresh = sr[a].fresh
    OBVIOUS
  <2> QED BY <2>1, <2>2
<1>3. ASSUME NEW b \in Auths PROVE \E y \in Auths : votes[b] = pending[y][b]
  <2>1. CASE b \in fetched
    <3>1. votes[b] = pending[from[b]][b] /\ from[b] \in Auths
      BY <1>2, <2>1
    <3> QED BY <3>1
  <2>2. CASE b \notin fetched
    <3>1. votes[b] = pending[a][b]
      BY <1>2, <2>2
    <3> QED BY <3>1
  <2> QED BY <2>1, <2>2
<1>4. ASSUME NEW b \in Auths, Loyal(b, p) PROVE Loyal(b, p)'
  <2>1. sr'[b].current = sr[b].current
    BY ComputeStates DEF VoteKeeps
  <2>2. RunOf(clock + 1) = RunOf(p.valid_after) => Agrees(sr'[b].current, p)
    BY <1>4, <2>1 DEF Loyal
  <2>3. ASSUME NEW x \in Auths PROVE \E y \in Auths : pending'[x][b] = pending[y][b]
    <3>1. pending'[x] = pending[x] \/ pending'[x] = votes
      BY <1>2, SrvTypes
    <3> QED BY <1>3, <3>1
  <2> QED BY <1>1, <1>4, <2>2, <2>3, LoyalStays
<1>5. PICK m : m = dirvote_compute_consensuses(votes, fresh)
  OBVIOUS
<1>6. ASSUME m # None, RunOf(m.valid_after) = RunOf(p.valid_after) PROVE Agrees(m.current, p)
  <2>1. /\ m.valid_after = clock + 1
        /\ m.current = get_majority_srv_from_votes(votes, fresh, "current")
    BY <1>5, <1>6 DEF dirvote_compute_consensuses
  <2>2. PICK G \in SUBSET Auths : Cardinality(G) >= Majority /\ \A b \in G : Loyal(b, p)
    BY DEF Settled
  <2>3. ASSUME NEW b \in G, votes[b] # None PROVE Agrees(votes[b].current, p)
    <3>1. PICK y \in Auths : votes[b] = pending[y][b]
      BY <1>3
    <3>2. RunOf(clock + 1) = RunOf(p.valid_after) /\ stage # "publish" /\ Loyal(b, p)
      BY <1>1, <1>6, <2>1, <2>2
    <3> QED BY <2>3, <3>1, <3>2 DEF Loyal
  <2>4. Agrees(get_majority_srv_from_votes(votes, fresh, "current"), p)
    BY <2>2, <2>3, MajoritySrv
  <2> QED BY <2>1, <2>4
<1>7. ASSUME NEW b \in Auths, mine'[b] # None, RunOf(mine'[b].valid_after) = RunOf(p.valid_after)
      PROVE  Agrees(mine'[b].current, p)
  <2>1. CASE b = a
    <3>1. mine'[b] = m
      BY <1>2, <1>5, <2>1, SrvTypes
    <3> QED BY <1>6, <1>7, <3>1
  <2>2. CASE b # a
    <3>1. mine'[b] = mine[b]
      BY <1>2, <2>2, SrvTypes
    <3> QED BY <1>7, <3>1 DEF Settled, SignedAgree
  <2> QED BY <2>1, <2>2
<1>8. SignedAgree(p)'
  BY <1>7 DEF SignedAgree, Agrees, RunOf, TotalRounds
<1>9. PublishedAgree(p)'
  BY <1>1 DEF PublishedAgree
<1> QED BY <1>1, <1>4, <1>8, <1>9, SettledStays

(* A loyal authority stays so as time passes.                              *)
LEMMA LoyalLater ==
  ASSUME IInv, CommitInv, FileInv, NEW p, Settled(p), Advance, NEW a \in Auths, Loyal(a, p)
  PROVE  Loyal(a, p)'
<1>1. /\ UNCHANGED <<sr, pending, consensus>>
      /\ \/ stage = "publish" /\ clock' = clock
         \/ stage = "vote" /\ stage' = "compute" /\ clock' = clock
         \/ stage' = "publish" /\ clock' = clock + 1
  BY DEF Advance
<1>2. PICK c, s : c = consensus[a] /\ c = consensus'[a] /\ s = sr[a] /\ s = sr'[a]
  BY <1>1
<1>3. /\ c # None /\ RunOf(p.valid_after) <= RunOf(c.valid_after)
      /\ RunOf(c.valid_after) = RunOf(p.valid_after) => Agrees(c.current, p)
  BY <1>2 DEF Loyal
<1>4. ASSUME RunOf(clock' + 1) = RunOf(p.valid_after) PROVE RunOf(clock + 1) = RunOf(p.valid_after)
  <2>1. CASE clock' = clock
    BY <1>4, <2>1
  <2>2. CASE clock' = clock + 1
    <3>1. p.valid_after \in Nat /\ clock \in Nat /\ p.valid_after <= clock
      BY AdoptedRounds
    <3>2. PICK m \in Nat, u \in Nat : m = clock + 1 /\ u = clock' + 1 /\ p.valid_after <= m /\ m <= u
      BY <2>2, <3>1
    <3> QED BY <1>4, <3>1, <3>2, RunsBetween
  <2> QED BY <1>1, <2>1, <2>2
<1>5. RunOf(clock' + 1) = RunOf(p.valid_after) => Agrees(s.current, p)
  BY <1>2, <1>4 DEF Loyal
<1>6. ASSUME RunOf(clock' + 1) = RunOf(p.valid_after), stage' # "publish",
             NEW x \in Auths, pending'[x][a] # None
      PROVE  Agrees(pending'[x][a].current, p)
  <2>1. CASE stage = "publish"
    <3>1. pending[x] = NoVotes
      BY <2>1 DEF Advance, FileInv, Cleared
    <3> QED BY <1>1, <1>6, <3>1 DEF NoVotes
  <2>2. CASE stage = "vote"
    BY <1>1, <1>4, <1>6, <2>2 DEF Loyal
  <2> QED BY <1>1, <1>6, <2>1, <2>2
<1> QED BY <1>2, <1>3, <1>5, <1>6 DEF Loyal, Agrees, RunOf, TotalRounds

(* As the next stage begins no consensus is published, and none that was   *)
(* published before it is of the time that begins.                         *)
LEMMA SettledLater ==
  ASSUME IInv, CommitInv, FileInv, NEW p, Settled(p), Advance
  PROVE  Settled(p)'
<1>1. /\ UNCHANGED <<mine, published>>
      /\ stage' = "publish" => clock' = clock + 1
  BY DEF Advance
<1>2. p.valid_after \in Nat /\ clock \in Nat /\ p.valid_after <= clock
  BY AdoptedRounds
<1>3. PICK G \in SUBSET Auths : Cardinality(G) >= Majority /\ \A a \in G : Loyal(a, p)
  BY DEF Settled
<1>4. \A a \in G : Loyal(a, p)'
  BY <1>3, LoyalLater
<1>5. (\E H \in SUBSET Auths : Cardinality(H) >= Majority /\ \A a \in H : Loyal(a, p))'
  <2>1. \E H \in SUBSET Auths : Cardinality(H) >= Majority /\ \A a \in H : Loyal(a, p)'
    BY <1>3, <1>4
  <2> QED BY <2>1 DEF Majority
<1>6. SignedAgree(p)'
  BY <1>1 DEF Settled, SignedAgree, Agrees, RunOf, TotalRounds
<1>7. PublishedAgree(p)'
  <2>1. ASSUME stage' = "publish", NEW q \in published, q.valid_after = clock' PROVE FALSE
    <3>1. q.valid_after \in Nat /\ q.valid_after <= clock
      BY <2>1 DEF IInv, Backed
    <3> QED BY <1>1, <1>2, <2>1, <3>1
  <2> QED BY <1>1, <2>1 DEF PublishedAgree
<1>8. p \in published' /\ (stage' = "publish" => p.valid_after < clock')
  BY <1>1, <1>2 DEF Settled
<1> QED BY <1>5, <1>6, <1>7, <1>8 DEF Settled

(* A consensus that a majority has registered when votes are about to be   *)
(* exchanged is settled: nothing is pending then.                          *)
LEMMA Settles ==
  ASSUME IInv, CommitInv, FileInv, Advance, NEW p \in adopted', p \notin adopted
  PROVE  Settled(p)'
<1>1. /\ stage = "publish" /\ stage' = "vote" /\ p \in published
      /\ UNCHANGED <<clock, published, sr, pending, mine, consensus>>
      /\ \A a \in Auths : at[a] \in {"down", "done"}
      /\ Cardinality({a \in Auths : consensus[a] = p /\ sr[a].current = p.current}) >= Majority
  BY DEF Advance
<1>2. PICK G : G = {a \in Auths : consensus[a] = p /\ sr[a].current = p.current}
  OBVIOUS
<1>3. p # None /\ p.valid_after \in Nat
  BY <1>1 DEF FileInv, IInv, Backed
<1>4. \A x, b \in Auths : pending[x][b] = None
  BY <1>1 DEF FileInv, Cleared, NoVotes
<1>5. \A b \in Auths : mine[b] = None
  BY <1>1 DEF IInv, Pending
<1>6. ASSUME NEW a \in G PROVE Loyal(a, p)'
  <2>1. consensus'[a] = p /\ sr'[a].current = p.current /\ a \in Auths
    BY <1>1, <1>2
  <2>2. RunOf(p.valid_after) <= RunOf(p.valid_after)
    BY <1>3, RoundsOfRuns
  <2>3. \A x \in Auths : pending'[x][a] = None
    BY <1>1, <1>4, <2>1
  <2> QED BY <1>3, <2>1, <2>2, <2>3 DEF Loyal, Agrees, RunOf, TotalRounds
<1>7. (\E H \in SUBSET Auths : Cardinality(H) >= Majority /\ \A a \in H : Loyal(a, p))'
  <2>1. G \in SUBSET Auths /\ Cardinality(G) >= Majority
    BY <1>1, <1>2
  <2>2. \E H \in SUBSET Auths : Cardinality(H) >= Majority /\ \A a \in H : Loyal(a, p)'
    BY <1>6, <2>1
  <2> QED BY <2>2 DEF Majority
<1>8. SignedAgree(p)' /\ PublishedAgree(p)'
  BY <1>1, <1>5, SMTT(30) DEF SignedAgree, PublishedAgree
<1> QED BY <1>1, <1>7, <1>8 DEF Settled

(* Steps that adopt no consensus.                                          *)
LEMMA AdoptsNone ==
  ASSUME NEW a \in Auths, NEW S,
         \/ sr_state_init(a) \/ Crash(a) \/ Publish(a) \/ FetchConsensus(a)
         \/ Vote(a, S) \/ Compute(a, S)
  PROVE  adopted' = adopted /\ (published' # published => Publish(a))
  BY DEF sr_state_init, Crash, Publish, FetchConsensus, Vote, Compute

(* Every step keeps what is settled so, and publishes what agrees with it. *)
LEMMA NextSettles ==
  ASSUME IInv, CommitInv, FileInv, SrvInv, [Next]_vars
  PROVE  /\ SrvInv'
         /\ \A p \in adopted, q \in published' \ published :
              RunOf(p.valid_after) = RunOf(q.valid_after) => Agrees(q.current, p)
<1>1. CASE UNCHANGED vars \/ Ended
  <2>1. UNCHANGED vars
    BY <1>1 DEF Ended
  <2> QED BY <2>1 DEF vars, SrvInv, Settled, Loyal, SignedAgree, PublishedAgree, Agrees,
                      Majority, RunOf, TotalRounds
<1>2. ASSUME NEW a \in Auths, NEW S,
             \/ sr_state_init(a) \/ Crash(a) \/ Publish(a) \/ FetchConsensus(a)
             \/ Vote(a, S) \/ Compute(a, S)
      PROVE  /\ SrvInv'
             /\ \A p \in adopted, q \in published' \ published :
                  RunOf(p.valid_after) = RunOf(q.valid_after) => Agrees(q.current, p)
  <2>1. adopted' = adopted /\ (published' # published => Publish(a))
    BY <1>2, AdoptsNone
  <2>2. ASSUME NEW p \in adopted PROVE Settled(p)'
    <3>1. Settled(p)
      BY DEF SrvInv
    <3> QED BY <1>2, <3>1, SettledBoot, SettledCrash, SettledPublish, SettledFetch,
               SettledVote, SettledCompute
  <2>3. ASSUME NEW p \in adopted, NEW q \in published' \ published,
               RunOf(p.valid_after) = RunOf(q.valid_after)
        PROVE  Agrees(q.current, p)
    <3>1. Settled(p) /\ Publish(a)
      BY <2>1, <2>3 DEF SrvInv
    <3> QED BY <2>3, <3>1, SettledPublish
  <2> QED BY <2>1, <2>2, <2>3 DEF SrvInv
<1>3. CASE Advance
  <2>1. published' = published
    BY <1>3 DEF Advance
  <2>2. ASSUME NEW p \in adopted' PROVE Settled(p)'
    <3>1. CASE p \in adopted
      BY <1>3, <3>1, SettledLater DEF SrvInv
    <3>2. CASE p \notin adopted
      BY <1>3, <2>2, <3>2, Settles
    <3> QED BY <3>1, <3>2
  <2> QED BY <2>1, <2>2 DEF SrvInv
<1>4. (\E a \in Auths : \E S :
          \/ sr_state_init(a) \/ Crash(a) \/ Publish(a) \/ FetchConsensus(a)
          \/ Vote(a, S) \/ Compute(a, S))
      \/ Advance \/ Ended \/ UNCHANGED vars
  BY DEF Next
<1> QED BY <1>1, <1>2, <1>3, <1>4

(* Once a majority of the authorities has registered a consensus, whatever *)
(* votes, signatures and authorities are lost and however often they       *)
(* crash, no consensus that is published later for the same run names      *)
(* another shared random value: onion services and their clients derive    *)
(* the same addresses for the rest of the run.                             *)
THEOREM AgreedSrvStays == Spec => SrvIsStable
<1>1. Init => SrvInv
  BY DEF Init, SrvInv
<1>2. IInv /\ CommitInv /\ FileInv /\ SrvInv /\ [Next]_vars => SrvInv'
  BY NextSettles
<1>3. IInv /\ CommitInv /\ FileInv /\ SrvInv /\ [Next]_vars =>
        [\A p \in adopted, q \in published' \ published :
           RunOf(p.valid_after) = RunOf(q.valid_after) => q.current \in {None, p.current}]_vars
  BY NextSettles DEF Agrees
<1>4. Spec => [](IInv /\ CommitInv /\ FileInv)
  BY Invariance, FilesStaySound, FilesAreRecent, PTL
<1> QED BY <1>1, <1>2, <1>3, <1>4, PTL DEF Spec, SrvIsStable
=============================================================================
