----------------------------- MODULE EntryGuards -----------------------------
(***************************************************************************)
(* The client's entry guards (entrynodes.c): the persistent sample, the    *)
(* filtered, confirmed and primary guards computed from it, what is        *)
(* believed about each guard's reachability, and the guard states of the   *)
(* circuits that are built through them.                                   *)
(*                                                                         *)
(* `gs` is the guard_selection_t; the functions of entrynodes.c are        *)
(* operators from one selection to the next.  Times are ages in ticks.     *)
(* The days after which a guard is pruned are not counted: which guards    *)
(* are due is an input of the action that prunes.  A choice by bandwidth   *)
(* is a choice of an order in which new guards are drawn.                  *)
(***************************************************************************)
EXTENDS Integers, FiniteSets, Sequences, SequencesExt, FiniteSetsExt

CONSTANTS
  Guards, Circuits,
  MinFiltered,     \* get_min_filtered_sample_size() (20)
  MaxSample,       \* get_max_sample_size_absolute() (60)
  SamplePercent,   \* get_max_sample_threshold(), in percent (20)
  NPrimary,        \* get_n_primary_guards() (3)
  NToUse,          \* get_n_primary_guards_to_use() (1)
  Retry,           \* the rows of get_retry_schedule()
  LikelyDown,      \* get_internet_likely_down_interval()
  ConnectTimeout,  \* get_nonprimary_guard_connect_timeout()
  IdleTimeout,     \* get_nonprimary_guard_idle_timeout()
  Constrained,     \* entry_list_is_constrained()
  NoGuard, Never,
  Consensuses,     \* bound: the sets of guards a consensus may list
  Filters,         \* bound: the sets of guards the configuration may allow
  Excluded,        \* bound: the sets a circuit's path restriction may exclude
  MaxEvents        \* bound: consensuses, configurations, saves and restarts

ASSUME EntryGuardsAssumption ==
  /\ MinFiltered \in Nat \ {0} /\ MaxSample \in Nat \ {0}
  /\ SamplePercent \in 1..100 /\ NPrimary \in Nat \ {0} /\ NToUse \in Nat \ {0}
  /\ Retry # <<>>
  /\ \A i \in 1..Len(Retry) : {Retry[i].maximum, Retry[i].primary, Retry[i].nonprimary}
                                \subseteq Nat
  /\ LikelyDown \in Nat /\ ConnectTimeout \in Nat \ {0} /\ IdleTimeout \in Nat
  /\ Consensuses \subseteq SUBSET Guards /\ Filters \subseteq SUBSET Guards
  /\ Excluded \subseteq SUBSET Guards
  /\ Constrained \in BOOLEAN
  /\ MaxEvents \in Nat
  /\ NoGuard \notin Guards /\ Never \notin Nat

VARIABLES
  gs,       \* the guard selection
  circ,     \* the origin circuits with their circuit_guard_state_t
  nodes,    \* the possible guards in the nodelist; none before a consensus
  allowed,  \* the guards our options let us connect to
  saved,    \* the guards in the state file
  count     \* how much of the bound is used

vars == <<gs, circ, nodes, allowed, saved, count>>

\* F(v), with v evaluated once.
With(v, F(_)) == CHOOSE r \in {F(x) : x \in {v}} : TRUE

\* Ages are counted up to where nothing tells them apart any more.
TriedCap == Max(UNION {{Retry[i].primary, Retry[i].nonprimary} : i \in 1..Len(Retry)})
FailingCap == Max({0} \cup {Retry[i].maximum + 1 : i \in 1..(Len(Retry) - 1)})
InternetCap == LikelyDown + 1
CircuitCap == Max({ConnectTimeout, IdleTimeout + 1})

Older(age, cap) == IF age = Never \/ age >= cap THEN age ELSE age + 1

NewGuard ==
  [listed |-> TRUE, confirmed_idx |-> -1, reachable |-> "maybe",
   filtered |-> FALSE, usable |-> FALSE, primary |-> FALSE, pending |-> FALSE,
   tried |-> Never, failing |-> Never]

EmptySelection ==
  [sampled |-> <<>>, g |-> [x \in Guards |-> NewGuard], primaries |-> <<>>,
   up_to_date |-> FALSE, next_confirmed_idx |-> 0, on_internet |-> InternetCap,
   dirty |-> FALSE]

Sample(s) == ToSet(s.sampled)

\* Drawing new guards by bandwidth: in any order.  The guards of due leave the
\* sample first and may be drawn again.
Orders(due) == SetToSeqs(Guards \ (Sample(gs) \ due))

Primaries(s) == ToSet(s.primaries)

ConfirmedList(s) == SelectSeq(s.sampled, LAMBDA x : s.g[x].confirmed_idx >= 0)

\* entry_guards_changed_for_guard_selection()
Changed(s) == [s EXCEPT !.dirty = TRUE]

\* The selection s with the guards of S replaced by f of them.
Updated(s, S, f(_)) ==
  [s EXCEPT !.g = [x \in Guards |-> IF x \in S THEN f(@[x]) ELSE @[x]]]

-----------------------------------------------------------------------------
(* Reachability and its retries.                                            *)

Reconsidered(e) == [e EXCEPT !.reachable = "maybe", !.usable = @ \/ e.filtered]

mark_guard_maybe_reachable(e) == IF e.reachable # "no" THEN e ELSE Reconsidered(e)

get_retry_schedule(e) ==
  LET tdiff == IF e.failing = Never THEN FailingCap ELSE e.failing
      i == Min({n \in 1..Len(Retry) : n = Len(Retry) \/ tdiff <= Retry[n].maximum})
  IN IF e.primary THEN Retry[i].primary ELSE Retry[i].nonprimary

entry_guard_consider_retry(e) ==
  IF e.reachable # "no" THEN e
  ELSE IF e.tried = Never \/ e.tried >= get_retry_schedule(e)
       THEN Reconsidered(e)
       ELSE e

Retried(s, S) == Updated(s, S, LAMBDA e : entry_guard_consider_retry(e))

-----------------------------------------------------------------------------
(* The filter and the sample.                                               *)

entry_guard_passes_filter(s, N, A, x) == s.g[x].listed /\ x \in N /\ x \in A

entry_guard_set_filtered_flags(s, N, A, x) ==
  LET pass == entry_guard_passes_filter(s, N, A, x)
      e == s.g[x]
      f == [e EXCEPT !.filtered = pass, !.usable = pass /\ e.reachable # "no"]
  IN [s EXCEPT !.g[x] = IF pass THEN entry_guard_consider_retry(f) ELSE f,
               !.up_to_date = @ /\ e.filtered = pass]

entry_guards_update_filtered_sets(s, N, A) ==
  FoldLeft(LAMBDA t, x : With(t, LAMBDA u : entry_guard_set_filtered_flags(u, N, A, x)),
           s, s.sampled)

entry_guard_add_to_sample(s, N, A, x) ==
  With([s EXCEPT !.sampled = Append(@, x), !.g[x] = NewGuard],
       LAMBDA t : Changed(entry_guard_set_filtered_flags(t, N, A, x)))

get_max_sample_size(n) ==
  LET most == Min({(n * SamplePercent) \div 100, MaxSample})
  IN Max({most, MinFiltered})

Usable(s) == {x \in Sample(s) : s.g[x].usable}

\* Draws guards in the order `order` until enough of the sample is usable.
entry_guards_expand_sample(s, N, A, order) ==
  LET max_sample == get_max_sample_size(Cardinality(N))
      Draw(t, x) ==
        IF \/ Cardinality(Usable(t)) >= MinFiltered
           \/ Len(t.sampled) >= max_sample
           \/ x \notin N \/ x \in Sample(t)
        THEN t ELSE entry_guard_add_to_sample(t, N, A, x)
  IN IF N = {} THEN s
     ELSE FoldLeft(LAMBDA t, x : With(t, LAMBDA u : Draw(u, x)),
                   Retried(s, Sample(s)), order)

-----------------------------------------------------------------------------
(* Confirmed and primary guards.                                            *)

\* Lists are kept in the order in which their guards were sampled.
InSampleOrder(s, S) == SelectSeq(s.sampled, LAMBDA x : x \in S)

entry_guards_update_confirmed(s) ==
  LET list == ConfirmedList(s)
      rank(x) == Cardinality({y \in ToSet(list) :
                                s.g[y].confirmed_idx < s.g[x].confirmed_idx})
      t == [s EXCEPT !.g = [x \in Guards |-> IF x \in ToSet(list)
                              THEN [@[x] EXCEPT !.confirmed_idx = rank(x)]
                              ELSE @[x]],
                     !.next_confirmed_idx = Len(list)]
  IN IF t.g # s.g THEN Changed(t) ELSE t

\* The sampled guards that first_reachable_filtered_entry_guard() chooses from:
\* usable, obeying the restriction, neither confirmed nor primary.
Candidates(s, rst, pending_too) ==
  SelectSeq(s.sampled, LAMBDA x : /\ x \notin rst /\ s.g[x].usable
                                  /\ s.g[x].confirmed_idx < 0 /\ ~s.g[x].primary
                                  /\ pending_too \/ ~s.g[x].pending)

\* Its first half: retries, and a larger sample when too few are usable.
EnoughReachable(s, rst, N, A, order) ==
  With(Retried(s, Sample(s)),
       LAMBDA t : IF Cardinality(Usable(t) \ rst) < MinFiltered
                  THEN entry_guards_expand_sample(t, N, A, order) ELSE t)

\* The primary list with new guards added until it is full or none is left;
\* the list is sorted when it changes.
FilledUp(s, first, N, A, order) ==
  LET Add(st, u) ==
        With(Candidates(u, {}, TRUE),
             LAMBDA found : IF found = <<>> THEN [st EXCEPT !.s = u]
                            ELSE [s |-> [u EXCEPT !.g[found[1]].primary = TRUE],
                                  list |-> Append(st.list, found[1])])
      Fill(st) == IF Len(st.list) >= NPrimary THEN st
                  ELSE With(EnoughReachable(st.s, {}, N, A, order), LAMBDA u : Add(st, u))
  IN With(FoldLeft(LAMBDA st, i : With(st, Fill), [s |-> s, list |-> first],
                   [i \in 1..NPrimary |-> i]),
          LAMBDA end : [end.s EXCEPT !.up_to_date = TRUE,
                          !.primaries = InSampleOrder(end.s, ToSet(end.list))])

\* First confirmed guards, then the primary guards we had, then new ones.
entry_guards_update_primary(s, N, A, order) ==
  LET confirmed == SelectSeq(ConfirmedList(s), LAMBDA x : s.g[x].filtered)
      first == SubSeq(confirmed, 1, Min({NPrimary, Len(confirmed)}))
      old == SelectSeq(s.primaries, LAMBDA x : x \notin ToSet(first))
      good == SelectSeq(old, LAMBDA x : s.g[x].filtered)
      kept == SubSeq(good, 1, Min({NPrimary - Len(first), Len(good)}))
      Flagged(x) == IF x \in ToSet(first \o kept) THEN TRUE
                    ELSE IF x \in ToSet(old) THEN FALSE ELSE s.g[x].primary
      t == [s EXCEPT !.g = [x \in Guards |-> [@[x] EXCEPT !.primary = Flagged(x)]]]
  IN FilledUp(t, first \o kept, N, A, order)

WithPrimaries(s, N, A, order) ==
  IF s.up_to_date THEN s ELSE entry_guards_update_primary(s, N, A, order)

mark_primary_guards_maybe_reachable(s, N, A, order) ==
  With(WithPrimaries(s, N, A, order),
       LAMBDA t : Updated(t, Primaries(t), mark_guard_maybe_reachable))

FaultyMakeConfirmedUnsaved(s, x) ==
  [s EXCEPT !.g[x].confirmed_idx = s.next_confirmed_idx, !.up_to_date = FALSE,
            !.next_confirmed_idx = @ + 1]

make_guard_confirmed(s, x) ==
  Changed([s EXCEPT !.g[x].confirmed_idx = s.next_confirmed_idx,
                    !.next_confirmed_idx = @ + 1, !.up_to_date = FALSE])

-----------------------------------------------------------------------------
(* A new consensus or configuration.                                        *)

sampled_guards_update_consensus_presence(s, N) ==
  [s EXCEPT !.g = [x \in Guards |-> IF x \in Sample(s)
                                    THEN [@[x] EXCEPT !.listed = x \in N] ELSE @[x]]]

\* The guards that are due leave the sample, with their places in the lists.
sampled_guards_prune_obsolete_entries(s, due) ==
  [s EXCEPT !.sampled = SelectSeq(@, LAMBDA x : x \notin due),
            !.primaries = SelectSeq(@, LAMBDA x : x \notin due),
            !.g = [x \in Guards |-> IF x \in due THEN NewGuard ELSE @[x]]]

sampled_guards_update_from_consensus(s, N, A, due) ==
  With([sampled_guards_prune_obsolete_entries(
          sampled_guards_update_consensus_presence(s, N), due) EXCEPT !.up_to_date = FALSE],
       LAMBDA t : IF N = {} \/ (t.sampled = s.sampled /\ t.g = s.g) THEN s
                  ELSE Changed(entry_guards_update_filtered_sets(t, N, A)))

entry_guards_update_all(s, N, A, due, order) ==
  With(sampled_guards_update_from_consensus(s, N, A, due),
       LAMBDA t : With(entry_guards_update_filtered_sets(t, N, A),
       LAMBDA u : With(entry_guards_update_confirmed(u),
       LAMBDA v : entry_guards_update_primary(v, N, A, order))))

-----------------------------------------------------------------------------
(* Choosing a guard for a circuit, and learning how it went.                *)

Try(s, S) == Updated(s, S, LAMBDA e : [e EXCEPT !.tried = 0])

\* The primary guards to choose one from, and those that were looked at.  A
\* guard excluded by the path restriction counts as considered, but does not
\* end the search while no usable guard has been found.
select_primary_guard_for_circuit(s, rst) ==
  LET Consider(acc, x) ==
        IF acc.done THEN acc
        ELSE LET seen == [acc EXCEPT !.seen = @ \cup {x}] IN
             IF x \in rst
             THEN [seen EXCEPT !.n = @ + 1,
                               !.done = acc.n + 1 >= NToUse /\ acc.usable # {}]
             ELSE IF entry_guard_consider_retry(s.g[x]).reachable # "no"
                  THEN [seen EXCEPT !.n = @ + 1, !.usable = @ \cup {x},
                                    !.done = acc.n + 1 >= NToUse]
                  ELSE seen
  IN FoldLeft(Consider, [n |-> 0, usable |-> {}, seen |-> {}, done |-> FALSE], s.primaries)

\* The confirmed guards that are looked at, up to the one that is chosen.
select_confirmed_guard_for_circuit(s, rst) ==
  LET list == SelectSeq(ConfirmedList(s), LAMBDA x : ~s.g[x].primary /\ x \notin rst)
      fit == {i \in 1..Len(list) : /\ entry_guard_consider_retry(s.g[list[i]]).usable
                                   /\ ~s.g[list[i]].pending}
  IN [found |-> fit # {},
      seen |-> SubSeq(list, 1, IF fit # {} THEN Min(fit) ELSE Len(list))]

\* The outcomes of select_entry_guard_for_circuit(): the selection, the guard
\* and the circuit's guard state.
select_entry_guard_for_circuit(s0, rst, N, A, order) ==
  LET Pend(s, x) == {[gs |-> [Try(s, {x}) EXCEPT !.g[x].pending = TRUE],
                      guard |-> x, state |-> "if_no_better"]}
      Exhausted(s) == {[gs |-> Updated(s, Sample(s), mark_guard_maybe_reachable),
                        guard |-> NoGuard, state |-> "none"]}
      Other(s) == With(Candidates(s, rst, FALSE),
        LAMBDA found : IF found # <<>> THEN Pend(s, found[1]) ELSE Exhausted(s))
      Confirmed(s) == With(select_confirmed_guard_for_circuit(s, rst),
        LAMBDA c : With(Retried(s, ToSet(c.seen)),
        LAMBDA t : IF c.found THEN Pend(t, Last(c.seen))
                   ELSE With(EnoughReachable(t, rst, N, A, order),
                             LAMBDA u : With(WithPrimaries(u, N, A, order), Other))))
      Primary(s) == With(select_primary_guard_for_circuit(s, rst),
        LAMBDA p : With(Retried(s, p.seen),
        LAMBDA t : IF p.usable = {} THEN Confirmed(t)
                   ELSE {[gs |-> Try(t, p.usable), guard |-> x, state |-> "on_completion"] :
                           x \in p.usable}))
  IN With(WithPrimaries(s0, N, A, order), Primary)

entry_guards_note_guard_failure(s, x) ==
  Updated(s, {x}, LAMBDA e : [e EXCEPT !.reachable = "no", !.usable = FALSE,
                                       !.pending = FALSE,
                                       !.failing = IF @ = Never THEN 0 ELSE @])

\* The selection once a success through x is noted and x is confirmed.
Reached(s, x, N, A, order) ==
  LET Up(e) == [e EXCEPT !.reachable = "yes", !.failing = Never, !.pending = FALSE,
                         !.usable = @ \/ e.filtered]
      Confirm(t) == IF t.g[x].confirmed_idx >= 0 THEN t
                    ELSE With(make_guard_confirmed(t, x),
                              LAMBDA u : WithPrimaries(u, N, A, order))
  IN Confirm([Updated(s, {x}, Up) EXCEPT !.on_internet = 0])

\* The primary guards get another chance when we were off the internet.
SuccessNoted(s, x, N, A, order) ==
  With(Reached(s, x, N, A, order),
       LAMBDA t : IF ~t.g[x].primary /\ s.on_internet > LikelyDown
                  THEN mark_primary_guards_maybe_reachable(t, N, A, order) ELSE t)

\* Whether the guard of a circuit makes it usable: x is looked up when it is
\* confirmed, and may have become primary.
StateAfterSuccess(s, x, N, A, order, state) ==
  IF state \in {"complete", "on_completion"} \/ Reached(s, x, N, A, order).g[x].primary
  THEN "complete" ELSE "waiting"

entry_guard_has_higher_priority(s, a, b) ==
  LET ea == s.g[a]
      eb == s.g[b]
  IN /\ a # b
     /\ \/ ea.confirmed_idx >= 0
           /\ (eb.confirmed_idx < 0 \/ ea.confirmed_idx < eb.confirmed_idx)
        \/ /\ ea.confirmed_idx < 0 /\ eb.confirmed_idx < 0 /\ ea.pending
           /\ ~eb.pending \/ (ea.tried # Never /\ eb.tried # Never /\ ea.tried > eb.tried)

circ_state_has_higher_priority(s, a, rst, b) ==
  a.guard \notin rst /\ entry_guard_has_higher_priority(s, a.guard, b.guard)

-----------------------------------------------------------------------------
(* Circuits: circ[c].guard is the handle, NoGuard once the guard is freed.  *)

NoCircuit == [state |-> "none", guard |-> NoGuard, age |-> 0, rst |-> {}, marked |-> FALSE]

Building(C) == C.state \in {"on_completion", "if_no_better"} /\ ~C.marked

OnChannel(x) == {c \in Circuits : Building(circ[c]) /\ circ[c].guard = x}

\* A freed guard is gone from its circuits' handles.
Released(C, freed) == [c \in Circuits |-> IF C[c].guard \in freed
                                          THEN [C[c] EXCEPT !.guard = NoGuard] ELSE C[c]]

Persistent(s) ==
  [sampled |-> s.sampled, listed |-> {x \in Sample(s) : s.g[x].listed},
   confirmed_idx |-> [x \in Sample(s) |-> s.g[x].confirmed_idx]]

\* entry_guards_load_guards_from_state(): what was not saved starts afresh.
Loaded(disk) ==
  [EmptySelection EXCEPT
     !.sampled = disk.sampled,
     !.g = [x \in Guards |-> IF x \in ToSet(disk.sampled)
                             THEN [NewGuard EXCEPT !.listed = x \in disk.listed,
                                                   !.confirmed_idx = disk.confirmed_idx[x]]
                             ELSE NewGuard]]

Init ==
  /\ gs = EmptySelection
  /\ circ = [c \in Circuits |-> NoCircuit]
  /\ nodes = {}
  /\ allowed \in Filters
  /\ saved = Persistent(EmptySelection)
  /\ count = 0

\* directory_info_has_arrived() with a consensus that lists N; due are the
\* sampled guards whose lifetime or time off the list has run out.
NewConsensus(N, due, order) ==
  /\ count < MaxEvents
  /\ count' = count + 1
  /\ due \subseteq Sample(gs)
  /\ nodes' = N
  /\ gs' = entry_guards_update_all(gs, N, allowed, due, order)
  /\ circ' = Released(circ, due)
  /\ UNCHANGED <<allowed, saved>>

\* options_act() when the options that affect guards change.
SetOptions(A, order) ==
  /\ A # allowed /\ count < MaxEvents
  /\ count' = count + 1
  /\ allowed' = A
  /\ gs' = entry_guards_update_all(gs, nodes, A, {}, order)
  /\ UNCHANGED <<circ, nodes, saved>>

\* The DROPGUARDS command.
DropGuards ==
  /\ gs.sampled # <<>> /\ count < MaxEvents
  /\ count' = count + 1
  /\ gs' = Changed(EmptySelection)
  /\ circ' = Released(circ, Guards)
  /\ UNCHANGED <<nodes, allowed, saved>>

\* guard_selection_get_err_str_if_dir_info_missing(), asked before circuits
\* are built and whenever the directory information changes.
CheckDirInfo(order) ==
  /\ \E s \in {WithPrimaries(gs, nodes, allowed, order)} :
       LET Alive(x) == entry_guard_consider_retry(s.g[x]).reachable # "no"
           before(i) == {j \in 1..(i - 1) : Alive(s.primaries[j])}
           seen == {i \in 1..Len(s.primaries) : Cardinality(before(i)) < NToUse + 1}
       IN gs' = Retried(s, {s.primaries[i] : i \in seen})
  /\ UNCHANGED <<circ, nodes, allowed, saved, count>>

\* guards_retry_optimistic(): an application wants a circuit and we have none.
RetryOptimistic(order) ==
  /\ Constrained
  /\ gs' = mark_primary_guards_maybe_reachable(gs, nodes, allowed, order)
  /\ UNCHANGED <<circ, nodes, allowed, saved, count>>

\* guards_choose_guard() for circuit c, whose path excludes the guards of rst.
ChooseGuard(c, rst, order) ==
  /\ circ[c].state = "none"
  /\ \E pick \in select_entry_guard_for_circuit(gs, rst, nodes, allowed, order) :
       /\ gs' = pick.gs
       /\ circ' = [circ EXCEPT ![c] =
                     IF pick.guard = NoGuard THEN @
                     ELSE [NoCircuit EXCEPT !.state = pick.state, !.guard = pick.guard,
                                            !.rst = rst]]
  /\ UNCHANGED <<nodes, allowed, saved, count>>

\* circuit_build_no_more_hops(): a circuit is built, or an open circuit is
\* built further.  Without its guard the circuit is closed.
Succeed(c, order) ==
  /\ Building(circ[c]) \/ (circ[c].state = "complete" /\ ~circ[c].marked)
  /\ IF circ[c].guard = NoGuard
     THEN circ' = [circ EXCEPT ![c].marked = TRUE] /\ gs' = gs
     ELSE /\ gs' = SuccessNoted(gs, circ[c].guard, nodes, allowed, order)
          /\ circ' = [circ EXCEPT ![c].age = 0,
               ![c].state = StateAfterSuccess(gs, circ[c].guard, nodes, allowed, order, @)]
  /\ UNCHANGED <<nodes, allowed, saved, count>>

\* The first hop fails: one circuit of guard x, or every circuit that waits for
\* a channel to x (entry_guard_chan_failed()).  The circuits are closed.
Fail(C) ==
  /\ C # {}
  /\ \A c \in C : Building(circ[c]) /\ circ[c].guard # NoGuard
  /\ \E x \in Guards :
       /\ \A c \in C : circ[c].guard = x
       /\ gs' = entry_guards_note_guard_failure(gs, x)
  /\ circ' = [c \in Circuits |-> IF c \in C
                 THEN [circ[c] EXCEPT !.state = "dead", !.age = 0, !.marked = TRUE]
                 ELSE circ[c]]
  /\ UNCHANGED <<nodes, allowed, saved, count>>

\* A circuit is closed for a reason that is not its guard's.
MarkForClose(c) ==
  /\ circ[c].state # "none" /\ ~circ[c].marked
  /\ circ' = [circ EXCEPT ![c].marked = TRUE]
  /\ UNCHANGED <<gs, nodes, allowed, saved, count>>

FaultyCancel(s, x) == s

\* entry_guard_cancel()
entry_guard_cancel(s, x) ==
  IF x = NoGuard THEN s ELSE [s EXCEPT !.g[x].pending = FALSE]

\* circuit_free_() of a closed circuit.
FreeCircuit(c) ==
  /\ circ[c].marked
  /\ gs' = entry_guard_cancel(gs, circ[c].guard)
  /\ circ' = [circ EXCEPT ![c] = NoCircuit]
  /\ UNCHANGED <<nodes, allowed, saved, count>>

Waiting == {c \in Circuits : circ[c].state = "waiting" /\ circ[c].guard # NoGuard
                             /\ ~circ[c].marked}

FaultyAllPrimariesDown(s) ==
  \A x \in Primaries(s) : s.g[x].reachable = "no"

\* The primary guards that were looked at, up to one that may be reachable.
entry_guards_all_primary_guards_are_down(s) ==
  \A x \in Primaries(s) : entry_guard_consider_retry(s.g[x]).reachable = "no"

\* Whether circuit d keeps the waiting circuit best from being used.
Blocks(s, d, best) ==
  /\ ~circ[d].marked /\ circ[d].guard # NoGuard
  /\ \/ circ[d].state = "complete"
     \/ circ[d].state = "if_no_better" /\ circ[d].age < ConnectTimeout
  /\ circ_state_has_higher_priority(s, circ[d], circ[best].rst, circ[best])

\* The circuits that are upgraded with best, the best waiting circuit.
Upgraded(s, best) ==
  IF \E d \in Circuits : Blocks(s, d, best) THEN {}
  ELSE IF circ[best].rst # {} THEN {best}
  ELSE {c \in Waiting : ~circ_state_has_higher_priority(s, circ[best], {}, circ[c])}

\* circuit_upgrade_circuits_from_guard_wait(), once a second.
UpgradeWaiting(order) ==
  /\ \E c \in Circuits : circ[c].state = "waiting"
  /\ \E s \in {WithPrimaries(gs, nodes, allowed, order)} :
     LET down == entry_guards_all_primary_guards_are_down(s)
         alive == {i \in 1..Len(s.primaries) :
                     entry_guard_consider_retry(s.g[s.primaries[i]]).reachable # "no"}
         seen == IF down THEN s.primaries ELSE SubSeq(s.primaries, 1, Min(alive))
     IN /\ gs' = Retried(s, ToSet(seen))
        /\ IF ~down \/ Waiting = {} THEN circ' = circ
           ELSE \E best \in Waiting :
                  /\ \A c \in Waiting :
                       ~circ_state_has_higher_priority(s, circ[c], {}, circ[best])
                  /\ circ' = [c \in Circuits |-> IF c \in Upgraded(s, best)
                                THEN [circ[c] EXCEPT !.state = "complete", !.age = 0]
                                ELSE circ[c]]
  /\ UNCHANGED <<nodes, allowed, saved, count>>

entry_guard_state_should_expire(C) == C.state = "waiting" /\ C.age > IdleTimeout

\* circuit_expire_waiting_for_better_guard()
ExpireWaiting ==
  /\ \E c \in Circuits : entry_guard_state_should_expire(circ[c]) /\ ~circ[c].marked
  /\ circ' = [c \in Circuits |-> IF entry_guard_state_should_expire(circ[c])
                                  THEN [circ[c] EXCEPT !.marked = TRUE] ELSE circ[c]]
  /\ UNCHANGED <<gs, nodes, allowed, saved, count>>

\* entry_guards_note_internet_connectivity(), when a channel is negotiated.
NoteConnectivity ==
  /\ gs' = [gs EXCEPT !.on_internet = 0]
  /\ UNCHANGED <<circ, nodes, allowed, saved, count>>

\* or_state_save()
SaveState ==
  /\ gs.dirty /\ count < MaxEvents
  /\ count' = count + 1
  /\ gs' = [gs EXCEPT !.dirty = FALSE]
  /\ saved' = Persistent(gs)
  /\ UNCHANGED <<circ, nodes, allowed>>

\* The client stops, saved or not, and starts again from its state file.
Restart(order) ==
  /\ count < MaxEvents
  /\ count' = count + 1
  /\ nodes' = {}
  /\ gs' = entry_guards_update_all(Loaded(saved), {}, allowed, {}, order)
  /\ circ' = [c \in Circuits |-> NoCircuit]
  /\ UNCHANGED <<allowed, saved>>

\* Time passes.  How long ago a guard was tried matters while it is down or a
\* circuit is being built through it.
Tick ==
  /\ gs' = [gs EXCEPT
       !.on_internet = Older(@, InternetCap),
       !.g = [x \in Guards |->
                [@[x] EXCEPT !.failing = Older(@, FailingCap),
                             !.tried = IF gs.g[x].reachable = "no" \/ OnChannel(x) # {}
                                       THEN Older(@, TriedCap) ELSE @]]]
  /\ circ' = [c \in Circuits |->
                 IF circ[c].state \in {"if_no_better", "waiting"} /\ ~circ[c].marked
                 THEN [circ[c] EXCEPT !.age = Older(@, CircuitCap)] ELSE circ[c]]
  /\ UNCHANGED <<nodes, allowed, saved, count>>

Next ==
  \/ \E N \in Consensuses, due \in kSubset(0, Sample(gs)) \cup kSubset(1, Sample(gs)) :
       \E order \in Orders(due) : NewConsensus(N, due, order)
  \/ \E A \in Filters, order \in Orders({}) : SetOptions(A, order)
  \/ DropGuards
  \/ \E order \in Orders({}) : CheckDirInfo(order)
  \/ \E order \in Orders({}) : RetryOptimistic(order)
  \/ \E c \in Circuits, rst \in Excluded, order \in Orders({}) : ChooseGuard(c, rst, order)
  \/ \E c \in Circuits, order \in Orders({}) : Succeed(c, order)
  \/ \E c \in Circuits : Fail({c})
  \/ \E x \in Guards : Fail(OnChannel(x))
  \/ \E c \in Circuits : MarkForClose(c)
  \/ \E c \in Circuits : FreeCircuit(c)
  \/ \E order \in Orders({}) : UpgradeWaiting(order)
  \/ ExpireWaiting
  \/ NoteConnectivity
  \/ SaveState
  \/ \E order \in Orders({}) : Restart(order)
  \/ Tick

Spec == Init /\ [][Next]_vars

-----------------------------------------------------------------------------
(* Properties.                                                              *)

(* The types of the guards', the selection's and the circuits' fields.      *)
TypeOK ==
  /\ gs.sampled \in BoundedSeq(Guards, Cardinality(Guards))
  /\ \A x \in Guards :
       /\ gs.g[x].reachable \in {"yes", "no", "maybe"}
       /\ gs.g[x].confirmed_idx \in -1..Cardinality(Guards)
       /\ {gs.g[x].listed, gs.g[x].filtered, gs.g[x].usable, gs.g[x].primary,
           gs.g[x].pending} \subseteq BOOLEAN
       /\ gs.g[x].tried \in 0..TriedCap \cup {Never}
       /\ gs.g[x].failing \in 0..FailingCap \cup {Never}
  /\ {gs.up_to_date, gs.dirty} \subseteq BOOLEAN
  /\ gs.on_internet \in 0..InternetCap
  /\ \A c \in Circuits :
       /\ circ[c].state \in {"none", "on_completion", "if_no_better", "waiting",
                             "complete", "dead"}
       /\ circ[c].guard \in Guards \cup {NoGuard} /\ circ[c].age \in 0..CircuitCap
  /\ nodes \subseteq Guards /\ allowed \subseteq Guards

(* The "information invariants" at the top of entrynodes.c, after every     *)
(* function that touches a guard: the usable guards are the filtered ones   *)
(* not believed down, unlisted guards are not filtered, is_primary says who *)
(* is in the primary list, and that list holds sampled guards, once each,   *)
(* in the order in which they were sampled.                                 *)
FlagsAgree ==
  /\ \A x \in Sample(gs) :
       /\ gs.g[x].usable <=> (gs.g[x].filtered /\ gs.g[x].reachable # "no")
       /\ gs.g[x].filtered => gs.g[x].listed /\ x \in nodes
       /\ gs.g[x].reachable = "no" => gs.g[x].tried # Never
  /\ \A x \in Guards : gs.g[x].primary <=> x \in Primaries(gs)
  /\ IsInjective(gs.sampled)
  /\ gs.primaries = InSampleOrder(gs, Primaries(gs))

(* Whenever the primary list counts as up to date it prefers the guards     *)
(* that were used before: a filtered confirmed guard is left out only when  *)
(* the list is full of confirmed guards sampled before it.                  *)
PrimariesAreConfirmed ==
  gs.up_to_date =>
    /\ Len(gs.primaries) <= NPrimary
    /\ \A x \in Sample(gs) :
         (gs.g[x].filtered /\ gs.g[x].confirmed_idx >= 0 /\ ~gs.g[x].primary) =>
           /\ Len(gs.primaries) = NPrimary
           /\ \A y \in Primaries(gs) :
                /\ gs.g[y].confirmed_idx >= 0
                /\ InSampleOrder(gs, {x, y}) = <<y, x>>

(* The order in which guards were confirmed, which decides what circuit is  *)
(* preferred, survives pruning and restarts: no two guards share an index,  *)
(* and the next one is free.                                                *)
ConfirmedOnce ==
  \A x, y \in Sample(gs) :
    gs.g[x].confirmed_idx >= 0 =>
      /\ gs.g[x].confirmed_idx < gs.next_confirmed_idx
      /\ x # y => gs.g[x].confirmed_idx # gs.g[y].confirmed_idx

(* Every change of what the state file keeps is scheduled to be written:    *)
(* with nothing to write, a restart would give back the sample and the      *)
(* confirmed guards as they are.                                            *)
CleanMeansSaved == ~gs.dirty => saved = Persistent(gs)

(* A guard is not left pending, and so passed over for ever, by a circuit   *)
(* that failed, succeeded or was closed.                                    *)
PendingHasCircuit ==
  \A x \in Sample(gs) : gs.g[x].pending =>
    \E c \in Circuits : circ[c].guard = x /\ circ[c].state = "if_no_better"

(* What the functions of entrynodes.c expect of a guard selection whenever  *)
(* they are called, after any order of attempts, consensuses, options and   *)
(* restarts.                                                                *)
SelectionAgrees ==
  TypeOK /\ FlagsAgree /\ PrimariesAreConfirmed /\ ConfirmedOnce /\ PendingHasCircuit

(* A circuit through a guard that is not primary becomes usable only while  *)
(* every primary guard is still counted as down, with none due for a retry, *)
(* and it is never preferred to an open circuit through a guard confirmed   *)
(* before.                                                                  *)
UpgradedWhenNeeded ==
  [][\A c \in Circuits :
       (circ[c].state = "waiting" /\ circ'[c].state = "complete") =>
         /\ \A x \in Primaries(gs') : /\ gs'.g[x].reachable = "no"
                                      /\ gs'.g[x].tried < get_retry_schedule(gs'.g[x])
         /\ \A d \in Circuits :
              (circ[d].state = "complete" /\ ~circ[d].marked /\ circ[d].guard # NoGuard
                 /\ circ[d].guard \notin circ[c].rst)
              => gs'.g[circ[c].guard].confirmed_idx <= gs'.g[circ[d].guard].confirmed_idx]_vars

-----------------------------------------------------------------------------
(* What comments say of the guards.                                         *)

(* "Primary guards can never be pending."                                   *)
PrimaryNotPending == \A x \in Primaries(gs) : ~(gs.up_to_date /\ gs.g[x].pending)

(* A pending guard is one "which we do not plan to try again until it       *)
(* either succeeds or fails": it stays pending while its circuit is built.  *)
PendingUntilDone ==
  \A c \in Circuits :
    (Building(circ[c]) /\ circ[c].state = "if_no_better" /\ circ[c].guard # NoGuard)
      => gs.g[circ[c].guard].pending \/ gs.g[circ[c].guard].primary

(* "When we are about to pick a guard, make sure that the primary list is   *)
(* full": a list that is up to date is short only when no guard is left.    *)
PrimariesFull ==
  (gs.up_to_date /\ Len(gs.primaries) < NPrimary) =>
    \A x \in Sample(gs) : gs.g[x].usable => x \in Primaries(gs)

==============================================================================
