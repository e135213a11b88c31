---- MODULE SharedRandom ----
(***************************************************************************)
(* The commit-and-reveal protocol by which the directory authorities agree *)
(* on a shared random value (feature/dirauth/shared_random.c and           *)
(* shared_random_state.c), driven by the voting rounds of dirvote.c.       *)
(*                                                                         *)
(* Time is counted in voting intervals: with clock = c the hour lies       *)
(* strictly between the valid-after times c and c + 1, and the consensus   *)
(* being voted on is that of c + 1.  An interval has three stages, as      *)
(* dirvote_act() orders them: the consensus of the previous interval is    *)
(* published, votes are exchanged, and the next consensus is computed and  *)
(* signed.  The authorities' clocks agree to within a stage, and all count *)
(* in the interval of a live consensus: that an authority counts in the    *)
(* initial voting interval when it has none (create_voting_schedule), once *)
(* the last one it got has expired, is left out.                           *)
(*                                                                         *)
(* Every change of the protocol state is written to disk at once, so a     *)
(* handler is modelled by the sequence of states it saves, and a crash     *)
(* keeps one of them.  What is not on disk (the phase, the fresh flag, the *)
(* pending votes) is lost in a crash.  A commitment is told apart by when  *)
(* it was made, a shared random value is the set of reveals it hashes and  *)
(* the value before it.  The counters of rounds and runs, which are only   *)
(* logged, are left out.                                                   *)
(***************************************************************************)
EXTENDS Integers, FiniteSets, Sequences, SequencesExt

CONSTANTS
  Auths,        \* the v3 directory authorities
  N_ROUNDS,     \* SHARED_RANDOM_N_ROUNDS, voting rounds in each of the two phases
  Agreements,   \* AuthDirNumSRVAgreements, votes needed for a fresh value
  Start, End,   \* the interval in which all authorities boot, and the last one
  MaxCrashes,   \* bound on crashes
  MaxLost,      \* bound on lost posts, fetches and sets of signatures
  None

ASSUME RoundsAssumption ==
  IsFiniteSet(Auths) /\ N_ROUNDS \in Nat \ {0} /\ Start \in Nat \ {0} /\ End \in Nat

(* What an authority commits to in a run, told apart by when it was made.  *)
Commitments == [by : Auths, run : Nat, made : Seq(Nat)]

ASSUME NoneAssumption == None \notin Commitments

VARIABLES
  clock, stage,
  sr,          \* sr_state of each authority; its disk state while it is down
  at,          \* "down", "todo" or "done" with the current stage
  pending,     \* pending_vote_list of each authority, by voter
  posted,      \* the last vote each authority posted in this interval
  mine,        \* pending_consensuses of each authority
  signed,      \* the consensus each authority posted a signature for
  consensus,   \* the latest consensus each authority has
  crashes, lost,
  cut,         \* authorities that a crash stopped between two saves of a handler
  troubled,    \* the last round in which something went wrong
  committed,   \* every commitment that was posted in a vote
  published,   \* every consensus that some authority published
  adopted      \* those that a majority had registered when the next vote began

vars == <<clock, stage, sr, at, pending, posted, mine, signed, consensus,
          crashes, lost, cut, troubled, committed, published, adopted>>

----
(* Times *)

TotalRounds == 2 * N_ROUNDS
RunOf(t) == t \div TotalRounds

get_sr_protocol_phase(t) == IF t % TotalRounds < N_ROUNDS THEN "commit" ELSE "reveal"

(* The end of the run of t, counted from the current valid-after time.     *)
get_state_valid_until_time(t) == clock + TotalRounds - (t % TotalRounds)

----
(* The state of one authority.  Its commits are functions on authorities;  *)
(* revealed holds the authorities whose commit has a reveal value.         *)

NoCommits == [b \in Auths |-> None]

state_new == [phase |-> get_sr_protocol_phase(clock), valid_after |-> 0,
              valid_until |-> get_state_valid_until_time(clock),
              commits |-> NoCommits, revealed |-> {},
              previous |-> None, current |-> None, fresh |-> FALSE]

(* What disk_state_update() keeps of a state. *)
OnDisk(s) == [s EXCEPT !.phase = "commit", !.fresh = FALSE]

disk_state_validate(s) == s.valid_until > clock /\ s.valid_after < s.valid_until

FaultyDiskStateParse(s) ==
  [s EXCEPT !.phase = get_sr_protocol_phase(s.valid_after), !.commits = NoCommits, !.revealed = {}]

disk_state_parse(s) == [s EXCEPT !.phase = get_sr_protocol_phase(s.valid_after)]

(* The shared random value of the commits whose reveal is known. *)
Srv(s) == [reveals |-> {s.commits[b] : b \in s.revealed}, previous |-> s.previous]

sr_generate_our_commit(a, t) == [by |-> a, run |-> RunOf(t), made |-> <<clock, crashes>>]

sr_state_add_commit(s, c) ==
  [s EXCEPT !.commits[c.by] = c, !.revealed = @ \cup {c.by}]

(* The states that a handler saves one after the other. *)
state_rotate_srv(s) ==
  << [s EXCEPT !.previous = None],
     [s EXCEPT !.previous = s.current],
     [s EXCEPT !.previous = s.current, !.current = None] >>

sr_compute_srv(s) == [s EXCEPT !.current = Srv(s), !.fresh = TRUE]

reset_state_for_new_protocol_run(s, t) ==
  [s EXCEPT !.valid_until = get_state_valid_until_time(t), !.valid_after = t,
            !.commits = NoCommits, !.revealed = {}]

(* saves, extended by what step makes of the last of them. *)
Then(saves, step(_)) == Append(saves, step(Last(saves)))

FaultyNewProtocolRun(s, a, t) ==
  LET Commit(u) == sr_state_add_commit(u, sr_generate_our_commit(a, t))
      reset == reset_state_for_new_protocol_run(s, t)
      computed == IF s.phase = "reveal" THEN Then(state_rotate_srv(reset), sr_compute_srv)
                                        ELSE <<reset>>
  IN  Then(computed, Commit)

new_protocol_run(s, a, t) ==
  LET Reset(u) == reset_state_for_new_protocol_run(u, t)
      Commit(u) == sr_state_add_commit(u, sr_generate_our_commit(a, t))
      computed == IF s.phase = "reveal" THEN Then(state_rotate_srv(s), sr_compute_srv)
                                        ELSE <<s>>
  IN  Then(Then(computed, Reset), Commit)

(* sr_state_update(): <<s>> when it ignores the call. *)
sr_state_update(s, a, t) ==
  LET next == get_sr_protocol_phase(t)
      ValidAfter(u) == [u EXCEPT !.phase = next, !.valid_after = t]
      prepared ==
        IF s.phase # next
        THEN IF next = "commit" THEN new_protocol_run(s, a, t) ELSE <<s>>
        ELSE IF s.phase = "commit" /\ s.commits = NoCommits
             THEN <<sr_state_add_commit(s, sr_generate_our_commit(a, t))>>
             ELSE <<s>>
  IN  IF t <= s.valid_after THEN <<s>> ELSE Then(prepared, ValidAfter)

(* The shared random part of sr_act_post_consensus(). *)
PostConsensus(s, c) ==
  IF c = None THEN <<s>>
  ELSE << [s EXCEPT !.previous = None],
          [s EXCEPT !.previous = None, !.current = None],
          [s EXCEPT !.previous = c.previous, !.current = None, !.fresh = FALSE],
          [s EXCEPT !.previous = c.previous, !.current = c.current, !.fresh = FALSE] >>

sr_act_post_consensus(s, a, c, t) ==
  LET registered == PostConsensus(s, c)
  IN  registered \o sr_state_update(Last(registered), a, t)

----
(* Votes and the consensus *)

sr_get_string_for_vote(s, a, n) ==
  [n |-> n, commit |-> s.commits[a],
   reveal |-> s.phase = "reveal" /\ a \in s.revealed,
   previous |-> s.previous, current |-> s.current]

(* The voter's own commit is kept when it is new in the commit phase, or   *)
(* brings the reveal of the commitment we know in the reveal phase.        *)
should_keep_commit(s, a, v) ==
  /\ v.commit # None
  /\ IF s.phase = "commit"
     THEN s.commits[a] = None /\ ~v.reveal
     ELSE s.commits[a] = v.commit /\ a \notin s.revealed /\ v.reveal

save_commit_to_state(s, a, v) ==
  IF s.phase = "commit" THEN [s EXCEPT !.commits[a] = v.commit]
                        ELSE [s EXCEPT !.revealed = @ \cup {a}]

sr_handle_received_commits(s, a, v) ==
  IF should_keep_commit(s, a, v) THEN save_commit_to_state(s, a, v) ELSE s

Majority == Cardinality(Auths) \div 2 + 1

should_keep_srv(n, fresh) == n >= Majority /\ (fresh => n >= Agreements)

(* A value that enough voters name: at most one has a majority. *)
get_majority_srv_from_votes(votes, fresh, field) ==
  LET voters == {b \in Auths : votes[b] # None}
      kept == {v \in {votes[b][field] : b \in voters} \ {None} :
                 should_keep_srv(Cardinality({b \in voters : votes[b][field] = v}), fresh)}
  IN  IF kept = {} THEN None ELSE CHOOSE v \in kept : TRUE

dirvote_compute_consensuses(votes, fresh) ==
  LET voters == {b \in Auths : votes[b] # None}
  IN  IF Cardinality(voters) <= Cardinality(Auths) \div 2 THEN None
      ELSE [valid_after |-> clock + 1,
            voters |-> {<<b, votes[b].n>> : b \in voters},
            previous |-> get_majority_srv_from_votes(votes, fresh, "previous"),
            current |-> get_majority_srv_from_votes(votes, fresh, "current")]

FaultyEnoughSignatures(a) ==
  /\ mine[a] # None
  /\ Cardinality({b \in Auths : signed[b] # None}) >= Majority

(* networkstatus_check_consensus_signature() of our pending consensus. *)
EnoughSignatures(a) ==
  /\ mine[a] # None
  /\ Cardinality({b \in Auths : signed[b] = mine[a]}) >= Majority

----
Up(a) == at[a] # "down"
NoVotes == [b \in Auths |-> None]

(* The handler of a ends with the last of saves, or crashes after another  *)
(* one.                                                                    *)
Outcome(a, saves, next) ==
  \/ /\ sr' = [sr EXCEPT ![a] = Last(saves)]
     /\ at' = [at EXCEPT ![a] = next]
     /\ UNCHANGED <<crashes, cut>>
  \/ /\ crashes < MaxCrashes
     /\ \E i \in 1..(Len(saves) - 1) : sr' = [sr EXCEPT ![a] = OnDisk(saves[i])]
     /\ at' = [at EXCEPT ![a] = "down"]
     /\ crashes' = crashes + 1
     /\ cut' = cut \cup {a}

Loses(n) == lost + n <= MaxLost /\ lost' = lost + n

(* All authorities have just booted for the first time. *)
Init ==
  /\ clock = Start
  /\ stage = "vote"
  /\ crashes = 0 /\ lost = 0 /\ cut = {} /\ troubled = Start
  /\ sr = [a \in Auths |-> Last(sr_state_update(state_new, a, clock + 1))]
  /\ at = [a \in Auths |-> "todo"]
  /\ pending = [a \in Auths |-> NoVotes]
  /\ posted = NoVotes
  /\ mine = [a \in Auths |-> None]
  /\ signed = [a \in Auths |-> None]
  /\ consensus = [a \in Auths |-> None]
  /\ committed = {} /\ published = {} /\ adopted = {}

(* sr_state_init(): load the state or make a new one, and prepare it for   *)
(* the next voting round.  The schedule is new, so an authority that comes *)
(* back after its stage has begun votes at once; later than that it has no *)
(* votes to compute a consensus from.                                      *)
sr_state_init(a) ==
  /\ ~Up(a)
  /\ LET loaded == IF disk_state_validate(sr[a]) THEN disk_state_parse(sr[a]) ELSE state_new
     IN  Outcome(a, <<loaded>> \o sr_state_update(loaded, a, clock + 1),
                 IF stage = "vote" THEN "todo" ELSE "done")
  /\ UNCHANGED <<clock, stage, pending, posted, mine, signed, consensus, lost,
                 committed, published, adopted>>

Crash(a) ==
  /\ Up(a)
  /\ crashes < MaxCrashes
  /\ crashes' = crashes + 1
  /\ sr' = [sr EXCEPT ![a] = OnDisk(@)]
  /\ at' = [at EXCEPT ![a] = "down"]
  /\ pending' = [pending EXCEPT ![a] = NoVotes]
  /\ mine' = [mine EXCEPT ![a] = None]
  /\ UNCHANGED <<clock, stage, posted, signed, consensus, lost, cut,
                 committed, published, adopted>>

(* dirvote_publish_consensus(), dirvote_clear_votes() and                  *)
(* sr_act_post_consensus() at the start of an interval.  Without a new     *)
(* consensus the schedule is still that of the old interval, and the       *)
(* consensus handed over is the latest one we have.                        *)
Publish(a) ==
  /\ stage = "publish" /\ at[a] = "todo"
  /\ \/ /\ EnoughSignatures(a)
        /\ consensus' = [consensus EXCEPT ![a] = mine[a]]
        /\ published' = published \cup {mine[a]}
        /\ Outcome(a, sr_act_post_consensus(sr[a], a, mine[a], clock + 1), "done")
        /\ UNCHANGED lost
     \/ /\ IF EnoughSignatures(a) THEN Loses(1) ELSE UNCHANGED lost
        /\ Outcome(a, sr_act_post_consensus(sr[a], a, consensus[a], clock), "done")
        /\ UNCHANGED <<consensus, published>>
  /\ pending' = [pending EXCEPT ![a] = NoVotes]
  /\ mine' = [mine EXCEPT ![a] = None]
  /\ UNCHANGED <<clock, stage, posted, signed, committed, adopted>>

(* handle_response_fetch_consensus() at an authority that missed it. *)
FetchConsensus(a) ==
  /\ stage = "publish" /\ at[a] = "done"
  /\ \E c \in published :
       /\ c.valid_after = clock /\ consensus[a] # c
       /\ consensus' = [consensus EXCEPT ![a] = c]
       /\ Outcome(a, sr_act_post_consensus(sr[a], a, c, clock + 1), "done")
  /\ UNCHANGED <<clock, stage, pending, posted, mine, signed, lost, committed, published, adopted>>

(* dirvote_add_vote() of the vote v of a at authority b: a later vote      *)
(* replaces an earlier one, and its commits are not looked at.             *)
dirvote_add_vote(p, s, a, v) ==
  [list |-> [p EXCEPT ![a] = v],
   state |-> IF p[a] = None THEN sr_handle_received_commits(s, a, v) ELSE s]

(* dirvote_perform_vote(): our vote is stored and posted to everyone. *)
Vote(a, others) ==
  /\ stage = "vote" /\ at[a] = "todo"
  /\ LET up == {b \in Auths : Up(b)}
         v == sr_get_string_for_vote(sr[a], a, IF posted[a] = None THEN 1 ELSE posted[a].n + 1)
         Added(b) == dirvote_add_vote(pending[b], sr[b], a, v)
     IN  /\ others \subseteq up /\ a \in others
         /\ Loses(Cardinality(up \ others))
         /\ pending' = [b \in Auths |-> IF b \in others THEN Added(b).list ELSE pending[b]]
         /\ sr' = [b \in Auths |-> IF b \in others THEN Added(b).state ELSE sr[b]]
         /\ posted' = [posted EXCEPT ![a] = v]
         /\ committed' = committed \cup ({v.commit} \ {None})
  /\ at' = [at EXCEPT ![a] = "done"]
  /\ UNCHANGED <<clock, stage, mine, signed, consensus, crashes, cut,
                 published, adopted>>

(* dirvote_fetch_missing_votes(), whose answers are added like any vote,   *)
(* and dirvote_compute_consensuses(), which posts our signature.           *)
Compute(a, fetched) ==
  /\ stage = "compute" /\ at[a] = "todo"
  /\ \E from \in [fetched -> Auths] :
       LET missing == {b \in Auths : pending[a][b] = None
                                     /\ \E c \in Auths : pending[c][b] # None}
           Fetched(b) == pending[from[b]][b]
           kept == {b \in fetched : should_keep_commit(sr[a], b, Fetched(b))}
           votes == [b \in Auths |-> IF b \in fetched THEN Fetched(b) ELSE pending[a][b]]
       IN  /\ fetched \subseteq missing
           /\ \A b \in fetched : Fetched(b) # None
           /\ Loses(Cardinality(missing \ fetched))
           /\ pending' = [pending EXCEPT ![a] = votes]
           /\ sr' = [sr EXCEPT ![a].commits =
                       [b \in Auths |-> IF b \in kept THEN Fetched(b).commit ELSE @[b]],
                               ![a].revealed =
                       IF sr[a].phase = "reveal" THEN @ \cup kept ELSE @]
           /\ mine' = [mine EXCEPT ![a] = dirvote_compute_consensuses(votes, sr[a].fresh)]
           /\ signed' = [signed EXCEPT ![a] = mine'[a]]
  /\ at' = [at EXCEPT ![a] = "done"]
  /\ UNCHANGED <<clock, stage, posted, consensus, crashes, cut, committed,
                 published, adopted>>

(* The next stage begins when every authority that runs has done this one. *)
Advance ==
  /\ \A a \in Auths : at[a] \in {"down", "done"}
  /\ at' = [a \in Auths |-> IF Up(a) THEN "todo" ELSE "down"]
  /\ \/ /\ stage = "publish" /\ stage' = "vote"
        /\ signed' = [a \in Auths |-> None]
        /\ adopted' = adopted \cup {c \in published :
                         Cardinality({a \in Auths : consensus[a] = c /\ sr[a].current = c.current}) >= Majority}
        /\ UNCHANGED <<clock, posted>>
     \/ /\ stage = "vote" /\ stage' = "compute"
        /\ UNCHANGED <<clock, posted, signed, adopted>>
     \/ /\ stage = "compute" /\ stage' = "publish"
        /\ clock < End /\ clock' = clock + 1
        /\ posted' = NoVotes
        /\ UNCHANGED <<signed, adopted>>
  /\ UNCHANGED <<sr, pending, mine, consensus, crashes, lost, cut, committed, published>>

(* The horizon of the model. *)
Ended ==
  /\ clock = End /\ stage = "compute"
  /\ UNCHANGED vars

(* A round is troubled when a message is lost in it, or an authority is    *)
(* down in it at some time or still behind; so are those before the boot.  *)
NoteTrouble ==
  troubled' = IF lost' # lost \/ \E a \in Auths : at'[a] = "down"
              THEN clock' + 1 ELSE troubled

Next ==
  \/ /\ \/ \E a \in Auths :
             \/ sr_state_init(a) \/ Crash(a) \/ Publish(a) \/ FetchConsensus(a)
             \/ \E S \in SUBSET Auths : Vote(a, S) \/ Compute(a, S)
        \/ Advance
     /\ NoteTrouble
  \/ Ended

Spec == Init /\ [][Next]_vars

----
(* Properties *)

(* The variables stay in their types; only an authority with a commit of   *)
(* another has its reveal, and a dead one has no votes.                    *)
TypeOK ==
  /\ clock \in Start..End /\ stage \in {"publish", "vote", "compute"}
  /\ at \in [Auths -> {"down", "todo", "done"}]
  /\ crashes \in 0..MaxCrashes /\ lost \in 0..MaxLost /\ troubled \in 0..(End + 1)
  /\ \A a \in Auths :
       /\ sr[a].phase \in {"commit", "reveal"} /\ sr[a].revealed \subseteq Auths
       /\ \A b \in sr[a].revealed : sr[a].commits[b] # None
       /\ at[a] = "down" => pending[a] = NoVotes /\ mine[a] = None

(* However votes, signatures and authorities are lost, two consensuses     *)
(* that gather enough signatures for the same valid-after time are the     *)
(* same, so all clients get the same shared random value.                  *)
OneConsensusPerRound ==
  \A p, q \in published : p.valid_after = q.valid_after => p = q

(* "To avoid double voting": an authority that reboots never posts a second *)
(* commitment in a protocol run.  This survives any number of crashes that *)
(* leave handlers whole, and one crash at whatever save it interrupts.     *)
OneCommitPerRun ==
  \A c, d \in committed :
    c.by = d.by /\ c.run = d.run /\ (crashes <= 1 \/ c.by \notin cut) => c = d

(* The same without the condition, as the notes of shared_random.c put it: *)
(* "To support rebooting authorities and to avoid double voting, each      *)
(* dirauth saves the current state of the protocol on disk".               *)
NeverVotesTwice ==
  \A c, d \in committed : c.by = d.by /\ c.run = d.run => c = d

(* Onion services and their clients derive the same addresses during a     *)
(* run: once a majority of the authorities has registered a consensus, no  *)
(* consensus published from then on for the same run names another value.  *)
(* (One that was published before may: while few authorities have it the   *)
(* others can still agree on the value of an earlier one.)                 *)
SrvIsStable ==
  [][\A p \in adopted, q \in published' \ published :
       RunOf(p.valid_after) = RunOf(q.valid_after) => q.current \in {None, p.current}]_vars

(* "A set of authorities first publish vote based on their opinions of the *)
(* network, and then compute a consensus from those votes": the same votes *)
(* give the same consensus.                                                *)
SameVotesSameConsensus ==
  \A a, b \in Auths :
    mine[a] # None /\ mine[b] # None /\ pending[a] = pending[b] => mine[a] = mine[b]

(* The protocol recovers from what went wrong in earlier runs: when        *)
(* nothing goes wrong from the first round of a run on, the consensuses of *)
(* the next run carry a value made of the reveals of all authorities.      *)
CalmRunsYieldSrv ==
  \A p \in published :
    LET r == RunOf(p.valid_after)
    IN  troubled < TotalRounds * (r - 1) =>
          /\ p.current # None
          /\ {<<c.by, c.run>> : c \in p.current.reveals} = {<<a, r - 1>> : a \in Auths}

(* The value of a run is agreed on and made in spite of earlier trouble.    *)
SrvIsAgreed == [](TypeOK /\ CalmRunsYieldSrv) /\ SrvIsStable

(* sr_state_update(): "Going into commit phase means we are starting a new *)
(* protocol run": no authority holds a commitment of another run than the  *)
(* one its state is for.                                                   *)
CommitsOfThisRun ==
  \A a \in Auths, b \in Auths :
    Up(a) /\ sr[a].commits[b] # None => sr[a].commits[b].run = RunOf(sr[a].valid_after)

(* get_state_valid_until_time(): "We expire the state file in the          *)
(* beginning of the next protocol run", so an authority that reboots       *)
(* during the run its file is for still has its commits.                   *)
ResumesAfterReboot ==
  [][\A a \in Auths :
       /\ ~Up(a) /\ at'[a] # "down"
       /\ RunOf(sr[a].valid_after) = RunOf(clock + 1) /\ sr[a].commits[a] # None
       => sr'[a].commits[a] = sr[a].commits[a]]_vars

(* sr_act_post_consensus(): "We just computed a new consensus. Update our  *)
(* state with the SRVs from the consensus": a value just computed is given *)
(* up only for one the authorities voted on with it.                       *)
FreshSrvSurvives ==
  [][\A a \in Auths :
       /\ sr[a].fresh /\ Up(a) /\ at'[a] # "down" /\ ~sr'[a].fresh
       => consensus'[a].valid_after >= sr[a].valid_after]_vars

(* sr_state_update(): "if we are in the commit phase and have no commit,   *)
(* generate one", so that an authority that has been up for a whole round  *)
(* of the commit phase takes part in the run.                              *)
TakesPart ==
  \A a \in Auths :
    /\ stage = "vote" /\ at[a] = "todo" /\ sr[a].phase = "commit"
    /\ sr[a].valid_after = clock + 1 /\ (clock + 1) % TotalRounds > 0
    /\ troubled <= clock
    => sr[a].commits[a] # None
====
