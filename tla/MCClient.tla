------------------------------- MODULE MCClient ------------------------------
(* Two parts of a client for TLC: its entry guards and the updates of its   *)
(* anyone_hosts file.  They share nothing, so a behaviour runs one of them. *)
EXTENDS EntryGuards, TLC

CONSTANTS g1, g2, c1, c2

VARIABLES part, upd, conns, file, timer, crossed, asked, quiet

hostsVars == <<upd, conns, file, timer, crossed, asked, quiet>>

(* Three servers, two published files and one without a date; a connection  *)
(* may outlive the timeout of its fetch.                                    *)
Hosts == INSTANCE AnyoneHosts WITH
  Urls <- 3, Timeout <- 2, Retry <- 4, Interval <- 5, Jitter <- 1,
  MaxAge <- 3, MaxConns <- 2, Times <- {0, 1, 2}

MCGuards == {g1, g2}
MCCircuits == {c1, c2}
MCNever == -1
MCRetry == <<[maximum |-> 0, primary |-> 1, nonprimary |-> 1]>>
MCConsensuses == {MCGuards}
MCFilters == {MCGuards, {}}
MCExcluded == {{}}
MCSymmetry == Permutations(MCGuards) \cup Permutations(MCCircuits)

(* At first every guard may be used.                                        *)
MCInit ==
  /\ Init /\ allowed = MCGuards
  /\ Hosts!Init
  /\ \/ part = "hosts"
     \/ part = "guards" /\ file = 0

MCNext ==
  \/ part = "guards" /\ Next /\ UNCHANGED <<part, hostsVars>>
  \/ part = "hosts" /\ Hosts!Next /\ UNCHANGED <<part, vars>>

MCSpec == MCInit /\ [][MCNext]_<<part, vars, hostsVars>>

(* The updates of the hosts file go on, one fetch at a time and in turn     *)
(* over the servers, whatever these answer and whenever they do             *)
(* (OneFetchAtATime and ServersTakeTurns of AnyoneHosts).                   *)
FetchesAreRight == Hosts!FetchesAreRight
==============================================================================
