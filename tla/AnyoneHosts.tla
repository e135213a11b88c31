----------------------------- MODULE AnyoneHosts -----------------------------
(***************************************************************************)
(* The updates of the anyone_hosts mapping file: a client fetches the file *)
(* from one of a list of servers, when a consensus arrives and on a timer, *)
(* and installs it when it is signed, valid and, as far as can be told,    *)
(* not older than the installed one.                                       *)
(*                                                                         *)
(* Sources: feature/anyone/anyone_hosts_update.c,                          *)
(* feature/dirparse/anyone_hosts_parse.c, feature/dirclient/dirclient.c.   *)
(*                                                                         *)
(* Times are kept as ages, in units that make the timeout of a fetch, the  *)
(* gap after a failure and the update interval differ.  A fetch is a       *)
(* connection; its result reaches the updater from two places, and a fetch *)
(* that was given up may still have a connection.  The list of servers is  *)
(* fixed, so only the remainder of current_url_index is kept.              *)
(***************************************************************************)
EXTENDS Integers, FiniteSets, FiniteSetsExt

CONSTANTS
  Urls,        \* number of target addresses
  Timeout,     \* ANYONE_HOSTS_FETCH_TIMEOUT
  Retry,       \* ANYONE_HOSTS_MIN_RETRY_INTERVAL
  Interval,    \* AnyoneHostsUpdateInterval
  Jitter,      \* a tenth of Interval
  MaxAge,      \* bound: the life of a connection
  MaxConns,    \* bound: connections at one time
  Times        \* published times of files; 0 for one that has none

\* The code has Timeout < Retry <= Interval and Jitter < Interval.

NotYet == -1

VARIABLES
  upd,     \* the static variables of anyone_hosts_update.c
  conns,   \* directory connections: age, fetch they belong to, closing or not
  file,    \* published time of the installed file; 0 for none, and for the
           \* default mapping
  timer,   \* time to the next periodic call
  crossed, \* history: was a result noted for another fetch than its own?
  asked,   \* history: the server of the last fetch
  quiet    \* history: the time since a fetch was launched or a file accepted

vars == <<upd, conns, file, timer, crossed, asked, quiet>>

-----------------------------------------------------------------------------
anyone_hosts_update_init ==
  [inProgress |-> FALSE, fetch |-> 0, attempt |-> NotYet, success |-> NotYet,
   attemptIsLater |-> FALSE, index |-> 0]

FaultyNoteResult(ok) ==  \* every result counts
  upd' = [upd EXCEPT !.inProgress = FALSE,
                     !.success = IF ok THEN 0 ELSE @,
                     !.attemptIsLater = IF ok THEN FALSE ELSE @,
                     !.index = IF ok THEN @ ELSE (@ + 1) % Urls]

(* Only the first result counts ... for whichever fetch is in progress.  A *)
(* failure makes the next server the target.                               *)
anyone_hosts_update_note_result(ok) ==
  upd' = IF ~upd.inProgress THEN upd
         ELSE [upd EXCEPT !.inProgress = FALSE,
                          !.success = IF ok THEN 0 ELSE @,
                          !.attemptIsLater = IF ok THEN FALSE ELSE @,
                          !.index = IF ok THEN @ ELSE (@ + 1) % Urls]

(* Connection k reports the result of its fetch.                           *)
Report(k, ok) ==
  /\ anyone_hosts_update_note_result(ok)
  /\ crossed' = (crossed \/ (upd.inProgress /\ k.fetch # upd.fetch))
  /\ quiet' = IF ok /\ upd.inProgress THEN 0 ELSE quiet
  /\ UNCHANGED asked

FaultyMayLaunch ==  \* does not wait after a failure
  ~upd.inProgress /\ (upd.success = NotYet \/ upd.success >= Interval)

(* The conditions of maybe_launch_fetch: the update interval since the     *)
(* last accepted file, and the gap after an attempt that failed.           *)
MayLaunch ==
  /\ ~upd.inProgress
  /\ upd.success = NotYet \/ upd.success >= Interval
  /\ ~(upd.attempt # NotYet /\ upd.attemptIsLater /\ upd.attempt < Retry)

(* A fetch "in progress" for too long is taken for failed.                 *)
Stuck == upd.inProgress /\ upd.attempt >= Timeout

(* directory_initiate_request makes a connection or fails without a word.  *)
maybe_launch_fetch ==
  \/ /\ MayLaunch
     /\ upd' = [upd EXCEPT !.inProgress = TRUE, !.fetch = 1 - @, !.attempt = 0,
                           !.attemptIsLater = TRUE]
     /\ asked' = upd.index /\ quiet' = 0
     /\ \/ conns' = conns
        \/ /\ Cardinality(conns) < MaxConns
           /\ conns' = conns \cup
                {[age |-> 0, fetch |-> 1 - upd.fetch, closing |-> FALSE]}
  \/ /\ ~MayLaunch /\ Stuck /\ anyone_hosts_update_note_result(FALSE)
     /\ UNCHANGED <<conns, asked, quiet>>
  \/ ~MayLaunch /\ ~Stuck /\ UNCHANGED <<upd, conns, asked, quiet>>

(* The periodic call, and the jitter of its next run.                      *)
anyone_hosts_update_callback ==
  /\ timer = 0
  /\ maybe_launch_fetch
  /\ timer' \in Interval - Jitter .. Interval + Jitter
  /\ UNCHANGED <<file, crossed>>

(* A new consensus arrived.                                                *)
anyone_hosts_update_maybe_kick ==
  /\ timer > 0 /\ (MayLaunch \/ Stuck)
  /\ maybe_launch_fetch
  /\ UNCHANGED <<file, timer, crossed>>

-----------------------------------------------------------------------------
(* The end of a fetch.                                                     *)

Closing(k) == (conns \ {k}) \cup {[k EXCEPT !.closing = TRUE]}

(* A response that is not a signed and valid file with mappings.           *)
RejectResponse(k) ==
  /\ ~k.closing
  /\ Report(k, FALSE)
  /\ conns' = Closing(k)
  /\ UNCHANGED <<file, timer>>

(* The published times are compared only if the installed file could be    *)
(* read and both have one.                                                 *)
IsOlder(read, pub) == read /\ file # 0 /\ pub # 0 /\ pub < file

(* A signed file, published at pub.  It is accepted when the installed     *)
(* file could be read and is the same, and otherwise when it is not known  *)
(* to be older and could be written.                                       *)
anyone_hosts_handle_fetch_response(k, pub) ==
  /\ ~k.closing
  /\ \E read, same, written \in BOOLEAN :
       LET unchanged == read /\ same /\ pub = file
           install == ~unchanged /\ ~IsOlder(read, pub) /\ written
           ok == unchanged \/ install
       IN  /\ Report(k, ok)
           /\ file' = IF install THEN pub ELSE file
           /\ conns' = IF ok THEN conns \ {k} ELSE Closing(k)
  /\ UNCHANGED timer

(* A connection that is about to close and is not FINISHED reports a       *)
(* failure, also when its response was rejected before.                    *)
connection_dir_client_request_failed(k) ==
  /\ Report(k, FALSE)
  /\ conns' = conns \ {k}
  /\ UNCHANGED <<file, timer>>

-----------------------------------------------------------------------------
(* The process restarts: the file stays.                                   *)
Restart ==
  /\ upd' = anyone_hosts_update_init
  /\ conns' = {} /\ timer' = 0 /\ crossed' = FALSE /\ asked' = NotYet /\ quiet' = 0
  /\ UNCHANGED file

Older(age, max) == IF age = NotYet THEN NotYet ELSE Min({age + 1, max})

(* Time passes; a connection does not outlive its bound.                   *)
Tick ==
  /\ timer > 0
  /\ \A k \in conns : ~k.closing /\ k.age < MaxAge
  /\ timer' = timer - 1
  /\ upd' = [upd EXCEPT !.attempt = Older(@, Retry), !.success = Older(@, Interval)]
  /\ conns' = {[k EXCEPT !.age = @ + 1] : k \in conns}
  /\ quiet' = quiet + 1
  /\ UNCHANGED <<file, crossed, asked>>

Init ==
  /\ upd = anyone_hosts_update_init
  /\ conns = {} /\ file \in Times /\ timer = 0 /\ crossed = FALSE
  /\ asked = NotYet /\ quiet = 0

Next ==
  \/ anyone_hosts_update_callback
  \/ anyone_hosts_update_maybe_kick
  \/ \E k \in conns :
       \/ RejectResponse(k)
       \/ \E pub \in Times : anyone_hosts_handle_fetch_response(k, pub)
       \/ connection_dir_client_request_failed(k)
  \/ Restart
  \/ Tick

Spec == Init /\ [][Next]_vars

-----------------------------------------------------------------------------
(* Properties.                                                             *)

(* Types of the updater's state.                                           *)
TypeOK ==
  /\ upd \in [inProgress : BOOLEAN, fetch : {0, 1},
              attempt : {NotYet} \cup 0 .. Retry,
              success : {NotYet} \cup 0 .. Interval,
              attemptIsLater : BOOLEAN, index : 0 .. Urls - 1]
  /\ upd.attemptIsLater => upd.attempt # NotYet
  /\ conns \subseteq [age : 0 .. MaxAge, fetch : {0, 1}, closing : BOOLEAN]
  /\ file \in Times /\ timer \in 0 .. Interval + Jitter /\ crossed \in BOOLEAN
  /\ asked \in {NotYet} \cup 0 .. Urls - 1 /\ quiet \in Nat

(* One fetch at a time, also when one is given up while its connection     *)
(* lives on (maybe_launch_fetch: "a live connection may still call         *)
(* note_result() later"): the only connection there may be is the last     *)
(* fetch's, an open one is in progress or was given up after the timeout,  *)
(* and no late answer is taken for that of a later fetch.                  *)
OneFetchAtATime ==
  /\ TypeOK /\ ~crossed
  /\ Cardinality(conns) <= 1
  /\ \A k \in conns :
       /\ k.fetch = upd.fetch
       /\ upd.inProgress \/ k.closing \/ upd.attempt >= Timeout

(* A server is asked until a file of it is accepted, and the next one after *)
(* exactly one failure, however often and from wherever it is reported.     *)
(* The updater never stalls: between launches, or after a file, there are   *)
(* at most two periodic calls that launch nothing, also when a server never *)
(* reports anything, so every server is asked in its turn.                  *)
ServersTakeTurns ==
  /\ asked # NotYet =>
       upd.index = IF ~upd.inProgress /\ upd.attemptIsLater
                   THEN (asked + 1) % Urls ELSE asked
  /\ quiet <= Timeout - 1 + 2 * (Interval + Jitter)

(* What the fetches of the hosts file promise, whatever the servers do.     *)
FetchesAreRight == OneFetchAtATime /\ ServersTakeTurns

(* fetch_in_progress is true while a connection is open                    *)
(* (anyone_hosts_update.c:57).                                             *)
FlagWhileOpen == \A k \in conns : ~k.closing => upd.inProgress

(* A file that is installed is never replaced by an older one              *)
(* (anyone_hosts_update.c:22).                                             *)
NeverOlder == [][file' >= file]_vars
=============================================================================
