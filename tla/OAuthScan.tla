------------------------------ MODULE OAuthScan ------------------------------
(***************************************************************************)
(* The worker that refreshes tokens before they expire.  It scans one      *)
(* snapshot, publishes what it has refreshed segment by segment while      *)
(* others publish too, and then has to tell its own revisions from theirs: *)
(* it may sleep only if nobody else has published since it looked.         *)
(***************************************************************************)
EXTENDS Naturals, FiniteSets

CONSTANTS
  Accounts,     \* OAuth accounts
  Concurrency,  \* SCHEDULED_REFRESH_CONCURRENCY
  MaxRevision   \* bound: revisions published

VARIABLES
  revision,     \* the published revision, and the value of the watch channel
  external,     \* the revisions that others published
  due_accounts, \* accounts whose published token is due
  worker,       \* scanning, publishing or asleep
  started_at, published, interleaved, \* ScanPublications
  waiting, in_flight, ready,          \* due accounts of this scan, by progress
  seen          \* the revision last marked as seen

scan == <<started_at, published, interleaved, waiting, in_flight, ready>>
vars == <<revision, external, due_accounts, worker, scan, seen>>

Init ==
  /\ revision = 0 /\ external = {}
  /\ due_accounts \in SUBSET Accounts
  /\ worker = "start" /\ seen = 0
  /\ started_at = 0 /\ published = 0 /\ interleaved = FALSE
  /\ waiting = {} /\ in_flight = {} /\ ready = {}

(* An edit, a login, a refresh asked for by a request: accounts appear,    *)
(* go, or get tokens that are due or not.                                  *)
PublishElsewhere ==
  /\ revision < MaxRevision
  /\ revision' = revision + 1 /\ external' = external \union {revision + 1}
  /\ due_accounts' \in SUBSET Accounts
  /\ UNCHANGED <<worker, scan, seen>>

(* Time passes, and a token comes within its lead time.                    *)
Expire ==
  /\ \E a \in Accounts \ due_accounts : due_accounts' = due_accounts \union {a}
  /\ UNCHANGED <<revision, external, worker, scan, seen>>

StartScan ==
  /\ worker = "start"
  /\ worker' = "scanning"
  /\ started_at' = revision /\ published' = revision /\ interleaved' = FALSE
  /\ waiting' = due_accounts /\ in_flight' = {} /\ ready' = {}
  /\ UNCHANGED <<revision, external, due_accounts, seen>>

(* buffer_unordered: at most Concurrency refreshes are under way.          *)
PrepareRefresh(a) ==
  /\ worker = "scanning" /\ a \in waiting
  /\ Cardinality(in_flight) + Cardinality(ready) < Concurrency
  /\ waiting' = waiting \ {a} /\ in_flight' = in_flight \union {a}
  /\ UNCHANGED <<revision, external, due_accounts, worker, started_at, published,
                 interleaved, ready, seen>>

Prepared(a) ==
  /\ worker = "scanning" /\ a \in in_flight
  /\ in_flight' = in_flight \ {a}
  /\ \/ ready' = ready \union {a}  \* refreshed
     \/ UNCHANGED ready            \* failed, or nothing to do
  /\ UNCHANGED <<revision, external, due_accounts, worker, started_at, published,
                 interleaved, waiting, seen>>

(* Faulty variant: only the last revision is compared.                     *)
RecordLatest(r) == published' = r /\ UNCHANGED interleaved

(* ScanPublications::record.                                               *)
RecordPublication(r) ==
  /\ interleaved' = (interleaved \/ r # published + 1)
  /\ published' = r

(* What is ready is published together.  Accounts that have changed since  *)
(* are left out; if all have, or the publication fails, nothing is         *)
(* published.                                                              *)
PublishPreparedRefreshes ==
  /\ worker = "scanning" /\ ready # {}
  /\ \/ /\ revision < MaxRevision
        /\ revision' = revision + 1
        /\ \E fresh \in SUBSET ready : fresh # {} /\ due_accounts' = due_accounts \ fresh
        /\ RecordPublication(revision + 1)
     \/ UNCHANGED <<revision, due_accounts, published, interleaved>>
  /\ ready' = {}
  /\ UNCHANGED <<external, worker, started_at, waiting, in_flight, seen>>

RequiresImmediateRescan(latest) == interleaved \/ latest > published

(* Faulty variant: what the scan published itself counts as seen by it,    *)
(* and the worker waits for a further revision only.                       *)
EndScanForever ==
  /\ worker = "scanning" /\ waiting = {} /\ in_flight = {} /\ ready = {}
  /\ seen' = revision
  /\ worker' = IF RequiresImmediateRescan(revision) THEN "start" ELSE "ended"
  /\ UNCHANGED <<revision, external, due_accounts, scan>>

(* The end of a scan marks the newest revision as seen.                    *)
EndScan ==
  /\ worker = "scanning" /\ waiting = {} /\ in_flight = {} /\ ready = {}
  /\ seen' = revision
  /\ worker' = IF RequiresImmediateRescan(revision) THEN "start" ELSE "asleep"
  /\ UNCHANGED <<revision, external, due_accounts, scan>>

(* refresh_scan_interval_secs has passed.                                  *)
WakeByTimer ==
  /\ worker = "asleep"
  /\ worker' = "start"
  /\ UNCHANGED <<revision, external, due_accounts, scan, seen>>

WakeByRevision ==
  /\ worker = "asleep" /\ revision # seen
  /\ worker' = "start" /\ seen' = revision
  /\ UNCHANGED <<revision, external, due_accounts, scan>>

Work ==
  \/ StartScan \/ PublishPreparedRefreshes \/ EndScan \/ WakeByTimer \/ WakeByRevision
  \/ \E a \in Accounts : PrepareRefresh(a) \/ Prepared(a)

Next == PublishElsewhere \/ Expire \/ Work

(* The worker is polled, refreshes have timeouts, the timer fires.         *)
Spec == Init /\ [][Next]_vars /\ WF_vars(Work)

TypeOK ==
  /\ revision \in 0..MaxRevision /\ seen \in 0..MaxRevision
  /\ external \subseteq 1..MaxRevision
  /\ worker \in {"start", "scanning", "asleep"}
  /\ started_at \in 0..MaxRevision /\ published \in 0..MaxRevision /\ interleaved \in BOOLEAN
  /\ due_accounts \union waiting \union in_flight \union ready \subseteq Accounts

(* The worker never sleeps on news: unless its wake-up is pending, nobody  *)
(* else has published since the snapshot it scanned.  Its own revisions    *)
(* may lie in between, so comparing the last revision is not enough.       *)
SleepsInformed ==
  worker = "asleep" /\ revision = seen => ~\E r \in external : r > started_at

(* An account that is due is tried, again and again until it is refreshed. *)
DueIsTried ==
  \A a \in Accounts : a \in due_accounts ~> a \in in_flight \/ a \notin due_accounts
=============================================================================
