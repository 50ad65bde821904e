--------------------------- MODULE MCScheduling ---------------------------
(***************************************************************************)
(* Waiting and waking: the queue of requests for a slot (with room for     *)
(* both and with room for one), the worker that turns scheduled wakes into *)
(* advances of the scheduler epoch, the health of one endpoint, the        *)
(* requests of one session that wait for its creator, the whole of one     *)
(* request, and two publications that compete for the configuration lock.  *)
(* They meet in the epoch only, so each is explored in behaviours of its   *)
(* own.                                                                    *)
(***************************************************************************)
EXTENDS SchedulingProofs

VARIABLES
  part,
  clock, request_published, stage, watch, request_admitted, token_snapshot, affinity,
  binding, request_pc, marked, request_seen, routing, selected, bound, budget, excluded,
  deferred, previous, failure, refresh_attempted, refreshed_target, rejected,
  header_owner, wake_at, answer, log,
  lease_now, entry, locked, entry_count, continuation_bytes, next_version, last_futile,
  changed, client, begun, sweep,
  disk, snapshot, latest_operator_revision, notified, publication_admitted, reconciled,
  woken, serial, txn, publication_phase, crashes, publication_seen, task

(* A request with two candidates behind one endpoint, the first of them an *)
(* OAuth account.                                                          *)
TwoCandidates ==
  {[target |-> "t1", model |-> "m", credential |-> "c1", endpoint |-> "e1", proxy |-> "p"],
   [target |-> "t2", model |-> "m", credential |-> "c2", endpoint |-> "e1", proxy |-> "p"]}
Failing(class, kind, scope) ==
  [class |-> class, kind |-> kind, safe |-> TRUE, complete |-> TRUE, scope |-> scope,
   basis |-> "candidate", retry_after |-> 0]
SomeFailures ==
  {Failing("upstream", "Authentication", "Credential"),
   Failing("transport", "Transport", "ExactCandidate"),
   Failing("transport", "Transport", "Endpoint")}

Request == INSTANCE RequestRetry WITH
  Candidates <- TwoCandidates, OAuthCredentials <- {"c1"},
  Affinities <- {"none", "continuation"}, Failures <- SomeFailures,
  Changes <- {"edit", "disable", "token"}, MaxTotalAttempts <- 2, MaxSwitches <- 1,
  MaxSameRetries <- 1, BaseDelay <- 1, MaxDelay <- 1, Deadline <- 1, MaxRevision <- 1,
  published <- request_published, admitted <- request_admitted, pc <- request_pc,
  seen <- request_seen
Lease == INSTANCE AffinityRegistry WITH
  Sessions <- {"k1"}, Continuations <- {}, Shard <- [k \in {"k1"} |-> 1],
  Clients <- {"a", "b"}, MaxEntries <- 1, MaxBytes <- 0, PendingBytes <- 1,
  StateBytes <- {}, Ttl <- 1, Throttle <- 1, MaxTime <- 0, MaxRequests <- 2,
  MaxVersion <- 2, MaxSweeps <- 1, now <- lease_now
Publication == INSTANCE ConfigPublisher WITH
  Publishers <- {"a", "b"}, MaxRevision <- 1, MaxCrashes <- 0,
  admitted <- publication_admitted, phase <- publication_phase, seen <- publication_seen
Full == INSTANCE SelectionQueue WITH
  Timeout <- 1, MaxWaiting <- 1

wakeVars ==
  <<wake_now, wake_phase, by_slot, by_deadline, wake_changes, wake_worker_started,
    wake_epoch, wake_pc, worker, ops, owed>>
healthVars ==
  <<health_now, failure_times, open_until, half_open_in_flight, last_failure_at,
    circuit_wake, transient_until, transient_wake, attempt>>
requestVars ==
  <<clock, request_published, stage, watch, request_admitted, token_snapshot, affinity,
    binding, request_pc, marked, request_seen, routing, selected, bound, budget,
    excluded, deferred, previous, failure, refresh_attempted, refreshed_target,
    rejected, header_owner, wake_at, answer, log>>
leaseVars ==
  <<lease_now, entry, locked, entry_count, continuation_bytes, next_version,
    last_futile, changed, client, begun, sweep>>
publicationVars ==
  <<disk, snapshot, latest_operator_revision, notified, publication_admitted,
    reconciled, woken, serial, txn, publication_phase, crashes, publication_seen, task>>
mcVars == <<part, vars, wakeVars, healthVars, requestVars, leaseVars, publicationVars>>

(* One part moves in a behaviour; the others stay as they begin.           *)
QueueMoves ==
  part = "queue" /\ UNCHANGED <<part, wakeVars, healthVars, requestVars, leaseVars, publicationVars>>
WakeMoves ==
  part = "wake" /\ UNCHANGED <<part, healthVars, requestVars, leaseVars, publicationVars, vars>>
HealthMoves ==
  part = "health" /\ UNCHANGED <<part, wakeVars, requestVars, leaseVars, publicationVars, vars>>
RequestMoves ==
  part = "request" /\ UNCHANGED <<part, wakeVars, healthVars, leaseVars, publicationVars, vars>>
LeaseMoves ==
  part = "lease" /\ UNCHANGED <<part, wakeVars, healthVars, requestVars, publicationVars, vars>>
PublicationMoves ==
  part = "publication" /\ UNCHANGED <<part, wakeVars, healthVars, requestVars, leaseVars, vars>>
FullMoves ==
  part = "full" /\ UNCHANGED <<part, wakeVars, healthVars, requestVars, leaseVars, publicationVars>>

MCInit ==
  /\ part \in {"queue", "wake", "health", "request", "lease", "publication", "full"}
  /\ (IF part = "full" THEN Full!Init ELSE Init) /\ Wake!Init /\ Health!Init /\ Request!Init /\ Lease!Init /\ Publication!Init
  /\ part # "request" => affinity = "none"

MCNext ==
  \/ QueueMoves /\ Next
  \/ WakeMoves /\ Wake!Next
  \/ HealthMoves /\ Health!Next
  \/ RequestMoves /\ Request!Next
  \/ LeaseMoves /\ Lease!Next
  \/ PublicationMoves /\ Publication!Next
  \/ FullMoves /\ Full!Next

MCSpec ==
  /\ MCInit /\ [][MCNext]_mcVars
  /\ WF_mcVars(QueueMoves /\ Tick)
  /\ \A r \in Requests : WF_mcVars(QueueMoves /\ Send(r))
  /\ \A r \in Waiters : WF_mcVars(QueueMoves /\ Wait(r))
  /\ WF_mcVars(WakeMoves /\ Wake!Tick)
  /\ WF_mcVars(WakeMoves /\ Wake!Worker)
  /\ \A c \in Users : WF_mcVars(WakeMoves /\ Wake!Publish(c))
  /\ WF_mcVars(HealthMoves /\ Health!Tick)
  /\ WF_mcVars(HealthMoves /\ Health!FireWake)
  /\ \A a \in EndpointUsers : WF_mcVars(HealthMoves /\ Health!Acquire(a))
  /\ \A a \in EndpointUsers : WF_mcVars(HealthMoves /\ Health!Complete(a))
  /\ WF_mcVars(RequestMoves /\ Request!Tick)
  /\ WF_mcVars(RequestMoves /\ Request!Publish)
  /\ WF_mcVars(RequestMoves /\ Request!Select)
  /\ WF_mcVars(RequestMoves /\ (Request!CheckPlan \/ Request!StartRejected \/ Request!RegisterRefused \/ Request!StartAttempt))
  /\ WF_mcVars(RequestMoves /\ Request!AttemptTimesOut)
  /\ WF_mcVars(RequestMoves /\ Request!RefreshFails)
  /\ WF_mcVars(RequestMoves /\ Request!DelayElapsed)
  /\ WF_mcVars(LeaseMoves /\ Lease!Maintenance)
  /\ \A c \in {"a", "b"} : WF_mcVars(LeaseMoves /\ Lease!Step(c))
  /\ \A c \in {"a", "b"} : WF_mcVars(LeaseMoves /\ (Lease!Commit(c) \/ Lease!DropLease(c)))
  /\ \A p \in {"a", "b"} : SF_mcVars(PublicationMoves /\ (Publication!Acquire(p) \/ Publication!RevisionConflict(p)))
  /\ \A p \in {"a", "b"} : WF_mcVars(PublicationMoves /\ Publication!Step(p))
  /\ WF_mcVars(FullMoves /\ Full!Tick)
  /\ \A r \in Requests : WF_mcVars(FullMoves /\ Full!Send(r))
  /\ \A r \in Waiters : WF_mcVars(FullMoves /\ Full!Wait(r))

-----------------------------------------------------------------------------
ASSUME Wake!WakeAssumption /\ Health!HealthAssumption /\ Lease!AffinityAssumption

(* Waits end: the queue empties as deadlines pass, scheduled wakes are     *)
(* paid for by an advance of the epoch, an endpoint does not stay shut to  *)
(* probes, a request that waits for the creator of its session's binding   *)
(* is woken without having to time out, and a request is answered although *)
(* revisions, retries and refreshes keep it busy and the upstream stays    *)
(* silent, and a publication ends although another competes with it.       *)
Waiting ==
  CASE part \in {"queue", "full"} -> Outstanding
    [] part = "wake" -> Wake!Outstanding
    [] part = "health" -> Health!Shut
    [] part = "lease" -> Lease!Outstanding
    [] part = "publication" -> task["a"].at \notin {"idle", "done"}
    [] part = "request" -> request_pc # "done"
WaitsEnd == Waiting ~> ~Waiting
=============================================================================
