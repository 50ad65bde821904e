-------------------------- MODULE ProcessLifecycle --------------------------
(***************************************************************************)
(* How the process ends: requests are refused, then waited for, then       *)
(* cancelled; background tasks follow; the storage is closed last.  A      *)
(* request is accepted by reading the phase, registering and reading the   *)
(* phase again, while another thread changes it.  The same guards tell the *)
(* memory reclaimer when nobody is at work.                                *)
(***************************************************************************)
EXTENDS Naturals, FiniteSets

CONSTANTS
  Requests,  \* request handlers
  MaxEpoch   \* bound: activity recorded

VARIABLES
  phase,           \* ShutdownPhase
  closed,          \* the request tracker is closed
  draining, forced,\* cancellation tokens
  tokens,          \* requests registered with the tracker
  background,      \* tasks registered with the background tracker
  request,         \* where each handler is
  main,            \* where serve and finalize are
  telemetry_open,  \* the telemetry writer has not been told to stop
  storage_open,    \* the SQLite pool
  blockers,        \* requests that block memory reclamation
  activity_epoch,  \* requests accepted, background activity
  requested,       \* the reclaimer's stored notification
  reclaimer,       \* where the reclaimer is
  seen_epoch,      \* the epoch it has read
  last_reclaimed   \* the epoch it has dealt with

shutdown == <<phase, closed, draining, forced, main, telemetry_open, storage_open>>
work == <<tokens, background, request>>
memory == <<blockers, activity_epoch, requested, reclaimer, seen_epoch, last_reclaimed>>
vars == <<shutdown, work, memory>>

At(r, l) == request[r] = l
GoTo(r, l) == request' = [request EXCEPT ![r] = l]
Critical(r) == <<"critical", r>>  \* a publication, a password change
Blocking(r) == <<"blocking", r>>  \* file work, hashing: cannot be cancelled
Worker == <<"until draining", "worker">>
Writer == <<"tracked", "telemetry">>

Init ==
  /\ phase = "running" /\ closed = FALSE /\ draining = FALSE /\ forced = FALSE
  /\ tokens = {} /\ background = {Worker, Writer}
  /\ request = [r \in Requests |-> "idle"]
  /\ main = "serving" /\ telemetry_open = TRUE /\ storage_open = TRUE
  /\ blockers = {} /\ activity_epoch = 0 /\ requested = FALSE
  /\ reclaimer = "waiting" /\ seen_epoch = 0 /\ last_reclaimed = 0

-----------------------------------------------------------------------------
(* track_request and its guard.                                            *)

ServerAccepts == main \in {"serving", "draining", "grace", "forced"}

(* Faulty variant: the last one to leave tells nobody.                     *)
ReleaseSilently(r) == blockers' = blockers \ {r} /\ UNCHANGED requested

(* MemoryReclamationBlocker::release.                                      *)
ReleaseBlocker(r) ==
  /\ blockers' = blockers \ {r}
  /\ requested' = (requested \/ blockers = {r})

CheckPhase(r) ==
  /\ At(r, "idle") /\ ServerAccepts
  /\ GoTo(r, IF phase = "running" THEN "register" ELSE "refused")
  /\ UNCHANGED <<shutdown, tokens, background, memory>>

Register(r) ==
  /\ At(r, "register")
  /\ tokens' = tokens \union {r} /\ blockers' = blockers \union {r}
  /\ GoTo(r, "recheck")
  /\ UNCHANGED <<shutdown, background, activity_epoch, requested, reclaimer, seen_epoch, last_reclaimed>>

(* Faulty variant: the phase is not read again after registering.          *)
AcceptOnce(r) ==
  /\ At(r, "recheck") /\ activity_epoch < MaxEpoch
  /\ activity_epoch' = activity_epoch + 1 /\ GoTo(r, "active")
  /\ UNCHANGED <<shutdown, tokens, background, blockers, requested, reclaimer, seen_epoch,
                 last_reclaimed>>

Recheck(r) ==
  /\ At(r, "recheck")
  /\ IF phase = "running"
     THEN /\ activity_epoch < MaxEpoch /\ activity_epoch' = activity_epoch + 1
          /\ GoTo(r, "active") /\ UNCHANGED <<tokens, blockers, requested>>
     ELSE /\ tokens' = tokens \ {r} /\ ReleaseBlocker(r)
          /\ GoTo(r, "refused") /\ UNCHANGED activity_epoch
  /\ UNCHANGED <<shutdown, background, reclaimer, seen_epoch, last_reclaimed>>

(* A long-lived connection stops blocking the reclaimer.                   *)
ReleaseMemoryReclamationBlocker(r) ==
  /\ At(r, "active") /\ r \in blockers
  /\ ReleaseBlocker(r)
  /\ UNCHANGED <<shutdown, work, activity_epoch, reclaimer, seen_epoch, last_reclaimed>>

(* Work that has to survive the request becomes a background task.         *)
SpawnCritical(r) ==
  /\ At(r, "active")
  /\ background' = background \union {Critical(r)}
  /\ UNCHANGED <<shutdown, tokens, request, memory>>

(* The response has been sent, or the client or the forced token ended it. *)
FinishRequest(r) ==
  /\ At(r, "active")
  /\ tokens' = tokens \ {r} /\ GoTo(r, "done")
  /\ IF r \in blockers THEN ReleaseBlocker(r) ELSE UNCHANGED <<blockers, requested>>
  /\ UNCHANGED <<shutdown, background, activity_epoch, reclaimer, seen_epoch, last_reclaimed>>

-----------------------------------------------------------------------------
(* Background tasks.                                                       *)

SpawnBlocking(r) ==
  /\ Critical(r) \in background
  /\ background' = background \union {Blocking(r)}
  /\ UNCHANGED <<shutdown, tokens, request, memory>>

RecordActivity ==
  /\ Worker \in background /\ activity_epoch < MaxEpoch
  /\ activity_epoch' = activity_epoch + 1
  /\ requested' = (requested \/ blockers = {})
  /\ UNCHANGED <<shutdown, work, blockers, reclaimer, seen_epoch, last_reclaimed>>

(* Tasks end by themselves, or where they await once their token is        *)
(* cancelled; the telemetry writer when it is told to stop.                *)
TaskEnds(t) ==
  /\ t \in background
  /\ t = Worker => draining
  /\ t = Writer => ~telemetry_open
  /\ background' = background \ {t}
  /\ UNCHANGED <<shutdown, tokens, request, memory>>

-----------------------------------------------------------------------------
(* serve.                                                                  *)

ShutdownSignal ==
  /\ main = "serving"
  /\ phase' = "draining" /\ main' = "draining"
  /\ UNCHANGED <<closed, draining, forced, telemetry_open, storage_open, work, memory>>

CloseRequests ==
  /\ main = "draining"
  /\ closed' = TRUE /\ draining' = TRUE /\ main' = "grace"
  /\ UNCHANGED <<phase, forced, telemetry_open, storage_open, work, memory>>

(* Every connection is closed, so no handler is running.                   *)
ServerStops ==
  /\ main \in {"grace", "forced"}
  /\ \A r \in Requests : request[r] \in {"idle", "refused", "done"}
  /\ main' = "finalize"
  /\ UNCHANGED <<phase, closed, draining, forced, telemetry_open, storage_open, work, memory>>

ForceShutdown == phase' = "forced" /\ closed' = TRUE /\ draining' = TRUE /\ forced' = TRUE

GraceExpires ==
  /\ main = "grace"
  /\ ForceShutdown /\ main' = "forced"
  /\ UNCHANGED <<telemetry_open, storage_open, work, memory>>

ServerDoesNotStop ==
  /\ main = "forced"
  /\ main' = "finalize"
  /\ UNCHANGED <<phase, closed, draining, forced, telemetry_open, storage_open, work, memory>>

-----------------------------------------------------------------------------
(* finalize.                                                               *)

ForceRemaining ==
  /\ main = "finalize"
  /\ IF tokens # {} THEN ForceShutdown ELSE UNCHANGED <<phase, closed, draining, forced>>
  /\ main' = "await requests"
  /\ UNCHANGED <<telemetry_open, storage_open, work, memory>>

RequestsAreDone ==
  /\ main = "await requests" /\ closed /\ tokens = {}
  /\ telemetry_open' = FALSE
  /\ main' = "await background"
  /\ UNCHANGED <<phase, closed, draining, forced, storage_open, work, memory>>

BackgroundIsDone ==
  /\ main \in {"await background", "await forced"} /\ background = {}
  /\ storage_open' = FALSE
  /\ main' = "ended"
  /\ UNCHANGED <<phase, closed, draining, forced, telemetry_open, work, memory>>

(* Running out of time: background tasks get one more chance after being   *)
(* forced; otherwise the process exits without closing the storage.        *)
FinalizeTimesOut ==
  /\ \/ main = "await requests" /\ main' = "fatal" /\ UNCHANGED <<phase, closed, draining, forced>>
     \/ main = "await background" /\ main' = "await forced" /\ ForceShutdown
     \/ main = "await forced" /\ main' = "fatal" /\ UNCHANGED <<phase, closed, draining, forced>>
  /\ UNCHANGED <<telemetry_open, storage_open, work, memory>>

-----------------------------------------------------------------------------
(* The memory reclaimer.                                                   *)

Notified ==
  /\ reclaimer = "waiting" /\ requested /\ ~draining
  /\ requested' = FALSE /\ reclaimer' = "cooling"
  /\ UNCHANGED <<shutdown, work, blockers, activity_epoch, seen_epoch, last_reclaimed>>

(* The cooldown is over.  The epoch is read before the blockers.           *)
ReadEpoch ==
  /\ reclaimer = "cooling" /\ ~draining
  /\ reclaimer' = "reclaiming" /\ seen_epoch' = activity_epoch
  /\ UNCHANGED <<shutdown, work, blockers, activity_epoch, requested, last_reclaimed>>

Reclaim ==
  /\ reclaimer = "reclaiming"
  /\ last_reclaimed' = IF blockers = {} THEN seen_epoch ELSE last_reclaimed
  /\ reclaimer' = "waiting"
  /\ UNCHANGED <<shutdown, work, blockers, activity_epoch, requested, seen_epoch>>

ReclaimerStops ==
  /\ draining /\ reclaimer \in {"waiting", "cooling"}
  /\ reclaimer' = "stopped"
  /\ UNCHANGED <<shutdown, work, blockers, activity_epoch, requested, seen_epoch, last_reclaimed>>

-----------------------------------------------------------------------------
Handle(r) ==
  \/ CheckPhase(r) \/ Register(r) \/ Recheck(r) \/ ReleaseMemoryReclamationBlocker(r)
  \/ SpawnCritical(r) \/ FinishRequest(r) \/ SpawnBlocking(r)

Serve == ShutdownSignal \/ CloseRequests \/ ServerStops \/ GraceExpires \/ ServerDoesNotStop
Finish == ForceRemaining \/ RequestsAreDone \/ BackgroundIsDone \/ FinalizeTimesOut
Reclaimer == Notified \/ ReadEpoch \/ Reclaim \/ ReclaimerStops

Next ==
  \/ \E r \in Requests : Handle(r)
  \/ \E t \in background : TaskEnds(t)
  \/ RecordActivity \/ Serve \/ Finish \/ Reclaimer

(* The reclaimer's task is polled and its cooldown ends.                   *)
Spec == Init /\ [][Next]_vars /\ WF_vars(Reclaimer)

-----------------------------------------------------------------------------
TypeOK ==
  /\ phase \in {"running", "draining", "forced"}
  /\ {closed, draining, forced, telemetry_open, storage_open, requested} \subseteq BOOLEAN
  /\ tokens \subseteq Requests /\ blockers \subseteq Requests
  /\ activity_epoch \in 0..MaxEpoch /\ last_reclaimed \in 0..MaxEpoch

(* Once finalization has waited for the requests no handler is at work,    *)
(* not even one that read the phase before draining began, and once the    *)
(* storage is closed no task that might use it is left either.             *)
StorageOutlivesItsUsers ==
  /\ main \in {"await background", "await forced", "ended"} =>
       \A r \in Requests : ~At(r, "active")
  /\ ~storage_open => background = {}

(* When the last one at work has gone, what was done since the last time   *)
(* is reclaimed, unless somebody is at work again or the process drains.   *)
MemoryIsReclaimed ==
  [](blockers = {} /\ last_reclaimed < activity_epoch =>
       <>(last_reclaimed = activity_epoch \/ blockers # {} \/ draining))
=============================================================================
