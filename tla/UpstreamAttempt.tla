-------------------------- MODULE UpstreamAttempt --------------------------
(***************************************************************************)
(* Attempts of public requests at one upstream with one credential: from   *)
(* the prepared request over the answer to the report, with the guards an  *)
(* attempt owns (permit, health, recorder), the bindings it commits, and   *)
(* what its report does to the health of the credential.                   *)
(*                                                                         *)
(* The transport is UpstreamTransport, a streaming answer continues as     *)
(* StreamCommit, the breakers of endpoint, proxy and paths are             *)
(* EndpointHealth.  The code between two awaits of an attempt is one step. *)
(***************************************************************************)
EXTENDS Integers, FiniteSets

CONSTANTS
    Attempts,       \* attempts in flight
    Statuses,       \* kinds a refusing status stands for
    Codes,          \* kinds an error body may declare
    Hints,          \* delays an upstream may ask for
    RateFallback,   \* rate_limit_fallback
    Unsupported,    \* model_unsupported
    Denied,         \* permission_denied
    MaxDelay,       \* MAX_RETRY_AFTER_SECONDS
    MaxToken,       \* bound: authentication versions
    MaxTime,        \* bound: last tick of the clock
    None

AttemptAssumption ==
  /\ Hints \cup {RateFallback, Unsupported, Denied, MaxDelay} \subseteq Int
  /\ MaxToken \in Nat \ {0}

VARIABLES
    now,
    token,          \* the credential's current authentication version
    auth_error,     \* authentication version -> marked as rejected
    cooldown,       \* credential_cooldown_until
    model,          \* the model's cooldown: [until, cause] or None
    quota,          \* quota_exhaustion's retry_at
    wake,           \* scheduler wake slots of the three deadlines
    attempt

health == <<token, auth_error, cooldown, model, quota, wake>>
vars == <<now, token, auth_error, cooldown, model, quota, wake, attempt>>

Kinds == {"invalid_request", "authentication", "permission_denied",
          "quota_exhausted", "rate_limited", "model_unavailable",
          "operation_unavailable", "transient", "unknown"}

\* An attempt owns a permit, the health of what it uses and a recorder; all
\* three are settled together, with the report, or handed to the stream.
\* phase: the step it is at, or how safe the retry of an ended attempt is.
Fresh == [phase |-> "idle", token |-> 0]
Ended == {"done", "handed", "ambiguous", "definitely_not_sent",
          "rejected_before_execution"}

Init ==
    /\ now = 0 /\ token = 1
    /\ auth_error = [v \in 1..MaxToken |-> FALSE]
    /\ cooldown = None /\ model = None /\ quota = None
    /\ wake = [slot \in {"cooldown", "model", "quota"} |-> None]
    /\ attempt = [a \in Attempts |-> Fresh]

----------------------------------------------------------------------------
(* Classification of an upstream's refusal                                 *)

DefaultSafety(kind) ==
    IF kind \in {"invalid_request", "transient", "unknown"}
    THEN "ambiguous" ELSE "rejected_before_execution"

\* refine_kind: which declared kinds may sharpen what the status says.
Refines(baseline) ==
    CASE baseline = "invalid_request" ->
           {"invalid_request", "quota_exhausted", "model_unavailable"}
      [] baseline = "permission_denied" -> {"permission_denied", "quota_exhausted"}
      [] baseline = "rate_limited" -> {"rate_limited", "quota_exhausted"}
      [] baseline = "operation_unavailable" ->
           {"model_unavailable", "operation_unavailable"}
      [] baseline = "unknown" -> Kinds
      [] OTHER -> {baseline}

RefineKind(baseline, declared) ==
    IF declared \in Refines(baseline) THEN declared ELSE baseline

\* declared_attribution: only a declared kind blames something.
Attribution(declared, kind) ==
    IF declared # kind THEN "unattributed"
    ELSE CASE kind = "authentication" -> "authentication"
           [] kind \in {"permission_denied", "quota_exhausted"} -> "credential"
           [] kind \in {"rate_limited", "model_unavailable"} -> "credential_model"
           [] kind = "operation_unavailable" -> "route_operation"
           [] OTHER -> "unattributed"

\* classify: status and, when the body was read to its end, its error code.
Classify(baseline, early, declared) ==
    LET kind == RefineKind(baseline, declared)
        safety == IF DefaultSafety(kind) # "ambiguous" THEN DefaultSafety(kind)
                  ELSE IF early THEN "rejected_before_execution"
                  ELSE DefaultSafety(baseline)
    IN [kind |-> kind, safety |-> safety,
        attribution |-> Attribution(declared, kind)]

----------------------------------------------------------------------------
(* Health of the credential                                                *)

Bounded(delay) == IF delay > MaxDelay THEN MaxDelay ELSE delay
RetryDelay(hint, fallback) == Bounded(IF hint = None THEN fallback ELSE hint)
Later(a, b) == IF a = None \/ b > a THEN b ELSE a

\* prune_expired_model_cooldowns drops the entry and its wake slot.
PrunedModel(t) == IF model # None /\ model.until <= t THEN None ELSE model
PrunedWake(t) == IF model # None /\ model.until <= t
                 THEN [wake EXCEPT !["model"] = None] ELSE wake

ModelCooldownWakesNew(t, until, cause) ==
    LET old == PrunedModel(t)
        new == IF old = None \/ until >= old.until
               THEN [until |-> until, cause |-> cause] ELSE old
    IN /\ model' = new
       /\ wake' = [wake EXCEPT !["model"] = until]
       /\ UNCHANGED <<auth_error, cooldown, quota>>

\* record_model_cooldown keeps the later deadline with its cause.
ModelCooldown(t, until, cause) ==
    LET old == PrunedModel(t)
        new == IF old = None \/ until >= old.until
               THEN [until |-> until, cause |-> cause] ELSE old
    IN /\ model' = new
       /\ wake' = [wake EXCEPT !["model"] = new.until]
       /\ UNCHANGED <<auth_error, cooldown, quota>>

RecordQuota(t, delay) ==
    /\ quota' = t + delay
    /\ model' = PrunedModel(t)
    /\ wake' = [PrunedWake(t) EXCEPT !["quota"] = t + delay]
    /\ UNCHANGED <<auth_error, cooldown>>

\* RoutingCredentialHealthRuntime::record, with the clock read at t.
RecordRouting(kind, hint, t) ==
    CASE kind = "quota_exhausted" -> RecordQuota(t, RetryDelay(hint, Denied))
      [] kind = "permission_denied" ->
           LET until == Later(cooldown, t + Bounded(Denied)) IN
           /\ cooldown' = until
           /\ model' = PrunedModel(t)
           /\ wake' = [PrunedWake(t) EXCEPT !["cooldown"] = until]
           /\ UNCHANGED <<auth_error, quota>>
      [] kind = "rate_limited" ->
           ModelCooldown(t, t + RetryDelay(hint, RateFallback), "rate_limit")
      [] OTHER -> ModelCooldown(t, t + Bounded(Unsupported), "outage")

MarkCurrent(v) == auth_error' = [auth_error EXCEPT ![token] = TRUE]

\* A rejected token is marked in the runtime the attempt was selected with.
MarkRejected(v) == auth_error' = [auth_error EXCEPT ![v] = TRUE]
\* CredentialHealthRuntime::record: what a classified failure costs.
RecordFailure(v, class, hint, t) ==
    CASE class.attribution = "authentication" ->
           MarkRejected(v) /\ UNCHANGED <<cooldown, model, quota, wake>>
      [] class.attribution \in {"credential", "credential_model"} ->
           RecordRouting(class.kind, hint, t)
      [] OTHER -> UNCHANGED <<auth_error, cooldown, model, quota, wake>>

\* record_success forgets an exhausted quota and cancels its wake.
RecordSuccess ==
    /\ quota' = None
    /\ wake' = IF quota = None THEN wake ELSE [wake EXCEPT !["quota"] = None]
    /\ UNCHANGED <<auth_error, cooldown, model>>

Blocks(until) == until # None /\ now < until

\* availability of the current runtime for the model.
Available ==
    /\ ~auth_error[token]
    /\ ~Blocks(cooldown) /\ ~Blocks(quota)
    /\ IF model = None THEN TRUE ELSE ~Blocks(model.until)

----------------------------------------------------------------------------
(* Attempts                                                                *)

Settle(a, outcome) ==
    attempt' = [attempt EXCEPT ![a] = [Fresh EXCEPT !.phase = outcome]]

\* Selection hands an attempt a permit and the health of the current runtime.
Select(a) ==
    /\ attempt[a].phase \in {"idle"} \union Ended
    /\ Available
    /\ attempt' = [attempt EXCEPT ![a] =
          [phase |-> "selected", token |-> token]]
    /\ UNCHANGED <<now, health>>

\* prepare_attempt: a request that cannot be built blames nobody.
Prepare(a) ==
    /\ attempt[a].phase = "selected"
    /\ attempt' = [attempt EXCEPT ![a].phase = "sending"]
    /\ UNCHANGED <<now, health>>

PrepareFails(a) ==
    /\ attempt[a].phase = "selected"
    /\ Settle(a, "ambiguous")
    /\ UNCHANGED <<now, health>>

\* The send, or the read of a body, fails in the transport: the breaker of the
\* failure's scope learns of it, the credential does not.
TransportFails(a, safety) ==
    /\ \/ attempt[a].phase = "sending"
       \/ attempt[a].phase = "collecting" /\ safety = "ambiguous"
    /\ Settle(a, safety)
    /\ UNCHANGED <<now, health>>

\* Response headers: a success status means that the upstream executes.
Responds(a, next) ==
    /\ attempt[a].phase = "sending"
    /\ attempt' = [attempt EXCEPT ![a].phase = next]
    /\ UNCHANGED <<now, health>>

\* upstream_failure: reported to the health of the credential and recorded.
UpstreamFails(a, class, hint, t) ==
    /\ RecordFailure(attempt[a].token, class, hint, t)
    /\ Settle(a, class.safety)
    /\ UNCHANGED <<now, token>>

\* collect_error_body ends; only a complete body is used to classify.
Refused(a, baseline, early, declared, hint, t) ==
    /\ attempt[a].phase = "refused"
    /\ UpstreamFails(a, Classify(baseline, early, declared), hint, t)

\* A buffered success body that is an error envelope; the protocol may know
\* better whether the request was executed.
EnvelopeFails(a, declared, override, t) ==
    /\ attempt[a].phase = "collecting"
    /\ LET class == Classify("unknown", FALSE, declared) IN
       UpstreamFails(a, IF override = None THEN class
                        ELSE [class EXCEPT !.safety = override], None, t)

\* invalid_response: too large, or not what the protocol says.
InvalidResponse(a) ==
    /\ attempt[a].phase = "collecting"
    /\ Settle(a, "ambiguous")
    /\ UNCHANGED <<now, health>>

\* fail_after_upstream_success: the upstream did its part, the gateway cannot
\* name, encode or bind the answer.
FailAfterSuccess(a) ==
    /\ attempt[a].phase = "collecting"
    /\ Settle(a, "ambiguous")
    /\ RecordSuccess
    /\ UNCHANGED <<now, token>>

\* The buffered answer: bind the continuation, commit the session, report.
Completes(a) ==
    /\ attempt[a].phase = "collecting"
    /\ Settle(a, "done")
    /\ RecordSuccess
    /\ UNCHANGED <<now, token>>

\* Drop of PreparedAttempt at an await.
Drop(a) ==
    /\ attempt[a].phase \in {"sending", "collecting", "refused"}
    /\ Settle(a, "done")
    /\ UNCHANGED <<now, health>>

----------------------------------------------------------------------------
(* The world                                                               *)

\* A refresh replaces the token: with_fresh_authentication keeps the rest.
Refresh ==
    /\ token < MaxToken
    /\ token' = token + 1
    /\ UNCHANGED <<now, auth_error, cooldown, model, quota, wake, attempt>>

\* A successful model probe clears the mark of the runtime it was given.
ProbeClears(v) ==
    /\ v <= token /\ auth_error[v]
    /\ auth_error' = [auth_error EXCEPT ![v] = FALSE]
    /\ UNCHANGED <<now, token, cooldown, model, quota, wake, attempt>>

\* clear_temporary_cooldowns, after a quota reset.
ClearCooldowns ==
    /\ cooldown' = None /\ model' = None /\ quota' = None
    /\ wake' = [slot \in DOMAIN wake |-> None]
    /\ UNCHANGED <<now, token, auth_error, attempt>>

\* The wake worker fires a slot whose deadline has come.
Fire(slot) ==
    /\ wake[slot] # None /\ wake[slot] <= now
    /\ wake' = [wake EXCEPT ![slot] = None]
    /\ UNCHANGED <<now, token, auth_error, cooldown, model, quota, attempt>>

Tick ==
    /\ now < MaxTime
    /\ now' = now + 1
    /\ UNCHANGED <<health, attempt>>

\* The clock is read before the lock is taken.
Readings == {t \in {now - 1, now} : t >= 0}

Ends(a) ==
    \/ \E s \in Ended \ {"done", "handed"} : TransportFails(a, s)
    \/ \E b \in Statuses, e \in BOOLEAN, d \in Codes \union {None},
          h \in Hints \union {None}, t \in Readings :
          /\ e => b = "transient"
          /\ Refused(a, b, e, d, h, t)
    \/ \E d \in Codes \union {None}, t \in Readings,
          o \in {None, "ambiguous", "rejected_before_execution"} :
          EnvelopeFails(a, d, o, t)
    \/ InvalidResponse(a)
    \/ FailAfterSuccess(a) \/ Completes(a)
    \/ Drop(a)

Next ==
    \/ \E a \in Attempts :
          \/ Select(a)
          \/ Prepare(a) \/ PrepareFails(a)
          \/ \E next \in {"refused", "collecting", "handed"} : Responds(a, next)
          \/ Ends(a)
    \/ Refresh \/ ClearCooldowns \/ \E v \in 1..MaxToken : ProbeClears(v)
    \/ Tick
    \/ \E slot \in DOMAIN wake : Fire(slot)

Spec == Init /\ [][Next]_vars

----------------------------------------------------------------------------

TypeOK ==
    /\ now \in 0..MaxTime /\ token \in 1..MaxToken
    /\ \A a \in Attempts : attempt[a].phase \in
          {"idle", "selected", "sending", "refused", "collecting"} \union Ended

(***************************************************************************)
(* Whatever blocks the credential for a while has its wake scheduled for   *)
(* exactly the moment it ends, so a queued request does not sleep past it  *)
(* (record_model_cooldown, record_quota_exhaustion, record, record_success *)
(* and clear_temporary_cooldowns, each with its own slot).                 *)
(***************************************************************************)
BlocksAreWoken ==
    /\ Blocks(cooldown) => wake["cooldown"] = cooldown
    /\ Blocks(quota) => wake["quota"] = quota
    /\ model # None => (Blocks(model.until) => wake["model"] = model.until)

(***************************************************************************)
(* An attempt that was selected with an older token never makes the        *)
(* refreshed credential look rejected: only attempts with the current      *)
(* token turn on its authentication error (with_fresh_authentication).     *)
(***************************************************************************)
LateRejectionsSpareNewTokens ==
    (~auth_error[token] /\ token' = token /\ auth_error'[token]) =>
        \E a \in Attempts : /\ attempt[a].token = token
                            /\ attempt'[a].phase \in Ended
=============================================================================
