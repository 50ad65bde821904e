---------------------------- MODULE RequestRetry ----------------------------
(***************************************************************************)
(* One public request from its first selection to its answer: select a     *)
(* candidate, check the configuration once more, start an attempt, decide  *)
(* from its failure whether and where to try again, all inside one budget  *)
(* of attempts, credential switches and time.  Meanwhile configurations    *)
(* are published (replace, notify, revoke admissions), tokens refreshed    *)
(* and other requests of the session bind it to a credential.              *)
(*                                                                         *)
(* Which of the eligible candidates a scan returns, and whether it is rate *)
(* limited or cooling down, is left open here: SelectionQueue,             *)
(* RpmAdmission and EndpointHealth model that.                             *)
(***************************************************************************)
EXTENDS Integers, Sequences, FiniteSets, FiniteSetsExt, FiniteSetTheorems, TLAPS

CONSTANTS
  Candidates,        \* [target, model, credential, endpoint, proxy] records
  OAuthCredentials,  \* the credentials that are OAuth accounts
  Affinities,        \* the kinds of IngressAffinity a request may have
  Failures,          \* the ways an attempt may fail
  Changes,           \* the kinds of configuration change published
  MaxTotalAttempts,  \* reliability policy: max_total_attempts
  MaxSwitches,       \* max_credential_switches
  MaxSameRetries,    \* max_same_credential_retries
  BaseDelay,         \* base_delay, in ticks (jitter_ratio is 0)
  MaxDelay,          \* max_delay
  Deadline,          \* precommit_total_budget: the budget's deadline
  MaxRevision,       \* bound: configurations published while it runs
  None               \* Option::None

Credentials == {c.credential : c \in Candidates}
Parts == UNION {{c.credential, c.endpoint, c.proxy} : c \in Candidates}
Scopes == {"ExactCandidate", "Credential", "CredentialModel",
           "RouteOperation", "EgressPath", "Proxy", "Endpoint"}

ASSUME CandidatesAssumption == IsFiniteSet(Candidates) /\ Candidates # {}
ASSUME AffinitiesAssumption ==
  Affinities \subseteq {"none", "session", "continuation"}
ASSUME ChangesAssumption ==
  Changes \subseteq {"edit", "disable", "enable", "token", "key", "model"}
ASSUME FailuresAssumption ==
  \A f \in Failures :
    /\ f.class \in {"transport", "upstream", "public"}
    /\ f.safe \in BOOLEAN /\ f.complete \in BOOLEAN
    /\ f.class # "upstream" => f.complete  \* only an answer has a body to cut off
    /\ f.scope \in Scopes
    /\ f.basis \in {"candidate", "request"}
    /\ f.retry_after \in Nat
ASSUME PolicyAssumption ==
  /\ {MaxTotalAttempts, BaseDelay, MaxDelay, Deadline} \subseteq Nat \ {0}
  /\ {MaxSwitches, MaxSameRetries, MaxRevision} \subseteq Nat
ASSUME NoneAssumption ==
  /\ None \notin Credentials /\ None \notin Failures
  /\ None \notin [kind : {"OAuthRefresh", "response"}]

VARIABLES
  clock,             \* the monotonic clock
  published,         \* SnapshotStore's current snapshot
  stage,             \* progress of the (serialized) publication
  watch,             \* the revision in the watch channel
  admitted,          \* the candidates whose route admission is active
  token_snapshot,    \* the snapshot that last published a refreshed token
  affinity,          \* the affinity of this request
  binding,           \* the credential target the session is bound to
  pc,                \* where the request is
  marked,            \* refresh() has marked the watch, not yet loaded
  seen,              \* the watch revision this request has marked
  routing,           \* routing_snapshot: what the current plan is made from
  selected,          \* the candidate of the selection or attempt at hand
  bound,             \* whether it was selected for a binding
  budget,            \* RetryBudget's counters
  excluded,          \* CandidateSelectionState: what may not be tried again
  deferred,          \* CandidateSelectionState: what may be tried only later
  previous,          \* previous_error: the attempt it came from, or 0
  failure,           \* the failure an OAuth refresh is awaited for
  refresh_attempted, \* oauth_refresh_attempted
  refreshed_target,  \* refreshed_oauth_target: <<account, token version>>
  rejected,          \* refreshed tokens reported as rejected
  header_owner,      \* credential_bound_header_owner
  wake_at,           \* end of the delay before a retry on the same path
  answer,            \* what the client gets
  log                \* history: the attempts, oldest first

publisherVars == <<published, stage, watch, admitted, token_snapshot>>
sessionVars == <<affinity, binding>>
environmentVars == <<clock, publisherVars, sessionVars>>
planVars == <<marked, seen, routing>>
choiceVars == <<selected, bound>>
recoveryVars == <<excluded, deferred, previous>>
oauthVars == <<failure, refresh_attempted, refreshed_target, rejected>>
attemptVars == <<budget, header_owner, log>>
vars == <<environmentVars, pc, planVars, choiceVars, recoveryVars, oauthVars,
          attemptVars, wake_at, answer>>

-----------------------------------------------------------------------------
(* Snapshots and the candidates planned from them.                         *)

RouteCandidate(s, c) ==
  [id |-> c,
   credential |-> <<c.credential, s.version[c.credential]>>,
   endpoint |-> <<c.endpoint, s.version[c.endpoint]>>,
   proxy |-> <<c.proxy, s.version[c.proxy]>>,
   admission |-> s.since[c],
   token |-> s.token[c.credential]]

Tiers(s) == {RouteCandidate(s, c) : c \in s.routes}

AdmissionActive(r) == <<r.id, r.admission>> \in admitted

Identity(r) == <<r.id, r.credential, r.endpoint, r.proxy>>

BindingTarget(c) == <<c.target, c.credential, c.model>>

\* The versions of the parts a candidate is made of: its admission is new
\* whenever one of them changes or the candidate comes back.
SameRoute(s, t, c) ==
  /\ c \in s.routes
  /\ \A x \in {c.credential, c.endpoint, c.proxy} :
        s.version[x] = t.version[x]

Admissions(s) == {<<c, s.since[c]>> : c \in s.routes}

-----------------------------------------------------------------------------
(* RetryBudget.                                                            *)

Remaining == Deadline - clock

CanRetry == budget.attempts < MaxTotalAttempts /\ Remaining > 0

CanWait(delay) == delay < Remaining

CanRegisterAttempt(c) ==
  /\ CanRetry
  /\ budget.last \notin {None, c} => budget.switches < MaxSwitches
  /\ budget.by_credential[c] <= MaxSameRetries

Lookup(counts, key) == IF key \in DOMAIN counts THEN counts[key] ELSE 0

\* Mutant: remembers the first credential instead of the last one.
RegisterKeepsFirst(r) ==
  LET c == r.id.credential  i == Identity(r) IN
  budget' =
    [attempts |-> budget.attempts + 1,
     switches |-> IF budget.last \in {None, c} THEN budget.switches
                                               ELSE budget.switches + 1,
     last |-> IF budget.last = None THEN c ELSE budget.last,
     by_credential |-> [budget.by_credential EXCEPT ![c] = @ + 1],
     by_candidate |->
       [k \in DOMAIN budget.by_candidate \cup {i} |->
          Lookup(budget.by_candidate, k) + (IF k = i THEN 1 ELSE 0)]]

RegisterAttempt(r) ==
  LET c == r.id.credential  i == Identity(r) IN
  budget' =
    [attempts |-> budget.attempts + 1,
     switches |-> IF budget.last \in {None, c} THEN budget.switches
                                               ELSE budget.switches + 1,
     last |-> c,
     by_credential |-> [budget.by_credential EXCEPT ![c] = @ + 1],
     by_candidate |->
       [k \in DOMAIN budget.by_candidate \cup {i} |->
          Lookup(budget.by_candidate, k) + (IF k = i THEN 1 ELSE 0)]]

DelayForAttemptCount(n, retry_after) ==
  Max({Min({BaseDelay * 2^(n - 1), MaxDelay}), retry_after})

RetryDelay(f, r) ==
  DelayForAttemptCount(
    IF f.basis = "candidate" THEN budget.by_candidate[Identity(r)]
                             ELSE budget.attempts,
    f.retry_after)

-----------------------------------------------------------------------------
(* CandidateSelectionState: a failure rules out, or puts off, its scope.   *)

\* Mutant: an exclusion of a credential ends with its generation.
ScopeKeyByGeneration(scope, r) ==
  CASE scope = "ExactCandidate" -> Identity(r)
    [] scope = "Credential" -> <<r.credential>>
    [] scope = "CredentialModel" -> <<r.credential, r.id.model>>
    [] scope = "RouteOperation" -> <<r.id.target>>
    [] scope = "EgressPath" -> <<r.endpoint, r.proxy>>
    [] scope = "Proxy" -> <<r.id.proxy>>
    [] scope = "Endpoint" -> <<r.id.endpoint>>

\* What two candidates must share for an exclusion of one to reach the other.
ScopeKey(scope, r) ==
  CASE scope = "ExactCandidate" -> Identity(r)
    [] scope = "Credential" -> <<r.id.credential>>
    [] scope = "CredentialModel" -> <<r.credential, r.id.model>>
    [] scope = "RouteOperation" -> <<r.id.target>>
    [] scope = "EgressPath" -> <<r.endpoint, r.proxy>>
    [] scope = "Proxy" -> <<r.id.proxy>>
    [] scope = "Endpoint" -> <<r.id.endpoint>>

\* Mutant: only the candidate that failed is put off, not its credential.
DeferralKeyOfCandidate(scope, r) == Identity(r)

\* A deferral of a credential, unlike its exclusion, ends with its generation.
DeferralKey(scope, r) ==
  IF scope = "Credential" THEN <<r.credential>> ELSE ScopeKey(scope, r)

Exclude(r, scope) ==
  /\ excluded' = excluded \cup {<<scope, ScopeKey(scope, r)>>}
  /\ UNCHANGED deferred

Defer(r, scope, until) ==
  LET key == <<scope, DeferralKey(scope, r)>> IN
  /\ deferred' = [k \in DOMAIN deferred \cup {key} |->
                    IF k = key THEN Max({until, Lookup(deferred, key)})
                               ELSE deferred[k]]
  /\ UNCHANGED excluded

Allows(r) == \A scope \in Scopes : <<scope, ScopeKey(scope, r)>> \notin excluded

DeferredUntil(r) ==
  Max({0} \cup {Lookup(deferred, <<scope, DeferralKey(scope, r)>>) :
                  scope \in Scopes})

-----------------------------------------------------------------------------
(* The decision after a failed attempt.                                    *)

HardKinds == {"Authentication", "PermissionDenied", "QuotaExhausted",
              "ModelUnavailable", "OperationUnavailable"}

\* oauth_authentication_target: the token the upstream safely rejected.
AuthenticationTarget(f, r) ==
  IF /\ f.class = "upstream" /\ f.kind = "Authentication" /\ f.safe
     /\ r.id.credential \in OAuthCredentials
  THEN <<r.id.credential, r.token>>
  ELSE None

Terminal == [kind |-> "Terminal"]
SamePath(delay) == [kind |-> "RetrySamePath", delay |-> delay]

\* Mutant: a transport failure is retried also after the request was sent.
FinalUnlessTransport(f) ==
  \/ ~CanRetry
  \/ f.class = "public"
  \/ f.class = "upstream"
       /\ (~f.safe \/ ~f.complete \/ f.kind = "InvalidRequest")

\* The failure may not be retried whatever candidates are left.
Final(f) ==
  \/ ~CanRetry
  \/ f.class = "public"
  \/ ~f.safe
  \/ f.class = "upstream" /\ (~f.complete \/ f.kind = "InvalidRequest")

RetryDecision(f, r, isBound, canRefresh) ==
  CASE Final(f) -> Terminal
    [] ~Final(f) /\ f.class = "transport" ->
         IF isBound THEN SamePath(RetryDelay(f, r))
                    ELSE [kind |-> "Reselect", scope |-> f.scope]
    [] ~Final(f) /\ f.class = "upstream" ->
         IF canRefresh /\ AuthenticationTarget(f, r) # None
         THEN [kind |-> "OAuthRefresh"]
         ELSE IF isBound
         THEN IF f.kind \in HardKinds THEN Terminal ELSE SamePath(RetryDelay(f, r))
         ELSE IF f.kind \in HardKinds
         THEN [kind |-> "Reselect", scope |-> f.scope]
         ELSE [kind |-> "PreferAlternate", scope |-> f.scope,
               delay |-> RetryDelay(f, r)]

-----------------------------------------------------------------------------
(* Answers.  An error of an earlier attempt outranks a local one.          *)

Local(error) == [kind |-> error, attempt |-> 0]
OfAttempt(n) == [kind |-> "attempt failure", attempt |-> n]
PreviousOr(error) == IF previous = 0 THEN Local(error) ELSE OfAttempt(previous)

Answer(a) == pc' = "done" /\ answer' = a
Continue(next) == pc' = next /\ UNCHANGED answer

NewBudget ==
  [attempts |-> 0, switches |-> 0, last |-> None,
   by_credential |-> [c \in Credentials |-> 0], by_candidate |-> <<>>]

FirstSnapshot ==
  [rev |-> 0, routes |-> Candidates, since |-> [c \in Candidates |-> 0],
   version |-> [x \in Parts |-> 0], token |-> [c \in Credentials |-> 0],
   key |-> TRUE, offered |-> TRUE]

Init ==
  /\ clock = 0
  /\ published = FirstSnapshot /\ stage = "idle" /\ watch = 0
  /\ admitted = Admissions(FirstSnapshot)
  /\ token_snapshot = FirstSnapshot
  /\ affinity \in Affinities
  /\ binding \in IF affinity = "none" THEN {None}
                 ELSE {None} \cup {BindingTarget(c) : c \in Candidates}
  /\ pc = "run" /\ marked = FALSE /\ seen = 0 /\ routing = FirstSnapshot
  /\ selected = None /\ bound = FALSE
  /\ budget = NewBudget /\ header_owner = None /\ log = <<>>
  /\ excluded = {} /\ deferred = <<>> /\ previous = 0
  /\ failure = None /\ refresh_attempted = FALSE
  /\ refreshed_target = None /\ rejected = {}
  /\ wake_at = 0 /\ answer = None

-----------------------------------------------------------------------------
(* The publisher, the clock and the other requests.                        *)

Changed(s, kind) ==
  CASE kind = "edit" ->
         {[s EXCEPT !.version[x] = @ + 1] : x \in Parts}
    [] kind = "disable" -> {[s EXCEPT !.routes = @ \ {c}] : c \in s.routes}
    [] kind = "enable" ->
         {[s EXCEPT !.routes = @ \cup {c}] : c \in Candidates \ s.routes}
    [] kind = "token" ->
         {[s EXCEPT !.token[c] = @ + 1] : c \in OAuthCredentials}
    [] kind = "key" -> {[s EXCEPT !.key = ~@]}
    [] kind = "model" -> {[s EXCEPT !.offered = ~@]}

\* Compile and store the next snapshot.
Replace(kind) ==
  /\ stage = "idle" /\ published.rev < MaxRevision /\ pc # "done"
  /\ \E t \in Changed(published, kind) :
       LET s == [t EXCEPT !.rev = @ + 1,
                   !.since = [c \in Candidates |->
                     IF c \in t.routes /\ ~SameRoute(published, t, c)
                     THEN published.rev + 1 ELSE published.since[c]]]
       IN /\ published' = s
          /\ admitted' = admitted \cup Admissions(s)
          /\ token_snapshot' = IF kind = "token" THEN s ELSE token_snapshot
  /\ stage' = "notify"
  /\ UNCHANGED <<clock, watch, sessionVars, pc, planVars, choiceVars, recoveryVars,
                 oauthVars, attemptVars, wake_at, answer>>

Notify ==
  /\ stage = "notify"
  /\ watch' = published.rev /\ stage' = "revoke"
  /\ UNCHANGED <<clock, published, admitted, token_snapshot, sessionVars, pc,
                 planVars, choiceVars, recoveryVars, oauthVars, attemptVars,
                 wake_at, answer>>

RevokeAdmissions ==
  /\ stage = "revoke"
  /\ admitted' = Admissions(published) /\ stage' = "idle"
  /\ UNCHANGED <<clock, published, watch, token_snapshot, sessionVars, pc, planVars,
                 choiceVars, recoveryVars, oauthVars, attemptVars, wake_at,
                 answer>>

\* Another request of the session succeeds and commits its binding.
BindSession(c) ==
  /\ affinity = "session" /\ binding = None /\ pc # "done"
  /\ c \in published.routes
  /\ binding' = BindingTarget(c)
  /\ UNCHANGED <<clock, affinity, publisherVars, pc, planVars, choiceVars,
                 recoveryVars, oauthVars, attemptVars, wake_at, answer>>

Tick ==
  /\ clock < Deadline /\ pc # "done"
  /\ clock' = clock + 1
  /\ UNCHANGED <<publisherVars, sessionVars, pc, planVars, choiceVars, recoveryVars,
                 oauthVars, attemptVars, wake_at, answer>>

-----------------------------------------------------------------------------
(* Keeping the plan current: refresh() and rebase_to().                    *)

\* First half of LiveRoutingSnapshots::refresh: mark the watch value seen.
MarkSeen ==
  /\ pc \in {"run", "revision", "execute"} /\ ~marked
  /\ marked' = TRUE /\ seen' = watch
  /\ UNCHANGED <<environmentVars, pc, routing, choiceVars, recoveryVars,
                 oauthVars, attemptVars, wake_at, answer>>

\* Mutant: the plan is rebased without validating the key again.
RebaseUnvalidated(s, notFound) ==
  \/ /\ s.offered
     /\ routing' = s /\ Continue("select")
  \/ ~s.offered /\ Answer(notFound) /\ UNCHANGED routing

\* Validate the Gateway API Key, plan again, or answer with the error.
RebaseTo(s, notFound) ==
  \/ /\ s.key /\ s.offered
     /\ routing' = s /\ Continue("select")
  \/ ~s.key /\ Answer(Local("unauthorized")) /\ UNCHANGED routing
  \/ s.key /\ ~s.offered /\ Answer(notFound) /\ UNCHANGED routing

Stale == published.rev # routing.rev

\* Second half of refresh, in run() before the loop.
Run ==
  /\ pc = "run" /\ marked
  /\ marked' = FALSE
  /\ \/ ~Stale /\ Continue("select") /\ UNCHANGED routing
     \/ Stale /\ RebaseTo(published, Local("not found"))
  /\ UNCHANGED <<environmentVars, seen, choiceVars, recoveryVars, oauthVars,
                 attemptVars, wake_at>>

\* changed() is polled first and has a revision this request has not marked.
RevisionWake ==
  /\ pc = "select" /\ seen # watch
  /\ Continue("revision")
  /\ UNCHANGED <<environmentVars, planVars, choiceVars, recoveryVars, oauthVars,
                 attemptVars, wake_at>>

RefreshWhileSelecting ==
  /\ pc = "revision" /\ marked
  /\ marked' = FALSE
  /\ \/ ~Stale /\ Continue("select") /\ UNCHANGED routing
     \/ Stale /\ RebaseTo(published, PreviousOr("not found"))
  /\ UNCHANGED <<environmentVars, seen, choiceVars, recoveryVars, oauthVars,
                 attemptVars, wake_at>>

-----------------------------------------------------------------------------
(* Selection.                                                              *)

\* The top of the loop finds the budget spent.
BudgetSpent ==
  /\ pc = "select" /\ Remaining = 0
  /\ Answer(PreviousOr("timeout"))
  /\ UNCHANGED <<environmentVars, planVars, choiceVars, recoveryVars, oauthVars,
                 attemptVars, wake_at>>

\* changed() is pending: the selection is polled next.
PollSelection ==
  /\ pc = "select" /\ seen = watch
  /\ Continue("polling")
  /\ UNCHANGED <<environmentVars, planVars, choiceVars, recoveryVars, oauthVars,
                 attemptVars, wake_at>>

Choose(r, isBound) ==
  /\ selected' = r /\ bound' = isBound
  /\ Continue("execute")
  /\ UNCHANGED <<environmentVars, planVars, recoveryVars, oauthVars,
                 attemptVars, wake_at>>

\* A candidate the scan may return.
Eligible(r) ==
  /\ AdmissionActive(r)
  /\ Allows(r)
  /\ CanRegisterAttempt(r.id.credential)
  /\ DeferredUntil(r) <= clock

SelectUnbound(r) ==
  /\ pc = "polling"
  /\ affinity # "continuation" /\ binding = None
  /\ Eligible(r)
  /\ Choose(r, FALSE)

\* select_bound ignores the selection state: there is nothing else to try.
SelectBound(r) ==
  /\ pc = "polling"
  /\ binding = BindingTarget(r.id)
  /\ AdmissionActive(r) /\ CanRegisterAttempt(r.id.credential)
  /\ Choose(r, TRUE)

\* No candidate is left, all are rate limited or cooling down and the wait
\* is refused or over, or the binding is lost.
SelectionFails(error) ==
  /\ pc = "polling"
  /\ error = "binding lost" => affinity # "none"
  /\ Answer(PreviousOr(error))
  /\ UNCHANGED <<environmentVars, planVars, choiceVars, recoveryVars, oauthVars,
                 attemptVars, wake_at>>

\* Mutant: the timer of the budget does not wake a pending selection.
SelectionPendingForever ==
  /\ pc = "polling" /\ Continue("select")
  /\ UNCHANGED <<environmentVars, planVars, choiceVars, recoveryVars, oauthVars,
                 attemptVars, wake_at>>

SelectionPending ==
  /\ pc = "polling"
  /\ \/ Remaining > 0 /\ Continue("select")
     \/ Remaining = 0 /\ Answer(PreviousOr("timeout"))
  /\ UNCHANGED <<environmentVars, planVars, choiceVars, recoveryVars, oauthVars,
                 attemptVars, wake_at>>

-----------------------------------------------------------------------------
(* execute_attempt.                                                        *)

\* Second half of refresh: a newer snapshot rolls the selection back.
CheckPlan ==
  /\ pc = "execute" /\ marked
  /\ marked' = FALSE
  /\ \/ ~Stale /\ Continue("start") /\ UNCHANGED <<routing, choiceVars>>
     \/ /\ Stale /\ RebaseTo(published, PreviousOr("not found"))
        /\ selected' = None /\ bound' = FALSE
  /\ UNCHANGED <<environmentVars, seen, recoveryVars, oauthVars, attemptVars,
                 wake_at>>

\* The admission was revoked since the check: try_start_attempt refuses.
StartRejected ==
  /\ pc = "start" /\ ~AdmissionActive(selected)
  /\ \/ bound /\ Answer(Local("binding lost"))
     \/ ~bound /\ Continue("select")
  /\ selected' = None /\ bound' = FALSE
  /\ UNCHANGED <<environmentVars, planVars, recoveryVars, oauthVars,
                 attemptVars, wake_at>>

\* Mutant: the refusal answers with the timeout, whatever failed before.
RegisterRefusedTimesOut ==
  /\ pc = "start" /\ AdmissionActive(selected)
  /\ ~CanRegisterAttempt(selected.id.credential)
  /\ Answer(Local("timeout"))
  /\ UNCHANGED <<environmentVars, planVars, choiceVars, recoveryVars, oauthVars,
                 attemptVars, wake_at>>

\* The time ran out since the selection: the permit is rolled back.
RegisterRefused ==
  /\ pc = "start" /\ AdmissionActive(selected)
  /\ ~CanRegisterAttempt(selected.id.credential)
  /\ Answer(PreviousOr("timeout"))
  /\ UNCHANGED <<environmentVars, planVars, choiceVars, recoveryVars, oauthVars,
                 attemptVars, wake_at>>

\* Mutant: a switch makes the next credential the owner.
AllowHeadersOfLast(c) == budget.last \in {None, c} \/ header_owner = budget.last

AllowBoundHeaders(c) == header_owner \in {None, c}

OwnHeaders(c) == header_owner' = IF header_owner = None THEN c ELSE header_owner

StartAttempt ==
  LET c == selected.id.credential IN
  /\ pc = "start" /\ AdmissionActive(selected) /\ CanRegisterAttempt(c)
  /\ RegisterAttempt(selected) /\ OwnHeaders(c)
  /\ log' = Append(log, [on |-> selected, bound |-> bound, at |-> clock,
                         headers |-> AllowBoundHeaders(c),
                         failure |-> None, decision |-> None])
  /\ Continue("attempt")
  /\ UNCHANGED <<environmentVars, planVars, choiceVars, recoveryVars, oauthVars,
                 wake_at>>

Succeed ==
  /\ pc = "attempt"
  /\ Answer([kind |-> "response", attempt |-> budget.attempts])
  /\ UNCHANGED <<environmentVars, planVars, choiceVars, recoveryVars, oauthVars,
                 attemptVars, wake_at>>

\* within_attempt_budget: the deadline passes with the attempt still running.
AttemptTimesOut ==
  /\ pc = "attempt" /\ Remaining = 0
  /\ Answer(PreviousOr("timeout"))
  /\ UNCHANGED <<environmentVars, planVars, choiceVars, recoveryVars, oauthVars,
                 attemptVars, wake_at>>

-----------------------------------------------------------------------------
(* handle_failure.                                                         *)

Record(f, decision) ==
  log' = [log EXCEPT ![Len(log)] =
            [on |-> @.on, bound |-> @.bound, at |-> @.at, headers |-> @.headers,
             failure |-> f, decision |-> decision]]

\* apply_retry_decision; only a retry on the same path has to fit its wait.
Apply(f, d) ==
  LET refused == d.kind = "RetrySamePath" /\ ~CanWait(d.delay)
      decision == IF refused THEN Terminal ELSE d
  IN
  /\ Record(f, decision)
  /\ IF decision = Terminal
     THEN /\ Answer(OfAttempt(budget.attempts))
          /\ UNCHANGED <<recoveryVars, wake_at>>
     ELSE /\ previous' = budget.attempts
          /\ CASE d.kind = "RetrySamePath" ->
                    /\ wake_at' = clock + d.delay /\ Continue("waiting")
                    /\ UNCHANGED <<excluded, deferred>>
               [] d.kind = "Reselect" ->
                    /\ Exclude(selected, d.scope) /\ Continue("select")
                    /\ UNCHANGED wake_at
               [] d.kind = "PreferAlternate" ->
                    /\ Defer(selected, d.scope, clock + d.delay)
                    /\ Continue("select")
                    /\ UNCHANGED wake_at

\* Mutant: compares the account, not the token version.
NoteRejectedAccount(f) ==
  IF /\ refreshed_target # None
     /\ AuthenticationTarget(f, selected) # None
     /\ AuthenticationTarget(f, selected)[1] = refreshed_target[1]
  THEN /\ rejected' = rejected \cup {refreshed_target}
       /\ refreshed_target' = None
  ELSE UNCHANGED <<rejected, refreshed_target>>

\* note_rejected_refreshed_token.
NoteRejected(f) ==
  IF /\ refreshed_target # None
     /\ AuthenticationTarget(f, selected) = refreshed_target
  THEN /\ rejected' = rejected \cup {refreshed_target}
       /\ refreshed_target' = None
  ELSE UNCHANGED <<rejected, refreshed_target>>

CanRefreshOAuth(f) ==
  /\ ~refresh_attempted
  /\ f.class # "public" /\ CanRegisterAttempt(selected.id.credential)

HandleFailure(f) ==
  LET d == RetryDecision(f, selected, bound, CanRefreshOAuth(f)) IN
  /\ pc = "attempt"
  /\ NoteRejected(f)
  /\ IF d.kind = "OAuthRefresh"
     THEN /\ refresh_attempted' = TRUE /\ failure' = f
          /\ Continue("refreshing")
          /\ UNCHANGED <<recoveryVars, log, wake_at>>
     ELSE /\ Apply(f, d)
          /\ UNCHANGED <<refresh_attempted, failure>>
  /\ UNCHANGED <<environmentVars, planVars, choiceVars, budget, header_owner>>

\* The refresh fails or outlasts the budget: decide again without it.
RefreshFails ==
  /\ pc = "refreshing"
  /\ Apply(failure, RetryDecision(failure, selected, bound, FALSE))
  /\ failure' = None
  /\ UNCHANGED <<environmentVars, planVars, choiceVars, budget, header_owner,
                 refresh_attempted, refreshed_target, rejected>>

\* Mutant: marks the watch as seen after rebasing.
RefreshReturnsMarks(s) ==
  LET c == selected.id.credential IN
  /\ pc = "refreshing" /\ s.token[c] > selected.token
  /\ RebaseTo(s, Local("not found"))
  /\ IF s.key /\ s.offered
     THEN /\ refreshed_target' = <<c, s.token[c]>>
          /\ previous' = budget.attempts
          /\ Record(failure, [kind |-> "OAuthRefresh"])
     ELSE UNCHANGED <<refreshed_target, previous, log>>
  /\ failure' = None
  /\ seen' = watch
  /\ UNCHANGED <<environmentVars, marked, choiceVars, excluded, deferred,
                 refresh_attempted, rejected, budget, header_owner, wake_at>>

\* Mutant: takes any snapshot the refresher holds for a newer one.
RefreshReturnsAnything(s) ==
  LET c == selected.id.credential IN
  /\ pc = "refreshing"
  /\ RebaseTo(s, Local("not found"))
  /\ IF s.key /\ s.offered
     THEN /\ refreshed_target' = <<c, s.token[c]>>
          /\ previous' = budget.attempts
          /\ Record(failure, [kind |-> "OAuthRefresh"])
     ELSE UNCHANGED <<refreshed_target, previous, log>>
  /\ failure' = None
  /\ UNCHANGED <<environmentVars, marked, seen, choiceVars, excluded, deferred,
                 refresh_attempted, rejected, budget, header_owner, wake_at>>

\* A newer token is out: published by this refresh, or already there.
RefreshReturns(s) ==
  LET c == selected.id.credential IN
  /\ pc = "refreshing" /\ s.token[c] > selected.token
  /\ RebaseTo(s, Local("not found"))
  /\ IF s.key /\ s.offered
     THEN /\ refreshed_target' = <<c, s.token[c]>>
          /\ previous' = budget.attempts
          /\ Record(failure, [kind |-> "OAuthRefresh"])
     ELSE UNCHANGED <<refreshed_target, previous, log>>
  /\ failure' = None
  /\ UNCHANGED <<environmentVars, marked, seen, choiceVars, excluded, deferred,
                 refresh_attempted, rejected, budget, header_owner, wake_at>>

\* wait_retry_delay.
DelayElapsed ==
  /\ pc = "waiting" /\ clock >= wake_at
  /\ Continue("select")
  /\ UNCHANGED <<environmentVars, planVars, choiceVars, recoveryVars, oauthVars,
                 attemptVars, wake_at>>

-----------------------------------------------------------------------------

Publish ==
  \/ \E kind \in Changes : Replace(kind)
  \/ Notify
  \/ RevokeAdmissions

Select ==
  \/ MarkSeen \/ Run
  \/ RevisionWake \/ RefreshWhileSelecting
  \/ BudgetSpent \/ PollSelection
  \/ \E r \in Tiers(routing) : SelectUnbound(r) \/ SelectBound(r)
  \/ \E error \in {"unavailable", "binding lost"} : SelectionFails(error)
  \/ SelectionPending

Attempt ==
  \/ CheckPlan \/ StartRejected \/ RegisterRefused \/ StartAttempt
  \/ Succeed \/ AttemptTimesOut
  \/ \E f \in Failures : HandleFailure(f)
  \/ RefreshFails
  \/ \E s \in {published, token_snapshot} : RefreshReturns(s)
  \/ DelayElapsed

Answered == pc = "done" /\ stage = "idle" /\ UNCHANGED vars

Next ==
  \/ Publish
  \/ \E c \in Candidates : BindSession(c)
  \/ Tick
  \/ Select
  \/ Attempt
  \/ Answered

\* The task is polled, its timers fire, and the refresh it awaits is bounded
\* by a timeout; only the upstream may stay silent until the deadline.
Fairness ==
  /\ WF_vars(Tick) /\ WF_vars(Publish) /\ WF_vars(Select)
  /\ WF_vars(CheckPlan \/ StartRejected \/ RegisterRefused \/ StartAttempt)
  /\ WF_vars(AttemptTimesOut) /\ WF_vars(RefreshFails) /\ WF_vars(DelayElapsed)

Spec == Init /\ [][Next]_vars /\ Fairness

-----------------------------------------------------------------------------
(* Properties.                                                             *)

Attempts == 1..Len(log)

\* A failure the upstream may have executed (an ambiguous one, a cut off
\* error body, a success) is never followed by another attempt: whatever the
\* budget, the binding and a token refresh allow, the request is not replayed
\* (retry_decision, docs/architecture/routing-and-streaming.md:60-61).
NoReplay ==
  \A i \in Attempts :
    i < Len(log) => /\ log[i].failure # None
                    /\ log[i].failure.safe /\ log[i].failure.complete

\* However selections are rolled back, refused and repeated and tokens
\* refreshed, the attempts that really started respect the three limits of
\* the reliability policy (RetryBudget::register_attempt).
WithinLimits ==
  /\ Len(log) <= MaxTotalAttempts
  /\ \A c \in Credentials :
       Cardinality({i \in Attempts : log[i].on.id.credential = c})
         <= MaxSameRetries + 1
  /\ Cardinality({i \in Attempts : i > 1 /\ log[i].on.id.credential
                                        # log[i - 1].on.id.credential})
       <= MaxSwitches

\* What an attempt on q has in common with the failed one on r, read from
\* the candidates themselves.
Shares(scope, r, q) ==
  \/ scope = "Credential" /\ q.id.credential = r.id.credential
  \/ scope = "Endpoint" /\ q.id.endpoint = r.id.endpoint
  \/ scope = "Proxy" /\ q.id.proxy = r.id.proxy
  \/ scope = "RouteOperation" /\ q.id.target = r.id.target
  \/ /\ scope = "CredentialModel"
     /\ q.credential = r.credential /\ q.id.model = r.id.model
  \/ scope = "EgressPath" /\ q.endpoint = r.endpoint /\ q.proxy = r.proxy
  \/ scope = "ExactCandidate" /\ Identity(q) = Identity(r)

\* After a hard failure no unbound attempt of this request goes where the
\* failure was: a credential, endpoint, proxy or target is out for good, also
\* when it is edited and published meanwhile; a path or an exact candidate
\* until it is edited (apply_candidate_recovery, CandidateSelectionState).
HardFailuresStick ==
  \A i, j \in Attempts :
    (/\ i < j /\ ~log[j].bound
     /\ log[i].decision # None /\ log[i].decision.kind = "Reselect")
      => ~Shares(log[i].decision.scope, log[i].on, log[j].on)

\* After a soft failure an unbound attempt goes back to the same place only
\* once the delay is over, Retry-After included, on the same generation of
\* the credential (CandidateSelectionState::defer, deferred_until).
DelaysAreKept ==
  \A i, j \in Attempts :
    (/\ i < j /\ ~log[j].bound
     /\ log[i].decision # None /\ log[i].decision.kind = "PreferAlternate"
     /\ Shares(log[i].decision.scope, log[i].on, log[j].on)
     /\ log[j].on.credential = log[i].on.credential)
      => log[j].at >= log[i].at + log[i].failure.retry_after

\* A local timeout, or having no candidate left, is the answer only when no
\* attempt failed before: the upstream's own failure is never masked by them
\* (previous_or; the test previous_upstream_failure_wins_over_a_later_local_
\* timeout checks the helper, not the paths that reach it).
UpstreamFailureWins ==
  answer # None /\ answer.kind \in {"timeout", "unavailable"}
    => \A i \in Attempts : log[i].failure = None

\* Client headers bound to a credential reach only one credential, however
\* often the request changes candidates (credential_bound_header_owner).
HeadersStayWithOneCredential ==
  \A i, j \in Attempts :
    log[i].headers /\ log[j].headers
      => log[i].on.id.credential = log[j].on.id.credential

\* While no publication is running, a request that waits for a candidate with
\* an old plan has an unseen revision to wake it: marking the watch before
\* loading the snapshot loses no cutover (LiveRoutingSnapshots::refresh).
NoLostRevision ==
  (pc \in {"select", "polling", "waiting"} /\ stage = "idle" /\ Stale)
    => seen # watch

\* What passes the last check before an attempt is what is published at that
\* moment: the key is valid, the model offered and the candidate, with these
\* versions and this token, part of the configuration (execute_attempt).
ChecksTheLatest ==
  [][pc = "execute" /\ pc' = "start"
      => /\ published.key /\ published.offered
         /\ selected \in Tiers(published)]_vars

\* The plan never goes back to an older snapshot, although a token refresh
\* hands over the one it published long ago (refresh_oauth, rebase_to).
PlanAdvances == [][routing'.rev >= routing.rev]_vars

\* A refreshed token is reported as rejected only if this request saw the
\* upstream reject an older token of the account and then this very one
\* (note_rejected_refreshed_token).
RejectionIsEarned ==
  \A t \in rejected :
    \E i, j \in Attempts :
      /\ i < j
      /\ log[i].decision # None /\ log[i].decision.kind = "OAuthRefresh"
      /\ log[i].on.id.credential = t[1] /\ log[i].on.token < t[2]
      /\ log[j].on.id.credential = t[1] /\ log[j].on.token = t[2]

\* The next attempt goes where the failures so far allow: not back to what
\* failed for good, to what failed for now only after its delay, with the
\* client's bound headers for one credential only; a refreshed token is
\* blamed only when it was tried, and no local time-out or refusal to select
\* takes the place of a failure the upstream has answered. (A binding that
\* is lost, a revoked key and a model that is gone are answered as such.)
FailuresAreHeeded ==
  /\ HardFailuresStick /\ DelaysAreKept
  /\ HeadersStayWithOneCredential /\ RejectionIsEarned
  /\ UpstreamFailureWins

\* Every request is answered: no loop of revisions, rollbacks, retries and
\* refreshes outlives the deadline, even if the upstream stays silent.
RequestEnds == <>(pc = "done")

-----------------------------------------------------------------------------
(* Proofs.                                                                 *)

(* The plan.  What the request plans with is never newer than what is      *)
(* published, and the same when it has the same revision; tokens only      *)
(* advance.                                                                *)
Snapshot ==
  [rev : Nat, routes : SUBSET Candidates, since : [Candidates -> Nat],
   version : [Parts -> Nat], token : [Credentials -> Nat],
   key : BOOLEAN, offered : BOOLEAN]

TokensUpTo(x, y) == \A c \in Credentials : x.token[c] <= y.token[c]
Older(x, y) == x.rev <= y.rev /\ (x.rev = y.rev => x = y) /\ TokensUpTo(x, y)

PlanTypes == {published, routing, token_snapshot} \subseteq Snapshot /\ watch \in Nat /\ seen \in Nat

Having == {"execute", "start", "attempt", "refreshing"}
Refreshing == {"run", "revision", "execute"}

PlanInv ==
  /\ PlanTypes
  /\ routing.key /\ routing.offered
  /\ Older(routing, published) /\ Older(token_snapshot, published)
  /\ token_snapshot.rev <= routing.rev => TokensUpTo(token_snapshot, routing)
  /\ seen <= watch /\ watch <= published.rev
  /\ stage # "notify" => watch = published.rev
  /\ marked => pc \in Refreshing
  /\ ~marked /\ pc # "done" => seen <= routing.rev
  /\ pc \in Having => selected \in Tiers(routing)

\* A snapshot is not newer than itself.
LEMMA OlderSelf == ASSUME NEW x \in Snapshot PROVE Older(x, x)
BY DEF Snapshot, Older, TokensUpTo

\* A request begins with the published snapshot.
LEMMA InitPlan == Init => PlanInv
<1> SUFFICES ASSUME Init PROVE PlanInv
  OBVIOUS
<1>1. FirstSnapshot \in Snapshot
  BY DEF FirstSnapshot, Snapshot
<1>2. PlanTypes /\ routing.key /\ routing.offered
  BY <1>1 DEF Init, PlanTypes, FirstSnapshot
<1>3. Older(FirstSnapshot, FirstSnapshot)
  BY <1>1, OlderSelf
<1>4. FirstSnapshot.rev = 0
  BY DEF FirstSnapshot
<1> QED BY <1>2, <1>3, <1>4 DEF Init, PlanInv, Having, Older

(* A change of any kind bumps nothing but the token backwards.             *)
LEMMA ChangedIsSnapshot ==
  ASSUME NEW s \in Snapshot, NEW kind \in Changes, NEW t \in Changed(s, kind),
         NEW since \in [Candidates -> Nat]
  PROVE  LET u == [t EXCEPT !.rev = @ + 1, !.since = since] IN
         u \in Snapshot /\ u.rev = s.rev + 1 /\ TokensUpTo(s, u)
<1>1. t \in Snapshot /\ t.rev = s.rev /\ TokensUpTo(s, t)
  <2>1. CASE kind = "edit"
    <3>1. PICK x \in Parts : t = [s EXCEPT !.version[x] = @ + 1]
      BY <2>1 DEF Changed
    <3> QED BY <3>1 DEF Snapshot, TokensUpTo
  <2>2. CASE kind = "disable"
    <3>1. PICK c \in s.routes : t = [s EXCEPT !.routes = @ \ {c}]
      BY <2>2 DEF Changed
    <3> QED BY <3>1 DEF Snapshot, TokensUpTo
  <2>3. CASE kind = "enable"
    <3>1. PICK c \in Candidates \ s.routes : t = [s EXCEPT !.routes = @ \cup {c}]
      BY <2>3 DEF Changed
    <3> QED BY <3>1 DEF Snapshot, TokensUpTo
  <2>4. CASE kind = "token"
    <3>1. PICK c \in OAuthCredentials : t = [s EXCEPT !.token[c] = @ + 1]
      BY <2>4 DEF Changed
    <3> QED BY <3>1 DEF Snapshot, TokensUpTo
  <2>5. CASE kind = "key"
    <3> DEFINE b == ~s.key
    <3>1. t = [s EXCEPT !.key = b] /\ b \in BOOLEAN
      BY <2>5 DEF Changed
    <3> HIDE DEF b
    <3> QED BY <3>1 DEF Snapshot, TokensUpTo
  <2>6. CASE kind = "model"
    <3> DEFINE b == ~s.offered
    <3>1. t = [s EXCEPT !.offered = b] /\ b \in BOOLEAN
      BY <2>6 DEF Changed
    <3> HIDE DEF b
    <3> QED BY <3>1 DEF Snapshot, TokensUpTo
  <2> QED BY <2>1, <2>2, <2>3, <2>4, <2>5, <2>6, ChangesAssumption
<1> DEFINE u == [t EXCEPT !.rev = @ + 1, !.since = since]
<1>2. u \in Snapshot
  <2> DEFINE n == t.rev + 1
  <2>1. n \in Nat
    BY <1>1 DEF Snapshot
  <2> HIDE DEF n
  <2>2. [t EXCEPT !.rev = n, !.since = since] \in Snapshot
    BY <1>1, <2>1 DEF Snapshot
  <2> QED BY <2>2 DEF n
<1>3. u.rev = s.rev + 1 /\ u.token = t.token
  BY <1>1 DEF Snapshot
<1> QED BY <1>1, <1>2, <1>3 DEF TokensUpTo

(* Publication.                                                            *)
LEMMA ReplacePlan == ASSUME PlanInv, NEW kind \in Changes, Replace(kind) PROVE PlanInv'
<1> USE DEF planVars, choiceVars
<1>1. PICK t \in Changed(published, kind) :
        LET s == [t EXCEPT !.rev = @ + 1,
                   !.since = [c \in Candidates |->
                     IF c \in t.routes /\ ~SameRoute(published, t, c)
                     THEN published.rev + 1 ELSE published.since[c]]]
        IN  published' = s /\ token_snapshot' = IF kind = "token" THEN s ELSE token_snapshot
  BY DEF Replace
<1> DEFINE g == [c \in Candidates |->
                   IF c \in t.routes /\ ~SameRoute(published, t, c)
                   THEN published.rev + 1 ELSE published.since[c]]
<1>2. g \in [Candidates -> Nat]
  BY DEF PlanInv, PlanTypes, Snapshot
<1>3. published' = [t EXCEPT !.rev = @ + 1, !.since = g] /\ token_snapshot' \in {published', token_snapshot}
  BY <1>1
<1> HIDE DEF g
<1>4. published' \in Snapshot /\ published'.rev = published.rev + 1 /\ TokensUpTo(published, published')
  BY <1>2, <1>3, ChangedIsSnapshot DEF PlanInv, PlanTypes
<1>5. /\ stage' = "notify" /\ stage = "idle"
      /\ UNCHANGED <<watch, seen, routing, marked, pc, selected>>
  BY DEF Replace
<1>6. PlanTypes'
  BY <1>3, <1>4, <1>5 DEF PlanInv, PlanTypes
<1>7. ASSUME NEW x \in Snapshot, Older(x, published) PROVE Older(x, published')
  BY <1>4, <1>7 DEF Older, TokensUpTo, Snapshot, PlanInv, PlanTypes
<1>8. Older(routing, published)' /\ Older(token_snapshot, published)'
  BY <1>3, <1>4, <1>5, <1>7, OlderSelf DEF PlanInv, PlanTypes
<1>9. token_snapshot'.rev <= routing'.rev => TokensUpTo(token_snapshot, routing)'
  <2>1. CASE token_snapshot' = token_snapshot
    BY <2>1, <1>5 DEF PlanInv, TokensUpTo
  <2>2. CASE token_snapshot' = published'
    BY <2>2, <1>4, <1>5 DEF PlanInv, PlanTypes, Snapshot, Older
  <2> QED BY <2>1, <2>2, <1>3
<1>10. (seen <= watch /\ watch <= published.rev)'
  BY <1>4, <1>5 DEF PlanInv, PlanTypes, Snapshot
<1>11. (pc \in Having => selected \in Tiers(routing))'
  BY <1>5 DEF PlanInv, Tiers, RouteCandidate
<1> QED BY <1>5, <1>6, <1>8, <1>9, <1>10, <1>11 DEF PlanInv

(* The request, the clock and the other requests leave what is published.  *)
LEMMA StayPlan ==
  ASSUME PlanInv, UNCHANGED <<published, token_snapshot, stage, watch, seen, marked, routing>>,
         marked => pc' \in Refreshing, pc = "done" => pc' = "done",
         pc' \in Having => (pc \in Having /\ selected' = selected) \/ selected' \in Tiers(routing)
  PROVE  PlanInv'
<1>1. Tiers(routing)' = Tiers(routing)
  BY DEF Tiers, RouteCandidate
<1> QED BY <1>1 DEF PlanInv, PlanTypes, Older, TokensUpTo

(* After the watch was marked the snapshot is loaded: the plan is that     *)
(* snapshot's now, or the request is answered.                             *)
LEMMA LoadPlan ==
  ASSUME PlanInv, UNCHANGED <<published, token_snapshot, stage, watch, seen>>, marked, ~marked',
         \/ pc' = "done" /\ routing' = routing
         \/ ~Stale /\ routing' = routing /\ pc' = "select"
         \/ ~Stale /\ routing' = routing /\ pc' = "start" /\ pc \in Having /\ selected' = selected
         \/ published.key /\ published.offered /\ routing' = published /\ pc' = "select"
  PROVE  PlanInv' /\ routing.rev <= routing'.rev
<1> USE DEF PlanInv
<1>1. {published, routing} \subseteq Snapshot /\ {published.rev, routing.rev, seen, watch} \subseteq Nat
  BY DEF PlanTypes, Snapshot
<1>2. PlanTypes' /\ routing'.key /\ routing'.offered
  BY DEF PlanTypes
<1>3. Older(routing, published)' /\ Older(token_snapshot, published)'
  BY <1>1, OlderSelf DEF Older, TokensUpTo
<1>4. (token_snapshot.rev <= routing.rev => TokensUpTo(token_snapshot, routing))'
  BY DEF Older, TokensUpTo
<1>5. (seen <= watch /\ watch <= published.rev /\ (stage # "notify" => watch = published.rev))'
  OBVIOUS
<1>6. (~marked /\ pc # "done" => seen <= routing.rev)'
  BY <1>1 DEF Stale
<1>7. (pc \in Having => selected \in Tiers(routing))'
  BY DEF Having, Tiers, RouteCandidate
<1>8. routing.rev <= routing'.rev
  BY <1>1 DEF Older
<1> QED BY <1>2, <1>3, <1>4, <1>5, <1>6, <1>7, <1>8

(* What a candidate was planned with.                                      *)
LEMMA Planned ==
  ASSUME PlanInv, NEW r \in Tiers(routing)
  PROVE  r.id \in Candidates /\ r.id.credential \in Credentials /\ r.token = routing.token[r.id.credential]
<1>1. PICK c \in routing.routes : r = RouteCandidate(routing, c)
  BY DEF Tiers
<1>2. c \in Candidates
  BY DEF PlanInv, PlanTypes, Snapshot
<1> QED BY <1>1, <1>2 DEF RouteCandidate, Credentials

(* A refresh hands over a snapshot with a newer token than the one that    *)
(* was planned with, so it is a newer snapshot.                            *)
LEMMA TakePlan ==
  ASSUME PlanInv, NEW s \in {published, token_snapshot}, RefreshReturns(s)
  PROVE  PlanInv' /\ routing.rev <= routing'.rev
<1> USE DEF PlanInv
<1> DEFINE c == selected.id.credential
<1>1. /\ pc = "refreshing" /\ s.token[c] > selected.token /\ UNCHANGED <<published, token_snapshot, stage, watch>>
      /\ UNCHANGED <<marked, seen>>
      /\ \/ s.key /\ s.offered /\ routing' = s /\ pc' = "select"
         \/ pc' = "done" /\ routing' = routing
  BY DEF RefreshReturns, RebaseTo, Answer, Continue, environmentVars, publisherVars
<1>2. {published, routing, token_snapshot} \subseteq Snapshot /\ {seen, watch} \subseteq Nat
      /\ s \in Snapshot /\ s.rev \in Nat /\ routing.rev \in Nat /\ published.rev \in Nat /\ ~marked
  BY <1>1 DEF PlanTypes, Snapshot, Refreshing
<1>3. c \in Credentials /\ selected.token = routing.token[c]
  BY <1>1, Planned DEF Having
<1>4. routing.rev < s.rev
  <2> SUFFICES ASSUME s.rev <= routing.rev PROVE FALSE
    BY <1>2
  <2>1. TokensUpTo(s, routing)
    <3>1. CASE s = published
      BY <3>1, <1>2, OlderSelf DEF Older
    <3> QED BY <3>1
  <2>2. s.token[c] \in Nat /\ routing.token[c] \in Nat /\ s.token[c] <= routing.token[c]
    BY <2>1, <1>2, <1>3 DEF TokensUpTo, Snapshot
  <2> QED BY <2>2, <1>1, <1>3
<1>5. Older(s, published)
  BY <1>2, OlderSelf
<1>6. PlanTypes' /\ routing'.key /\ routing'.offered
  BY <1>1, <1>2 DEF PlanTypes
<1>7. Older(routing, published)' /\ Older(token_snapshot, published)'
  BY <1>1, <1>5 DEF Older, TokensUpTo
<1>8. (token_snapshot.rev <= routing.rev => TokensUpTo(token_snapshot, routing))'
  <2>1. CASE s = published
    BY <2>1, <1>1 DEF Older, TokensUpTo
  <2>2. CASE s = token_snapshot
    BY <2>2, <1>1, <1>2, OlderSelf DEF Older, TokensUpTo
  <2> QED BY <2>1, <2>2
<1>9. (~marked /\ pc # "done" => seen <= routing.rev)' /\ routing.rev <= routing'.rev
  BY <1>1, <1>2, <1>4
<1> QED BY <1>1, <1>2, <1>6, <1>7, <1>8, <1>9 DEF Having

-----------------------------------------------------------------------------
(* What is decided about a failure.  Only one that is known not to have    *)
(* been executed is followed by anything.                                  *)

Repeatable(f) == f \in Failures /\ f.safe /\ f.complete

\* retry_decision, kind by kind: it goes on only from a failure that may be
\* repeated, and with the scope of that failure.
LEMMA Decisions ==
  ASSUME NEW f \in Failures, NEW r, NEW isBound \in BOOLEAN, NEW canRefresh \in BOOLEAN
  PROVE  LET d == RetryDecision(f, r, isBound, canRefresh) IN
         \/ d = Terminal
         \/ /\ Repeatable(f)
            /\ \/ d.kind = "RetrySamePath"
               \/ d.kind = "Reselect" /\ d.scope = f.scope
               \/ d.kind = "PreferAlternate" /\ d.scope = f.scope /\ d.delay = RetryDelay(f, r)
               \/ d.kind = "OAuthRefresh" /\ canRefresh
<1> DEFINE d == RetryDecision(f, r, isBound, canRefresh)
<1>1. CASE Final(f)
  BY <1>1 DEF RetryDecision
<1>2. CASE ~Final(f)
  <2>1. Repeatable(f) /\ f.class \in {"transport", "upstream"}
    BY <1>2, FailuresAssumption DEF Final, Repeatable
  <2>2. CASE f.class = "transport"
    <3>1. d = IF isBound THEN SamePath(RetryDelay(f, r)) ELSE [kind |-> "Reselect", scope |-> f.scope]
      BY <1>2, <2>2 DEF RetryDecision
    <3> QED BY <2>1, <3>1 DEF SamePath
  <2>3. CASE f.class = "upstream"
    <3>1. d = IF canRefresh /\ AuthenticationTarget(f, r) # None
              THEN [kind |-> "OAuthRefresh"]
              ELSE IF isBound
              THEN IF f.kind \in HardKinds THEN Terminal ELSE SamePath(RetryDelay(f, r))
              ELSE IF f.kind \in HardKinds
              THEN [kind |-> "Reselect", scope |-> f.scope]
              ELSE [kind |-> "PreferAlternate", scope |-> f.scope, delay |-> RetryDelay(f, r)]
      BY <1>2, <2>3 DEF RetryDecision
    <3> QED BY <2>1, <3>1 DEF SamePath
  <2> QED BY <2>1, <2>2, <2>3
<1> QED BY <1>1, <1>2

(* An attempt has failed with f: the request is answered with that, or     *)
(* goes on after a delay, elsewhere, or elsewhere for a while.             *)
GoesOn(f) ==
  \E d :
    /\ Record(f, d)
    /\ \/ d.kind = "RetrySamePath" /\ pc' = "waiting" /\ UNCHANGED <<excluded, deferred>>
       \/ d.kind = "Reselect" /\ d.scope = f.scope /\ pc' = "select" /\ Exclude(selected, f.scope)
       \/ /\ d.kind = "PreferAlternate" /\ d.scope = f.scope /\ pc' = "select"
          /\ Defer(selected, f.scope, clock + RetryDelay(f, selected))

Decided(f) ==
  \/ /\ pc' = "done" /\ answer' = OfAttempt(budget.attempts)
     /\ Record(f, Terminal) /\ UNCHANGED <<excluded, deferred, previous>>
  \/ Repeatable(f) /\ previous' = budget.attempts /\ answer' = answer /\ GoesOn(f)

\* apply_retry_decision carries out what was decided, or answers if the
\* delay does not fit any more.
LEMMA Applied ==
  ASSUME NEW f \in Failures, NEW canRefresh \in BOOLEAN, bound \in BOOLEAN,
         NEW d, d = RetryDecision(f, selected, bound, canRefresh),
         d.kind # "OAuthRefresh" \/ ~canRefresh, Apply(f, d)
  PROVE  Decided(f)
<1> DEFINE decision == IF d.kind = "RetrySamePath" /\ ~CanWait(d.delay) THEN Terminal ELSE d
<1>1. /\ Record(f, decision)
      /\ IF decision = Terminal
         THEN /\ Answer(OfAttempt(budget.attempts))
              /\ UNCHANGED <<recoveryVars, wake_at>>
         ELSE /\ previous' = budget.attempts
              /\ CASE d.kind = "RetrySamePath" ->
                        /\ wake_at' = clock + d.delay /\ Continue("waiting")
                        /\ UNCHANGED <<excluded, deferred>>
                   [] d.kind = "Reselect" ->
                        /\ Exclude(selected, d.scope) /\ Continue("select")
                        /\ UNCHANGED wake_at
                   [] d.kind = "PreferAlternate" ->
                        /\ Defer(selected, d.scope, clock + d.delay)
                        /\ Continue("select")
                        /\ UNCHANGED wake_at
  BY DEF Apply
<1>2. CASE decision = Terminal
  BY <1>1, <1>2 DEF Answer, recoveryVars, Decided
<1>3. CASE decision # Terminal
  <2>1. d # Terminal /\ decision = d
    BY <1>3
  <2>2. Repeatable(f) /\ Record(f, d) /\ previous' = budget.attempts
    BY <1>1, <1>3, <2>1, Decisions
  <2>3. CASE d.kind = "RetrySamePath"
    <3>1. pc' = "waiting" /\ answer' = answer /\ UNCHANGED <<excluded, deferred>>
      BY <1>1, <1>3, <2>3 DEF Continue
    <3> QED BY <2>2, <2>3, <3>1 DEF Decided, GoesOn
  <2>4. CASE d.kind = "Reselect"
    <3>1. pc' = "select" /\ answer' = answer /\ Exclude(selected, d.scope)
      BY <1>1, <1>3, <2>4 DEF Continue
    <3>2. d.scope = f.scope
      BY <2>1, <2>4, Decisions
    <3> QED BY <2>2, <2>4, <3>1, <3>2 DEF Decided, GoesOn
  <2>5. CASE d.kind = "PreferAlternate"
    <3>1. pc' = "select" /\ answer' = answer /\ Defer(selected, d.scope, clock + d.delay)
      BY <1>1, <1>3, <2>5 DEF Continue
    <3>2. d.scope = f.scope /\ d.delay = RetryDelay(f, selected)
      BY <2>1, <2>5, Decisions
    <3> QED BY <2>2, <2>5, <3>1, <3>2 DEF Decided, GoesOn
  <2> QED BY <2>1, <2>3, <2>4, <2>5, Decisions
<1> QED BY <1>2, <1>3

(* The failure a refresh is awaited for is one that may be followed by     *)
(* another attempt.                                                        *)
Awaiting == bound \in BOOLEAN /\ (pc = "refreshing" => Repeatable(failure))

(* The two steps after a failure, as what they do.                         *)
LEMMA HandleFailureStep ==
  ASSUME Awaiting, NEW f \in Failures, HandleFailure(f)
  PROVE  \/ Decided(f)
         \/ /\ Repeatable(f) /\ failure' = f /\ pc' = "refreshing" /\ answer' = answer
            /\ UNCHANGED <<excluded, deferred, previous, log>>
<1> DEFINE x == CanRefreshOAuth(f)
           d == RetryDecision(f, selected, bound, CanRefreshOAuth(f))
<1>1. x \in BOOLEAN
  BY DEF CanRefreshOAuth
<1>2. CASE d.kind = "OAuthRefresh"
  <2>1. d # Terminal
    BY <1>2 DEF Terminal
  <2>2. Repeatable(f)
    BY <1>1, <2>1, Decisions DEF Awaiting
  <2> QED BY <1>2, <2>2 DEF HandleFailure, Continue, recoveryVars
<1>3. CASE d.kind # "OAuthRefresh"
  <2>1. Apply(f, d)
    BY <1>3 DEF HandleFailure
  <2> HIDE DEF x
  <2>2. d = RetryDecision(f, selected, bound, x)
    BY DEF x
  <2> HIDE DEF d
  <2> QED BY <1>1, <1>3, <2>1, <2>2, Applied DEF Awaiting
<1> QED BY <1>2, <1>3

\* A refresh that failed leaves the decision without it.
LEMMA RefreshFailsStep ==
  ASSUME Awaiting, RefreshFails
  PROVE  Decided(failure)
<1>1. failure \in Failures
  BY DEF RefreshFails, Awaiting, Repeatable
<1>2. PICK d : d = RetryDecision(failure, selected, bound, FALSE)
  OBVIOUS
<1>3. Apply(failure, d)
  BY <1>2 DEF RefreshFails
<1> QED BY <1>1, <1>2, <1>3, Applied DEF Awaiting

-----------------------------------------------------------------------------
(* Every step keeps the plan, and never goes back.                         *)
LEMMA PlanStep == ASSUME PlanInv, Awaiting, [Next]_vars PROVE PlanInv' /\ routing.rev <= routing'.rev
<1> USE DEF environmentVars, publisherVars, sessionVars, planVars, choiceVars, Continue, Answer
<1>0. ASSUME routing' = routing PROVE routing.rev <= routing'.rev
  BY <1>0 DEF PlanInv, PlanTypes, Snapshot
<1>1. CASE Publish
  <2>1. ASSUME NEW kind \in Changes, Replace(kind) PROVE PlanInv' /\ routing' = routing
    BY <2>1, ReplacePlan DEF Replace
  <2>2. CASE Notify
    <3>1. /\ watch' = published.rev /\ stage' = "revoke"
          /\ UNCHANGED <<published, token_snapshot, seen, marked, routing, pc, selected>>
      BY <2>2 DEF Notify
    <3>2. seen <= published.rev /\ published.rev \in Nat /\ published.rev <= published.rev
      BY DEF PlanInv, PlanTypes, Snapshot
    <3>3. Tiers(routing)' = Tiers(routing)
      BY <3>1 DEF Tiers, RouteCandidate
    <3> QED BY <1>0, <3>1, <3>2, <3>3 DEF PlanInv, PlanTypes, Older, TokensUpTo
  <2>3. CASE RevokeAdmissions
    <3>1. /\ stage' = "idle" /\ stage = "revoke"
          /\ UNCHANGED <<published, token_snapshot, watch, seen, marked, routing, pc, selected>>
      BY <2>3 DEF RevokeAdmissions
    <3>2. Tiers(routing)' = Tiers(routing)
      BY <3>1 DEF Tiers, RouteCandidate
    <3> QED BY <1>0, <3>1, <3>2 DEF PlanInv, PlanTypes, Older, TokensUpTo
  <2> QED BY <1>0, <1>1, <2>1, <2>2, <2>3 DEF Publish, Notify, RevokeAdmissions
<1>2. ASSUME \/ \E c \in Candidates : BindSession(c)
             \/ Tick \/ Answered \/ UNCHANGED vars
      PROVE  PlanInv' /\ routing' = routing
  <2>1. UNCHANGED <<published, token_snapshot, stage, watch, seen, marked, routing, pc, selected>>
    BY <1>2 DEF BindSession, Tick, Answered, vars
  <2>2. marked => pc' \in Refreshing
    BY <2>1 DEF PlanInv
  <2> QED BY <2>1, <2>2, StayPlan
<1>3. CASE Select
  <2>1. CASE MarkSeen
    <3>1. /\ pc \in Refreshing /\ marked' /\ seen' = watch
          /\ UNCHANGED <<published, token_snapshot, stage, watch, routing, pc, selected>>
      BY <2>1 DEF MarkSeen, Refreshing
    <3>2. Tiers(routing)' = Tiers(routing)
      BY <3>1 DEF Tiers, RouteCandidate
    <3>3. watch \in Nat /\ watch <= watch
      BY DEF PlanInv, PlanTypes
    <3> QED BY <1>0, <3>1, <3>2, <3>3 DEF PlanInv, PlanTypes, Older, TokensUpTo
  <2>2. CASE Run
    BY <2>2, LoadPlan DEF Run, RebaseTo
  <2>3. CASE RefreshWhileSelecting
    BY <2>3, LoadPlan DEF RefreshWhileSelecting, RebaseTo
  <2>4. CASE RevisionWake \/ BudgetSpent \/ PollSelection \/ SelectionPending
             \/ \E error \in {"unavailable", "binding lost"} : SelectionFails(error)
    <3>1. /\ UNCHANGED <<published, token_snapshot, stage, watch, seen, marked, routing>>
          /\ pc \in {"select", "polling"} /\ pc' \in {"revision", "done", "polling", "select"}
      BY <2>4 DEF RevisionWake, BudgetSpent, PollSelection, SelectionPending, SelectionFails
    <3>2. ~marked /\ pc' \notin Having
      BY <3>1 DEF PlanInv, Refreshing, Having
    <3> QED BY <1>0, <3>1, <3>2, StayPlan
  <2>5. ASSUME NEW r \in Tiers(routing), SelectUnbound(r) \/ SelectBound(r) PROVE PlanInv' /\ routing' = routing
    <3>1. /\ UNCHANGED <<published, token_snapshot, stage, watch, seen, marked, routing>>
          /\ pc = "polling" /\ selected' = r /\ pc' = "execute"
      BY <2>5 DEF SelectUnbound, SelectBound, Choose
    <3>2. pc' \in Refreshing
      BY <3>1 DEF Refreshing
    <3> QED BY <3>1, <3>2, StayPlan
  <2> QED BY <1>0, <1>3, <2>1, <2>2, <2>3, <2>4, <2>5 DEF Select
<1>4. CASE Attempt
  <2>1. CASE CheckPlan
    <3>1. pc \in Having
      BY <2>1 DEF CheckPlan, Having
    <3> QED BY <2>1, <3>1, LoadPlan DEF CheckPlan, RebaseTo
  <2>2. CASE \/ StartRejected \/ RegisterRefused \/ StartAttempt \/ Succeed \/ AttemptTimesOut \/ DelayElapsed
             \/ RefreshFails \/ \E f \in Failures : HandleFailure(f)
    <3>1. /\ UNCHANGED <<published, token_snapshot, stage, watch, seen, marked, routing>>
          /\ pc \in {"start", "attempt", "refreshing", "waiting"}
          /\ \/ pc' \in {"done", "select", "waiting"}
             \/ pc' \in {"attempt", "refreshing"} /\ pc \in Having /\ selected' = selected
      <4>1. CASE RefreshFails \/ \E f \in Failures : HandleFailure(f)
        <5>1. /\ UNCHANGED <<published, token_snapshot, stage, watch, seen, marked, routing, selected>>
              /\ pc \in {"attempt", "refreshing"}
          BY <4>1 DEF RefreshFails, HandleFailure
        <5>2. pc' = "refreshing" \/ \E f : Decided(f)
          BY <4>1, HandleFailureStep, RefreshFailsStep
        <5>3. pc' \in {"refreshing", "done", "select", "waiting"}
          BY <5>2 DEF Decided, GoesOn
        <5> QED BY <5>1, <5>3 DEF Having
      <4>2. CASE StartRejected \/ RegisterRefused \/ StartAttempt \/ Succeed \/ AttemptTimesOut \/ DelayElapsed
        BY <4>2 DEF StartRejected, RegisterRefused, StartAttempt, Succeed, AttemptTimesOut, DelayElapsed, Having
      <4> QED BY <2>2, <4>1, <4>2
    <3>2. ~marked
      BY <3>1 DEF PlanInv, Refreshing
    <3>3. {"done", "select", "waiting"} \cap Having = {}
      BY DEF Having
    <3> QED BY <1>0, <3>1, <3>2, <3>3, StayPlan
  <2>3. ASSUME NEW s \in {published, token_snapshot}, RefreshReturns(s) PROVE PlanInv' /\ routing.rev <= routing'.rev
    BY <2>3, TakePlan
  <2> QED BY <1>4, <2>1, <2>2, <2>3 DEF Attempt
<1> QED BY <1>0, <1>1, <1>2, <1>3, <1>4 DEF Next

-----------------------------------------------------------------------------
(* The steps, sorted by what they do to the attempts.                      *)

Trying == {"attempt", "refreshing"}
Picked == {"execute", "start"}

(* A local timeout or refusal is the answer only if nothing failed before. *)
Honest(a) == a.kind \in {"timeout", "unavailable"} => previous = 0

(* No attempt begins or fails; the request goes on, selects or is          *)
(* answered.                                                               *)
Quiet ==
  /\ UNCHANGED <<log, budget, header_owner, excluded, deferred, previous, refreshed_target, rejected>>
  /\ clock' \in {clock, clock + 1} /\ bound' \in BOOLEAN
  /\ \/ UNCHANGED <<pc, selected, bound, answer, failure>>
     \/ /\ pc \notin Trying /\ pc' \notin Trying /\ pc # "done" /\ pc' # "done" /\ answer' = answer
        /\ pc' \in Picked /\ ~bound' =>
             \/ pc \in Picked /\ UNCHANGED <<selected, bound>>
             \/ Allows(selected') /\ DeferredUntil(selected') <= clock
     \/ /\ pc # "done" /\ pc' = "done"
        /\ Honest(answer')

FailsWith(f) ==
  /\ f \in Failures /\ pc \in Trying /\ Decided(f)
  /\ UNCHANGED <<clock, selected, bound, budget, header_owner>>
  /\ NoteRejected(f) \/ UNCHANGED <<rejected, refreshed_target>>

AwaitsRefresh(f) ==
  /\ pc = "attempt" /\ pc' = "refreshing" /\ Repeatable(f) /\ failure' = f
  /\ UNCHANGED <<clock, selected, bound, budget, header_owner, excluded, deferred, previous, log, answer>>
  /\ NoteRejected(f)

Refreshed ==
  /\ pc = "refreshing" /\ pc' = "select" /\ previous' = budget.attempts
  /\ Record(failure, [kind |-> "OAuthRefresh"])
  /\ UNCHANGED <<clock, selected, bound, budget, header_owner, excluded, deferred, rejected, answer>>
  /\ \E v : v > selected.token /\ refreshed_target' = <<selected.id.credential, v>>

\* What is answered locally is honest, by previous_or or by its kind.
LEMMA Previously ==
  /\ \A error \in {"timeout", "unavailable", "binding lost", "not found"} : Honest(PreviousOr(error))
  /\ \A error \in {"unauthorized", "not found", "binding lost"} : Honest(Local(error))
BY DEF PreviousOr, OfAttempt, Local, Honest

(* Planning again goes on with the selection or ends with an error.        *)
LEMMA Rebases ==
  ASSUME NEW s, NEW error \in {Local("not found"), PreviousOr("not found")}, RebaseTo(s, error)
  PROVE  \/ pc' = "select" /\ answer' = answer
         \/ pc' = "done" /\ Honest(answer')
<1>1. Honest(error) /\ Honest(Local("unauthorized"))
  BY Previously
<1> QED BY <1>1 DEF RebaseTo, Continue, Answer

\* Every step is of one of these sorts.
LEMMA Steps ==
  ASSUME Awaiting, [Next]_vars
  PROVE  \/ Quiet \/ StartAttempt \/ Refreshed
         \/ \E f \in Failures : FailsWith(f) \/ AwaitsRefresh(f)
<1> USE DEF environmentVars, planVars, choiceVars, recoveryVars, oauthVars, attemptVars, Continue, Answer, Trying, Picked
<1>0. bound \in BOOLEAN
  BY DEF Awaiting
<1>1. CASE Publish \/ \E c \in Candidates : BindSession(c)
  BY <1>0, <1>1 DEF Publish, Replace, Notify, RevokeAdmissions, BindSession, Quiet
<1>2. CASE Tick \/ Answered \/ UNCHANGED vars
  BY <1>0, <1>2 DEF Tick, Answered, vars, Quiet
<1>3. CASE Select
  <2>1. CASE MarkSeen
    BY <1>0, <2>1 DEF MarkSeen, Quiet
  <2>2. CASE Run
    <3>1. /\ pc = "run"
          /\ (pc' = "select" /\ answer' = answer) \/ (pc' = "done" /\ Honest(answer'))
          /\ UNCHANGED <<clock, log, budget, header_owner, excluded, deferred, previous, refreshed_target, rejected, bound>>
      <4>1. RebaseTo(published, Local("not found")) \/ (pc' = "select" /\ answer' = answer)
        BY <2>2 DEF Run
      <4>2. (pc' = "select" /\ answer' = answer) \/ (pc' = "done" /\ Honest(answer'))
        BY <4>1, Rebases
      <4> QED BY <2>2, <4>2 DEF Run
    <3> QED BY <1>0, <3>1 DEF Quiet
  <2>3. CASE RefreshWhileSelecting
    <3>1. /\ pc = "revision"
          /\ (pc' = "select" /\ answer' = answer) \/ (pc' = "done" /\ Honest(answer'))
          /\ UNCHANGED <<clock, log, budget, header_owner, excluded, deferred, previous, refreshed_target, rejected, bound>>
      <4>1. RebaseTo(published, PreviousOr("not found")) \/ (pc' = "select" /\ answer' = answer)
        BY <2>3 DEF RefreshWhileSelecting
      <4>2. (pc' = "select" /\ answer' = answer) \/ (pc' = "done" /\ Honest(answer'))
        BY <4>1, Rebases
      <4> QED BY <2>3, <4>2 DEF RefreshWhileSelecting
    <3> QED BY <1>0, <3>1 DEF Quiet
  <2>4. CASE RevisionWake \/ PollSelection
    BY <1>0, <2>4 DEF RevisionWake, PollSelection, Quiet
  <2>5. CASE BudgetSpent \/ SelectionPending
    <3>1. Honest(PreviousOr("timeout"))
      BY Previously
    <3> QED BY <1>0, <2>5, <3>1 DEF BudgetSpent, SelectionPending, Quiet
  <2>6. ASSUME NEW error \in {"unavailable", "binding lost"}, SelectionFails(error) PROVE Quiet
    <3>1. Honest(PreviousOr(error))
      BY Previously
    <3> QED BY <1>0, <2>6, <3>1 DEF SelectionFails, Quiet
  <2>7. ASSUME NEW r \in Tiers(routing), SelectUnbound(r) \/ SelectBound(r) PROVE Quiet
    <3>1. /\ pc = "polling" /\ pc' = "execute" /\ answer' = answer /\ bound' \in BOOLEAN /\ selected' = r
          /\ ~bound' => Allows(r) /\ DeferredUntil(r) <= clock
          /\ UNCHANGED <<clock, log, budget, header_owner, excluded, deferred, previous, refreshed_target, rejected>>
      BY <2>7 DEF SelectUnbound, SelectBound, Choose, Eligible
    <3> QED BY <3>1 DEF Quiet
  <2> QED BY <1>3, <2>1, <2>2, <2>3, <2>4, <2>5, <2>6, <2>7 DEF Select
<1>4. CASE Attempt
  <2>1. CASE CheckPlan
    <3>1. /\ pc = "execute" /\ pc' \in {"start", "select", "done"}
          /\ (pc' # "done" /\ answer' = answer) \/ (pc' = "done" /\ Honest(answer'))
          /\ pc' = "start" => UNCHANGED <<selected, bound>>
          /\ bound' \in {bound, FALSE}
          /\ UNCHANGED <<clock, log, budget, header_owner, excluded, deferred, previous, refreshed_target, rejected>>
      <4>1. \/ RebaseTo(published, PreviousOr("not found"))
            \/ pc' = "start" /\ answer' = answer /\ UNCHANGED <<selected, bound>>
        BY <2>1 DEF CheckPlan
      <4>2. \/ (pc' = "select" /\ answer' = answer) \/ (pc' = "done" /\ Honest(answer'))
            \/ pc' = "start" /\ answer' = answer /\ UNCHANGED <<selected, bound>>
        BY <4>1, Rebases
      <4> QED BY <2>1, <4>2 DEF CheckPlan
    <3> QED BY <1>0, <3>1 DEF Quiet
  <2>2. CASE StartRejected
    <3>1. Honest(Local("binding lost"))
      BY Previously
    <3> QED BY <2>2, <3>1 DEF StartRejected, Quiet
  <2>3. CASE RegisterRefused \/ AttemptTimesOut
    <3>1. Honest(PreviousOr("timeout"))
      BY Previously
    <3> QED BY <1>0, <2>3, <3>1 DEF RegisterRefused, AttemptTimesOut, Quiet
  <2>4. CASE Succeed
    <3>1. Honest([kind |-> "response", attempt |-> budget.attempts])
      BY DEF Honest
    <3> QED BY <1>0, <2>4, <3>1 DEF Succeed, Quiet
  <2>5. ASSUME NEW f \in Failures, HandleFailure(f) PROVE FailsWith(f) \/ AwaitsRefresh(f)
    <3>1. /\ pc = "attempt" /\ NoteRejected(f)
          /\ UNCHANGED <<clock, selected, bound, budget, header_owner>>
      BY <2>5 DEF HandleFailure
    <3> QED BY <2>5, <3>1, HandleFailureStep DEF FailsWith, AwaitsRefresh
  <2>6. CASE RefreshFails
    <3>1. /\ pc = "refreshing"
          /\ UNCHANGED <<clock, selected, bound, budget, header_owner, rejected, refreshed_target>>
      BY <2>6 DEF RefreshFails
    <3>2. failure \in Failures
      BY <3>1 DEF Awaiting, Repeatable
    <3> QED BY <2>6, <3>1, <3>2, RefreshFailsStep DEF FailsWith
  <2>7. ASSUME NEW t \in {published, token_snapshot}, RefreshReturns(t) PROVE Quiet \/ Refreshed
    <3>1. CASE t.key /\ t.offered
      <4>1. /\ pc = "refreshing" /\ pc' = "select" /\ previous' = budget.attempts /\ answer' = answer
            /\ Record(failure, [kind |-> "OAuthRefresh"])
            /\ UNCHANGED <<clock, selected, bound, budget, header_owner, excluded, deferred, rejected>>
            /\ t.token[selected.id.credential] > selected.token
            /\ refreshed_target' = <<selected.id.credential, t.token[selected.id.credential]>>
        BY <2>7, <3>1 DEF RefreshReturns, RebaseTo
      <4> QED BY <4>1 DEF Refreshed
    <3>2. CASE ~(t.key /\ t.offered)
      <4>1. /\ pc = "refreshing" /\ pc' = "done" /\ Honest(answer')
            /\ UNCHANGED <<clock, log, budget, header_owner, excluded, deferred, previous, refreshed_target, rejected, bound>>
        <5>1. Honest(Local("unauthorized")) /\ Honest(Local("not found"))
          BY Previously
        <5> QED BY <2>7, <3>2, <5>1 DEF RefreshReturns, RebaseTo
      <4> QED BY <1>0, <4>1 DEF Quiet
    <3> QED BY <3>1, <3>2
  <2>8. CASE DelayElapsed
    BY <1>0, <2>8 DEF DelayElapsed, Quiet
  <2> QED BY <1>4, <2>1, <2>2, <2>3, <2>4, <2>5, <2>6, <2>7, <2>8 DEF Attempt
<1> QED BY <1>1, <1>2, <1>3, <1>4 DEF Next

(* The failure that is waited for stays the one that was decided about.    *)
LEMMA AwaitingStep == ASSUME Awaiting, [Next]_vars PROVE Awaiting'
<1>1. CASE Quiet
  BY <1>1 DEF Quiet, Awaiting, Trying
<1>2. CASE StartAttempt
  BY <1>2 DEF StartAttempt, Awaiting, choiceVars, Continue
<1>3. CASE Refreshed
  BY <1>3 DEF Refreshed, Awaiting
<1>4. ASSUME NEW f \in Failures, FailsWith(f) PROVE Awaiting'
  BY <1>4 DEF FailsWith, Decided, GoesOn, Awaiting
<1>5. ASSUME NEW f \in Failures, AwaitsRefresh(f) PROVE Awaiting'
  BY <1>5 DEF AwaitsRefresh, Awaiting
<1> QED BY <1>1, <1>2, <1>3, <1>4, <1>5, Steps

-----------------------------------------------------------------------------
(* The log of attempts.                                                    *)

IsSeq(l) == \E S : l \in Seq(S)

\* What Append does to a sequence over any set.
LEMMA Appended ==
  ASSUME NEW l, IsSeq(l), NEW e
  PROVE  LET m == Append(l, e) IN
         /\ IsSeq(m) /\ Len(l) \in Nat /\ Len(m) = Len(l) + 1 /\ m[Len(m)] = e
         /\ \A i \in 1..Len(l) : m[i] = l[i]
<1>1. PICK S : l \in Seq(S)
  BY DEF IsSeq
<1>2. l \in Seq(S \cup {e})
  BY <1>1
<1>3. Append(l, e) \in Seq(S \cup {e})
  BY <1>2
<1> QED BY <1>2, <1>3 DEF IsSeq

LogInv ==
  /\ IsSeq(log) /\ Len(log) \in Nat /\ budget.attempts = Len(log)
  /\ \A i \in Attempts : log[i].on.id \in Candidates
  /\ pc \in Trying => /\ Len(log) >= 1 /\ log[Len(log)].on = selected
                      /\ log[Len(log)].failure = None /\ log[Len(log)].decision = None
  /\ pc \notin Trying /\ pc # "done" => \A i \in Attempts : Repeatable(log[i].failure)
  /\ \A i \in Attempts : i < Len(log) => Repeatable(log[i].failure)

(* What is on record about the last attempt is filled in.                  *)
LEMMA Recorded ==
  ASSUME LogInv, pc \in Trying, NEW f, NEW d, Record(f, d)
  PROVE  /\ IsSeq(log') /\ Len(log') = Len(log) /\ Len(log) \in Attempts
         /\ \A i \in Attempts : i # Len(log) => log'[i] = log[i]
         /\ \A i \in Attempts : /\ log'[i].on = log[i].on /\ log'[i].bound = log[i].bound
                                /\ log'[i].at = log[i].at /\ log'[i].headers = log[i].headers
         /\ log'[Len(log)].failure = f /\ log'[Len(log)].decision = d
<1> DEFINE e == [on |-> log[Len(log)].on, bound |-> log[Len(log)].bound, at |-> log[Len(log)].at,
                 headers |-> log[Len(log)].headers, failure |-> f, decision |-> d]
<1>1. Len(log) \in 1..Len(log) /\ IsSeq(log)
  BY DEF LogInv
<1>2. log' = [log EXCEPT ![Len(log)] = e]
  BY <1>1 DEF Record
<1>3. /\ e.on = log[Len(log)].on /\ e.bound = log[Len(log)].bound /\ e.at = log[Len(log)].at
      /\ e.headers = log[Len(log)].headers /\ e.failure = f /\ e.decision = d
  OBVIOUS
<1> HIDE DEF e
<1>4. /\ IsSeq(log') /\ Len(log') = Len(log) /\ log'[Len(log)] = e
      /\ \A i \in 1..Len(log) : i # Len(log) => log'[i] = log[i]
  <2>1. PICK S : log \in Seq(S)
    BY <1>1 DEF IsSeq
  <2>2. log \in Seq(S \cup {e})
    BY <2>1
  <2>3. log' \in Seq(S \cup {e})
    BY <1>1, <1>2, <2>2
  <2> QED BY <1>1, <1>2, <2>2, <2>3 DEF IsSeq
<1> QED BY <1>1, <1>3, <1>4 DEF Attempts

(* An attempt begins.                                                      *)
LEMMA Started ==
  ASSUME PlanInv, LogInv, StartAttempt
  PROVE  /\ IsSeq(log') /\ Len(log) \in Nat /\ Len(log') = Len(log) + 1 /\ Len(log') \in Attempts'
         /\ Attempts' = Attempts \cup {Len(log')}
         /\ \A i \in Attempts : log'[i] = log[i] /\ i < Len(log')
         /\ log'[Len(log')].on = selected /\ log'[Len(log')].bound = bound /\ log'[Len(log')].at = clock
         /\ log'[Len(log')].headers = AllowBoundHeaders(selected.id.credential)
         /\ log'[Len(log')].failure = None /\ log'[Len(log')].decision = None
         /\ selected.id \in Candidates /\ selected.id.credential \in Credentials
<1> DEFINE h == AllowBoundHeaders(selected.id.credential)
<1> HIDE DEF h
<1> DEFINE e == [on |-> selected, bound |-> bound, at |-> clock, headers |-> h,
                 failure |-> None, decision |-> None]
<1>1. log' = Append(log, e)
  BY DEF StartAttempt, h
<1>2. /\ e.on = selected /\ e.bound = bound /\ e.at = clock
      /\ e.headers = h /\ e.failure = None /\ e.decision = None
  OBVIOUS
<1> HIDE DEF e
<1>3. /\ IsSeq(log') /\ Len(log) \in Nat /\ Len(log') = Len(log) + 1 /\ log'[Len(log')] = e
      /\ \A i \in 1..Len(log) : log'[i] = log[i]
  BY <1>1, Appended DEF LogInv
<1>4. Attempts' = Attempts \cup {Len(log')} /\ \A i \in Attempts : i < Len(log')
  BY <1>3 DEF Attempts
<1>5. selected.id \in Candidates /\ selected.id.credential \in Credentials
  BY Planned DEF StartAttempt, PlanInv, Having
<1> QED BY <1>2, <1>3, <1>4, <1>5 DEF Attempts, h

\* Only a request whose last attempt may be repeated selects again.
LEMMA LogStep == ASSUME PlanInv, Awaiting, LogInv, [Next]_vars PROVE LogInv'
<1>1. CASE Quiet
  BY <1>1 DEF Quiet, LogInv, Trying, Attempts
<1>2. CASE StartAttempt
  <2>1. pc = "start" /\ pc' = "attempt" /\ selected' = selected /\ budget'.attempts = budget.attempts + 1
    BY <1>2 DEF StartAttempt, Continue, choiceVars, RegisterAttempt
  <2>2. budget'.attempts = Len(log')
    BY <1>2, <2>1, Started DEF LogInv
  <2>3. \A i \in Attempts' : log'[i].on.id \in Candidates
    BY <1>2, Started DEF LogInv
  <2>4. \A i \in Attempts : Repeatable(log[i].failure)
    BY <2>1 DEF LogInv, Trying
  <2>5. \A i \in Attempts' : i < Len(log') => Repeatable(log'[i].failure)
    BY <1>2, <2>4, Started
  <2> QED BY <1>2, <2>1, <2>2, <2>3, <2>5, Started DEF LogInv, Trying
<1>3. ASSUME pc \in Trying, NEW f, NEW d, Record(f, d), UNCHANGED <<budget, selected>>,
             pc' \notin Trying, pc' # "done" => Repeatable(f)
      PROVE  LogInv'
  <2>1. /\ IsSeq(log') /\ Len(log') = Len(log) /\ Attempts' = Attempts
        /\ \A i \in Attempts : i # Len(log) => log'[i] = log[i]
        /\ \A i \in Attempts : log'[i].on = log[i].on
        /\ log'[Len(log)].failure = f
    BY <1>3, Recorded DEF Attempts
  <2>2. \A i \in Attempts : i # Len(log) => i < Len(log) /\ Repeatable(log[i].failure)
    BY DEF LogInv, Attempts
  <2> QED BY <1>3, <2>1, <2>2 DEF LogInv
<1>4. CASE Refreshed
  <2>1. Repeatable(failure)
    BY <1>4 DEF Refreshed, Awaiting
  <2> QED BY <1>3, <1>4, <2>1 DEF Refreshed, Trying
<1>5. ASSUME NEW f \in Failures, FailsWith(f) PROVE LogInv'
  <2>1. PICK d : Record(f, d) /\ pc' \in {"done", "select", "waiting"} /\ (pc' # "done" => Repeatable(f))
    BY <1>5 DEF FailsWith, Decided, GoesOn
  <2> QED BY <1>3, <1>5, <2>1 DEF FailsWith, Trying
<1>6. ASSUME NEW f \in Failures, AwaitsRefresh(f) PROVE LogInv'
  BY <1>6 DEF AwaitsRefresh, LogInv, Trying, Attempts
<1> QED BY <1>1, <1>2, <1>4, <1>5, <1>6, Steps

(* Steps that only fill in a record, or not even that.                     *)
LEMMA Fills ==
  ASSUME Awaiting, LogInv, NEW f \in Failures \cup {failure}, FailsWith(f) \/ (f = failure /\ Refreshed)
  PROVE  \E d : Record(f, d) /\ pc \in Trying /\ UNCHANGED <<clock, selected, bound, budget, header_owner>>
BY DEF FailsWith, Decided, GoesOn, Refreshed, Trying

(* Where the attempts went stays on record.                                *)
LEMMA Kept ==
  ASSUME Awaiting, LogInv, [Next]_vars, ~StartAttempt
  PROVE  /\ UNCHANGED <<budget, header_owner>> /\ Len(log') = Len(log) /\ Attempts' = Attempts
         /\ pc' \in Trying => pc \in Trying /\ selected' = selected
         /\ clock' \in {clock, clock + 1}
         /\ \A i \in Attempts : /\ log'[i].on = log[i].on /\ log'[i].bound = log[i].bound
                                /\ log'[i].at = log[i].at /\ log'[i].headers = log[i].headers
<1>1. CASE Quiet
  BY <1>1 DEF Quiet, Attempts, Trying
<1>2. ASSUME NEW f \in Failures, AwaitsRefresh(f) PROVE log' = log /\ UNCHANGED <<budget, header_owner, selected, clock>> /\ pc \in Trying
  BY <1>2 DEF AwaitsRefresh, Trying
<1>3. ASSUME NEW f, NEW d, Record(f, d), pc \in Trying, UNCHANGED <<clock, selected, budget, header_owner>>
      PROVE  /\ UNCHANGED <<budget, header_owner, selected, clock>> /\ Len(log') = Len(log) /\ Attempts' = Attempts
             /\ pc \in Trying
             /\ \A i \in Attempts : /\ log'[i].on = log[i].on /\ log'[i].bound = log[i].bound
                                    /\ log'[i].at = log[i].at /\ log'[i].headers = log[i].headers
  BY <1>3, Recorded DEF Attempts
<1>4. CASE Refreshed
  BY <1>3, <1>4, Fills
<1>5. ASSUME NEW f \in Failures, FailsWith(f)
      PROVE  /\ UNCHANGED <<budget, header_owner, selected, clock>> /\ Len(log') = Len(log) /\ Attempts' = Attempts
             /\ pc \in Trying
             /\ \A i \in Attempts : /\ log'[i].on = log[i].on /\ log'[i].bound = log[i].bound
                                    /\ log'[i].at = log[i].at /\ log'[i].headers = log[i].headers
  BY <1>3, <1>5, Fills
<1>6. CASE \E f \in Failures : AwaitsRefresh(f)
  BY <1>2, <1>6 DEF Attempts
<1> QED BY <1>1, <1>4, <1>5, <1>6, Steps

-----------------------------------------------------------------------------
(* The budget counts what is on record.                                    *)

On(c) == {i \in Attempts : log[i].on.id.credential = c}
Switched ==
  {i \in Attempts : i > 1 /\ log[i].on.id.credential # log[i - 1].on.id.credential}

BudgetInv ==
  /\ Len(log) <= MaxTotalAttempts
  /\ budget.by_credential \in [Credentials -> Nat]
  /\ \A c \in Credentials : /\ IsFiniteSet(On(c)) /\ Cardinality(On(c)) = budget.by_credential[c]
                            /\ budget.by_credential[c] <= MaxSameRetries + 1
  /\ IsFiniteSet(Switched) /\ Cardinality(Switched) = budget.switches
  /\ budget.switches \in Nat /\ budget.switches <= MaxSwitches
  /\ budget.last = IF Len(log) = 0 THEN None ELSE log[Len(log)].on.id.credential

\* The budget is charged exactly when an attempt goes on record.
LEMMA BudgetStep == ASSUME PlanInv, Awaiting, LogInv, BudgetInv, [Next]_vars PROVE BudgetInv'
<1>1. CASE ~StartAttempt
  <2>1. /\ budget' = budget /\ Len(log') = Len(log) /\ Attempts' = Attempts /\ Len(log) \in Nat
        /\ \A i \in Attempts : log'[i].on = log[i].on
    BY <1>1, Kept DEF LogInv
  <2>2. \A c \in Credentials : On(c)' = On(c)
    BY <2>1 DEF On
  <2>3. Switched' = Switched
    BY <2>1 DEF Switched, Attempts
  <2>4. budget.last = IF Len(log') = 0 THEN None ELSE log'[Len(log')].on.id.credential
    BY <2>1 DEF BudgetInv, Attempts
  <2> QED BY <2>1, <2>2, <2>3, <2>4 DEF BudgetInv
<1>2. CASE StartAttempt
  <2> DEFINE c == selected.id.credential  n == Len(log')
  <2>1. /\ n = Len(log) + 1 /\ Len(log) \in Nat /\ Attempts' = Attempts \cup {n} /\ n \notin Attempts
        /\ \A i \in Attempts : log'[i] = log[i]
        /\ log'[n].on = selected /\ c \in Credentials
    BY <1>2, Started DEF Attempts
  <2>2. /\ budget.attempts < MaxTotalAttempts
        /\ budget.last \notin {None, c} => budget.switches < MaxSwitches
        /\ budget.by_credential[c] <= MaxSameRetries
    BY <1>2 DEF StartAttempt, CanRegisterAttempt, CanRetry
  <2>3. /\ budget'.last = c
        /\ budget'.switches = IF budget.last \in {None, c} THEN budget.switches ELSE budget.switches + 1
        /\ budget'.by_credential = [budget.by_credential EXCEPT ![c] = @ + 1]
    BY <1>2 DEF StartAttempt, RegisterAttempt
  <2> HIDE DEF n
  <2>4. Len(log') <= MaxTotalAttempts
    BY <2>1, <2>2, PolicyAssumption DEF LogInv, n
  <2>5. budget'.by_credential \in [Credentials -> Nat]
    BY <2>1, <2>3 DEF BudgetInv
  <2>6. ASSUME NEW b \in Credentials
        PROVE  /\ IsFiniteSet(On(b)') /\ Cardinality(On(b)') = budget'.by_credential[b]
               /\ budget'.by_credential[b] <= MaxSameRetries + 1
    <3>1. IsFiniteSet(On(b)) /\ Cardinality(On(b)) = budget.by_credential[b] /\ budget.by_credential[b] \in Nat
          /\ budget.by_credential[b] <= MaxSameRetries + 1 /\ MaxSameRetries \in Nat
      BY PolicyAssumption DEF BudgetInv
    <3>2. CASE b = c
      <4>1. On(b)' = On(b) \cup {n} /\ n \notin On(b)
        BY <2>1, <3>2 DEF On
      <4>2. IsFiniteSet(On(b)') /\ Cardinality(On(b)') = Cardinality(On(b)) + 1
        BY <3>1, <4>1, FS_AddElement
      <4>3. budget'.by_credential[b] = budget.by_credential[b] + 1
        BY <2>1, <2>3, <3>2 DEF BudgetInv
      <4> QED BY <2>2, <3>1, <3>2, <4>2, <4>3
    <3>3. CASE b # c
      <4>1. On(b)' = On(b)
        BY <2>1, <3>3 DEF On
      <4>2. budget'.by_credential[b] = budget.by_credential[b]
        BY <2>1, <2>3, <3>3 DEF BudgetInv
      <4> QED BY <3>1, <4>1, <4>2
    <3> QED BY <3>2, <3>3
  <2>7. /\ IsFiniteSet(Switched') /\ Cardinality(Switched') = budget'.switches
        /\ budget'.switches \in Nat /\ budget'.switches <= MaxSwitches
    <3>1. /\ IsFiniteSet(Switched) /\ Cardinality(Switched) = budget.switches
          /\ budget.switches \in Nat /\ budget.switches <= MaxSwitches /\ MaxSwitches \in Nat
      BY PolicyAssumption DEF BudgetInv
    <3>2. /\ n > 1 <=> Len(log) # 0 /\ n \in Nat /\ n - 1 = Len(log)
          /\ Len(log) # 0 => log'[n - 1] = log[Len(log)]
      BY <2>1 DEF Attempts
    <3>3. \A i \in Attempts : i > 1 => log'[i - 1] = log[i - 1]
      BY <2>1 DEF Attempts
    <3>4. Len(log) # 0 => log[Len(log)].on.id.credential # None
      <4>1. Len(log) # 0 => Len(log) \in Attempts
        BY <2>1 DEF Attempts
      <4>2. Len(log) # 0 => log[Len(log)].on.id.credential \in Credentials
        BY <4>1 DEF LogInv, Credentials
      <4> QED BY <4>2, NoneAssumption
    <3>5. CASE budget.last \in {None, c}
      <4>1. n > 1 => log'[n - 1].on.id.credential = c
        BY <2>1, <3>2, <3>4, <3>5 DEF BudgetInv
      <4>2. Switched' = Switched
        BY <2>1, <3>2, <3>3, <4>1 DEF Switched
      <4> QED BY <2>3, <3>1, <3>5, <4>2
    <3>6. CASE budget.last \notin {None, c}
      <4>1. n > 1 /\ log'[n - 1].on.id.credential # c
        BY <2>1, <3>2, <3>6 DEF BudgetInv
      <4>2. Switched' = Switched \cup {n} /\ n \notin Switched
        BY <2>1, <3>2, <3>3, <4>1 DEF Switched
      <4>3. IsFiniteSet(Switched') /\ Cardinality(Switched') = Cardinality(Switched) + 1
        BY <3>1, <4>2, FS_AddElement
      <4> QED BY <2>2, <2>3, <3>1, <3>6, <4>3
    <3> QED BY <3>5, <3>6
  <2>8. budget'.last = IF Len(log') = 0 THEN None ELSE log'[Len(log')].on.id.credential
    BY <2>1, <2>3 DEF n
  <2> QED BY <2>4, <2>5, <2>6, <2>7, <2>8 DEF BudgetInv
<1> QED BY <1>1, <1>2

-----------------------------------------------------------------------------
(* The client's own headers.                                               *)

HeaderInv ==
  \A i \in Attempts : log[i].headers => header_owner # None /\ header_owner = log[i].on.id.credential

\* The first credential tried owns the headers, whatever follows.
LEMMA HeaderStep == ASSUME PlanInv, Awaiting, LogInv, HeaderInv, [Next]_vars PROVE HeaderInv'
<1>1. CASE ~StartAttempt
  BY <1>1, Kept DEF HeaderInv
<1>2. CASE StartAttempt
  <2> DEFINE c == selected.id.credential  n == Len(log')
  <2>1. /\ Attempts' = Attempts \cup {n} /\ \A i \in Attempts : log'[i] = log[i]
        /\ log'[n].on = selected /\ log'[n].headers = (header_owner \in {None, c}) /\ c \in Credentials
    BY <1>2, Started DEF AllowBoundHeaders
  <2>2. header_owner' = (IF header_owner = None THEN c ELSE header_owner) /\ c # None
    BY <1>2, <2>1, NoneAssumption DEF StartAttempt, OwnHeaders
  <2> HIDE DEF n
  <2> QED BY <2>1, <2>2 DEF HeaderInv
<1> QED BY <1>1, <1>2

-----------------------------------------------------------------------------
(* What is excluded and what is put off.                                   *)

Decision(i, kind) == log[i].decision # None /\ log[i].decision.kind = kind

ExcludeInv ==
  /\ \A i \in Attempts : Decision(i, "Reselect") =>
       /\ log[i].decision.scope \in Scopes
       /\ <<log[i].decision.scope, ScopeKey(log[i].decision.scope, log[i].on)>> \in excluded
  /\ pc \in Picked /\ ~bound => Allows(selected)
  /\ HardFailuresStick

(* What shares the scope of a failure has the same key.                    *)
LEMMA SharedKey ==
  ASSUME NEW scope \in Scopes, NEW r, NEW q, Shares(scope, r, q)
  PROVE  /\ ScopeKey(scope, q) = ScopeKey(scope, r)
         /\ q.credential = r.credential => DeferralKey(scope, q) = DeferralKey(scope, r)
<1>1. ScopeKey(scope, q) = ScopeKey(scope, r)
  <2>1. CASE scope = "ExactCandidate"
    BY <2>1 DEF Shares, ScopeKey
  <2>2. CASE scope = "Credential"
    BY <2>2 DEF Shares, ScopeKey
  <2>3. CASE scope = "CredentialModel"
    BY <2>3 DEF Shares, ScopeKey
  <2>4. CASE scope = "RouteOperation"
    BY <2>4 DEF Shares, ScopeKey
  <2>5. CASE scope = "EgressPath"
    BY <2>5 DEF Shares, ScopeKey
  <2>6. CASE scope = "Proxy"
    BY <2>6 DEF Shares, ScopeKey
  <2>7. CASE scope = "Endpoint"
    BY <2>7 DEF Shares, ScopeKey
  <2> QED BY <2>1, <2>2, <2>3, <2>4, <2>5, <2>6, <2>7 DEF Scopes
<1> QED BY <1>1 DEF DeferralKey

(* What the decision about an attempt left behind: nothing, an exclusion   *)
(* of its scope or a deferral of its scope.                                *)
Unmarked(e) == e.decision.kind \notin {"Reselect", "PreferAlternate"} /\ UNCHANGED <<excluded, deferred>>
MarkedOut(e) ==
  /\ e.decision.kind = "Reselect" /\ e.failure \in Failures /\ e.decision.scope = e.failure.scope
  /\ Exclude(selected, e.failure.scope)
MarkedLater(e) ==
  /\ e.decision.kind = "PreferAlternate" /\ e.failure \in Failures /\ e.decision.scope = e.failure.scope
  /\ Defer(selected, e.failure.scope, clock + RetryDelay(e.failure, selected))

\* The decision about the last attempt goes on record together with the
\* exclusion or deferral it makes.
LEMMA Marked ==
  ASSUME Awaiting, LogInv, Refreshed \/ \E f \in Failures : FailsWith(f)
  PROVE  /\ pc \in Trying /\ pc' \notin Picked /\ clock' = clock
         /\ Len(log') = Len(log) /\ Attempts' = Attempts /\ Len(log) \in Attempts
         /\ \A i \in Attempts : i # Len(log) => log'[i] = log[i] /\ i < Len(log)
         /\ \A i \in Attempts : log'[i].on = log[i].on /\ log'[i].bound = log[i].bound /\ log'[i].at = log[i].at
         /\ \/ Unmarked(log'[Len(log)]) \/ MarkedOut(log'[Len(log)]) \/ MarkedLater(log'[Len(log)])
<1>1. ASSUME NEW f, NEW d, Record(f, d), pc \in Trying
      PROVE  /\ Len(log') = Len(log) /\ Attempts' = Attempts /\ Len(log) \in Attempts
             /\ \A i \in Attempts : i # Len(log) => log'[i] = log[i] /\ i < Len(log)
             /\ \A i \in Attempts : log'[i].on = log[i].on /\ log'[i].bound = log[i].bound /\ log'[i].at = log[i].at
             /\ log'[Len(log)].failure = f /\ log'[Len(log)].decision = d
  BY <1>1, Recorded DEF Attempts, LogInv
<1>2. CASE Refreshed
  <2>1. /\ pc \in Trying /\ pc' \notin Picked /\ clock' = clock /\ UNCHANGED <<excluded, deferred>>
        /\ Record(failure, [kind |-> "OAuthRefresh"])
    BY <1>2 DEF Refreshed, Trying, Picked
  <2>2. PICK d : d = [kind |-> "OAuthRefresh"]
    OBVIOUS
  <2>3. d.kind = "OAuthRefresh" /\ Record(failure, d)
    BY <2>1, <2>2
  <2>4. Unmarked(log'[Len(log)])
    BY <1>1, <2>1, <2>3 DEF Unmarked
  <2> QED BY <1>1, <2>1, <2>3, <2>4
<1>3. ASSUME NEW f \in Failures, FailsWith(f)
      PROVE  /\ pc \in Trying /\ pc' \notin Picked /\ clock' = clock
             /\ \E d : /\ Record(f, d)
                      /\ \/ Unmarked(log'[Len(log)]) \/ MarkedOut(log'[Len(log)]) \/ MarkedLater(log'[Len(log)])
  <2>1. pc \in Trying /\ pc' \notin Picked /\ clock' = clock /\ Decided(f)
    BY <1>3 DEF FailsWith, Decided, GoesOn, Picked
  <2>2. CASE Record(f, Terminal) /\ UNCHANGED <<excluded, deferred>>
    <3>1. PICK d : d = Terminal
      OBVIOUS
    <3>2. d.kind = "Terminal" /\ Record(f, d)
      BY <2>2, <3>1 DEF Terminal
    <3>3. log'[Len(log)].decision = d
      BY <1>1, <2>1, <3>2
    <3> QED BY <2>1, <2>2, <3>2, <3>3 DEF Unmarked
  <2>3. CASE GoesOn(f)
    <3>1. PICK d : /\ Record(f, d)
                   /\ \/ d.kind = "RetrySamePath" /\ UNCHANGED <<excluded, deferred>>
                      \/ d.kind = "Reselect" /\ d.scope = f.scope /\ Exclude(selected, f.scope)
                      \/ /\ d.kind = "PreferAlternate" /\ d.scope = f.scope
                         /\ Defer(selected, f.scope, clock + RetryDelay(f, selected))
      BY <2>3 DEF GoesOn
    <3>2. log'[Len(log)].decision = d /\ log'[Len(log)].failure = f
      BY <1>1, <2>1, <3>1
    <3> QED BY <2>1, <3>1, <3>2 DEF Unmarked, MarkedOut, MarkedLater
  <2> QED BY <2>1, <2>2, <2>3 DEF Decided
<1> QED BY <1>1, <1>2, <1>3

\* What was ruled out stays so: exclusions only grow, and a candidate is
\* selected and started under the same ones.
LEMMA ExcludeStep == ASSUME PlanInv, Awaiting, LogInv, ExcludeInv, [Next]_vars PROVE ExcludeInv'
<1>1. ASSUME log' = log, excluded' = excluded, pc' \in Picked /\ ~bound' => Allows(selected)' PROVE ExcludeInv'
  BY <1>1 DEF ExcludeInv, HardFailuresStick, Attempts, Decision
<1>2. CASE Quiet
  <2>1. log' = log /\ excluded' = excluded
    BY <1>2 DEF Quiet
  <2>2. pc' \in Picked /\ ~bound' => Allows(selected)'
    BY <1>2 DEF Quiet, ExcludeInv, Allows, Picked
  <2> QED BY <1>1, <2>1, <2>2
<1>3. ASSUME NEW f \in Failures, AwaitsRefresh(f) PROVE ExcludeInv'
  <2>1. log' = log /\ excluded' = excluded /\ pc' \notin Picked
    BY <1>3 DEF AwaitsRefresh, Picked
  <2> QED BY <1>1, <2>1
<1>4. CASE StartAttempt
  <2> DEFINE n == Len(log')
  <2>1. /\ Attempts' = Attempts \cup {n} /\ \A i \in Attempts : log'[i] = log[i] /\ i < n
        /\ log'[n].on = selected /\ log'[n].bound = bound /\ log'[n].decision = None /\ n \in Nat
    BY <1>4, Started
  <2>2. pc \in Picked /\ pc' \notin Picked /\ excluded' = excluded
    BY <1>4 DEF StartAttempt, Picked, Continue, recoveryVars
  <2> HIDE DEF n
  <2>3. \A i \in Attempts' : Decision(i, "Reselect")' =>
          /\ i \in Attempts /\ Decision(i, "Reselect")
    BY <2>1 DEF Decision
  <2>4. \A i \in Attempts' : Decision(i, "Reselect")' =>
          /\ log'[i].decision.scope \in Scopes
          /\ <<log'[i].decision.scope, ScopeKey(log'[i].decision.scope, log'[i].on)>> \in excluded'
    BY <2>1, <2>2, <2>3 DEF ExcludeInv
  <2>5. ASSUME NEW i \in Attempts, Decision(i, "Reselect"), ~bound, Shares(log[i].decision.scope, log[i].on, selected)
        PROVE  FALSE
    <3>1. /\ log[i].decision.scope \in Scopes
          /\ <<log[i].decision.scope, ScopeKey(log[i].decision.scope, log[i].on)>> \in excluded
      BY <2>5 DEF ExcludeInv
    <3>2. ScopeKey(log[i].decision.scope, selected) = ScopeKey(log[i].decision.scope, log[i].on)
      BY <2>5, <3>1, SharedKey
    <3> QED BY <2>2, <2>5, <3>1, <3>2 DEF ExcludeInv, Allows
  <2>6. HardFailuresStick'
    <3> SUFFICES ASSUME NEW i \in Attempts', NEW j \in Attempts', i < j, ~log'[j].bound,
                        Decision(i, "Reselect")', Shares(log'[i].decision.scope, log'[i].on, log'[j].on)
                 PROVE  FALSE
      BY DEF HardFailuresStick, Decision
    <3>1. i \in Attempts /\ Decision(i, "Reselect") /\ log'[i] = log[i]
      BY <2>1, <2>3
    <3>2. CASE j = n
      BY <2>1, <2>5, <3>1, <3>2
    <3>3. CASE j \in Attempts
      BY <2>1, <3>1, <3>3 DEF ExcludeInv, HardFailuresStick, Decision
    <3> QED BY <2>1, <3>2, <3>3
  <2> QED BY <2>2, <2>4, <2>6 DEF ExcludeInv
<1>5. CASE Refreshed \/ \E f \in Failures : FailsWith(f)
  <2> DEFINE n == Len(log)
  <2>1. /\ pc \in Trying /\ pc' \notin Picked /\ Attempts' = Attempts /\ n \in Attempts
        /\ \A i \in Attempts : i # n => log'[i] = log[i] /\ i < n
        /\ \A i \in Attempts : log'[i].on = log[i].on /\ log'[i].bound = log[i].bound
        /\ \/ Unmarked(log'[n]) \/ MarkedOut(log'[n]) \/ MarkedLater(log'[n])
    BY <1>5, Marked
  <2>2. log[n].on = selected
    BY <2>1 DEF LogInv
  <2> HIDE DEF n
  <2>3. excluded \subseteq excluded'
    BY <2>1 DEF Unmarked, MarkedOut, MarkedLater, Exclude, Defer
  <2>4. ASSUME log'[n].decision.kind = "Reselect"
        PROVE  /\ log'[n].decision.scope \in Scopes
               /\ <<log'[n].decision.scope, ScopeKey(log'[n].decision.scope, log'[n].on)>> \in excluded'
    <3>1. MarkedOut(log'[n])
      BY <2>1, <2>4 DEF Unmarked, MarkedLater
    <3>2. log'[n].decision.scope \in Scopes /\ Exclude(selected, log'[n].decision.scope)
      BY <3>1, FailuresAssumption DEF MarkedOut
    <3> QED BY <2>1, <2>2, <3>2 DEF Exclude
  <2>5. HardFailuresStick'
    <3> SUFFICES ASSUME NEW i \in Attempts, NEW j \in Attempts, i < j, ~log'[j].bound,
                        log'[i].decision # None, log'[i].decision.kind = "Reselect",
                        Shares(log'[i].decision.scope, log'[i].on, log'[j].on)
                 PROVE  FALSE
      BY <2>1 DEF HardFailuresStick
    <3>1. i # n
      BY <2>1 DEF LogInv, Attempts, n
    <3> QED BY <2>1, <3>1 DEF ExcludeInv, HardFailuresStick
  <2>6. ASSUME NEW i \in Attempts, log'[i].decision # None, log'[i].decision.kind = "Reselect"
        PROVE  /\ log'[i].decision.scope \in Scopes
               /\ <<log'[i].decision.scope, ScopeKey(log'[i].decision.scope, log'[i].on)>> \in excluded'
    <3>1. CASE i = n
      BY <2>4, <2>6, <3>1
    <3>2. CASE i # n
      BY <2>1, <2>3, <2>6, <3>2 DEF ExcludeInv, Decision
    <3> QED BY <3>1, <3>2
  <2> QED BY <2>1, <2>5, <2>6 DEF ExcludeInv, Decision
<1> QED BY <1>2, <1>3, <1>4, <1>5, Steps

(* Deferrals.                                                              *)
PutOff(i) == <<log[i].decision.scope, DeferralKey(log[i].decision.scope, log[i].on)>>

DelayInv ==
  /\ clock \in Nat
  /\ \A i \in Attempts : log[i].at \in Nat /\ log[i].at <= clock
  /\ \A k \in DOMAIN deferred : deferred[k] \in Nat
  /\ \A i \in Attempts : Decision(i, "PreferAlternate") =>
       /\ log[i].decision.scope \in Scopes /\ log[i].failure.retry_after \in Nat
       /\ PutOff(i) \in DOMAIN deferred
       /\ deferred[PutOff(i)] >= log[i].at + log[i].failure.retry_after
  /\ \A k \in DOMAIN budget.by_candidate : budget.by_candidate[k] \in Nat \ {0}
  /\ pc \in Trying => Identity(selected) \in DOMAIN budget.by_candidate
  /\ pc \in Picked /\ ~bound => DeferredUntil(selected) <= clock
  /\ DelaysAreKept

(* The back-off is never shorter than what the upstream asked for.         *)
LEMMA DelayIsLong ==
  ASSUME NEW n \in Nat \ {0}, NEW after \in Nat
  PROVE  DelayForAttemptCount(n, after) \in Nat /\ DelayForAttemptCount(n, after) >= after
<1> DEFINE x == BaseDelay * 2^(n - 1)  y == Min({x, MaxDelay})
<1>1. 2^(n - 1) \in Int
  <2>1. n - 1 \in Nat
    OBVIOUS
  <2> QED BY <2>1
<1>2. x \in Int /\ MaxDelay \in Int
  BY <1>1, PolicyAssumption
<1> HIDE DEF x
<1>3. y \in Int
  BY <1>2 DEF Min
<1> HIDE DEF y
<1>4. Max({y, after}) \in Int /\ Max({y, after}) >= after
  BY <1>3 DEF Max
<1>5. DelayForAttemptCount(n, after) = Max({y, after})
  BY DEF DelayForAttemptCount, x, y
<1> QED BY <1>4, <1>5

(* A candidate is put off until its last deferral ends.                    *)
LEMMA DeferredMax ==
  ASSUME \A k \in DOMAIN deferred : deferred[k] \in Nat, NEW r
  PROVE  /\ DeferredUntil(r) \in Nat
         /\ \A scope \in Scopes : Lookup(deferred, <<scope, DeferralKey(scope, r)>>) <= DeferredUntil(r)
<1> DEFINE L(x) == Lookup(deferred, <<x, DeferralKey(x, r)>>)
           S == {0} \cup {L(x) : x \in Scopes}
<1>1. \A x \in Scopes : L(x) \in Nat
  BY DEF Lookup
<1> HIDE DEF L
<1>2. S = {0, L("ExactCandidate"), L("Credential"), L("CredentialModel"), L("RouteOperation"),
           L("EgressPath"), L("Proxy"), L("Endpoint")}
  BY DEF Scopes
<1>3. /\ L("ExactCandidate") \in Nat /\ L("Credential") \in Nat /\ L("CredentialModel") \in Nat
      /\ L("RouteOperation") \in Nat /\ L("EgressPath") \in Nat /\ L("Proxy") \in Nat /\ L("Endpoint") \in Nat
  BY <1>1 DEF Scopes
<1>4. \E x \in S : \A y \in S : x >= y
  <2>1. \A a, b, c, d, e, f, g \in Nat :
          \E x \in {0, a, b, c, d, e, f, g} : \A y \in {0, a, b, c, d, e, f, g} : x >= y
    OBVIOUS
  <2> HIDE DEF S
  <2> QED BY <1>2, <1>3, <2>1
<1>5. S \subseteq Nat /\ \A x \in Scopes : L(x) \in S
  BY <1>1
<1> HIDE DEF S
<1>6. Max(S) \in S /\ \A y \in S : Max(S) >= y
  BY <1>4 DEF Max
<1>7. DeferredUntil(r) = Max(S)
  BY DEF DeferredUntil, S, L
<1>8. ASSUME NEW x \in Scopes PROVE L(x) <= Max(S)
  <2>1. PICK l, m : l = L(x) /\ m = Max(S)
    OBVIOUS
  <2>2. l \in Nat /\ m \in Nat /\ m >= l
    BY <1>5, <1>6, <2>1
  <2> QED BY <2>1, <2>2
<1> QED BY <1>5, <1>6, <1>7, <1>8 DEF L

(* The deferral of a failed attempt lasts as long as was asked for.        *)
LEMMA DefersLong ==
  ASSUME LogInv, DelayInv, pc \in Trying, NEW f \in Failures
  PROVE  RetryDelay(f, selected) \in Nat /\ RetryDelay(f, selected) >= f.retry_after /\ f.retry_after \in Nat
<1> DEFINE n == IF f.basis = "candidate" THEN budget.by_candidate[Identity(selected)] ELSE budget.attempts
<1>1. f.retry_after \in Nat
  BY FailuresAssumption
<1>2. n \in Nat \ {0}
  <2>1. budget.attempts \in Nat \ {0}
    BY DEF LogInv
  <2>2. budget.by_candidate[Identity(selected)] \in Nat \ {0}
    BY DEF DelayInv
  <2> QED BY <2>1, <2>2
<1> HIDE DEF n
<1>3. RetryDelay(f, selected) = DelayForAttemptCount(n, f.retry_after)
  BY DEF RetryDelay, n
<1> QED BY <1>1, <1>2, <1>3, DelayIsLong

\* A deferral lasts at least as long as the upstream asked for, and later
\* ones only prolong it.
LEMMA DelayStep == ASSUME PlanInv, Awaiting, LogInv, DelayInv, [Next]_vars PROVE DelayInv'
<1>0. clock \in Nat /\ clock' \in Nat /\ clock <= clock'
  <2>1. clock' \in {clock, clock + 1}
    <3>1. StartAttempt => clock' = clock
      BY DEF StartAttempt, environmentVars
    <3> QED BY <3>1, Kept
  <2> QED BY <2>1 DEF DelayInv
<1>1. ASSUME log' = log, deferred' = deferred, budget' = budget,
             pc' \in Trying => pc \in Trying /\ selected' = selected,
             pc' \in Picked /\ ~bound' => (DeferredUntil(selected) <= clock)'
      PROVE  DelayInv'
  <2>1. \A i \in Attempts' : log'[i].at \in Nat /\ log'[i].at <= clock'
    <3>1. \A i \in Attempts : log[i].at \in Nat /\ log[i].at <= clock
      BY DEF DelayInv
    <3> QED BY <1>0, <1>1, <3>1 DEF Attempts
  <2>2. \A i \in Attempts' : Decision(i, "PreferAlternate")' =>
       /\ log'[i].decision.scope \in Scopes /\ log'[i].failure.retry_after \in Nat
       /\ PutOff(i)' \in DOMAIN deferred'
       /\ deferred'[PutOff(i)'] >= log'[i].at + log'[i].failure.retry_after
    BY <1>1 DEF DelayInv, Decision, PutOff, Attempts
  <2>3. DelaysAreKept'
    BY <1>1 DEF DelayInv, DelaysAreKept, Attempts
  <2>4. pc' \in Trying => Identity(selected)' \in DOMAIN budget'.by_candidate
    BY <1>1 DEF DelayInv, Identity
  <2> QED BY <1>0, <1>1, <2>1, <2>2, <2>3, <2>4 DEF DelayInv
<1>2. CASE Quiet
  <2>1. log' = log /\ deferred' = deferred /\ budget' = budget
        /\ (pc' \in Trying => pc \in Trying /\ selected' = selected)
    BY <1>2 DEF Quiet, Trying
  <2>2. ASSUME pc' \in Picked, ~bound' PROVE (DeferredUntil(selected) <= clock)'
    <3>1. DeferredUntil(selected)' = DeferredUntil(selected')
      BY <2>1 DEF DeferredUntil
    <3>2. DeferredUntil(selected') <= clock
      BY <1>2, <2>2 DEF Quiet, DelayInv, Picked
    <3>3. DeferredUntil(selected') \in Nat
      BY DeferredMax DEF DelayInv
    <3> QED BY <1>0, <3>1, <3>2, <3>3
  <2> QED BY <1>1, <2>1, <2>2
<1>3. ASSUME NEW f \in Failures, AwaitsRefresh(f) PROVE DelayInv'
  BY <1>1, <1>3 DEF AwaitsRefresh, Picked, Trying
<1>4. CASE StartAttempt
  <2> DEFINE n == Len(log')  k == Identity(selected)
  <2>1. /\ Attempts' = Attempts \cup {n} /\ \A i \in Attempts : log'[i] = log[i] /\ i < n
        /\ log'[n].on = selected /\ log'[n].bound = bound /\ log'[n].decision = None /\ log'[n].at = clock
        /\ n \in Nat /\ Attempts \subseteq Nat
    BY <1>4, Started DEF Attempts
  <2>2. /\ pc \in Picked /\ pc' = "attempt" /\ deferred' = deferred /\ selected' = selected /\ clock' = clock
        /\ budget'.by_candidate = [j \in DOMAIN budget.by_candidate \cup {k} |->
                                     Lookup(budget.by_candidate, j) + (IF j = k THEN 1 ELSE 0)]
    BY <1>4 DEF StartAttempt, Picked, Continue, recoveryVars, choiceVars, environmentVars, RegisterAttempt
  <2>3. pc' \notin Picked /\ Identity(selected)' = k
    BY <2>2 DEF Picked, Identity
  <2> HIDE DEF n, k
  <2>4. (\A j \in DOMAIN budget.by_candidate : budget.by_candidate[j] \in Nat \ {0})'
        /\ k \in DOMAIN budget'.by_candidate
    <3>1. \A j \in DOMAIN budget.by_candidate : budget.by_candidate[j] \in Nat \ {0}
      BY DEF DelayInv
    <3>2. ASSUME NEW j \in DOMAIN budget.by_candidate \cup {k}
          PROVE  Lookup(budget.by_candidate, j) + (IF j = k THEN 1 ELSE 0) \in Nat \ {0}
      BY <3>1 DEF Lookup
    <3> QED BY <2>2, <3>2
  <2>5. \A i \in Attempts' : log'[i].at \in Nat /\ log'[i].at <= clock'
    BY <1>0, <2>1, <2>2 DEF DelayInv
  <2>6. ASSUME NEW i \in Attempts', log'[i].decision # None PROVE i \in Attempts /\ log'[i] = log[i]
    BY <2>1, <2>6
  <2>7. \A i \in Attempts' : Decision(i, "PreferAlternate")' =>
       /\ log'[i].decision.scope \in Scopes /\ log'[i].failure.retry_after \in Nat
       /\ PutOff(i)' \in DOMAIN deferred'
       /\ deferred'[PutOff(i)'] >= log'[i].at + log'[i].failure.retry_after
    BY <2>2, <2>6 DEF DelayInv, Decision, PutOff
  <2>8. ASSUME NEW i \in Attempts, Decision(i, "PreferAlternate"), ~bound,
               Shares(log[i].decision.scope, log[i].on, selected), selected.credential = log[i].on.credential
        PROVE  clock >= log[i].at + log[i].failure.retry_after
    <3> DEFINE scope == log[i].decision.scope
    <3>1. /\ scope \in Scopes /\ PutOff(i) \in DOMAIN deferred /\ deferred[PutOff(i)] \in Nat
          /\ log[i].failure.retry_after \in Nat /\ log[i].at \in Nat
          /\ deferred[PutOff(i)] >= log[i].at + log[i].failure.retry_after
      BY <2>8 DEF DelayInv
    <3>2. PutOff(i) = <<scope, DeferralKey(scope, selected)>>
      BY <2>8, <3>1, SharedKey DEF PutOff
    <3>3. Lookup(deferred, <<scope, DeferralKey(scope, selected)>>) = deferred[PutOff(i)]
      BY <3>1, <3>2 DEF Lookup
    <3>4. DeferredUntil(selected) <= clock /\ DeferredUntil(selected) \in Nat
      BY <2>2, <2>8, DeferredMax DEF DelayInv
    <3>5. deferred[PutOff(i)] <= DeferredUntil(selected)
      BY <3>1, <3>3, DeferredMax DEF DelayInv
    <3> QED BY <1>0, <3>1, <3>4, <3>5
  <2>9. DelaysAreKept'
    <3> SUFFICES ASSUME NEW i \in Attempts', NEW j \in Attempts', i < j, ~log'[j].bound,
                        log'[i].decision # None, log'[i].decision.kind = "PreferAlternate",
                        Shares(log'[i].decision.scope, log'[i].on, log'[j].on),
                        log'[j].on.credential = log'[i].on.credential
                 PROVE  log'[j].at >= log'[i].at + log'[i].failure.retry_after
      BY DEF DelaysAreKept
    <3>1. i \in Attempts /\ log'[i] = log[i]
      BY <2>6
    <3>2. CASE j = n
      BY <2>1, <2>8, <3>1, <3>2 DEF Decision
    <3>3. CASE j \in Attempts
      BY <2>1, <3>1, <3>3 DEF DelayInv, DelaysAreKept
    <3> QED BY <2>1, <3>2, <3>3
  <2> QED BY <1>0, <2>2, <2>3, <2>4, <2>5, <2>7, <2>9 DEF DelayInv
<1>5. CASE Refreshed \/ \E f \in Failures : FailsWith(f)
  <2> DEFINE n == Len(log)
  <2>1. /\ pc \in Trying /\ pc' \notin Picked /\ Attempts' = Attempts /\ n \in Attempts /\ clock' = clock
        /\ \A i \in Attempts : i # n => log'[i] = log[i] /\ i < n
        /\ \A i \in Attempts : log'[i].on = log[i].on /\ log'[i].bound = log[i].bound /\ log'[i].at = log[i].at
        /\ \/ Unmarked(log'[n]) \/ MarkedOut(log'[n]) \/ MarkedLater(log'[n])
    BY <1>5, Marked
  <2>2. log[n].on = selected /\ log[n].at \in Nat /\ log[n].at <= clock /\ n \in Nat /\ Attempts \subseteq Nat
    BY <2>1 DEF LogInv, DelayInv, Attempts
  <2>3. pc' \notin Trying /\ budget' = budget
    BY <1>5 DEF Refreshed, FailsWith, Decided, GoesOn, Trying
  <2> HIDE DEF n
  <2>4. /\ \A k \in DOMAIN deferred' : deferred'[k] \in Nat
        /\ \A k \in DOMAIN deferred : k \in DOMAIN deferred' /\ deferred'[k] >= deferred[k]
        /\ log'[n].decision.kind = "PreferAlternate" =>
             LET key == <<log'[n].decision.scope, DeferralKey(log'[n].decision.scope, selected)>> IN
             /\ log'[n].decision.scope \in Scopes /\ log'[n].failure.retry_after \in Nat
             /\ key \in DOMAIN deferred' /\ deferred'[key] >= clock + log'[n].failure.retry_after
    <3>1. \A k \in DOMAIN deferred : deferred[k] \in Nat
      BY DEF DelayInv
    <3>2. CASE Unmarked(log'[n]) \/ MarkedOut(log'[n])
      <4>1. deferred' = deferred /\ log'[n].decision.kind # "PreferAlternate"
        BY <3>2 DEF Unmarked, MarkedOut, Exclude
      <4> QED BY <3>1, <4>1
    <3>3. CASE MarkedLater(log'[n])
      <4> DEFINE f == log'[n].failure
                 until == clock + RetryDelay(f, selected)
                 key == <<f.scope, DeferralKey(f.scope, selected)>>
      <4>1. f \in Failures /\ log'[n].decision.scope = f.scope /\ Defer(selected, f.scope, until)
        BY <3>3 DEF MarkedLater
      <4>2. /\ f.scope \in Scopes /\ f.retry_after \in Nat
            /\ until \in Nat /\ until >= clock + f.retry_after
        BY <1>0, <2>1, <4>1, DefersLong, FailuresAssumption
      <4>3. deferred' = [k \in DOMAIN deferred \cup {key} |->
                           IF k = key THEN Max({until, Lookup(deferred, key)}) ELSE deferred[k]]
        BY <4>1 DEF Defer
      <4> HIDE DEF until, key
      <4>4. Lookup(deferred, key) \in Nat
        BY <3>1 DEF Lookup
      <4>5. /\ Max({until, Lookup(deferred, key)}) \in Nat /\ Max({until, Lookup(deferred, key)}) >= until
            /\ Max({until, Lookup(deferred, key)}) >= Lookup(deferred, key)
        BY <4>2, <4>4 DEF Max
      <4>6. \A k \in DOMAIN deferred' : deferred'[k] \in Nat
        BY <3>1, <4>3, <4>5
      <4>7. \A k \in DOMAIN deferred : k \in DOMAIN deferred' /\ deferred'[k] >= deferred[k]
        BY <3>1, <4>3, <4>5 DEF Lookup
      <4>8. key \in DOMAIN deferred' /\ deferred'[key] >= clock + f.retry_after
        <5>1. deferred'[key] = Max({until, Lookup(deferred, key)})
          BY <4>3
        <5>2. clock + f.retry_after \in Nat
          BY <1>0, <4>2
        <5> QED BY <4>2, <4>3, <4>5, <5>1, <5>2
      <4> QED BY <4>1, <4>2, <4>6, <4>7, <4>8 DEF key
    <3> QED BY <2>1, <3>2, <3>3
  <2>5. ASSUME NEW i \in Attempts, log'[i].decision # None, log'[i].decision.kind = "PreferAlternate"
        PROVE  LET key == <<log'[i].decision.scope, DeferralKey(log'[i].decision.scope, log'[i].on)>> IN
               /\ log'[i].decision.scope \in Scopes /\ log'[i].failure.retry_after \in Nat
               /\ key \in DOMAIN deferred' /\ deferred'[key] >= log'[i].at + log'[i].failure.retry_after
    <3>1. CASE i = n
      <4> DEFINE key == <<log'[n].decision.scope, DeferralKey(log'[n].decision.scope, selected)>>
      <4>1. /\ log'[n].decision.scope \in Scopes /\ log'[n].failure.retry_after \in Nat
            /\ key \in DOMAIN deferred' /\ deferred'[key] >= clock + log'[n].failure.retry_after
            /\ deferred'[key] \in Nat
        BY <2>4, <2>5, <3>1
      <4>2. log'[n].on = selected /\ log'[n].at = log[n].at
        BY <2>1, <2>2
      <4>3. deferred'[key] >= log'[n].at + log'[n].failure.retry_after
        BY <1>0, <2>2, <4>1, <4>2
      <4> QED BY <3>1, <4>1, <4>2, <4>3
    <3>2. CASE i # n
      <4>1. log'[i] = log[i] /\ Decision(i, "PreferAlternate")
        BY <2>1, <2>5, <3>2 DEF Decision
      <4>2. /\ log[i].decision.scope \in Scopes /\ log[i].failure.retry_after \in Nat /\ log[i].at \in Nat
            /\ PutOff(i) \in DOMAIN deferred /\ deferred[PutOff(i)] \in Nat
            /\ deferred[PutOff(i)] >= log[i].at + log[i].failure.retry_after
        BY <4>1 DEF DelayInv
      <4>3. PutOff(i) \in DOMAIN deferred' /\ deferred'[PutOff(i)] >= deferred[PutOff(i)] /\ deferred'[PutOff(i)] \in Nat
        BY <2>4, <4>2
      <4>4. deferred'[PutOff(i)] >= log[i].at + log[i].failure.retry_after
        BY <4>2, <4>3
      <4> QED BY <4>1, <4>2, <4>3, <4>4 DEF PutOff
    <3> QED BY <3>1, <3>2
  <2>6. DelaysAreKept'
    <3> SUFFICES ASSUME NEW i \in Attempts, NEW j \in Attempts, i < j, ~log'[j].bound,
                        log'[i].decision # None, log'[i].decision.kind = "PreferAlternate",
                        Shares(log'[i].decision.scope, log'[i].on, log'[j].on),
                        log'[j].on.credential = log'[i].on.credential
                 PROVE  log'[j].at >= log'[i].at + log'[i].failure.retry_after
      BY <2>1 DEF DelaysAreKept
    <3>1. i # n
      BY <2>1, <2>2 DEF Attempts, n
    <3> QED BY <2>1, <3>1 DEF DelayInv, DelaysAreKept
  <2>7. \A i \in Attempts : log'[i].at \in Nat /\ log'[i].at <= clock'
    BY <2>1 DEF DelayInv
  <2> QED BY <1>0, <2>1, <2>3, <2>4, <2>5, <2>6, <2>7 DEF DelayInv, Decision, PutOff
<1> QED BY <1>2, <1>3, <1>4, <1>5, Steps

-----------------------------------------------------------------------------
(* What the client gets.                                                   *)

AnswerInv ==
  /\ pc # "done" => answer = None
  /\ pc # "done" /\ previous = 0 => \A i \in Attempts : log[i].failure = None
  /\ UpstreamFailureWins

\* As long as nothing is answered, previous_error knows of every failure on
\* record.
LEMMA AnswerStep == ASSUME PlanInv, Awaiting, LogInv, AnswerInv, [Next]_vars PROVE AnswerInv'
<1>1. ASSUME pc' # "done", answer' = None, previous' # 0 PROVE AnswerInv'
  BY <1>1 DEF AnswerInv, UpstreamFailureWins
<1>2. CASE Quiet
  <2>1. log' = log /\ previous' = previous /\ Attempts' = Attempts
    BY <1>2 DEF Quiet, Attempts
  <2>2. CASE UNCHANGED <<pc, answer>>
    BY <2>1, <2>2 DEF AnswerInv, UpstreamFailureWins
  <2>3. CASE pc # "done" /\ pc' # "done" /\ answer' = answer
    BY <2>1, <2>3 DEF AnswerInv, UpstreamFailureWins
  <2>4. CASE pc # "done" /\ pc' = "done" /\ Honest(answer')
    BY <2>1, <2>4 DEF AnswerInv, UpstreamFailureWins, Honest
  <2> QED BY <1>2, <2>2, <2>3, <2>4 DEF Quiet
<1>3. CASE StartAttempt
  <2>1. pc = "start" /\ pc' = "attempt" /\ answer' = answer /\ previous' = previous
    BY <1>3 DEF StartAttempt, Continue, recoveryVars
  <2>2. previous = 0 => \A i \in Attempts' : log'[i].failure = None
    BY <1>3, <2>1, Started DEF AnswerInv
  <2> QED BY <2>1, <2>2 DEF AnswerInv, UpstreamFailureWins
<1>4. pc \in Trying => budget.attempts # 0 /\ answer = None
  BY DEF LogInv, AnswerInv, Trying
<1>5. CASE Refreshed
  BY <1>1, <1>4, <1>5 DEF Refreshed, Trying
<1>6. ASSUME NEW f \in Failures, FailsWith(f) PROVE AnswerInv'
  <2>1. CASE pc' = "done" /\ answer' = OfAttempt(budget.attempts)
    BY <2>1 DEF AnswerInv, UpstreamFailureWins, OfAttempt
  <2>2. CASE previous' = budget.attempts /\ answer' = answer /\ GoesOn(f)
    BY <1>1, <1>4, <1>6, <2>2 DEF FailsWith, GoesOn
  <2> QED BY <1>6, <2>1, <2>2 DEF FailsWith, Decided
<1>7. ASSUME NEW f \in Failures, AwaitsRefresh(f) PROVE AnswerInv'
  BY <1>4, <1>7 DEF AwaitsRefresh, AnswerInv, UpstreamFailureWins, Attempts, Trying
<1> QED BY <1>2, <1>3, <1>5, <1>6, <1>7, Steps

-----------------------------------------------------------------------------
(* Which tokens are reported.                                              *)

(* Attempt i had the upstream reject an older token of t's account, and    *)
(* was followed by a refresh.                                              *)
Renewed(i, t) ==
  /\ Decision(i, "OAuthRefresh")
  /\ log[i].on.id.credential = t[1] /\ log[i].on.token < t[2]

RejectInv ==
  /\ refreshed_target # None => \E i \in Attempts : Renewed(i, refreshed_target)
  /\ RejectionIsEarned

(* What was decided stays decided.                                         *)
LEMMA Lasting ==
  ASSUME PlanInv, Awaiting, LogInv, [Next]_vars
  PROVE  /\ Attempts \subseteq Attempts'
         /\ \A i \in Attempts : log'[i].on = log[i].on
         /\ \A i \in Attempts : log[i].decision # None => log'[i].decision = log[i].decision
<1>1. CASE Quiet \/ \E f \in Failures : AwaitsRefresh(f)
  BY <1>1 DEF Quiet, AwaitsRefresh, Attempts
<1>2. CASE StartAttempt
  BY <1>2, Started
<1>3. CASE Refreshed \/ \E f \in Failures : FailsWith(f)
  <2>1. /\ pc \in Trying /\ Attempts' = Attempts
        /\ \A i \in Attempts : i # Len(log) => log'[i] = log[i]
        /\ \A i \in Attempts : log'[i].on = log[i].on
    BY <1>3, Marked
  <2>2. log[Len(log)].decision = None
    BY <2>1 DEF LogInv
  <2> QED BY <2>1, <2>2
<1> QED BY <1>1, <1>2, <1>3, Steps

\* The refreshed token that is kept in mind follows an attempt with an older
\* one.
LEMMA RejectStep == ASSUME PlanInv, Awaiting, LogInv, RejectInv, [Next]_vars PROVE RejectInv'
<1>1. ASSUME NEW i \in Attempts, NEW t, Renewed(i, t) PROVE i \in Attempts' /\ Renewed(i, t)'
  BY <1>1, Lasting DEF Renewed, Decision
<1>2. Attempts \subseteq Nat /\ Len(log) \in Nat
  BY DEF LogInv, Attempts
<1>3. ASSUME NEW t \in rejected
      PROVE  \E i, j \in Attempts' : /\ i < j /\ Renewed(i, t)'
                                     /\ log'[j].on.id.credential = t[1] /\ log'[j].on.token = t[2]
  <2>1. PICK i \in Attempts, j \in Attempts : /\ i < j /\ Renewed(i, t)
                                              /\ log[j].on.id.credential = t[1] /\ log[j].on.token = t[2]
    BY DEF RejectInv, RejectionIsEarned, Renewed, Decision
  <2>2. i \in Attempts' /\ Renewed(i, t)' /\ j \in Attempts' /\ log'[j].on = log[j].on
    BY <1>1, <2>1, Lasting
  <2> QED BY <2>1, <2>2
<1>10. rejected' = rejected => RejectionIsEarned'
  BY <1>3 DEF RejectionIsEarned, Renewed, Decision
<1>4. ASSUME UNCHANGED <<rejected, refreshed_target>> PROVE RejectInv'
  <2>1. PICK t : t = refreshed_target
    OBVIOUS
  <2>2. t # None => \E i \in Attempts' : Renewed(i, t)'
    BY <1>1, <2>1 DEF RejectInv
  <2>3. refreshed_target' = t
    BY <1>4, <2>1
  <2> QED BY <1>10, <1>4, <2>2, <2>3 DEF RejectInv, Renewed
<1>5. ASSUME NEW f \in Failures, NoteRejected(f), pc \in Trying PROVE RejectInv'
  <2>1. CASE UNCHANGED <<rejected, refreshed_target>>
    BY <1>4, <2>1
  <2>2. CASE /\ refreshed_target # None /\ AuthenticationTarget(f, selected) = refreshed_target
             /\ rejected' = rejected \cup {refreshed_target} /\ refreshed_target' = None
    <3> DEFINE j == Len(log)
    <3>1. PICK t : t = refreshed_target
      OBVIOUS
    <3>2. t[1] = selected.id.credential /\ t[2] = selected.token
      BY <2>2, <3>1 DEF AuthenticationTarget
    <3>3. j \in Attempts /\ log[j].on = selected /\ log[j].decision = None
      BY <1>5 DEF LogInv, Attempts
    <3>4. PICK i \in Attempts : Renewed(i, t)
      BY <2>2, <3>1 DEF RejectInv
    <3>5. i < j
      <4>1. i # j /\ i <= j
        BY <3>3, <3>4 DEF Renewed, Decision, Attempts
      <4> QED BY <1>2, <4>1
    <3>6. /\ i \in Attempts' /\ Renewed(i, t)' /\ j \in Attempts'
          /\ log'[j].on.id.credential = t[1] /\ log'[j].on.token = t[2]
      BY <1>1, <3>2, <3>3, <3>4, Lasting
    <3> HIDE DEF j
    <3>7. \E a, b \in Attempts' : /\ a < b /\ Renewed(a, t)'
                                  /\ log'[b].on.id.credential = t[1] /\ log'[b].on.token = t[2]
      BY <3>5, <3>6
    <3>8. ASSUME NEW u \in rejected
          PROVE  \E a, b \in Attempts' : /\ a < b /\ Renewed(a, u)'
                                         /\ log'[b].on.id.credential = u[1] /\ log'[b].on.token = u[2]
      BY <1>3
    <3> QED BY <2>2, <3>1, <3>7, <3>8 DEF RejectInv, RejectionIsEarned, Renewed, Decision
  <2> QED BY <1>5, <2>1, <2>2 DEF NoteRejected
<1>6. CASE Quiet
  BY <1>4, <1>6 DEF Quiet
<1>7. CASE StartAttempt
  BY <1>4, <1>7 DEF StartAttempt, oauthVars
<1>8. CASE Refreshed
  <2>0. PICK n : n = Len(log)
    OBVIOUS
  <2>1. PICK v : v > selected.token /\ refreshed_target' = <<selected.id.credential, v>>
    BY <1>8 DEF Refreshed
  <2>2. PICK d : d = [kind |-> "OAuthRefresh"]
    OBVIOUS
  <2>3. pc \in Trying /\ Record(failure, d) /\ rejected' = rejected /\ d.kind = "OAuthRefresh" /\ d # None
    BY <1>8, <2>2, NoneAssumption DEF Refreshed, Trying
  <2>4. n \in Attempts' /\ log'[n].on = selected /\ log'[n].decision = d
    BY <2>0, <2>3, Recorded DEF LogInv, Attempts
  <2>5. selected.token < v
    BY <2>1
  <2>6. Renewed(n, refreshed_target)'
    BY <2>1, <2>3, <2>4, <2>5 DEF Renewed, Decision
  <2> QED BY <1>10, <2>3, <2>4, <2>6 DEF RejectInv
<1>9. ASSUME NEW f \in Failures, FailsWith(f) \/ AwaitsRefresh(f) PROVE RejectInv'
  BY <1>4, <1>5, <1>9 DEF FailsWith, AwaitsRefresh, Trying
<1> QED BY <1>6, <1>7, <1>8, <1>9, Steps

-----------------------------------------------------------------------------
(* The inductive invariant.                                                *)

IInv ==
  /\ PlanInv /\ Awaiting /\ LogInv
  /\ BudgetInv /\ HeaderInv /\ ExcludeInv /\ DelayInv /\ AnswerInv /\ RejectInv

(* A request begins without an attempt.                                    *)
LEMMA InitIInv == Init => IInv
<1> SUFFICES ASSUME Init PROVE IInv
  OBVIOUS
<1>1. /\ pc = "run" /\ bound = FALSE /\ log = <<>> /\ budget = NewBudget /\ clock = 0
      /\ deferred = <<>> /\ answer = None /\ refreshed_target = None /\ rejected = {}
  BY DEF Init
<1>2. IsSeq(log) /\ Len(log) = 0 /\ Attempts = {}
  <2>1. log \in Seq({})
    BY <1>1
  <2> QED BY <1>1, <2>1 DEF IsSeq, Attempts
<1>3. /\ budget.attempts = 0 /\ budget.switches = 0 /\ budget.last = None
      /\ budget.by_credential = [c \in Credentials |-> 0] /\ budget.by_candidate = <<>>
  BY <1>1 DEF NewBudget
<1>4. PlanInv
  BY InitPlan
<1>5. Awaiting
  BY <1>1 DEF Awaiting
<1>6. LogInv
  BY <1>1, <1>2, <1>3 DEF LogInv, Trying
<1>7. BudgetInv
  <2>1. \A c \in Credentials : On(c) = {}
    BY <1>2 DEF On
  <2>2. Switched = {}
    BY <1>2 DEF Switched
  <2>3. IsFiniteSet({}) /\ Cardinality({}) = 0
    BY FS_EmptySet
  <2>4. 0 <= MaxTotalAttempts /\ 0 <= MaxSameRetries + 1 /\ 0 <= MaxSwitches
    BY PolicyAssumption
  <2>5. budget.by_credential \in [Credentials -> Nat] /\ \A c \in Credentials : budget.by_credential[c] = 0
    BY <1>3
  <2>6. ASSUME NEW c \in Credentials
        PROVE  /\ IsFiniteSet(On(c)) /\ Cardinality(On(c)) = budget.by_credential[c]
               /\ budget.by_credential[c] <= MaxSameRetries + 1
    <3>1. On(c) = {} /\ budget.by_credential[c] = 0
      BY <2>1, <2>5
    <3> QED BY <2>3, <2>4, <3>1
  <2>7. /\ IsFiniteSet(Switched) /\ Cardinality(Switched) = budget.switches
        /\ budget.switches \in Nat /\ budget.switches <= MaxSwitches
    BY <1>3, <2>2, <2>3, <2>4
  <2> QED BY <1>2, <1>3, <2>4, <2>5, <2>6, <2>7 DEF BudgetInv
<1>8. HeaderInv /\ ExcludeInv /\ AnswerInv /\ RejectInv
  BY <1>1, <1>2 DEF HeaderInv, ExcludeInv, HardFailuresStick, AnswerInv, UpstreamFailureWins,
                    RejectInv, RejectionIsEarned, Picked
<1>9. DelayInv
  BY <1>1, <1>2, <1>3 DEF DelayInv, DelaysAreKept, Trying, Picked
<1> QED BY <1>4, <1>5, <1>6, <1>7, <1>8, <1>9 DEF IInv

\* Every step keeps the invariant.
LEMMA StepIInv == IInv /\ [Next]_vars => IInv'
<1> SUFFICES ASSUME IInv, [Next]_vars PROVE IInv'
  OBVIOUS
<1> USE DEF IInv
<1>1. PlanInv' /\ Awaiting' /\ LogInv'
  BY PlanStep, AwaitingStep, LogStep
<1>2. BudgetInv' /\ HeaderInv' /\ ExcludeInv'
  BY BudgetStep, HeaderStep, ExcludeStep
<1>3. DelayInv' /\ AnswerInv' /\ RejectInv'
  BY DelayStep, AnswerStep, RejectStep
<1> QED BY <1>1, <1>2, <1>3

\* The plan, the log, the budget, the marks and the answer agree in every
\* reachable state, whatever is published, refreshed and bound meanwhile.
THEOREM InvariantHolds == Spec => []IInv
BY InitIInv, StepIInv, PTL DEF Spec

\* For every policy, set of candidates and sequence of failures: no attempt
\* follows one that the upstream may have executed (retry_decision).
THEOREM NothingIsReplayed == Spec => []NoReplay
<1>1. IInv => NoReplay
  BY NoneAssumption DEF IInv, LogInv, NoReplay, Repeatable
<1> QED BY <1>1, InvariantHolds, PTL

\* The attempts on record respect max_total_attempts,
\* max_same_credential_retries and max_credential_switches
\* (RetryBudget::register_attempt).
THEOREM LimitsHold == Spec => []WithinLimits
<1>1. IInv => WithinLimits
  <2> SUFFICES ASSUME IInv PROVE WithinLimits
    OBVIOUS
  <2>1. \A c \in Credentials : Cardinality(On(c)) <= MaxSameRetries + 1
    BY DEF IInv, BudgetInv
  <2>2. Len(log) <= MaxTotalAttempts /\ Cardinality(Switched) <= MaxSwitches
    BY DEF IInv, BudgetInv
  <2> QED BY <2>1, <2>2 DEF WithinLimits, On, Switched
<1> QED BY <1>1, InvariantHolds, PTL

\* Exclusions stick, deferrals are kept, bound headers reach one credential,
\* refreshed tokens are blamed only after they were tried, and a failure of
\* the upstream is never masked by a local one (CandidateSelectionState,
\* credential_bound_header_owner, note_rejected_refreshed_token,
\* previous_or).
THEOREM FailuresGuideTheRequest == Spec => []FailuresAreHeeded
<1>1. IInv => FailuresAreHeeded
  <2> SUFFICES ASSUME IInv PROVE FailuresAreHeeded
    OBVIOUS
  <2>1. HeadersStayWithOneCredential
    BY DEF IInv, HeaderInv, HeadersStayWithOneCredential
  <2> QED BY <2>1 DEF IInv, ExcludeInv, DelayInv, AnswerInv, RejectInv, FailuresAreHeeded
<1> QED BY <1>1, InvariantHolds, PTL

\* A request that waits with an old plan has a revision in the watch it has
\* not marked yet (LiveRoutingSnapshots::refresh marks before it loads).
THEOREM RevisionsArrive == Spec => []NoLostRevision
<1>1. IInv => NoLostRevision
  <2> SUFFICES ASSUME PlanInv, pc \in {"select", "polling", "waiting"}, stage = "idle", Stale, seen = watch
               PROVE  FALSE
    BY DEF IInv, NoLostRevision
  <2>1. ~marked /\ seen <= routing.rev /\ routing.rev <= published.rev /\ watch = published.rev
    BY DEF PlanInv, Refreshing, Older
  <2>2. routing.rev \in Nat /\ published.rev \in Nat
    BY DEF PlanInv, PlanTypes, Snapshot
  <2> QED BY <2>1, <2>2 DEF Stale
<1> QED BY <1>1, InvariantHolds, PTL

\* What passes the check before an attempt is part of the configuration
\* published at that moment (execute_attempt).
THEOREM TheLatestIsChecked == Spec => ChecksTheLatest
<1>1. IInv /\ [Next]_vars
        => [pc = "execute" /\ pc' = "start"
              => /\ published.key /\ published.offered
                 /\ selected \in Tiers(published)]_vars
  <2> SUFFICES ASSUME IInv, [Next]_vars, pc = "execute", pc' = "start"
               PROVE  published.key /\ published.offered /\ selected \in Tiers(published)
    OBVIOUS
  <2>1. CheckPlan
    <3> USE DEF Continue, Answer, planVars, choiceVars
    <3>1. ~Publish /\ ~(\E c \in Candidates : BindSession(c)) /\ ~Tick /\ ~Answered /\ ~UNCHANGED vars
      BY DEF Publish, Replace, Notify, RevokeAdmissions, BindSession, Tick, Answered, vars
    <3>2. ~Select
      BY DEF Select, MarkSeen, Run, RevisionWake, RefreshWhileSelecting, BudgetSpent, PollSelection,
             SelectUnbound, SelectBound, SelectionFails, SelectionPending
    <3> QED BY <3>1, <3>2 DEF Next, Attempt, StartRejected, RegisterRefused, StartAttempt, Succeed,
               AttemptTimesOut, HandleFailure, RefreshFails, RefreshReturns, DelayElapsed
  <2>2. published.rev = routing.rev
    BY <2>1 DEF CheckPlan, RebaseTo, Continue, Answer, Stale
  <2>3. published = routing /\ routing.key /\ routing.offered /\ selected \in Tiers(routing)
    BY <2>2 DEF IInv, PlanInv, Older, Having
  <2> QED BY <2>3
<1> QED BY <1>1, InvariantHolds, PTL DEF Spec, ChecksTheLatest

\* Neither a revision nor a token refresh takes the plan back to an older
\* snapshot (rebase_to, refresh_oauth).
THEOREM ThePlanAdvances == Spec => PlanAdvances
<1>1. IInv /\ [Next]_vars => [routing'.rev >= routing.rev]_vars
  <2> SUFFICES ASSUME IInv, [Next]_vars PROVE routing'.rev >= routing.rev
    OBVIOUS
  <2>1. routing.rev <= routing'.rev
    BY PlanStep DEF IInv
  <2> QED BY <2>1
<1> QED BY <1>1, InvariantHolds, PTL DEF Spec, PlanAdvances

=============================================================================
