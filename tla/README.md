# A TLA+ model of any2api

any2api is a single-process gateway: clients send requests in one of several
LLM dialects, and the process answers each by one or more attempts on upstream
credentials. What is hard about it is the state that thousands of concurrent
requests share and that operators, OAuth refreshes, updates and shutdowns change
under them. This project models that state, the conversions a request passes
through, and the pages that show and edit it.

- [Inventory](#inventory)
- [The modules and the code](#the-modules-and-the-code)
- [Runs](#runs)
- [Where code and documents disagree](#where-code-and-documents-disagree)
- [Fairness](#fairness)
- [Proofs](#proofs)
- [Observations](#observations)
- [What is not modelled](#what-is-not-modelled)
- [Plan](#plan)

Paths below are relative to `src/crates/runtime/src/` unless they start with
`src/`. `PROJECT.json` maps the definitions to the lines they model; a helper
whose lines lie inside those of the operation that uses it has no entry of its
own.

## Inventory

| Component | State | Operations | Hard because | Correct when |
|---|---|---|---|---|
| Credential admission (`credential/runtime`, `routing/admission.rs`, `registry.rs`) | deque of reservations, fixed waiters, in-flight counter per credential; route admissions by identity | reserve, roll back, start, release, register a fixed waiter; bind, replace and publish admissions | a request uses its binding long after the snapshot was replaced; publication has three steps | no rolling minute exceeds the limit; fixed waiters keep their slots; permits are released once; a revoked route starts nothing |
| Selection queue (`routing/queue.rs`, `routing/epoch.rs`, `public_request/selection`) | waiting requests, scheduler epoch, change generation of a credential | ticket, observe, try, sleep, wake, time out, cancel; advance | wake-ups race with tries; advances race with each other; cancellation at every await | no lost wake-up, no leaked ticket, timeouts only when nothing is free |
| Wake worker (`routing/epoch/schedule.rs`) | slots by deadline and deadlines by slot, worker flag | schedule, move, cancel, notify, sleep, fire | notification follows the lock; the worker sleeps on what it read | never oversleeps; each wake advances the epoch |
| Endpoint and proxy health (`health`) | failure times, open time, probes, cooldown, two wake slots | acquire, succeed, fail, drop | clock readings taken before the lock; results that arrive late | probes exact, cooldowns kept, wakes armed, circuit recovers |
| Affinity registry (`affinity`, `public_request/affinity`) | sharded map of bindings, global entry and byte budgets | begin, wait, mark, commit, release, bind, expire, clear | leases overtaken by clearing; reclamation scans shard by shard | budgets exact; one creator per key; waiters woken; sessions not rebound |
| Candidate selection, route planning (`routing/candidates`, `public_request/selection`, `planning.rs`) | cursors, tiers, candidate cache, health handles | scan, reserve, acquire, give up the lease, wait; plan, rebase | decisions span a reservation, a permit and a lease | nobody sleeps through a candidate; nothing is held asleep |
| Configuration publication and storage (`configuration`, `src/crates/storage/src/configuration`) | SQLite, snapshot, operator revision, watch channel, admissions, epoch | edit with rebase, login, token refresh, start-up; one command per table | failing or unknown commits, cancellation, crash, order of the followers | one history of writes, memory equal to the database, replies last |
| Request execution (`public_request/retry*`, `public_request/live_routing.rs`) | budget, exclusions, deferrals, plan, previous error, refreshed token | select, re-plan, start, decide, refresh, wait, answer | configurations published at every point; three limits and a deadline | nothing replayed, limits hold, failures remembered, always answered |
| Upstream attempts, streaming, bridges, relay (`public_request/upstream`, `public_request/stream`, `src/crates/protocol`) | buffer, commit state, guards, translated items, frames | build, send, classify; prime, poll, finish, drop; translate | several ways to end, one commit point; events cut anywhere | guards settled once; meaning kept |
| OAuth refresh, scan, login, accounts, quota, usage, activity, catalogs (`oauth`) | gates, failure counts, rejections, bounded sessions, estimates | refresh, scan, start and finish a login, read and reset a quota | late answers about an older token, account or plan | tokens used once; late answers undo nothing |
| Process lifecycle, telemetry (`lifecycle`, `request_telemetry`, `src/app/any2api/src/shutdown`) | phase, tracked tasks, activity epoch; queue counters, fences | track, drain, force, finalize; send, flush, clear, fence | requests accepted while draining begins; reservations before sends that fail | storage closed last; fences cover what came before |
| Public ingress, transport (`src/crates/server/src/public`, `src/crates/transport`) | key rates, decompression permits, access log; client pool, connections | authenticate, admit, read, answer; dial, send, retire | clocks read before locks; dropped futures | limits hold, permits return, failures tell truly whether a request was sent |
| Administration (`src/crates/server/src/admin_auth`, `src/crates/updater`, `src/web`) | hash, sessions; three files and a marker; drafts, pages | log in, rotate; stage, commit, confirm, roll back; edit, follow | logins racing a rotation; a crash between any two steps; stale pages | a rotation ends older sessions; a bootable executable; no lost update |

How they interact: a request passes the **ingress**, plans on a snapshot, selects
a candidate (affinity, then tiers), which reserves a slot of its **credential**
and a permit of its **endpoint**; if nothing is free it waits in the **queue**
for the scheduler epoch. The epoch is advanced by rollbacks, departing fixed
waiters, leases that end, health that recovers (through the **wake worker**) and
**publications**. Just before an attempt starts, the request checks the newest
snapshot and the route **admission**. A failed attempt goes through the **retry**
decision, which may await an **OAuth refresh**, which is itself a publication. An
answer streams through the **bridge** and the **relay** to the client and is told
to the **telemetry**, which the **lifecycle** outlives.

The hazards that follow from this are listed one by one, at their lines, in
`PROJECT.json`.

## The modules and the code

Variables carry the names of the fields they stand for, actions the names of the
functions. Definitions marked *faulty variant* or *Mutant* are the plausible bugs
that the properties are tried against; no specification uses them.

| Module | Models | Run |
|---|---|---|
| `RpmAdmission` (with its proofs) | rate window, permits and route admissions of one credential | `admission` |
| `SelectionQueue` | tickets, scheduler epoch, both wait loops | `scheduling` |
| `WakeWorker` | the schedule of wakes and its worker | `scheduling` |
| `EndpointHealth` | circuit, probes and cooldown of one endpoint | `scheduling` |
| `SchedulingProofs` | the three together: their common property and their proofs | `scheduling` |
| `AffinityRegistry` (with its proofs) | bindings of sessions and continuations | `sessions`, `scheduling` |
| `CandidateSelection` | the scan of a request over tiers | `sessions` |
| `RequestRetry` (with its proofs) | one request from selection to answer | `retry`, `scheduling` |
| `ConfigHistory`, `ConfigPublisher`, `ConfigPublisherProofs` | the abstract history of writes and its implementation | `configuration`, `scheduling` |
| `ConfigStore` | the commands of a transaction over the tables | `configuration` |
| `AdminEditing`, `LogFeed` | the editors and the log pages of the web application | `configuration`, `log_pages` |
| `ProcessLifecycle` | tracking, draining, forcing, finalizing, reclaiming | `process` |
| `SelfUpdate`, `TelemetryWriter`, `AdminSessions` | update files, telemetry queue, administrator sessions | `process` |
| `ProcessProofs` | the four together: their common properties and their proofs | `process` |
| `OAuthRefresh`, `OAuthScan` | the refresh gate of one account, the scheduled scan | `oauth`, `rejected_tokens` |
| `OAuthLogin`, `OAuthAccounts` | login sessions, accounts | `oauth` |
| `OAuthQuota`, `QuotaUsage`, `QuotaActivity`, `ModelCatalog` | quota reads and resets, estimates, activity, catalogs | `oauth` |
| `UpstreamAttempt` | one attempt, the verdict on its failure, credential health | `oauth` |
| `OAuthProofs` | the nine together: their common properties and their proofs | `oauth` |
| `StreamCommit` (with its proofs), `BridgeTurns`, `BridgeStream`, `SseRelay`, `RequestWire` | commit point, bridged history, bridged answer, relayed events, rewritten bodies | `traffic` |
| `PublicIngress`, `RoutePlanning`, `UpstreamTransport` | way in, planning, way out | `ingress`, `pending_requests` |
| `MC...` | the instances that are model-checked; they extend the module that states the property, so that a run checks and a theorem proves the same definition | |

**RpmAdmission.** One `CredentialRuntimeHandle`. `attempts`, `next_id`,
`fixed_waiters` are `MutableRuntimeState` behind its mutex, `in_flight` the
atomic counter updated after that mutex is released (hence `Reserve` and
`CountInFlight` are two steps); `active`, `by_identity`, `next_inc` are
`RouteAdmissionRegistry`. A publication is `Bind`, `Replace`, `PublishCurrent`,
as in `registry.rs` and `config_publisher.rs`. A request loads a snapshot, checks
its admission, reserves, counts, starts or rolls back, runs and drops its
permit; a client that goes away drops it anywhere. `granted` is a history
variable.

**SelectionQueue.** `wait_for_candidate` and the fixed `select_with_queue` around
one credential whose window is reduced to the reservation times. `advance` has
two steps (`Increment`, `Send`), so advances overtake each other. Waits for a
recovering endpoint are `CandidateSelection`'s.

**WakeWorker.** `WakeSchedule` with both its indexes, and the notification after
the caller's locks are released. Starting the worker is three steps, as in
`ensure_wake_worker`; its loop is `Observe`, `ReadNextDeadline`, a wake-up by
change or timer, `Advance`.

**EndpointHealth.** `CircuitRuntime` and the transient cooldown of one endpoint.
Every clock reading taken before a lock is an action of its own (`ReadClock`).
The wake slots are reduced to their deadline.

**AffinityRegistry.** `ShardedBindings` with its shards and budgets, the leases of
sessions and continuations, the wait loop of `select_session`, reclamation for
capacity with its throttle, and sweeps shard by shard. An insert that reserves an
entry and then bytes holds its shard's mutex in between (`locked`). Removing an
entry and decrementing its counters are one step, for both happen under the
mutex and the counters are only compared with limits. Versions are counted only
for leases that are given out.

**ConfigHistory, ConfigPublisher.** `ConfigHistory` is the promise: a list of
writes, each legal on top of what is visible. `ConfigPublisher` follows a
publication through the lock, the transaction and the six steps after the commit
(snapshot, operator revision, watch, admissions, reconciler, epoch, in this order
and without an await). `Commit`, `Fail` and `Crash` are the three outcomes of a
commit (an indeterminate one panics); `Cancel` is the forced shutdown that drops
the task where it awaits, with a commit that may still land. The database
survives a crash of the process (WAL, `synchronous = NORMAL`); a power loss that
takes back acknowledged commits is not modelled. What a command changes is
abstracted to its kind, and for tokens to the version; `ConfigStore` has the
tables. The store has one write connection and begins its transactions with
`BEGIN IMMEDIATE`, so a mutation there is one step.

**RequestRetry.** The whole of `RetryExecution`, with `LiveRoutingSnapshots`,
`RetryBudget`, `CandidateSelectionState` and `retry_decision`, against a publisher
whose steps are those of `ConfigPublisher` that a request can notice. Versions of
credential, endpoint and proxy are one counter each; the incarnation of an
admission is the revision it dates from. Left open on purpose: which eligible
candidate a scan returns and whether it is rate limited or cooling down, since
the answer depends on other requests. Jitter is zero. A binding may appear while
the request runs but does not expire; `AffinityRegistry` covers that. A refresh
may hand back a snapshot that is older than the request's plan.

**OAuthRefresh.** One account: the map of gates with its removal of idle ones, the
tokio mutex with its FIFO queue, the count of failures a waiter observed, the
exchange that may succeed, fail or lose its answer, the publication and the
recorded rejection. Requests and the scan are callers alike; any of them may be
cancelled at an await.

**OAuthLogin.** Time has ticks smaller than a second (`PerSecond`), because
`DeviceCodeSession::defer` (`oauth/session.rs:153`) counts what is left of a
session in whole seconds: the poll after the last full interval comes in the last
second of the session, not at its end, and earlier than an interval after the one
before. `PollsPaced` states exactly this exception.

**BridgeStream.** The target's answer is kept as it was sent (`answer`) beside what
the stream made of it, and `ConvertWhole` converts the same answer as a whole.
`StreamedAsWhole` compares the two in both directions: the same items, each with
its size and call id, the same continuation, and a refusal on either side only for
what the other refuses. Two differences are the code's own and are stated, not
hidden: a stream lists items in the order in which it opened them, a whole answer
as reasoning, text, calls; and only the whole conversion refuses a list of calls
that is null and a call without type or arguments (`Unstated`).

**StreamCommit.** The registry refuses a binding in two ways: a failure of its own,
or a deadline that passed, which is answered as a timeout and not reported to the
health of the endpoint (`BindingFails`).

**AdminSessions.** A rotation that loses its compare-and-swap reloads the stored
password; when that read fails too, the rotation ends and the hash in memory is
what it was (`RotationReloadFails`).

The other modules say in their header comments what they stand for.

## Runs

A run that covers several components is a sum: a variable `part` chooses which of
them moves, and the others stay as they begin. The components of a run meet only
in ways that each of them already allows for (an epoch that advances, a
publication that happens), so nothing is lost by exploring them apart, and the
run's properties name the part they speak of.

| Run | Parts and instance | Shows |
|---|---|---|
| `admission` | *window*: a fixed and a normal request, limits 1 and 2, a window of 2 ticks; *routes*: two routes disabled, enabled and replaced, 3 incarnations | `RollingWindow`, `InFlightExact`, `OnlyCurrentRouteStarts`, `FixedSlotsKept`, `StartedKeepsSlot` |
| `scheduling` | *queue*, *full*: a fixed and a normal request behind the holder of the only slot, room for both or for one; *wake*: two threads, two slots, two calls; *health*: two attempts, threshold 2, one probe; *request*, *lease*, *publication*: small instances for liveness | `QueueBounded`, `NoLostWakeup`, `TimeoutIsHonest`, `WakesAreKept` (both indexes agree, one worker, no oversleeping, probes exact, wakes armed), `WaitsEnd` |
| `sessions` | *registry*: two clients, a session and two continuations in two shards, room for two entries and for the bytes of one pending state; *returning*: the same with a third request and without a sweeper; *selection*: two requests, three candidates in two tiers | `BudgetsAreExact`, `NoOrphan`, `NoLostWakeup`, `NobodyWaitsInVain`, `NobodySpins`, `SessionKeepsItsCredential` |
| `retry` | *policy*: three candidates, twelve failures, all affinities, one configuration; *updates*: two candidates behind one endpoint, two publications of six kinds | `NoReplay`, `WithinLimits`, `FailuresAreHeeded`, `NoLostRevision`, `ChecksTheLatest` |
| `configuration` | *publication*: two publishers, two writes, a forced shutdown, a crash; *storage*: one or two rows per table, two URLs; three or four commits on empty tables, or any two on tables that six others filled; *editing*: one form per kind, another operator, one fault; *feed*: three records, pages of one | `ImplementsHistory`, `ErrorsLeaveNoTrace`, `ReplyComesLast`, `WokenSeeTheNews`, `StoreAgrees`, `NoLostUpdate`, `NoHoles` |
| `process` | *lifecycle*: two requests; *update*: three versions and a fault; *telemetry*: two records, one control, room for two; *admin*: two logins, a rotation, an event stream | `StorageOutlivesItsUsers`, `WayBack`, `FenceCovers`, `SessionsFollowPassword`, `WhatIsOwedIsDone` |
| `oauth` | *refresh*: two requests and the scan; *scan*, *login*, *accounts*, *quota*, *usage*, *activity*, *attempt*, *catalog*: two of each actor | `TokensAreUsedOnce`, `AccountsStayTheirOwn`, `LateAnswersUndoNothing` |
| `traffic` | *stream*: two events; *turns*, *turn*: two turns of three items or one of four; *answer*: five chunks; *relay*: six bytes; *sending*: three fields, two attempts | `SettledOnce`, `MeaningIsKept` |
| `ingress` | *keys*, *bodies*: two connections, three requests, one limit change, one permit; *pools*, *wire*: one call over two addresses; *planning*: one pending request, three configurations | `IngressKeepsItsWord`, `CallsGoWherePlanned` |

Why these bounds: each instance has the fewest actors for which every
interleaving named in the hazards exists (a waiter, the one it waits for and a
third that interferes), a resource of size one or two so that its limit is
reached, and a clock that runs past one window, one open time or one deadline.
Two publications suffice for a request to miss one while it handles the other;
two writes suffice for an edit that is refused or rebased over what another
operator or the refresher wrote. In the part *policy* nothing is published, so a
token refresh can only fail there; refreshes that succeed are those of *updates*.
The tables of the store refer to each other (an allow list to the models of
credentials and accounts, both of these to proxies), so in the scope *all* every
table that is referred to is filled first and then any two commands follow; the
smaller scopes begin with empty tables. `BridgeTurns` keeps to turns of three
items, or one of four: a message held between two calls of one carrier would need
a fifth. In *sessions* one session is shared; two that wake each other, as under
[Observations](#observations), are outside `NobodySpins`, which says that a
request alone does not wake itself.
Where a part is restricted further (`SelectionInScope`, `KeySteps`, `BodySteps`,
`PoolSteps`, `WireSteps`, `StoreStep`), the restriction is stated beside it.
Symmetry is used over interchangeable clients, only in runs without liveness
properties.

Deadlock checking is off where the bounded clock or the bounded number of calls
ends every behaviour; only `RequestRetry`, whose answered requests stutter
explicitly, is free of such ends.

## Where code and documents disagree

Three runs end with a counterexample; `PROJECT.json` quotes the sentence each of
them contradicts.

- `rejected_tokens`: `RejectionsStick` of `OAuthRefresh`. A scan prunes recorded
  rejections with a snapshot it took before the rejected version was published
  (`oauth/refresh/state.rs:190`), and the version is sent again.
- `pending_requests`: `PendingSurvivesUpdates` of `RoutePlanning`. A request
  that is fixed to the synthetic OAuth route, but not yet bound, is rebased onto a snapshot with an explicit route
  for its model and ends with an internal error
  (`public_request/planning.rs:225`).
- `log_pages`: `NextPageOnlyAdds` of `LogFeed`. A read of the next page that began
  during a refresh puts the older pages back
  (`src/web/src/shared/realtime/use-realtime-cursor-feed.ts:333`).

## Fairness

Fairness is assumed only of what the runtime guarantees: a ready task is polled
(weak fairness of the steps of a waiter, the worker, a publication, a selection),
timers fire (weak fairness of the clock), a future that is dropped releases its
guards. Clients need not cancel, the upstream need not answer, nobody has to
publish. Five assumptions deserve a word:

- the publication lock is a tokio mutex, which is FIFO, so acquiring it is
  strongly fair (*publication*);
- an attempt on an endpoint ends, because its timeouts bound it and dropping it
  resolves its permit (*health*);
- a lease is committed or dropped, because the request that owns it is bounded by
  its deadline (*lease*);
- the telemetry channel serves its senders in order, and the writer's `select!`
  chooses at random among what is ready, so sending a control message and taking
  the permit to prune are strongly fair (*telemetry*);
- a service manager restarts the process after an update (*update*).

## Proofs

TLAPS proves what follows for every value of the constants that satisfies the
named assumptions of the module that declares them (`AffinityAssumption`,
`WakeAssumption`, `OAuthAssumption`, ...); TLC evaluates those assumptions in the
runs. `ConfigPublisherProofs`, `SchedulingProofs`, `ProcessProofs` and
`OAuthProofs` hold the proofs of the components they extend or instantiate; those
of `RpmAdmission`, `AffinityRegistry`, `RequestRetry` and `StreamCommit` follow
the properties in the component's module, under the heading *Proofs*. Every proof
has the same outline: an inductive invariant, that it holds initially, one lemma
per action or kind of action for its preservation, and the properties from it. A
property of several components is proved of the conjunction of their
specifications, from one theorem per component.

**RpmAdmission** (`TypeOK`, `RollingWindow`, `InFlightExact`,
`OnlyCurrentRouteStarts`, `FixedSlotsKept`, `StartedKeepsSlot`). `RollingWindow`
is not inductive by itself: a reservation is admitted by the length of the deque,
so one must know that every grant younger than a window is still in the deque
(`WindowExact`), which holds because the deque is in time order (pruning stops at
the first young entry) and because ids are unique (a rollback removes its own
entry). That a rollback belongs to one permit is `ReservationsOwned`; that the
counters count is `CountersExact`; that every active admission can be found, and
so revoked, is `ActiveRegistered`.

**ConfigPublisherProofs** (`ImplementsHistory`, `ErrorsLeaveNoTrace`,
`WokenSeeTheNews`, `ReplyComesLast`). The invariant says that the lock has one
holder, that the snapshot cannot move under the publication that builds on it and
the database not between its check and the replacement (`BuildsOnSnapshot`), that
only refreshes lie between the remembered operator revision and the snapshot,
except for the write about to be remembered (`OnlyRefreshes`), and that an edit in
progress overlooks nobody and a refresh still holds the current token
(`Justified`). The interesting case is the publication that a forced shutdown
cancels although its commit lands: the process publishes nothing on top of it,
because the stored revision no longer is the expected one, and a restart makes it
visible. The order of the followers comes from where the one holder of the lock
is.

**SchedulingProofs** (`QueueBounded`, `EpochPublished`, `NoLostWakeup`,
`TimeoutIsHonest`, `WakesAreKept`). `NoLostWakeup` speaks of a sleeper; a step
before, it had read the epoch, looked, and been refused. The invariant
`RefusalsStand` carries the refusal across these steps: as long as nothing has
been announced since the epoch was observed, what refused the request is still
there, or the time at which it ends is the one the request will sleep to. It needs
the least element of a set of times, from the well-foundedness of `<` on the
naturals. `WakesAreKept` is about the two others. The wake schedule (`WakeInv`):
the worker has not seen more changes than were made, and the flag says whether a
worker exists or is about to, so that of the clients that race to start one only
the winner of the exchange does; the two indexes are inverse to each other; and
whatever is due before the worker's sleep ends has a change the worker has not
seen, made or about to be made. An endpoint (`HealthInv`): the probes counted are
those in the hands of attempts of the present half-open period, although results
arrive from earlier ones, and whatever shuts the endpoint has its wake scheduled;
a cooldown is never shortened (`CooldownsRunOut`), for the instant a failure was
taken at may be older than the one on record.

**AffinityRegistry** (`BudgetsAreExact`, `NoOrphan`, `NoLostWakeup`,
`SessionKeepsItsCredential`). A lease is identified by its version, so versions of
leases differ, also from those of entries that were cleared under them; a pending
entry has the lease of its version; an insert in two steps holds its shard. The
counter then counts entries plus reservations by `FiniteSetTheorems`. The bytes
are a sum of footprints, which no prover here can reason about by induction; they
are counted one by one instead, as the cardinality of the set of booked bytes
(`Booked`), and a step that replaces one entry changes the cells of its key only.
The assumption that matters is that no ready state is larger than what its pending
entry booked.

**ProcessProofs** (`StorageOutlivesItsUsers`, `WayBack`, `SessionsFollowPassword`,
`FenceCovers`). *Lifecycle*: the phase left `running` before anything is waited
for, and every handler past its registration holds a token of the tracker; a
handler that read the phase too early finds out when it checks again. *Update*
(`UpdateInv`): a crash may leave any directory of the journal, so the invariant
says what the directory holds for each position in the script of file operations
(`Committing`, `Restoring`), that a predecessor has always served, and that a
process on trial still has its marker (`OnTrial`). *Administrator* (`AdminInv`):
who holds the credential lock and what the holder knows of the stored password
(`RotationsKnow`, `SetupsKnow`), also when a
reload fails, so that between the commit and the replacement of
the hash in memory no session is issued for the old password. *Telemetry*
(`TelemetryInv`): the counters are the cardinalities of the sets of records in
each place (`Counted`), the queue is in the order of the numbers (`NumbersKept`,
`QueueKept`), and an answered fence has everything numbered before it settled
(`FenceKept`).

**OAuthProofs** (`TokensAreUsedOnce`, `AccountsStayTheirOwn`,
`LateAnswersUndoNothing`). The two last are conjunctions over components that meet
only in the published configuration; each component has its theorems.

- *Refresh* (`RefreshTokensAreUsedOnce`, `FailuresDoNotFanOut`). The invariant has
  two halves. The mutex: all callers with a gate have the same one although idle
  gates are removed from the map, its holder is the caller past it, and its queue
  holds callers that wait there, each once. The tokens: what a caller acts on is
  not newer than what is published, a token that was taken is replaced or in the
  hands of the one publishing (`TakenIsReplaced`), and a failure that has let a
  waiter through is followed by another one, by a newer token, or is still in that
  waiter's hands (`SpentIsSpent`).
- *Scan* (`ScansAreComplete`). As long as the worker has noticed no interleaved
  publication, the revisions between its snapshot and its last own one are its own
  (`OwnBetween`); it goes to sleep on that revision.
- *Login* (`LoginsArePaced`). A session is ready, lent to one caller under the
  generation of the loan, or gone (`CallerOK`), and two callers never hold the
  same; what may be polled waits for its interval counted from the end of the last
  poll, or for the last second of its life, in the store (`SessionOK`) and in the
  hands of a caller that is about to put it back (`Timely`); the arithmetic of the
  truncation to whole seconds is a lemma of its own. A caller that is cut off gives its session back deferred,
  which is why a client that reconnects polls no faster. The pacer's gate is always
  one spacing after the last start.
- *Accounts* (`LoginsMakeNoTwins`). No invariant but the types: that a login makes
  no twin follows from `ResolveLoginMatch` at the moment of the publication. If it
  finds one account by identity or by secret, the merged token matches no other;
  the case that takes work is a token whose secret belongs to one account and whose
  identity to another, which is a conflict.
- *Quota* (`QuotasAreSpentKnowingly`, `RefreshesSeeResets`). The gate's queue has
  one active operation at its head; what it holds was read after the last reset,
  and an answer that is shared is as new as the last reset that completed
  (`QuotaLast`).
- *Usage* (`CapacitiesAreOwn`, `EstimatesStayFrozen`). While a window is eligible,
  everything measured in its cycle was of the fingerprint and tier it carries.
- *Activity* (`AttemptsKeepDistance`). An account's due time leaves the minimum
  interval from its last refresh (`Spaced`), also when the entry was pruned and made
  anew, because idle entries are kept at least that long (3600 s against 30 s); an
  account whose refresh runs is in flight.
- *Attempts* (`CooldownsAreWoken`, `OldTokensSpareNewOnes`). The wake slots carry
  the deadlines of what blocks the credential, and pruning drops only what is over;
  a rejection is marked under the version the attempt was selected with.
- *Catalogs* (`CatalogsFitThePlan`). What is cached for a plan was fetched with a
  token of that plan at the time of the fetch.

**RequestRetry** (`NoReplay`, `WithinLimits`, `FailuresAreHeeded`,
`NoLostRevision`, `ChecksTheLatest`, `PlanAdvances`). The invariant is a
conjunction of parts that are proved one after the other, each from the ones
before it:

- `PlanInv`: the plan is never newer than what is published, and the same at an
  equal revision; tokens only advance; a watch revision that was marked is not
  newer than the plan once the snapshot has been loaded; and the selected
  candidate is one of the plan. From it follow `NoLostRevision`,
  `ChecksTheLatest` and that a snapshot with a newer token is a newer snapshot,
  so that `PlanAdvances` holds although a refresh may hand over an old one.
- `LogInv` and `Awaiting`: all attempts but the last failed in a way that may be
  repeated, and all of them while the request is not trying (`NoReplay`).
- `BudgetInv`: the budget's counters are the cardinalities of what is on record.
- `HeaderInv`, `ExcludeInv`, `DelayInv`: the owner of the headers, the exclusions
  and the deferrals cover what is on record. A deferral has to be at least the
  upstream's Retry-After, whatever the back-off, and survives later ones.
- `AnswerInv`: while nothing is answered, no previous error means no failure.
- `RejectInv`: the refreshed token in mind follows an attempt with an older one.

The steps are first sorted by what they do to the attempts (lemma `Steps`), so
that each part deals with five sorts of steps instead of twenty-five actions.

**StreamCommit** (`SettledOnce`, and `BoundBeforeSeen`, the part of `MeaningIsKept`
that is about streams). Two invariants, the second resting on the first.
`StreamInvariant`: a pending registry entry belongs to the lease the stream holds
(`PendingIsLeased`), and until the handoff the client owns nothing, was told
nothing and nothing is published (`NothingBeforeHandoff`); so whatever ends the
stream leaves nothing pending, and a failure before the handoff leaves nothing at
all. `ContinuationInvariant` follows the frames from the buffer to the client:
buffered frames name one response and the one that completes it is the last, so
that what is staged at the commit is what the completed response needs; a response
that is named and no longer leased is published, and one that is leased belongs to
a bridge and no queued frame completes it. Delivering a frame then never shows an
id that is not bound as far as the frame says. The assumptions are that the bounds
are naturals and that `None` is not an id.

`RequestRetry` assumes that a failure without an upstream answer has no body that
could be cut off, that its failure scopes and kinds of configuration change are
those of the code, and that `None` is neither a credential nor a failure nor a
decision.

Only model-checked:

- everything under fairness (`WaitsEnd`, `WhatIsOwedIsDone`), which is out of the
  prover's reach, as is `ENABLED`;
- what recursion, a fold or a filter of a sequence computes, which needs induction
  over data: `NobodyWaitsInVain` of `CandidateSelection` (the order of a scan over
  the tiers), `NoHoles` of `LogFeed` (pages merged and sorted), and the rest of
  `MeaningIsKept`, which compares whole translations;
- `StoreAgrees` of `ConfigStore`: its thirty commands rewrite tables that refer to
  each other, and a proof would be one of each reference under each command;
- `NoLostUpdate` of `AdminEditing`, and `IngressKeepsItsWord` and
  `CallsGoWherePlanned`, which join the invariants of `PublicIngress`,
  `RoutePlanning` and `UpstreamTransport`.

Type invariants and some liveness properties that the runs do not repeat
(`RefreshesEnd`, `DueIsTried`, `ActivityIsObserved`, `StreamsEnd`,
`PublicationsEnd`) are stated in their modules and were checked on the same
instances.

## Observations

What modelling brought up beside the three disagreements, each visible in the
module named:

- *RequestRetry*: two answers bypass `previous_or`: a lost binding when an attempt
  starts (`public_request/retry/attempt.rs:99`) and a plan that fails after a token
  refresh (`public_request/retry/failure.rs:92`); `UpstreamFailureWins` therefore
  speaks of timeouts and missing candidates.
- *SelfUpdate*: a crash between the creation of the marker and its write leaves a
  torn one that blocks later updates; a SIGTERM during the commit still ends in
  the restart of the update; a failure before the new process has its environment
  variable is not undone.
- *ConfigStore*: deleting a proxy that an OAuth account selects is refused by the
  foreign key only, as a generic database error.
- *OAuthQuota*: a reset that is cancelled after it took effect is not recorded.
- *BridgeTurns*: input given as a plain string is appended without the ledger;
  call ids have to be unique across the conversation.
- *SseRelay*: a frame of several lines that is open when the upstream ends is
  closed, one of a single line is not.
- *UpstreamTransport*: between the last poll of `send` and its drop a request may
  leave unseen (`late`); an older credential version may put a retired client back.
- *RoutePlanning*: the public list of models has those of disabled and expired
  accounts; expired accounts stay in the candidate cache of a snapshot and are
  filtered when used.
- *CandidateSelection*: sessions that wait for rate limited candidates wake each
  other by giving up their leases (`affinity/lease.rs:56`), so a wait is not quiet;
  a session whose bound candidate vanished is refused until its entry expires.
- *LogFeed*: a notice during the first page counts as handled; a late older record
  vanishes; a count of zero pending requests keeps a stale row.
- *AdminEditing*: the account list reloads the editor on a conflict and its draft
  is lost; editors send the live revision, not the one they were opened with; a
  key rotation that times out loses the new token.
- *PublicIngress*: the clock is read before the lock, so the last use of a key may
  go back by a tick.

## What is not modelled

- The Images bridge, the fields each dialect allows, the wording of errors.
- Provider drivers: request shaping; their verdicts on failures are inputs of
  `UpstreamAttempt` and `RequestRetry`.
- TLS, HTTP framing and DNS, beyond their outcomes; an empty body over HTTP/1.
- SQL, row formats and migrations; runtime log files; official client versions;
  the payload buffer; packaging; views of the web application.
- `OAuthQuota.Cancel`: an abandoned reset takes effect when it is abandoned or
  never, and nobody spends a credit elsewhere; `NoBlindReset` rests on both, since
  no answer would tell the code of either.
- `OAuthAccounts.MergeMissingIdentity`: the identity of a token is one value that
  is there or missing; the code merges its fields one by one (`token.rs:109`).
- `BridgeTurns.Contribute`: refusals of reasoning on a profile without it and of
  invalid names, after which no turn is sent.
- `TelemetryWriter.Reject`: counters, unlock and removal of the active record are
  one step, and no property looks between them.
- Domain types and settings: their ranges are the assumptions on the constants.
- Publications that change the health thresholds under running attempts;
  credentials that are removed and created again.
- Integer overflow of generations and epochs: they are 64 bit counters that the
  code checks with `checked_add`.

## Plan

The remaining proofs, most telling first: that no editor overwrites what it has not
seen (`NoLostUpdate`), that the limit of a key and the permits of the ingress hold
(`IngressKeepsItsWord`), that a call uses a client built for its credential and
proxy (`CallsGoWherePlanned`), and the references between the tables
(`StoreAgrees`), one table at a time.
