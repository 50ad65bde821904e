--------------------------- MODULE RoutePlanning ---------------------------
(***************************************************************************)
(* From the published configuration to the candidates of a request: which  *)
(* credentials a public model is routed to, the per-snapshot candidate     *)
(* cache, the registries of path health and tier cursors that are          *)
(* reconciled with every publication, and a pending request that moves to  *)
(* a newer snapshot.                                                       *)
(*                                                                         *)
(* One public model of one dialect: an explicit route with one target that *)
(* an API key serves, and one OAuth account that serves the same model.    *)
(* Without an enabled explicit route the model has a synthetic route.      *)
(* Which candidate of a tier is taken is TierSelection.                    *)
(***************************************************************************)
EXTENDS Integers, Sequences, TLC

CONSTANTS
    Requests,       \* public requests
    Requirements,   \* operation, execution profile and transport mode
    Fits,           \* <<kind of credential, requirement>> the driver supports
    Changes,        \* configuration fields an administrator may change
    MaxRevision,    \* bound: configuration revisions
    MaxTime,        \* bound: last tick of the clock
    None

VARIABLES
    now,
    snaps,          \* revision -> configuration of the published snapshot
    bound,          \* last revision bound to the runtime registries
    current,        \* revision in the snapshot store
    paths,          \* path health registries: active keys and runtimes
    minted,         \* health runtimes created so far
    cache,          \* (revision, route, requirement) -> candidates
    req

vars == <<now, snaps, bound, current, paths, minted, cache, req>>

Explicit == "route"         \* id of the explicit route
Synthetic == "oauth_route"  \* oauth_route_id of the model

First == [route |-> "absent", target |-> TRUE, tier |-> 1, endpoint |-> TRUE,
          proxy |-> TRUE, key |-> TRUE, account |-> TRUE, selects |-> TRUE,
          allowed |-> TRUE, token |-> 1, generation |-> 1, version |-> 1,
          expires |-> 1]

Idle == [phase |-> "idle", rev |-> 0, q |-> None, fixed |-> FALSE, token |-> 0,
         route |-> None, synthetic |-> FALSE, found |-> {}, at |-> 0,
         outcome |-> None]

----------------------------------------------------------------------------
(* What a configuration routes                                             *)

\* routable: the account's token also has to be unexpired, by the clock.
Routable(c, kind) ==
    /\ c.proxy
    /\ IF kind = "key" THEN c.key /\ c.endpoint ELSE c.account /\ now < c.expires

\* The versions a health key carries, so that it is not inherited.
Versions(c, kind) ==
    IF kind = "key" THEN <<1, c.version>> ELSE <<c.generation, c.version>>

\* oauth_target_id: derived from the route the candidate is built for.
PathBase(c, kind, route) ==
    [kind |-> kind, target |-> IF kind = "key" THEN "target" ELSE route,
     versions |-> Versions(c, kind)]

\* resolved_oauth_route_id
ResolvedRoute(c) == IF c.route = "enabled" THEN Explicit ELSE Synthetic

\* The credentials the explicit route's target, or an OAuth route, can use.
Serves(c, kind) ==
    /\ Routable(c, kind)
    /\ IF kind = "key" THEN c.target ELSE c.selects

ActivePathsUnresolved(c) ==
    {PathBase(c, kind, Synthetic) : kind \in
        {k \in {"key", "account"} : Serves(c, k) /\ (k = "key" => c.route = "enabled")}}

\* active_candidate_path_bases, at the time of the publication.
ActivePaths(c) ==
    {PathBase(c, kind, ResolvedRoute(c)) : kind \in
        {k \in {"key", "account"} : Serves(c, k) /\ (k = "key" => c.route = "enabled")}}

OAuthTiersRoutable(c) == IF Serves(c, "account") THEN {<<Synthetic, 0>>} ELSE {}

\* route_tiers: OAuth accounts route in tier 0 of the resolved route.
OAuthTiers(c) == IF c.selects THEN {<<ResolvedRoute(c), 0>>} ELSE {}
\* Tier cursors of a snapshot: those of every configured route, and OAuth's.
CursorKeys(c) ==
    OAuthTiers(c) \union
    (IF c.route = "absent" THEN {} ELSE {<<Explicit, c.tier>>})

\* build_route_candidates with add_oauth_candidates, or the latter alone.
Candidates(c, route, q) ==
    {k \in {"key", "account"} :
        /\ Serves(c, k) /\ <<k, q>> \in Fits
        /\ k = "key" => route = Explicit}
TierOf(c, kind) == IF kind = "key" THEN c.tier ELSE 0

----------------------------------------------------------------------------
(* Path health and the candidate cache                                     *)

\* egress_path and candidate_path: the registered runtime; a key that is not
\* active gets a runtime of its own that nobody else will see.
Runtime(key) ==
    IF \E p \in paths.runtimes : p[1] = key
    THEN (CHOOSE p \in paths.runtimes : p[1] = key)[2] ELSE None

\* Candidates with the health runtimes they are given; new ones are minted.
Built(c, route, q) ==
    LET key(k) == PathBase(c, k, route)
        number(k) == minted + (IF k = "key" THEN 1 ELSE 2)
        health(k) == IF Runtime(key(k)) # None THEN Runtime(key(k)) ELSE number(k)
    IN {[kind |-> k, tier |-> TierOf(c, k), key |-> key(k), health |-> health(k)] :
          k \in Candidates(c, route, q)}

Register(found) ==
    /\ paths' = [paths EXCEPT !.runtimes = @ \union
          {<<x.key, x.health>> : x \in {y \in found : y.key \in paths.active}}]
    /\ minted' = IF \A x \in found : x.health <= minted THEN minted ELSE minted + 2

\* The cached set of a snapshot, or None.
Cached(rev, route, q) ==
    IF \E e \in cache : e.rev = rev /\ e.route = route /\ e.q = q
    THEN (CHOOSE e \in cache : e.rev = rev /\ e.route = route /\ e.q = q).found
    ELSE None

\* get_or_build: an empty set is not kept.
Remember(rev, route, q, found) ==
    cache' = IF found = {} \/ Cached(rev, route, q) # None THEN cache
             ELSE cache \union {[rev |-> rev, route |-> route, q |-> q, found |-> found]}

----------------------------------------------------------------------------
(* Publication                                                             *)

\* One change of an administrator, or a token renewal by the refresh worker.
Changed(c, field) ==
    CASE field = "route" -> {[c EXCEPT !.route = v] : v \in {"absent", "disabled", "enabled"} \ {c.route}}
      [] field = "tier" -> {[c EXCEPT !.tier = 1 - @]}
      [] field = "generation" -> {[c EXCEPT !.generation = @ + 1]}
      [] field = "expires" -> {[c EXCEPT !.expires = MaxTime + 1]}
      [] field = "version" -> {[c EXCEPT !.version = @ + 1]}
      [] field = "token" -> {[c EXCEPT !.token = @ + 1]}
      [] field = "proxy" -> {[c EXCEPT !.proxy = ~@, !.version = @ + 1]}
      [] field = "endpoint" -> {[c EXCEPT !.endpoint = ~@, !.version = @ + 1]}
      [] field = "target" -> {[c EXCEPT !.target = ~@]}
      [] field = "key" -> {[c EXCEPT !.key = ~@]}
      [] field = "account" -> {[c EXCEPT !.account = ~@]}
      [] field = "selects" -> {[c EXCEPT !.selects = ~@]}
      [] OTHER -> {[c EXCEPT !.allowed = ~@]}

Init ==
    /\ now = 0
    /\ snaps = <<First>> /\ bound = 1 /\ current = 1
    /\ paths = [active |-> ActivePaths(First), runtimes |-> {}]
    /\ minted = 0
    /\ cache = {}
    /\ req = [r \in Requests |-> Idle]

\* bind: the registries keep the runtimes of keys that stay active.
Bind(field) ==
    /\ bound = current /\ bound < MaxRevision
    /\ \E c \in Changed(snaps[bound], field) :
          /\ snaps' = Append(snaps, c)
          /\ paths' = [active |-> ActivePaths(c),
                       runtimes |-> {p \in paths.runtimes : p[1] \in ActivePaths(c)}]
    /\ bound' = bound + 1
    /\ UNCHANGED <<now, current, minted, cache, req>>

\* SnapshotStore: the bound snapshot becomes the current one.
Publish ==
    /\ current < bound
    /\ current' = bound
    /\ UNCHANGED <<now, snaps, bound, paths, minted, cache, req>>

----------------------------------------------------------------------------
(* Requests                                                                *)

Set(r, fields) == req' = [req EXCEPT ![r] = fields @@ @]

End(r, outcome) ==
    /\ Set(r, [Idle EXCEPT !.phase = "ended", !.outcome = outcome])
    /\ UNCHANGED <<now, snaps, bound, current, paths, minted, cache>>

\* The route a plan is made for: the enabled explicit one, or the synthetic.
\* A request with a session or a continuation keeps the route it began with.
RouteFor(r, c) ==
    CASE req[r].route = None \/ ~req[r].fixed -> ResolvedRoute(c)
      [] OTHER -> req[r].route

\* replan_fixed_route: the explicit route is gone, so nothing is routed.
Gone(r, c) == RouteFor(r, c) = Explicit /\ c.route # "enabled"

\* Ingress authenticated the request on the current snapshot.
Arrive(r, q, fixed) ==
    /\ req[r].phase = "idle"
    /\ Set(r, [phase |-> "plan", rev |-> current, q |-> q, fixed |-> fixed,
               token |-> snaps[current].token])
    /\ UNCHANGED <<now, snaps, bound, current, paths, minted, cache>>

\* plan, replan: model_not_found for a model that is not allowed, and for a
\* synthetic route without candidates when it is planned, not re-planned.
PlanFails(r) ==
    /\ req[r].phase = "plan"
    /\ LET c == snaps[req[r].rev] IN
       \/ ~c.allowed
       \/ /\ RouteFor(r, c) = Synthetic
          /\ req[r].route = None \/ ~req[r].fixed
          /\ Cached(req[r].rev, Synthetic, req[r].q) = None
          /\ Candidates(c, Synthetic, req[r].q) = {}
    /\ End(r, "model_not_found")

Planned(r, found) ==
    Set(r, [phase |-> "pending", route |-> RouteFor(r, snaps[req[r].rev]),
            synthetic |-> RouteFor(r, snaps[req[r].rev]) = Synthetic,
            found |-> found, at |-> now])

\* The candidates come from the snapshot's cache ...
PlanCached(r) ==
    LET c == snaps[req[r].rev]
        found == Cached(req[r].rev, RouteFor(r, c), req[r].q)
    IN /\ req[r].phase = "plan" /\ c.allowed
       /\ ~Gone(r, c)
       /\ found # None
       /\ Planned(r, found)
       /\ UNCHANGED <<now, snaps, bound, current, paths, minted, cache>>

\* ... or are built, here; another request may build the same meanwhile.
PlanBuilds(r) ==
    LET c == snaps[req[r].rev]
        found == Built(c, RouteFor(r, c), req[r].q)
    IN /\ req[r].phase = "plan" /\ c.allowed
       /\ ~Gone(r, c)
       /\ Cached(req[r].rev, RouteFor(r, c), req[r].q) = None
       /\ \/ RouteFor(r, c) = Explicit \/ found # {}
          \/ req[r].route # None /\ req[r].fixed
       /\ Register(found)
       /\ Set(r, [phase |-> "built", found |-> found, at |-> now])
       /\ UNCHANGED <<now, snaps, bound, current, cache>>

\* ... and the set that is cached first is the one everybody uses.
PlanInstalls(r) ==
    LET c == snaps[req[r].rev]
        first == Cached(req[r].rev, RouteFor(r, c), req[r].q)
    IN /\ req[r].phase = "built"
       /\ Remember(req[r].rev, RouteFor(r, c), req[r].q, req[r].found)
       /\ Planned(r, IF first = None THEN req[r].found ELSE first)
       /\ UNCHANGED <<now, snaps, bound, current, paths, minted>>

PlanGone(r) ==
    /\ req[r].phase = "plan" /\ snaps[req[r].rev].allowed
    /\ Gone(r, snaps[req[r].rev])
    /\ Planned(r, {})
    /\ UNCHANGED <<now, snaps, bound, current, paths, minted, cache>>

\* rebase_to, before the first selection and whenever a revision is seen.
Rebase(r) ==
    /\ req[r].phase = "pending" /\ req[r].rev # current
    /\ IF snaps[current].token # req[r].token
       THEN End(r, "unauthorized")
       ELSE /\ Set(r, [phase |-> "plan", rev |-> current, found |-> {}, at |-> 0])
            /\ UNCHANGED <<now, snaps, bound, current, paths, minted, cache>>

\* try_select asks for the cursor of each tier it scans, in order; the scan
\* of a tier may find nothing to take.
TiersOf(r) == {x.tier : x \in req[r].found}
HasCursor(r, tier) == <<req[r].route, tier>> \in CursorKeys(snaps[req[r].rev])

SelectTakes(r) ==
    /\ req[r].phase = "pending"
    /\ \E t \in TiersOf(r) : \A u \in TiersOf(r) : u <= t => HasCursor(r, u)
    /\ End(r, "attempt")

SelectFails(r) ==
    /\ req[r].phase = "pending"
    /\ \E t \in TiersOf(r) : ~HasCursor(r, t)
    /\ End(r, "internal_error")

SelectNone(r) ==
    /\ req[r].phase = "pending" /\ req[r].found = {}
    /\ End(r, "no_available_credential")

\* The administrator's route inspection builds through the same cache.
Inspect(q) ==
    LET c == snaps[current]
        route == ResolvedRoute(c)
        found == Built(c, route, q)
    IN /\ Cached(current, route, q) = None
       /\ Register(found)
       /\ Remember(current, route, q, found)
       /\ UNCHANGED <<now, snaps, bound, current, req>>

Tick ==
    /\ now < MaxTime
    /\ now' = now + 1
    /\ UNCHANGED <<snaps, bound, current, paths, minted, cache, req>>

Next ==
    \/ \E f \in Changes : Bind(f)
    \/ Publish \/ Tick
    \/ \E q \in Requirements : Inspect(q)
    \/ \E r \in Requests :
          \/ \E q \in Requirements, fixed \in BOOLEAN : Arrive(r, q, fixed)
          \/ PlanFails(r) \/ PlanCached(r) \/ PlanBuilds(r) \/ PlanInstalls(r)
          \/ PlanGone(r) \/ Rebase(r)
          \/ SelectTakes(r) \/ SelectFails(r) \/ SelectNone(r)

Spec == Init /\ [][Next]_vars

----------------------------------------------------------------------------

TypeOK ==
    /\ now \in 0..MaxTime
    /\ bound \in 1..MaxRevision /\ current \in {bound - 1, bound}
    /\ Len(snaps) = bound
    /\ \A r \in Requests : req[r].phase \in {"idle", "plan", "built", "pending", "ended"}

(***************************************************************************)
(* Requests planned on the newest snapshot share their breakers: the keys  *)
(* that active_candidate_path_bases derives from the configuration cover   *)
(* those the candidates are built with, so no candidate of the model's     *)
(* route gets a health runtime of its own that forgets every failure.      *)
(***************************************************************************)
HealthIsShared ==
    \A r \in Requests :
        (/\ req[r].phase = "pending" /\ req[r].rev = bound
         /\ req[r].route = ResolvedRoute(snaps[bound])) =>
            \A x \in req[r].found : x.health = Runtime(x.key)

(***************************************************************************)
(* A plan finds the cursor of each of its tiers in the snapshot it was     *)
(* made on; only a session that began on the synthetic route and lives to  *)
(* see an explicit one may miss it (try_select_with's internal_error).     *)
(***************************************************************************)
CursorsAreFound ==
    \A r \in Requests :
        req[r].phase = "pending" =>
            \/ \A t \in TiersOf(r) : HasCursor(r, t)
            \/ /\ req[r].fixed /\ req[r].route = Synthetic
               /\ ResolvedRoute(snaps[req[r].rev]) = Explicit

(***************************************************************************)
(* A pending request whose candidates can recover keeps waiting, also      *)
(* across a configuration change: it does not end with an internal error   *)
(* (docs/architecture/routing-and-streaming.md, the queue's end conditions *)
(* and "a hot update rebuilds the candidate projection").                  *)
(***************************************************************************)
PendingSurvivesUpdates ==
    \A r \in Requests : req[r].outcome # "internal_error"

(***************************************************************************)
(* Candidate construction filters expired credentials: no plan contains an *)
(* account whose token had expired when the plan was made                  *)
(* (docs/architecture/routing-and-streaming.md, request phase 3).          *)
(***************************************************************************)
ExpiredIsFiltered ==
    \A r \in Requests :
        req[r].phase = "pending" =>
            \A x \in req[r].found :
                x.kind = "account" => req[r].at < snaps[req[r].rev].expires
=============================================================================
