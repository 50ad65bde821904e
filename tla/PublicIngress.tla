--------------------------- MODULE PublicIngress ---------------------------
(***************************************************************************)
(* The way of a request into the gateway and of its answer out of it:      *)
(* the access log's middleware, which fixes one configuration snapshot and *)
(* one client address for the whole request; the lifecycle guard; the      *)
(* gateway API key, its recorded use and its rate window; the body, its    *)
(* size limit and the bounded pool of decompressions; and the two bodies   *)
(* wrapped around the answer.  What happens between (routing, attempts,    *)
(* streams) belongs to other modules and is any answer here.               *)
(***************************************************************************)
EXTENDS Integers, Sequences, FiniteSets, Functions, SequencesExt

CONSTANTS
    Slots,          \* connections, each carrying one request after another
    Arrivals,       \* the requests that clients send
    Answers,        \* the answers that handlers give
    Keys,           \* gateway API keys
    Limits,         \* limits a key may be given; Nil is no limit
    Changes,        \* the configuration changes that happen
    PerSecond,      \* clock ticks in a second
    Window,         \* seconds of the rate windows
    MaxBody,        \* the size limit of a request body
    Permits,        \* decompressions that may run at a time
    QueueTimeout,   \* ticks a decompression waits for its turn
    MaxTime, MaxRevision, MaxArrivals,
    Nil

VARIABLES
    now,        \* the clock
    history,    \* the published snapshots; the last one is current
    publisher,  \* what the publisher still has to reconcile
    process,    \* running, draining or forced
    conn,       \* the request of each connection
    arrived,    \* how many requests have come
    attempts,   \* the rate window of each key, oldest push first
    buckets,    \* PublicRequestWindow: requests per second of the clock
    observed,   \* GatewayUsageDebounce: the last second each key was seen in
    tracker,    \* GatewayUsageTracker
    pool,       \* the decompression semaphore
    granted,    \* history: every admission against a limit
    told,       \* history: the last refusal of a key that is still of use
    seen        \* history: the seconds in which requests were authenticated

vars == <<now, history, publisher, process, conn, arrived, attempts, buckets,
          observed, tracker, pool, granted, told, seen>>

Second == now \div PerSecond
Snapshot(s) == history[conn[s].revision]
Current == history[Len(history)]

---------------------------------------------------------------------------
(* The client's address: the trusted proxies' headers, from the right.     *)

(* canonical addresses are compared; "bad" is an entry that does not parse *)
ForwardedClientIp(a, trusted) ==
    LET Vouched(i) == a.peer \in trusted
                      /\ \A j \in (i + 1) .. Len(a.chain) : a.chain[j] \in trusted
        reached == {i \in 1 .. Len(a.chain) : Vouched(i)}
    IN IF \E i \in 1 .. Len(a.chain) : a.chain[i] = "bad" THEN "invalid"
       ELSE IF reached = {} THEN a.peer
       ELSE a.chain[CHOOSE i \in reached : \A j \in reached : i <= j]

ForwardedIsValid(a) == "bad" \notin a.protos /\ Cardinality(a.protos) <= 1

Resolve(a, trusted) ==
    IF a.peer \notin trusted THEN a.peer
    ELSE IF ForwardedIsValid(a) THEN ForwardedClientIp(a, trusted) ELSE "invalid"

AuditClientIp(a, trusted) ==
    IF Resolve(a, trusted) = "invalid" THEN a.peer ELSE Resolve(a, trusted)

---------------------------------------------------------------------------
(* The access log.                                                         *)

ShouldRecord(r, outcome) ==
    \/ r.arrival.path # "admin"
    \/ AuditClientIp(r.arrival, history[r.revision].trusted) # "loopback"
    \/ r.status = Nil \/ r.status = "error"
    \/ outcome # "completed"

(* FAULTY: the end of a body and its drop each leave an entry *)
FinishAgain(r, outcome) ==
    [r EXCEPT !.logged = IF ShouldRecord(r, outcome)
                         THEN Append(@, [outcome |-> outcome, status |-> r.status])
                         ELSE @]

(* AccessLogCompletion::finish: at most once, also when it is dropped *)
Finish(r, outcome) ==
    IF ~r.pending THEN r
    ELSE [r EXCEPT !.pending = FALSE,
                   !.logged = IF ShouldRecord(r, outcome)
                              THEN Append(@, [outcome |-> outcome, status |-> r.status])
                              ELSE @]

Idle == [pc |-> "gone", arrival |-> Nil, revision |-> 1, key |-> Nil, second |-> 0,
         clock |-> 0, received |-> 0, since |-> 0, guard |-> FALSE, status |-> Nil,
         answer |-> Nil, left |-> 0, sent |-> 0, finished |-> FALSE,
         pending |-> FALSE, logged |-> <<>>]

(* a handler that has returned, or was dropped, leaves nothing behind *)
Ended(r) == [Idle EXCEPT !.arrival = r.arrival, !.revision = r.revision,
                         !.pending = r.pending, !.logged = r.logged]

(* an answer passes back through the guard's and the log's middleware *)
Respond(r, answer, tracked) ==
    [Ended(r) EXCEPT !.pc = "answering", !.status = answer.status, !.guard = tracked,
                     !.answer = answer, !.left = answer.frames,
                     !.pending = @ /\ ~answer.excluded]

Refusal(kind) == [status |-> "error", frames |-> 1, sized |-> TRUE,
                  excluded |-> FALSE, kind |-> kind]

Refuse(s, kind) ==
    /\ conn' = [conn EXCEPT ![s] = Respond(@, Refusal(kind), TRUE)]

---------------------------------------------------------------------------
Init ==
    /\ now = 0
    /\ history = << [keys |-> [k \in Keys |-> [version |-> 1, active |-> TRUE,
                                               limit |-> CHOOSE n \in Limits : n # Nil]],
                     trusted |-> {"proxy"}, logging |-> TRUE] >>
    /\ publisher = "idle"
    /\ process = "running"
    /\ conn = [s \in Slots |-> Idle]
    /\ arrived = 0
    /\ attempts = [k \in Keys |-> <<>>]
    /\ buckets = [i \in 0 .. (Window - 1) |-> [second |-> Nil, count |-> 0]]
    /\ observed = [k \in {} |-> 0]
    /\ tracker = [live |-> [k \in {} |-> 0], enqueued |-> [k \in {} |-> 0],
                  revision |-> 1, active |-> Keys]
    /\ pool = [free |-> Permits, queue |-> <<>>, orphans |-> 0]
    /\ granted = <<>>
    /\ told = [k \in Keys |-> Nil]
    /\ seen = <<>>

(* record: one snapshot for the whole request, the address resolved with it *)
Arrive(s, a) ==
    /\ conn[s].pc = "gone" /\ arrived < MaxArrivals
    /\ arrived' = arrived + 1
    /\ conn' = [conn EXCEPT ![s] =
         [Idle EXCEPT !.pc = "arrived", !.arrival = a, !.revision = Len(history),
                      !.pending = Current.logging]]
    /\ UNCHANGED <<now, history, publisher, process, attempts, buckets, observed,
                   tracker, pool, granted, told, seen>>

(* request_lifecycle::track; the guard's own steps are ProcessLifecycle's *)
Track(s) ==
    /\ conn[s].pc = "arrived"
    /\ conn' = [conn EXCEPT ![s] =
         IF process # "running" THEN Respond(@, Refusal("unavailable"), FALSE)
         ELSE [@ EXCEPT !.guard = TRUE,
                        !.pc = IF conn[s].arrival.path = "admin" THEN "executing"
                               ELSE "authenticating"]]
    /\ UNCHANGED <<now, history, publisher, process, arrived, attempts, buckets,
                   observed, tracker, pool, granted, told, seen>>

---------------------------------------------------------------------------
(* The gateway API key.                                                    *)

(* several headers may carry a token, but only the same one *)
ExtractToken(a) ==
    IF a.tokens = {} \/ \E t \in a.tokens : t[1] = "bad" THEN "unauthorized"
    ELSE IF Cardinality(a.tokens) > 1 THEN "conflicting_credentials"
    ELSE "token"

(* PublishedSnapshot::authenticate_gateway_api_key *)
AuthenticateGatewayApiKey(keys, token) ==
    token[1] \in DOMAIN keys /\ keys[token[1]].active /\ keys[token[1]].version = token[2]

(* FAULTY: a bucket that is used again goes on counting *)
RecordSecondAdding(bs, second) ==
    [bs EXCEPT ![second % Window] = [second |-> second, count |-> @.count + 1]]

(* a bucket is used again a window later, and starts from zero then *)
RecordSecond(bs, second) ==
    LET i == second % Window
    IN [bs EXCEPT ![i] = IF @.second = second THEN [@ EXCEPT !.count = @ + 1]
                         ELSE [second |-> second, count |-> 1]]

CountAtSecond(bs, second) ==
    FoldFunction(+, 0, [i \in DOMAIN bs |->
        IF bs[i].second # Nil /\ second - bs[i].second < Window THEN bs[i].count ELSE 0])

RequireGatewayApiKey(s) ==
    LET a == conn[s].arrival
        token == CHOOSE t \in a.tokens : TRUE
    IN
    /\ conn[s].pc = "authenticating"
    /\ IF Resolve(a, Snapshot(s).trusted) = "invalid"
       THEN Refuse(s, "invalid_forwarded_headers") /\ UNCHANGED <<buckets, seen>>
       ELSE IF ExtractToken(a) # "token"
       THEN Refuse(s, ExtractToken(a)) /\ UNCHANGED <<buckets, seen>>
       ELSE IF ~AuthenticateGatewayApiKey(Snapshot(s).keys, token)
       THEN Refuse(s, "unauthorized") /\ UNCHANGED <<buckets, seen>>
       ELSE /\ conn' = [conn EXCEPT ![s].pc = "using", ![s].key = token[1],
                                    ![s].second = Second]
            /\ buckets' = RecordSecond(buckets, Second)
            /\ seen' = Append(seen, Second)
    /\ UNCHANGED <<now, history, publisher, process, arrived, attempts, observed,
                   tracker, pool, granted, told>>

(* record_gateway_key_use: one observation of a key in a second *)
FirstObservation(s) ==
    LET r == conn[s]
    IN /\ r.pc = "using"
       /\ observed' = (r.key :> r.second) @@ observed
       /\ conn' = [conn EXCEPT ![s].pc =
            IF r.key \in DOMAIN observed /\ observed[r.key] = r.second
            THEN "reading_clock" ELSE "observing"]
       /\ UNCHANGED <<now, history, publisher, process, arrived, attempts, buckets,
                      tracker, pool, granted, told, seen>>

(* FAULTY: every use is recorded, whichever revision it was made under *)
ForgottenNever(t, key, revision) == FALSE

(* a use under an old revision does not bring a deleted key back *)
Forgotten(t, key, revision) == revision <= t.revision /\ key \notin t.active

Observe(s) ==
    LET r == conn[s]
        due == \/ r.key \notin DOMAIN tracker.enqueued
               \/ now - tracker.enqueued[r.key] >= Window * PerSecond
    IN /\ r.pc = "observing"
       /\ tracker' = IF Forgotten(tracker, r.key, r.revision) THEN tracker
                     ELSE [tracker EXCEPT !.live = (r.key :> r.second) @@ @,
                                          !.enqueued = IF due THEN (r.key :> now) @@ @ ELSE @]
       /\ conn' = [conn EXCEPT ![s].pc = "reading_clock"]
       /\ UNCHANGED <<now, history, publisher, process, arrived, attempts, buckets,
                      observed, pool, granted, told, seen>>

(* GatewayApiKeyRateBinding::try_admit: the clock is read before the lock *)
ReadClock(s) ==
    /\ conn[s].pc = "reading_clock"
    /\ conn' = [conn EXCEPT ![s].clock = now,
         ![s].pc = IF Snapshot(s).keys[conn[s].key].limit = Nil THEN "handling" ELSE "admitting"]
    /\ UNCHANGED <<now, history, publisher, process, arrived, attempts, buckets,
                   observed, tracker, pool, granted, told, seen>>

(* attempts leave from the front once they are a whole window old *)
Kept(window, clock) ==
    LET young == {i \in DOMAIN window : window[i] > clock - Window * PerSecond}
    IN IF young = {} THEN <<>>
       ELSE SubSeq(window, CHOOSE i \in young : \A j \in young : i <= j, Len(window))

(* FAULTY: whole seconds, rounded down *)
RetryAfterCut(window, limit, clock) ==
    LET retry == window[Len(window) - limit + 1] + Window * PerSecond - clock
    IN IF retry < PerSecond THEN 1 ELSE retry \div PerSecond

(* whole seconds, rounded up, at least one *)
RetryAfter(window, limit, clock) ==
    LET retry == window[Len(window) - limit + 1] + Window * PerSecond - clock
        seconds == (retry + PerSecond - 1) \div PerSecond
    IN IF seconds < 1 THEN 1 ELSE seconds

TryAdmit(s) ==
    LET r == conn[s]
        limit == Snapshot(s).keys[r.key].limit
        window == Kept(attempts[r.key], r.clock)
    IN
    /\ r.pc = "admitting"
    /\ IF Len(window) >= limit
       THEN /\ attempts' = [attempts EXCEPT ![r.key] = window]
            /\ Refuse(s, "gateway_rate_limited")
            /\ told' = [told EXCEPT ![r.key] =
                 [limit |-> limit,
                  until |-> r.clock + PerSecond * RetryAfter(window, limit, r.clock)]]
            /\ UNCHANGED granted
       ELSE /\ attempts' = [attempts EXCEPT ![r.key] = Append(window, r.clock)]
            /\ granted' = Append(granted, [key |-> r.key, at |-> r.clock,
                                           locked |-> now, limit |-> limit])
            /\ told' = [told EXCEPT ![r.key] = Nil]
            /\ conn' = [conn EXCEPT ![s].pc = "handling"]
    /\ UNCHANGED <<now, history, publisher, process, arrived, buckets, observed,
                   tracker, pool, seen>>

---------------------------------------------------------------------------
(* The body.                                                               *)

PathSupportsZstd(path) == path = "responses"

(* PublicBody::from_request up to the first read *)
FromRequest(s) ==
    LET a == conn[s].arrival
    IN /\ conn[s].pc = "handling"
       /\ IF a.path = "unknown" THEN Refuse(s, "not_found")
          ELSE IF a.encoding = "invalid" \/ (a.encoding = "zstd" /\ ~PathSupportsZstd(a.path))
          THEN Refuse(s, "unsupported_content_encoding")
          ELSE conn' = [conn EXCEPT ![s].pc = "collecting"]
       /\ UNCHANGED <<now, history, publisher, process, arrived, attempts, buckets,
                      observed, tracker, pool, granted, told, seen>>

(* collect_body: the limit is tested before a chunk is kept *)
CollectChunk(s) ==
    /\ conn[s].pc = "collecting" /\ conn[s].received < conn[s].arrival.size
    /\ IF conn[s].received + 1 > MaxBody THEN Refuse(s, "payload_too_large")
       ELSE conn' = [conn EXCEPT ![s].received = @ + 1]
    /\ UNCHANGED <<now, history, publisher, process, arrived, attempts, buckets,
                   observed, tracker, pool, granted, told, seen>>

(* the client's body fails, or is idle for too long, or memory is short *)
CollectFails(s, kind) ==
    /\ conn[s].pc = "collecting"
    /\ Refuse(s, kind)
    /\ UNCHANGED <<now, history, publisher, process, arrived, attempts, buckets,
                   observed, tracker, pool, granted, told, seen>>

(* a compressed body waits for one of the decompressions, first come first *)
Collected(s) ==
    LET r == conn[s]
        free == pool.free > 0 /\ pool.queue = <<>>
    IN /\ r.pc = "collecting" /\ r.received = r.arrival.size
       /\ IF r.arrival.encoding = "identity"
          THEN conn' = [conn EXCEPT ![s].pc = "executing"] /\ UNCHANGED pool
          ELSE /\ conn' = [conn EXCEPT ![s].pc = IF free THEN "permitted" ELSE "queued",
                                       ![s].since = now]
               /\ pool' = IF free THEN [pool EXCEPT !.free = @ - 1]
                          ELSE [pool EXCEPT !.queue = Append(@, s)]
       /\ UNCHANGED <<now, history, publisher, process, arrived, attempts, buckets,
                      observed, tracker, granted, told, seen>>

(* a released permit goes to the first in the queue *)
Release(p) ==
    IF p.queue = <<>> THEN [p EXCEPT !.free = @ + 1] ELSE [p EXCEPT !.queue = Tail(@)]

Handed(c, p) ==
    IF p.queue = <<>> THEN c ELSE [c EXCEPT ![Head(p.queue)].pc = "permitted"]

SpawnDecode(s) ==
    /\ conn[s].pc = "permitted"
    /\ conn' = [conn EXCEPT ![s].pc = "decoding"]
    /\ UNCHANGED <<now, history, publisher, process, arrived, attempts, buckets,
                   observed, tracker, pool, granted, told, seen>>

QueueTimesOut(s) ==
    /\ conn[s].pc = "queued" /\ now >= conn[s].since + QueueTimeout
    /\ Refuse(s, "overloaded")
    /\ pool' = [pool EXCEPT !.queue = SelectSeq(@, LAMBDA q : q # s)]
    /\ UNCHANGED <<now, history, publisher, process, arrived, attempts, buckets,
                   observed, tracker, granted, told, seen>>

(* the task ends with its permit, whether or not its request still waits *)
DecodeEnds(s, kind) ==
    /\ conn[s].pc = "decoding"
    /\ conn' = Handed([conn EXCEPT ![s] =
         IF kind = "decoded" THEN [@ EXCEPT !.pc = "executing"]
         ELSE Respond(@, Refusal(kind), TRUE)], pool)
    /\ pool' = Release(pool)
    /\ UNCHANGED <<now, history, publisher, process, arrived, attempts, buckets,
                   observed, tracker, granted, told, seen>>

OrphanEnds ==
    /\ pool.orphans > 0
    /\ conn' = Handed(conn, pool)
    /\ pool' = [Release(pool) EXCEPT !.orphans = @ - 1]
    /\ UNCHANGED <<now, history, publisher, process, arrived, attempts, buckets,
                   observed, tracker, granted, told, seen>>

(* the handler of the path, see RoutePlanning, RequestRetry, StreamCommit *)
Execute(s, answer) ==
    /\ conn[s].pc = "executing"
    /\ answer.excluded => conn[s].arrival.path = "admin"
    /\ conn' = [conn EXCEPT ![s] = Respond(@, answer, TRUE)]
    /\ UNCHANGED <<now, history, publisher, process, arrived, attempts, buckets,
                   observed, tracker, pool, granted, told, seen>>

---------------------------------------------------------------------------
(* The answer: TrackedBody inside AccessLogBody, unless it is excluded.    *)

(* only a sized body knows its end before it is asked for another frame *)
IsEndStream(r) == r.finished \/ (r.answer.sized /\ r.left = 0)

PollFrame(s) ==
    LET r == conn[s]
        next == [r EXCEPT !.left = @ - 1, !.sent = @ + 1]
    IN
    /\ r.pc = "answering" /\ ~IsEndStream(r)
    /\ conn' = [conn EXCEPT ![s] =
         IF r.guard /\ process = "forced"
         THEN Finish([r EXCEPT !.guard = FALSE, !.finished = TRUE], "body_error")
         ELSE IF r.left = 0
         THEN Finish([r EXCEPT !.guard = FALSE, !.finished = TRUE], "completed")
         ELSE IF IsEndStream(next) THEN Finish(next, "completed") ELSE next]
    /\ UNCHANGED <<now, history, publisher, process, arrived, attempts, buckets,
                   observed, tracker, pool, granted, told, seen>>

InnerFails(s) ==
    /\ conn[s].pc = "answering" /\ ~conn[s].answer.sized /\ ~conn[s].finished
    /\ conn' = [conn EXCEPT ![s] =
         Finish([@ EXCEPT !.guard = FALSE, !.finished = TRUE], "body_error")]
    /\ UNCHANGED <<now, history, publisher, process, arrived, attempts, buckets,
                   observed, tracker, pool, granted, told, seen>>

(* hyper drops a body it has sent, or one nobody reads any more *)
DroppedAs(r) ==
    IF IsEndStream(r) \/ (r.answer.sized /\ r.sent = r.answer.frames)
    THEN "completed" ELSE "cancelled"

DropBody(s) ==
    /\ conn[s].pc = "answering"
    /\ conn' = [conn EXCEPT ![s] =
         [Finish(@, DroppedAs(@)) EXCEPT !.pc = "gone", !.guard = FALSE]]
    /\ UNCHANGED <<now, history, publisher, process, arrived, attempts, buckets,
                   observed, tracker, pool, granted, told, seen>>

(* FAULTY: a permit handed to a request that is dropped is lost *)
UnhandedLosing(s, next) ==
    /\ pool' = IF conn[s].pc = "decoding" THEN [pool EXCEPT !.orphans = @ + 1]
               ELSE [pool EXCEPT !.queue = SelectSeq(@, LAMBDA q : q # s)]
    /\ conn' = [conn EXCEPT ![s] = next]

(* the future of a request is dropped: its place in the queue and its permit
   go back, a running decompression goes on without it *)
Unhanded(s, next) ==
    /\ pool' = CASE conn[s].pc = "permitted" -> Release(pool)
                 [] conn[s].pc = "decoding" -> [pool EXCEPT !.orphans = @ + 1]
                 [] OTHER -> [pool EXCEPT !.queue = SelectSeq(@, LAMBDA q : q # s)]
    /\ conn' = IF conn[s].pc = "permitted"
               THEN Handed([conn EXCEPT ![s] = next], pool)
               ELSE [conn EXCEPT ![s] = next]

Abandon(s) ==
    /\ conn[s].pc \notin {"gone", "answering"}
    /\ Unhanded(s, Ended(Finish(conn[s], "cancelled")))
    /\ UNCHANGED <<now, history, publisher, process, arrived, attempts, buckets,
                   observed, tracker, granted, told, seen>>

(* track: a forced shutdown answers for the handler it drops *)
AnswerForced(s) ==
    /\ process = "forced" /\ conn[s].guard /\ conn[s].pc # "answering"
    /\ Unhanded(s, Respond(conn[s], Refusal("unavailable"), FALSE))
    /\ UNCHANGED <<now, history, publisher, process, arrived, attempts, buckets,
                   observed, tracker, granted, told, seen>>

---------------------------------------------------------------------------
(* The configuration, the clock and the process.                           *)

WithKey(k, key) == [Current EXCEPT !.keys[k] = key]

ChangedBy(change, k) ==
    LET key == Current.keys[k]
    IN CASE change = "limit" -> {WithKey(k, [key EXCEPT !.limit = n]) : n \in Limits}
         [] change = "rotate" -> {WithKey(k, [key EXCEPT !.version = @ + 1])}
         [] change = "disable" -> {WithKey(k, [key EXCEPT !.active = ~@])}
         [] change = "delete" -> {[Current EXCEPT !.keys =
                                     Restrict(@, DOMAIN @ \ {k})]}
         [] change = "logging" -> {[Current EXCEPT !.logging = ~@]}
         [] change = "trusted" -> {[Current EXCEPT !.trusted =
                                     IF @ = {} THEN {"proxy"} ELSE {}]}

(* FAULTY: a publication starts the windows of its keys again *)
RateHandlesNew(next) == [k \in Keys |-> <<>>]

(* the rate handles of kept keys live on; only the bindings are new *)
RateHandles(next) == attempts

Publish(change, k) ==
    /\ publisher = "idle" /\ Len(history) < MaxRevision /\ k \in DOMAIN Current.keys
    /\ \E next \in ChangedBy(change, k) \ {Current} :
         /\ history' = Append(history, next)
         /\ attempts' = RateHandles(next)
    /\ publisher' = "retaining"
    /\ UNCHANGED <<now, process, conn, arrived, buckets, observed, tracker, pool,
                   granted, told, seen>>

RetainDebounce ==
    /\ publisher = "retaining"
    /\ publisher' = "reconciling"
    /\ observed' = Restrict(observed, DOMAIN observed \intersect DOMAIN Current.keys)
    /\ UNCHANGED <<now, history, process, conn, arrived, attempts, buckets, tracker,
                   pool, granted, told, seen>>

ReconcileTracker ==
    LET Retained(f) == Restrict(f, DOMAIN f \intersect DOMAIN Current.keys)
    IN /\ publisher = "reconciling"
       /\ publisher' = "idle"
       /\ tracker' = [live |-> Retained(tracker.live), enqueued |-> Retained(tracker.enqueued),
                      revision |-> Len(history), active |-> DOMAIN Current.keys]
       /\ UNCHANGED <<now, history, process, conn, arrived, attempts, buckets, observed,
                      pool, granted, told, seen>>

ShutDown ==
    /\ process # "forced"
    /\ process' = IF process = "running" THEN "draining" ELSE "forced"
    /\ UNCHANGED <<now, history, publisher, conn, arrived, attempts, buckets, observed,
                   tracker, pool, granted, told, seen>>

Tick ==
    /\ now < MaxTime
    /\ now' = now + 1
    /\ UNCHANGED <<history, publisher, process, conn, arrived, attempts, buckets,
                   observed, tracker, pool, granted, told, seen>>

Next ==
    \/ \E s \in Slots :
         \/ \E a \in Arrivals : Arrive(s, a)
         \/ Track(s) \/ RequireGatewayApiKey(s) \/ FirstObservation(s) \/ Observe(s)
         \/ ReadClock(s) \/ TryAdmit(s) \/ FromRequest(s) \/ CollectChunk(s)
         \/ \E kind \in {"unreadable_body", "internal"} : CollectFails(s, kind)
         \/ Collected(s) \/ SpawnDecode(s) \/ QueueTimesOut(s)
         \/ \E kind \in {"decoded", "payload_too_large", "unreadable_body", "internal"} :
              DecodeEnds(s, kind)
         \/ \E answer \in Answers : Execute(s, answer)
         \/ PollFrame(s) \/ InnerFails(s) \/ DropBody(s) \/ Abandon(s) \/ AnswerForced(s)
    \/ OrphanEnds
    \/ \E change \in Changes, k \in Keys : Publish(change, k)
    \/ RetainDebounce \/ ReconcileTracker \/ ShutDown \/ Tick

Spec == Init /\ [][Next]_vars

---------------------------------------------------------------------------
(* Every variable has a value of its kind. *)
TypeOK ==
    /\ now \in 0 .. MaxTime /\ arrived \in 0 .. MaxArrivals
    /\ Len(history) \in 1 .. MaxRevision
    /\ publisher \in {"idle", "retaining", "reconciling"}
    /\ process \in {"running", "draining", "forced"}
    /\ \A s \in Slots : conn[s].revision \in 1 .. Len(history)
    /\ pool.free \in 0 .. Permits
    /\ DOMAIN observed \subseteq Keys /\ DOMAIN tracker.live \subseteq Keys

(* The limit of a gateway API key (GatewayApiKeyRateHandle::try_admit): when a
   request is let in under a limit, no more than that many of the requests
   counted for its key lie in the window that ends then, whatever limits were
   published meanwhile and in whatever order the callers came to the lock. *)
KeyLimitHolds ==
    \A i \in DOMAIN granted :
        LET g == granted[i]
        IN Cardinality({j \in 1 .. i : granted[j].key = g.key
                          /\ granted[j].at > g.locked - Window * PerSecond}) <= g.limit

Ordered(window) == \A i, j \in DOMAIN window : i <= j => window[i] <= window[j]

(* The retry hint (retry_after_seconds): as long as nobody else is let in with
   the key, a request that comes at the told second would be let in under the
   limit it was refused by, and one a second earlier would not.  Clock readings
   that were pushed out of order are excepted. *)
RetryHintHolds ==
    \A k \in Keys : (told[k] # Nil /\ Ordered(attempts[k])) =>
        LET admissible == Len(Kept(attempts[k], now)) < told[k].limit
        IN /\ now >= told[k].until => admissible
           /\ now <= told[k].until - PerSecond => ~admissible

(* The recorded use of keys (GatewayUsageTracker): once a publication has been
   reconciled, no key it deleted has a use on record, although requests that
   were authenticated before still report theirs. *)
UsesStayCurrent ==
    publisher = "idle" => DOMAIN tracker.live \subseteq DOMAIN Current.keys

(* The decompression permits (ZstdDecoder::run): each is free, with one request
   or with one running task, also when requests are dropped or time out, and
   nobody waits while one is free. *)
PermitsReturn ==
    /\ pool.free + pool.orphans
         + Cardinality({s \in Slots : conn[s].pc \in {"permitted", "decoding"}}) = Permits
    /\ pool.queue # <<>> => pool.free = 0

(* The rate that the overview shows (PublicRequestWindow): the authenticated
   requests of the last window, although buckets are used again. *)
ShownRateIsTrue ==
    CountAtSecond(buckets, Second)
      = Cardinality({i \in DOMAIN seen : Second - seen[i] < Window})

(* The access log (AccessLogCompletion, AccessLogBody): a request that is over
   has left one entry at most, exactly one when its snapshot logged requests
   and it is a public one, and an entry that says completed belongs to an
   answer that was handed over to its last frame. *)
AccessLogTold ==
    \A s \in Slots : LET r == conn[s] IN
        /\ Len(r.logged) <= 1
        /\ (r.pc = "gone" /\ r.arrival # Nil) =>
             /\ (history[r.revision].logging /\ r.arrival.path # "admin") => Len(r.logged) = 1
             /\ ~history[r.revision].logging => r.logged = <<>>
             /\ \A i \in DOMAIN r.logged : r.logged[i].outcome = "completed" =>
                  r.answer # Nil /\ r.left = 0 /\ r.logged[i].status = r.answer.status
=============================================================================
