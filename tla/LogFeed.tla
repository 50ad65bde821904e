------------------------------ MODULE LogFeed ------------------------------
(***************************************************************************)
(* The live log lists of the administration pages, from the telemetry      *)
(* worker to the rows on the screen: the stored logs and their keyset      *)
(* pages (storage request_log and http_access_log), the registry of        *)
(* running requests, the change notices of /api/admin/events, the          *)
(* EventSource of AdminRealtimeProvider with its retries, and the hook     *)
(* useRealtimeCursorFeed with the queries that it shares with TanStack     *)
(* Query.  Both lists use the hook: the request log also shows running     *)
(* requests, the HTTP access log can be cleared.                           *)
(*                                                                         *)
(* A record is the number of its request: the order of the numbers is the  *)
(* order of the positions (started_at_ms, request_id).  A page is          *)
(* [items, active, next]; next is the exclusive boundary of the page after *)
(* it.  An aborted operation or a cancelled query has no effect any more   *)
(* and is simply gone; with it go the checks of the hook's own generation, *)
(* which only changes when the running operation is aborted.               *)
(***************************************************************************)
EXTENDS Naturals, FiniteSets, Sequences, SequencesExt

CONSTANTS
  Feeds,          \* the lists to look at: "request", "system"
  MaxRecords,     \* bound: requests that are received
  MaxRunning,     \* bound: requests that run at a time
  MaxRows,        \* the capacity of the stored log
  MaxRejected,    \* gateway_auth_rejected_capacity of it
  Limit,          \* LOG_BATCH_SIZE
  MaxPages,       \* maxCachedPages
  MaxFailures,    \* RETRY_DELAYS_MS.length
  MaxTurns,       \* bound: faults and actions of the administrator
  Nil

VARIABLES
  feed,           \* the list on the screen
  received,       \* number of requests received so far
  running,        \* ActiveRequestRegistry: requests that are not recorded yet
  appended,       \* records of a committed batch that the worker still has to settle
  stored,         \* the rows of the log
  late,           \* history: rows that were stored after a newer one
  stream,         \* the EventSource of the provider
  attempts,       \* [failures, refreshed] of the provider
  signal,         \* a change that the stream has not reported yet
  scope,          \* the filter of the list
  following,      \* the administrator looks at the newest rows
  data,           \* the cached pages of the query, Nil before the first
  fetch,          \* the query's own read: of the first or of the next page
  op,             \* the hook's operation: a catch-up or a refresh
  hook,           \* [timer, events, rerun, reset, pending, failed] of the hook
  queryFailed,    \* the last read of the query failed
  generation,     \* the generation of the HTTP access log feed
  clearing,       \* the clearing of the HTTP access log
  owed,           \* history: rows that a notice promised to the loaded list
  turns           \* faults and actions of the administrator so far

server == <<running, received, appended, stored, late>>
events == <<stream, attempts, signal>>
view == <<scope, following, data, fetch, op, hook, queryFailed, owed>>
vars == <<feed, server, events, view, generation, clearing, turns>>

Scopes == {"all", "some"}
Sync == "sync"
Refresh == "refresh"

(* The filter of the request log: an outcome, a model or a key.            *)
Matches(r, sc) == sc = "all" \/ r % 2 = 1

(* HTTP requests: the second is an operation of the administrator, the     *)
(* reading of the log itself, which is recorded without a notice since the *)
(* list would otherwise keep itself busy; the third was rejected for its   *)
(* key.                                                                    *)
AdminOperation(r) == r = 2
Silent(r) == feed = "system" /\ r = 2
Rejected(r) == r = 3

(***************************************************************************)
(* The log and its pages                                                   *)
(***************************************************************************)
Newest(S, n) == {r \in S : Cardinality({q \in S : q > r}) < n}
Descending(S) == SetToSortSeq(S, LAMBDA a, b : a > b)

(* The rows of a page: those of the filter before the boundary.            *)
RequestLogRows(sc, before) ==
  {r \in stored : Matches(r, sc) /\ (before = 0 \/ r < before)}

(* The same for the HTTP access log, which can leave out the operations of *)
(* the administrator.                                                      *)
AccessLogRows(sc, before) ==
  {r \in stored : (sc = "all" \/ ~AdminOperation(r)) /\ (before = 0 \/ r < before)}

Rows(sc, before) ==
  IF feed = "request" THEN RequestLogRows(sc, before) ELSE AccessLogRows(sc, before)

(* A continuation cursor names the list and the filter that it is for; the *)
(* server refuses it for another one.                                      *)
Encode(sc, before) == [scope |-> sc, before |-> before]
Decodes(sc, cursor) == IF cursor = Nil THEN TRUE ELSE cursor.scope = sc

(* A page of at most Limit rows; the last of them is the boundary of the   *)
(* next page if there are more.                                            *)
LogBatch(sc, cursor) ==
  LET window == Rows(sc, IF cursor = Nil THEN 0 ELSE cursor.before)
      rows == Descending(Newest(window, Limit))
  IN [items |-> rows, active |-> {},
      next |-> IF Cardinality(window) > Limit THEN Encode(sc, rows[Len(rows)]) ELSE Nil]

(* The running requests of the registry that match the filter.             *)
ListActive(sc) == Newest({r \in running : Matches(r, sc)}, Limit)

(* The handlers.  A first page of the request log lists the running        *)
(* requests before it reads the log, so that a request which is recorded   *)
(* meanwhile is in both; its notice follows.                               *)
ListRequestLogs(sc, cursor) ==
  [LogBatch(sc, cursor) EXCEPT !.active = IF cursor = Nil THEN ListActive(sc) ELSE {}]
ListSystemLogs(sc, cursor) == LogBatch(sc, cursor)
FetchPage(sc, cursor) ==
  IF feed = "request" THEN ListRequestLogs(sc, cursor) ELSE ListSystemLogs(sc, cursor)

(***************************************************************************)
(* The telemetry                                                           *)
(***************************************************************************)
Overtaken(r) == \E q \in (1..received) \ (running \ appended) : q > r

Receives ==
  /\ received < MaxRecords /\ Cardinality(running) < MaxRunning
  /\ received' = received + 1
  /\ running' = running \union {received'}
  /\ UNCHANGED <<feed, appended, stored, late, stream, attempts, view, generation,
                 clearing, turns>>

(* A public request enters the registry, and the lists hear of it; an HTTP *)
(* request is only recorded when it is over.                               *)
Register == feed = "request" /\ Receives /\ signal' = TRUE
Access == feed = "system" /\ Receives /\ UNCHANGED signal

Appends(r, rows) ==
  /\ r \in running \ appended
  /\ stored' = rows
  /\ appended' = appended \union {r}
  /\ late' = IF Overtaken(r) THEN late \union {r} ELSE late
  /\ UNCHANGED <<feed, running, received, events, view, generation, clearing, turns>>

(* The worker commits a record; in the same transaction the oldest rows    *)
(* beyond the capacity are deleted.                                        *)
TrimToCapacity(S) == Newest(S, MaxRows)
AppendRequestLog(r) ==
  feed = "request" /\ Appends(r, TrimToCapacity(stored \union {r}))

(* Of the HTTP access log the rejected ones give way first, and they have  *)
(* a capacity of their own.                                                *)
TrimAccessLogs(S) ==
  LET rejected == {r \in S : Rejected(r)}
      excess == Cardinality(S) - MaxRows
      over == Cardinality(rejected) - MaxRejected
      free == IF over > excess THEN over ELSE excess
      kept == IF free <= 0 THEN S
              ELSE (S \ rejected) \union Newest(rejected, Cardinality(rejected) - free)
  IN Newest(kept, MaxRows)
AppendHttpAccessLog(r) ==
  feed = "system" /\ Appends(r, TrimAccessLogs(stored \union {r}))

Settles(r) ==
  /\ r \in appended
  /\ appended' = appended \ {r}
  /\ running' = running \ {r}
  /\ UNCHANGED <<feed, received, stored, late, stream, attempts, view, generation,
                 clearing, turns>>

(* After the commit the request leaves the registry and the lists are      *)
(* told.                                                                   *)
SettleRequest(r) == feed = "request" /\ Settles(r) /\ signal' = TRUE
SettleAccess(r) == feed = "system" /\ Settles(r) /\ signal' = (signal \/ ~Silent(r))

(* A full queue or a failed insertion loses the record; local HTTP         *)
(* requests that went well are not recorded at all.                        *)
Lose(r) ==
  /\ turns < MaxTurns
  /\ r \in running \ appended
  /\ turns' = turns + 1
  /\ running' = running \ {r}
  /\ signal' = (signal \/ feed = "request")
  /\ UNCHANGED <<feed, received, appended, stored, late, stream, attempts, view,
                 generation, clearing>>

(* Retention: the oldest rows go, and the lists are told.                  *)
Prune ==
  /\ turns < MaxTurns
  /\ stored # {}
  /\ turns' = turns + 1
  /\ \E n \in 0..(Cardinality(stored) - 1) : stored' = Newest(stored, n)
  /\ signal' = TRUE
  /\ UNCHANGED <<feed, received, running, appended, late, stream, attempts, view,
                 generation, clearing>>

(***************************************************************************)
(* The event stream                                                        *)
(***************************************************************************)
(* A new stream reports the state of every list first.                     *)
StreamOpens ==
  /\ stream = "connecting"
  /\ stream' = "open"
  /\ signal' = TRUE
  /\ UNCHANGED <<feed, server, attempts, view, generation, clearing, turns>>

(* A connection that lasts is forgiven its failures.                       *)
StreamIsStable ==
  /\ stream = "open" /\ attempts # [failures |-> 0, refreshed |-> FALSE]
  /\ attempts' = [failures |-> 0, refreshed |-> FALSE]
  /\ UNCHANGED <<feed, server, stream, signal, view, generation, clearing, turns>>

(* A broken stream is retried a few times, then once more after the        *)
(* session was looked up; then it stays closed.                            *)
StreamBreaks ==
  /\ turns < MaxTurns
  /\ stream \in {"connecting", "open"}
  /\ turns' = turns + 1
  /\ \/ /\ attempts.failures < MaxFailures
        /\ attempts' = [attempts EXCEPT !.failures = @ + 1]
        /\ stream' = "waiting"
     \/ /\ attempts.failures >= MaxFailures
        /\ attempts' = [attempts EXCEPT !.refreshed = TRUE]
        /\ stream' = IF attempts.refreshed THEN "stopped" ELSE "refreshing"
  /\ UNCHANGED <<feed, server, signal, view, generation, clearing>>

StreamRetries ==
  /\ stream = "waiting"
  /\ stream' = "connecting"
  /\ UNCHANGED <<feed, server, attempts, signal, view, generation, clearing, turns>>

RefreshAuth ==
  /\ stream = "refreshing"
  /\ \/ /\ attempts' = [attempts EXCEPT !.failures = 0]
        /\ stream' = "waiting"
     \/ /\ stream' = "stopped"
        /\ UNCHANGED attempts
  /\ UNCHANGED <<feed, server, signal, view, generation, clearing, turns>>

(***************************************************************************)
(* The hook                                                                *)
(***************************************************************************)
(* Notices are gathered for a moment; a running operation is followed by   *)
(* another one.                                                            *)
ScheduleSync(h) ==
  IF op # Nil THEN [h EXCEPT !.events = TRUE, !.rerun = TRUE]
  ELSE [h EXCEPT !.events = TRUE, !.timer = TRUE]

(* The end of an operation: what was asked for meanwhile is queued.        *)
EndOperationForgets(h) ==   \* faulty variant: what was asked for meanwhile is dropped
  [h EXCEPT !.rerun = FALSE, !.events = FALSE]
EndOperation(h) ==
  IF h.rerun \/ h.events THEN [h EXCEPT !.rerun = FALSE, !.timer = TRUE] ELSE h

ItemsOf(pages) == UNION {ToSet(pages[i].items) : i \in DOMAIN pages}
Completed == IF data = Nil THEN {} ELSE ItemsOf(data)
ActiveRows == IF data = Nil THEN {} ELSE data[1].active \ Completed
Shown == Completed \union ActiveRows

(* What the newest page should show now, without the silent rows.          *)
NewestRows ==
  LET page == FetchPage(scope, Nil)
  IN {r \in ToSet(page.items) \union page.active : ~Silent(r)}

(* A notice arrives.                                                       *)
Notice ==
  /\ stream = "open" /\ signal
  /\ signal' = FALSE
  /\ hook' = ScheduleSync(hook)
  /\ owed' = IF data = Nil THEN owed ELSE NewestRows
  /\ UNCHANGED <<feed, server, stream, attempts, scope, following, data, fetch, op,
                 queryFailed, generation, clearing, turns>>

(* The timer starts a catch-up.  Without a loaded page there is nothing to *)
(* catch up with, and the notices are taken for handled.                   *)
TimerFires ==
  /\ hook.timer
  /\ IF op # Nil
       THEN /\ hook' = [hook EXCEPT !.timer = FALSE, !.rerun = TRUE]
            /\ UNCHANGED op
     ELSE IF data = Nil
       THEN /\ hook' = EndOperation([hook EXCEPT !.timer = FALSE, !.events = FALSE,
                                                 !.failed = FALSE])
            /\ UNCHANGED op
     ELSE /\ hook' = [hook EXCEPT !.timer = FALSE, !.events = FALSE]
          /\ op' = [kind |-> Sync, generation |-> generation, base |-> data,
                    pages |-> <<>>, read |-> FALSE]
  /\ UNCHANGED <<feed, server, events, scope, following, data, fetch, queryFailed, owed,
                 generation, clearing, turns>>

(* Pages are read until one holds a known row, the log ends or the cache   *)
(* is full; a refresh reads one page.                                      *)
CollectedAtOnce(pages) == pages # <<>>   \* faulty variant: only the newest page is read
Collected(pages) ==
  \/ op.kind = Refresh
  \/ Len(pages) >= MaxPages
  \/ ToSet(pages[Len(pages)].items) \intersect ItemsOf(op.base) # {}
  \/ pages[Len(pages)].next = Nil

ReadLogs ==
  /\ op # Nil /\ ~op.read
  /\ LET cursor == IF op.pages = <<>> THEN Nil ELSE op.pages[Len(op.pages)].next
         pages == Append(op.pages, FetchPage(scope, cursor))
     IN op' = [op EXCEPT !.pages = pages, !.read = Collected(pages)]
  /\ UNCHANGED <<feed, server, events, scope, following, data, fetch, hook, queryFailed,
                 owed, generation, clearing, turns>>

(* A page read fails: the list says so.                                    *)
ReadFails ==
  /\ turns < MaxTurns
  /\ op # Nil /\ ~op.read
  /\ turns' = turns + 1
  /\ op' = Nil
  /\ hook' = EndOperation([hook EXCEPT !.failed = (@ \/ op.generation = generation)])
  /\ UNCHANGED <<feed, server, events, scope, following, data, fetch, queryFailed, owed,
                 generation, clearing>>

(* The newest pages in front of the cached ones, every row once, no more   *)
(* than MaxPages of them.  Only the first keeps its running requests.      *)
Unseen(page, seen) == [page EXCEPT !.items = SelectSeq(@, LAMBDA r : r \notin seen)]
MergeStep(acc, page) ==
  LET fresh == Unseen(page, ItemsOf(acc))
  IN IF Len(acc) >= MaxPages \/ (fresh.items = <<>> /\ acc # <<>>) THEN acc
     ELSE IF acc = <<>> THEN <<fresh>>
     ELSE Append(acc, [fresh EXCEPT !.active = {}])
MergeLatest(current, latest) ==
  FoldLeft(MergeStep, <<>>, latest \o (IF current = Nil THEN <<>> ELSE current))

(* The rows that a list which is scrolled away has not seen: new ones, and *)
(* running ones that were recorded.                                        *)
CountNew(base, latest) ==
  LET known == ItemsOf(base) \union UNION {base[i].active : i \in DOMAIN base}
      listed == UNION {latest[i].active : i \in DOMAIN latest}
  IN Cardinality({r \in listed \union ItemsOf(latest) :
                    r \notin known \/ (r \in ItemsOf(latest) /\ r \notin ItemsOf(base))})

(* The catch-up arrives.  A list that follows shows it; a pending read of  *)
(* the next page would restore its older pages and is cancelled.  A list   *)
(* that is scrolled away only counts.                                      *)
SyncArrives ==
  /\ op # Nil /\ op.kind = Sync /\ op.read
  /\ op' = Nil
  /\ IF op.generation # generation
       THEN /\ hook' = EndOperation(hook)
            /\ UNCHANGED <<data, fetch, queryFailed>>
     ELSE IF following
       THEN /\ data' = IF hook.reset THEN op.pages ELSE MergeLatest(data, op.pages)
            /\ fetch' = Nil
            /\ queryFailed' = FALSE
            /\ hook' = EndOperation([hook EXCEPT !.reset = FALSE, !.pending = FALSE,
                                                 !.failed = FALSE])
     ELSE /\ hook' = EndOperation([hook EXCEPT !.pending = CountNew(op.base, op.pages) > 0,
                                               !.failed = FALSE])
          /\ UNCHANGED <<data, fetch, queryFailed>>
  /\ UNCHANGED <<feed, server, events, scope, following, owed, generation, clearing,
                 turns>>

(* A refresh replaces everything, and asks for the stream if it is down.   *)
(* A read of the next page that began meanwhile will undo it, and with it  *)
(* what earlier notices promised.                                          *)
RefreshArrives ==
  /\ op # Nil /\ op.kind = Refresh /\ op.read
  /\ op' = Nil
  /\ IF op.generation # generation
       THEN /\ hook' = EndOperation(hook)
            /\ UNCHANGED <<data, queryFailed, owed, stream, attempts>>
     ELSE /\ data' = op.pages
          /\ queryFailed' = FALSE
          /\ owed' = IF fetch = Nil THEN owed ELSE {}
          /\ hook' = EndOperation([hook EXCEPT !.pending = FALSE, !.failed = FALSE])
          /\ IF stream = "open" THEN UNCHANGED <<stream, attempts>>
             ELSE /\ stream' = "connecting"
                  /\ attempts' = [failures |-> 0, refreshed |-> FALSE]
  /\ UNCHANGED <<feed, server, signal, scope, following, fetch, generation, clearing,
                 turns>>

(***************************************************************************)
(* The query's own reads                                                   *)
(***************************************************************************)
FirstLoad == [kind |-> "first", base |-> <<>>, page |-> Nil]

FetchReads ==
  /\ fetch # Nil /\ fetch.page = Nil
  /\ LET cursor == IF fetch.kind = "first" THEN Nil ELSE fetch.base[Len(fetch.base)].next
     IN /\ Decodes(scope, cursor)
        /\ fetch' = [fetch EXCEPT !.page = FetchPage(scope, cursor)]
  /\ UNCHANGED <<feed, server, events, scope, following, data, op, hook, queryFailed,
                 owed, generation, clearing, turns>>

(* The page joins the pages that were cached when the read began; beyond   *)
(* MaxPages the first page is given up.                                    *)
FetchArrives ==
  /\ fetch # Nil /\ fetch.page # Nil
  /\ LET pages == Append(fetch.base, fetch.page)
     IN data' = IF Len(pages) > MaxPages THEN Tail(pages) ELSE pages
  /\ fetch' = Nil
  /\ queryFailed' = FALSE
  /\ UNCHANGED <<feed, server, events, scope, following, op, hook, owed, generation,
                 clearing, turns>>

FetchFails ==
  /\ turns < MaxTurns
  /\ fetch # Nil /\ fetch.page = Nil
  /\ turns' = turns + 1
  /\ fetch' = Nil
  /\ queryFailed' = TRUE
  /\ UNCHANGED <<feed, server, events, scope, following, data, op, hook, owed,
                 generation, clearing>>

(***************************************************************************)
(* The administrator                                                       *)
(***************************************************************************)
Moves == turns < MaxTurns /\ turns' = turns + 1

(* The end of the list comes into view; with more rows than a page it is   *)
(* not in view together with the top.                                      *)
LoadMore ==
  /\ Moves
  /\ ~following
  /\ data # Nil /\ fetch = Nil
  /\ data[Len(data)].next # Nil
  /\ fetch' = [kind |-> "next", base |-> data, page |-> Nil]
  /\ UNCHANGED <<feed, server, events, scope, following, data, op, hook, queryFailed,
                 owed, generation, clearing>>

(* Scrolling away, and back: what was counted meanwhile is read again and  *)
(* replaces the pages.                                                     *)
Scroll ==
  /\ Moves
  /\ following' = ~following
  /\ hook' = IF following' /\ hook.pending
               THEN ScheduleSync([hook EXCEPT !.reset = TRUE]) ELSE hook
  /\ UNCHANGED <<feed, server, events, scope, data, fetch, op, queryFailed, owed,
                 generation, clearing>>

(* A refresh takes the place of a catch-up, its timer and the query's own  *)
(* read.                                                                   *)
RefreshLatest ==
  /\ Moves
  /\ IF op = Nil THEN TRUE ELSE op.kind = Sync
  /\ following' = TRUE
  /\ op' = [kind |-> Refresh, generation |-> generation, base |-> <<>>,
            pages |-> <<>>, read |-> FALSE]
  /\ fetch' = Nil
  /\ hook' = LET again == ~following /\ hook.pending
             IN [hook EXCEPT !.timer = FALSE, !.reset = again,
                             !.rerun = @ \/ again, !.events = @ \/ again]
  /\ UNCHANGED <<feed, server, events, scope, data, queryFailed, owed, generation,
                 clearing>>

(* Another filter: a new query, and nothing of the old one is kept.        *)
ChangeScope ==
  /\ Moves
  /\ scope' \in Scopes \ {scope}
  /\ following' = TRUE
  /\ data' = Nil
  /\ fetch' = FirstLoad
  /\ op' = Nil
  /\ hook' = [timer |-> TRUE, events |-> TRUE, rerun |-> FALSE, reset |-> FALSE,
              pending |-> FALSE, failed |-> FALSE]
  /\ queryFailed' = FALSE
  /\ owed' = {}
  /\ UNCHANGED <<feed, server, events, generation, clearing>>

(* The HTTP access log is cleared: reads that began before, or meanwhile,  *)
(* belong to another generation.                                           *)
ClearBegins ==
  /\ Moves
  /\ feed = "system" /\ clearing = "none"
  /\ clearing' = "asked"
  /\ generation' = generation + 1
  /\ fetch' = Nil
  /\ UNCHANGED <<feed, server, events, scope, following, data, op, hook, queryFailed,
                 owed>>

ClearStored ==
  /\ clearing = "asked"
  /\ clearing' = "cleared"
  /\ stored' = {}
  /\ signal' = (signal \/ stored # {})
  /\ UNCHANGED <<feed, received, running, appended, late, stream, attempts, view,
                 generation, turns>>

(* The pages are removed, and the list loads its first page again.         *)
ClearReturns ==
  /\ clearing = "cleared"
  /\ clearing' = "none"
  /\ generation' = generation + 1
  /\ data' = Nil
  /\ fetch' = FirstLoad
  /\ following' = TRUE
  /\ queryFailed' = FALSE
  /\ owed' = {}
  /\ UNCHANGED <<feed, server, events, scope, op, hook, turns>>

(* A failed clearing is reported; a catch-up that was dropped because of   *)
(* it is not repeated.                                                     *)
ClearFails ==
  /\ turns < MaxTurns
  /\ clearing = "asked"
  /\ turns' = turns + 1
  /\ clearing' = "none"
  /\ generation' = generation + 1
  /\ owed' = {}
  /\ UNCHANGED <<feed, server, events, scope, following, data, fetch, op, hook,
                 queryFailed>>

Init ==
  /\ feed \in Feeds
  /\ received = 0 /\ running = {} /\ appended = {} /\ stored = {} /\ late = {}
  /\ stream = "connecting" /\ signal = FALSE
  /\ attempts = [failures |-> 0, refreshed |-> FALSE]
  /\ scope = "all" /\ following = TRUE
  /\ data = Nil /\ fetch = FirstLoad /\ op = Nil /\ queryFailed = FALSE
  /\ hook = [timer |-> TRUE, events |-> TRUE, rerun |-> FALSE, reset |-> FALSE,
             pending |-> FALSE, failed |-> FALSE]
  /\ generation = 0 /\ clearing = "none" /\ owed = {}
  /\ turns = 0

Next ==
  \/ Register \/ Access \/ Prune
  \/ \E r \in 1..MaxRecords :
       AppendRequestLog(r) \/ AppendHttpAccessLog(r) \/ SettleRequest(r) \/ SettleAccess(r)
         \/ Lose(r)
  \/ StreamOpens \/ StreamIsStable \/ StreamBreaks \/ StreamRetries \/ RefreshAuth
  \/ Notice \/ TimerFires
  \/ ReadLogs \/ ReadFails \/ SyncArrives \/ RefreshArrives
  \/ FetchReads \/ FetchArrives \/ FetchFails
  \/ LoadMore \/ Scroll \/ RefreshLatest \/ ChangeScope
  \/ ClearBegins \/ ClearStored \/ ClearReturns \/ ClearFails

Spec == Init /\ [][Next]_vars

(***************************************************************************)
(* Properties                                                              *)
(***************************************************************************)
(* The shape of the state.                                                 *)
TypeOK ==
  /\ received \in 0..MaxRecords
  /\ running \subseteq 1..received /\ stored \subseteq 1..received
  /\ appended \subseteq running /\ late \subseteq 1..received
  /\ stream \in {"connecting", "open", "waiting", "refreshing", "stopped"}
  /\ attempts.failures \in 0..MaxFailures
  /\ scope \in Scopes /\ clearing \in {"none", "asked", "cleared"}
  /\ following \in BOOLEAN /\ signal \in BOOLEAN /\ queryFailed \in BOOLEAN
  /\ hook \in [timer : BOOLEAN, events : BOOLEAN, rerun : BOOLEAN, reset : BOOLEAN,
                pending : BOOLEAN, failed : BOOLEAN]

(* Nothing is on its way: no notice, timer, operation or read.             *)
Quiet ==
  /\ ~signal /\ ~hook.timer /\ op = Nil /\ fetch = Nil
  /\ appended = {} /\ clearing = "none"

(* The page tells the administrator that the rows may be old.              *)
Said == stream # "open" \/ hook.failed \/ queryFailed \/ data = Nil

(* The visible chain has no holes: between two recorded rows on the screen *)
(* every stored row of the scope is shown, however catch-ups, refreshes,   *)
(* further pages and the limit of the cache interleave.  The exception is  *)
(* a request that was recorded after a newer one: a catch-up ends at the   *)
(* first page with a known row and does not look below it.                 *)
NoHoles ==
  \A r \in stored \ late :
    /\ r \in Rows(scope, 0)
    /\ \E a, b \in Completed : a < r /\ r < b
    => r \in Completed

(* A notice that reaches a loaded list is honoured: when everything has    *)
(* come to rest, a list that follows shows what the first page held when   *)
(* the notice arrived, or says that it may be old.  Rows that were deleted *)
(* or lost since, and rows recorded after a newer one, are excepted; a row *)
(* below the end of the list comes with the next page.                     *)
NoticesAreHonoured ==
  Quiet /\ following /\ ~Said =>
    \A r \in (owed \intersect (stored \union running)) \ late :
      r \in Shown \/ (Completed # {} /\ \A q \in Completed : r < q)

(* The next page adds rows and never takes back newer ones: rows leave the *)
(* screen only with the first page of a full cache.  A refresh cancels the *)
(* query's read when it begins, and not, as a catch-up does, when it puts  *)
(* its rows on the screen: a read that began meanwhile restores the pages  *)
(* from before the refresh.                                                *)
NextPageOnlyAdds ==
  [][FetchArrives => Completed \subseteq Completed' \/ Len(fetch.base) = MaxPages]_vars

=============================================================================
