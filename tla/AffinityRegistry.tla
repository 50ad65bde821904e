-------------------------- MODULE AffinityRegistry --------------------------
(***************************************************************************)
(* Session and continuation bindings: the sharded registry with its global *)
(* entry and byte budgets, the leases of requests that are creating a      *)
(* binding, the requests that wait for them, and the maintenance that      *)
(* clears or expires entries one shard at a time.                          *)
(*                                                                         *)
(* A client is a request (or the stream it answers) on one key.  The       *)
(* scheduler epoch is a change flag per client: an advance sets the flag   *)
(* of everybody, observing the epoch clears one's own.  The credential a   *)
(* binding points to is the client that made it.                           *)
(***************************************************************************)
EXTENDS Integers, FiniteSets, FiniteSetTheorems, TLAPS

CONSTANTS
  Sessions,      \* keys of sessions
  Continuations, \* keys of continuations
  Shard,         \* the shard of each key
  Clients,       \* concurrent requests
  MaxEntries,    \* max_entries
  MaxBytes,      \* max_continuation_bytes
  PendingBytes,  \* MAX_BRIDGE_CONTINUATION_STATE_BYTES
  StateBytes,    \* sizes of continuation states that are stored
  Ttl,           \* ttl, in ticks
  Throttle,      \* FUTILE_RECLAIM_THROTTLE_MILLIS, in ticks
  MaxTime,       \* bound: last tick of the clock
  MaxRequests,   \* bound: requests begun
  MaxVersion,    \* bound: leases given out
  MaxSweeps,     \* bound: maintenance calls
  None           \* Option::None

Keys == Sessions \cup Continuations
Shards == {Shard[k] : k \in Keys}

ASSUME AffinityAssumption ==
  /\ IsFiniteSet(Keys) /\ IsFiniteSet(Clients)
  /\ MaxEntries \in Nat /\ MaxBytes \in Nat /\ PendingBytes \in Nat \ {0}
  /\ StateBytes \subseteq 0 .. PendingBytes
  /\ Ttl \in Nat \ {0} /\ Throttle \in Nat \ {0}
  /\ MaxTime \in Nat /\ MaxRequests \in Nat /\ MaxVersion \in Nat /\ MaxSweeps \in Nat
  /\ None \notin Clients

VARIABLES
  now,                \* the monotonic clock
  entry,              \* the shards: BindingState of each key, or Absent
  locked,             \* the client that holds a shard's mutex between two steps
  entry_count,        \* ShardedBindings.entry_count
  continuation_bytes, \* ShardedBindings.continuation_bytes
  next_version,       \* ShardedBindings.next_version
  last_futile,        \* last_futile_reclaim
  changed,            \* the epoch advanced since the client last observed it
  client,             \* progress and locals of each request
  begun,              \* requests begun so far
  sweep               \* the maintenance call in progress

registryVars == <<entry, entry_count, continuation_bytes>>
callVars == <<now, last_futile, begun>>
vars == <<now, registryVars, locked, next_version, last_futile, changed, client,
          begun, sweep>>

Absent == [kind |-> "absent"]
Creating(v, phase) == [kind |-> "creating", version |-> v, phase |-> phase]
Session(c, t) == [kind |-> "session", owner |-> c, seen_at |-> t]
Pending(c, v) == [kind |-> "pending", owner |-> c, version |-> v]
Ready(c, t, b) == [kind |-> "ready", owner |-> c, seen_at |-> t, bytes |-> b]

Idle == [at |-> "idle", op |-> None, key |-> None, clock |-> 0, version |-> 0,
         bytes |-> 0, subscribed |-> FALSE, reclaimed |-> FALSE, then |-> None,
         todo |-> {}, removed |-> FALSE]
NoSweep(n) == [op |-> None, clock |-> 0, todo |-> {}, owner |-> None, wake |-> FALSE,
               calls |-> n]

Init ==
  /\ now = 0
  /\ entry = [k \in Keys |-> Absent]
  /\ locked = [s \in Shards |-> None]
  /\ entry_count = 0 /\ continuation_bytes = 0
  /\ next_version = 0 /\ last_futile = None
  /\ changed = [c \in Clients |-> FALSE]
  /\ client = [c \in Clients |-> Idle]
  /\ begun = 0
  /\ sweep = NoSweep(0)

Tick ==
  /\ now < MaxTime
  /\ now' = now + 1
  /\ UNCHANGED <<registryVars, locked, next_version, last_futile, changed, client, begun,
                 sweep>>

-----------------------------------------------------------------------------
(* Entries and budgets.                                                    *)

(* is_expired: what is being created or is pending never expires.          *)
Expired(e, t) == e.kind \in {"session", "ready"} /\ t - e.seen_at >= Ttl

Footprint(e) ==
  CASE e.kind = "pending" -> PendingBytes
    [] e.kind = "ready" -> e.bytes
    [] OTHER -> 0

Present == {k \in Keys : entry[k] # Absent}

(* The bytes booked for keys, one by one: no footprint exceeds a pending   *)
(* continuation's.                                                         *)
Booked(ks) == {b \in ks \X (1 .. PendingBytes) : b[2] <= Footprint(entry[b[1]])}

(* remove, for a set of keys.                                              *)
Remove(ks) ==
  /\ entry' = [k \in Keys |-> IF k \in ks THEN Absent ELSE entry[k]]
  /\ entry_count' = entry_count - Cardinality(ks \cap Present)
  /\ continuation_bytes' = continuation_bytes - Cardinality(Booked(ks \cap Present))

(* Faulty variant: the bytes a pending continuation reserved stay booked.  *)
ReplaceKeepsBytes(k, e) ==
  /\ entry' = [entry EXCEPT ![k] = e]
  /\ UNCHANGED <<entry_count, continuation_bytes>>

(* replace never needs a reservation: the footprint only shrinks.          *)
Replace(k, e) ==
  /\ entry' = [entry EXCEPT ![k] = e]
  /\ continuation_bytes' = continuation_bytes - (Footprint(entry[k]) - Footprint(e))
  /\ UNCHANGED entry_count

ExpiredIn(s, t) == {k \in Keys : Shard[k] = s /\ Expired(entry[k], t)}

Set(c, r) == client' = [client EXCEPT ![c] = r]
At(c, l) == client[c].at = l
KeyOf(c) == client[c].key
Free(s) == locked[s] = None
Unlock(s) == locked' = [locked EXCEPT ![s] = None]

-----------------------------------------------------------------------------
(* Starting an operation, and observing the epoch: the clock is read before*)
(* the shard is locked.                                                    *)

Begin(c, op, k, b) ==
  /\ At(c, "idle") /\ begun < MaxRequests
  /\ begun' = begun + 1
  /\ Set(c, [Idle EXCEPT !.at = "start", !.op = op, !.key = k, !.clock = now, !.bytes = b])
  /\ changed' = [changed EXCEPT ![c] = FALSE]
  /\ UNCHANGED <<now, registryVars, locked, next_version, last_futile, sweep>>

Observe(c) ==
  /\ At(c, "observe")
  /\ Set(c, [client[c] EXCEPT !.at = "start", !.clock = now, !.reclaimed = FALSE])
  /\ changed' = [changed EXCEPT ![c] = FALSE]
  /\ UNCHANGED <<callVars, registryVars, locked, next_version, sweep>>

(* What the request finds under its key.  Binding a stateless continuation *)
(* again is idempotent.                                                    *)
Found(c) ==
  LET e == entry[KeyOf(c)]
      live == e # Absent /\ ~Expired(e, client[c].clock)
      rebinds == e.kind = "ready" /\ e.owner = c /\ e.bytes = 0 /\ client[c].bytes = 0
  IN CASE client[c].op = "session" ->
            IF e.kind = "creating" THEN "wait" ELSE IF live THEN "use" ELSE "create"
       [] client[c].op = "resolve" ->
            IF e.kind = "pending" THEN "wait" ELSE IF live THEN "use" ELSE "missing"
       [] client[c].op = "bind" ->
            IF ~live THEN "create" ELSE IF rebinds THEN "use" ELSE "conflict"
       [] client[c].op = "pending" -> IF live THEN "conflict" ELSE "create"

(* A live binding is used and its time of last use refreshed.              *)
Use(c) ==
  /\ At(c, "start") /\ Free(Shard[KeyOf(c)]) /\ Found(c) = "use"
  /\ entry' = [entry EXCEPT ![KeyOf(c)].seen_at =
                 IF client[c].op = "bind" THEN now ELSE client[c].clock]
  /\ Set(c, Idle)
  /\ UNCHANGED <<callVars, entry_count, continuation_bytes, locked, next_version, changed, sweep>>

(* A continuation that is not there, or not for this request, or whose     *)
(* target is not available; an expired one is removed.                     *)
Missing(c) ==
  /\ At(c, "start") /\ Free(Shard[KeyOf(c)])
  /\ \/ Found(c) \in {"missing", "conflict"}
     \/ client[c].op = "resolve" /\ Found(c) = "use"
  /\ Remove(IF client[c].op = "resolve" /\ Expired(entry[KeyOf(c)], client[c].clock)
              THEN {KeyOf(c)} ELSE {})
  /\ Set(c, Idle)
  /\ UNCHANGED <<callVars, locked, next_version, changed, sweep>>

(* Somebody else is creating it: the first time the request subscribes and *)
(* looks again, then it sleeps.                                            *)
WaitForCreator(c) ==
  /\ At(c, "start") /\ Free(Shard[KeyOf(c)]) /\ Found(c) = "wait"
  /\ Set(c, [client[c] EXCEPT !.at = IF client[c].subscribed THEN "sleep" ELSE "observe",
                              !.subscribed = TRUE, !.clock = 0])
  /\ UNCHANGED <<callVars, registryVars, locked, next_version, changed, sweep>>

(* Nothing usable is there: an expired entry goes, and so do those of a    *)
(* sample of the shard; the lock is kept for the insert.                   *)
Prepare(c) ==
  LET s == Shard[KeyOf(c)] IN
  /\ At(c, "start") /\ Free(s) /\ Found(c) = "create"
  /\ \E sample \in SUBSET ExpiredIn(s, client[c].clock) : Remove(sample \cup {KeyOf(c)})
  /\ locked' = [locked EXCEPT ![s] = c]
  /\ Set(c, [client[c] EXCEPT !.at = "insert"])
  /\ UNCHANGED <<callVars, next_version, changed, sweep>>

(* check_deadline: the time to bind a continuation has run out.            *)
DeadlineExceeded(c) ==
  /\ client[c].at \in {"start", "insert"} /\ client[c].op \in {"bind", "pending"}
  /\ At(c, "start") => Free(Shard[KeyOf(c)])
  /\ Unlock(Shard[KeyOf(c)])
  /\ Set(c, Idle)
  /\ UNCHANGED <<callVars, registryVars, next_version, changed, sweep>>

NewEntry(c) ==
  CASE client[c].op = "session" -> Creating(next_version + 1, "selecting")
    [] client[c].op = "pending" -> Pending(c, next_version + 1)
    [] OTHER -> Ready(c, now, client[c].bytes)

(* The inserted entry; a session or a pending continuation comes with a    *)
(* lease.  A version that no entry gets is not counted.                    *)
Insert(c) ==
  /\ entry' = [entry EXCEPT ![KeyOf(c)] = NewEntry(c)]
  /\ Unlock(Shard[KeyOf(c)])
  /\ IF client[c].op = "bind" THEN UNCHANGED next_version /\ Set(c, Idle)
     ELSE /\ next_version' = next_version + 1
          /\ Set(c, [Idle EXCEPT !.at = IF client[c].op = "session" THEN "selecting" ELSE "pending",
                                 !.op = client[c].op, !.key = KeyOf(c),
                                 !.version = next_version + 1,
                                 !.subscribed = client[c].subscribed])

Full(c) ==
  /\ Unlock(Shard[KeyOf(c)])
  /\ Set(c, IF client[c].reclaimed THEN Idle ELSE [client[c] EXCEPT !.at = "full"])
  /\ UNCHANGED next_version

(* try_reserve_entry.                                                      *)
ReserveEntry(c) ==
  /\ At(c, "insert") /\ next_version < MaxVersion
  /\ \/ /\ entry_count < MaxEntries
        /\ entry_count' = entry_count + 1
        /\ IF Footprint(NewEntry(c)) = 0 THEN Insert(c)
           ELSE /\ Set(c, [client[c] EXCEPT !.at = "bytes"])
                /\ UNCHANGED <<entry, locked, next_version>>
     \/ entry_count >= MaxEntries /\ Full(c) /\ UNCHANGED <<entry, entry_count>>
  /\ UNCHANGED <<callVars, continuation_bytes, changed, sweep>>

(* try_reserve_continuation_bytes; a refusal gives the entry back.         *)
ReserveBytes(c) ==
  /\ At(c, "bytes")
  /\ \/ /\ continuation_bytes + Footprint(NewEntry(c)) <= MaxBytes
        /\ continuation_bytes' = continuation_bytes + Footprint(NewEntry(c))
        /\ Insert(c) /\ UNCHANGED entry_count
     \/ /\ continuation_bytes + Footprint(NewEntry(c)) > MaxBytes
        /\ entry_count' = entry_count - 1
        /\ Full(c) /\ UNCHANGED <<entry, continuation_bytes>>
  /\ UNCHANGED <<callVars, changed, sweep>>

(* reclaim_for_capacity: unless a recent scan was futile, all shards are   *)
(* visited, and the insert is tried once more if anything was removed.     *)
Throttled(c) == last_futile # None /\ client[c].clock - last_futile < Throttle

BeginReclaim(c) ==
  /\ At(c, "full")
  /\ IF Throttled(c) THEN Set(c, Idle)
     ELSE Set(c, [client[c] EXCEPT !.at = "reclaim", !.todo = Shards, !.removed = FALSE])
  /\ UNCHANGED <<callVars, registryVars, locked, next_version, changed, sweep>>

ReclaimShard(c, s) ==
  LET gone == ExpiredIn(s, client[c].clock) IN
  /\ At(c, "reclaim") /\ s \in client[c].todo /\ Free(s)
  /\ Remove(gone)
  /\ Set(c, [client[c] EXCEPT !.todo = @ \ {s}, !.removed = @ \/ gone # {}])
  /\ UNCHANGED <<callVars, locked, next_version, changed, sweep>>

EndReclaim(c) ==
  /\ At(c, "reclaim") /\ client[c].todo = {}
  /\ last_futile' = IF client[c].removed THEN None ELSE client[c].clock
  /\ IF client[c].removed THEN Set(c, [client[c] EXCEPT !.at = "start", !.reclaimed = TRUE])
                          ELSE Set(c, Idle)
  /\ UNCHANGED <<now, registryVars, locked, next_version, changed, begun, sweep>>

-----------------------------------------------------------------------------
(* Leases.  The epoch is advanced after the shard is unlocked.             *)

(* The entry of the key is still the one this lease created.               *)
Current(c) ==
  LET e == entry[KeyOf(c)]
  IN e.kind \in {"creating", "pending"} /\ e.version = client[c].version

ThenWake(c, l) == Set(c, [client[c] EXCEPT !.at = "wake", !.then = l])

WakeWaiters(c) ==
  /\ At(c, "wake")
  /\ changed' = [d \in Clients |-> changed[d] \/ (d # c /\ ~At(d, "idle"))]
  /\ IF client[c].then = "idle" THEN Set(c, Idle)
     ELSE Set(c, [client[c] EXCEPT !.at = client[c].then, !.then = None])
  /\ UNCHANGED <<callVars, registryVars, locked, next_version, sweep>>

MarkAttempting(c) ==
  /\ At(c, "selecting") /\ Free(Shard[KeyOf(c)])
  /\ \/ /\ Current(c)
        /\ entry' = [entry EXCEPT ![KeyOf(c)].phase = "attempting"]
        /\ ThenWake(c, "attempting")
     \/ ~Current(c) /\ Set(c, Idle) /\ UNCHANGED entry
  /\ UNCHANGED <<callVars, entry_count, continuation_bytes, locked, next_version, changed, sweep>>

(* No candidate yet: the lease is given back before the request waits, and *)
(* a change that happened meanwhile sends it round again.                  *)
ReleaseForWait(c) ==
  /\ At(c, "selecting") /\ Free(Shard[KeyOf(c)])
  /\ \/ Current(c) /\ Remove({KeyOf(c)}) /\ ThenWake(c, "released")
     \/ ~Current(c) /\ Set(c, Idle) /\ UNCHANGED registryVars
  /\ UNCHANGED <<callVars, locked, next_version, changed, sweep>>

ReleaseObserved(c) ==
  /\ At(c, "released")
  /\ changed' = [changed EXCEPT ![c] = FALSE]
  /\ Set(c, [client[c] EXCEPT !.at = IF changed[c] THEN "observe" ELSE "candidate",
                              !.subscribed = TRUE, !.version = 0])
  /\ UNCHANGED <<callVars, registryVars, locked, next_version, sweep>>

ReadCommitClock(c) ==
  /\ At(c, "attempting")
  /\ Set(c, [client[c] EXCEPT !.at = "committing", !.clock = now])
  /\ UNCHANGED <<callVars, registryVars, locked, next_version, changed, sweep>>

(* Faulty variant: the commit looks at the key, not at its own version.    *)
CommitAny(c) ==
  /\ At(c, "committing") /\ Free(Shard[KeyOf(c)])
  /\ \/ /\ entry[KeyOf(c)] # Absent
        /\ Replace(KeyOf(c), Session(c, client[c].clock))
        /\ ThenWake(c, "idle")
     \/ entry[KeyOf(c)] = Absent /\ Set(c, Idle) /\ UNCHANGED registryVars
  /\ UNCHANGED <<callVars, locked, next_version, changed, sweep>>

Commit(c) ==
  /\ At(c, "committing") /\ Free(Shard[KeyOf(c)])
  /\ \/ /\ Current(c) /\ entry[KeyOf(c)].phase = "attempting"
        /\ Replace(KeyOf(c), Session(c, client[c].clock))
        /\ ThenWake(c, "idle")
     \/ ~Current(c) /\ Set(c, Idle) /\ UNCHANGED registryVars
  /\ UNCHANGED <<callVars, locked, next_version, changed, sweep>>

(* ContinuationLease::ready.                                               *)
MakeReady(c, b) ==
  /\ At(c, "pending") /\ Free(Shard[KeyOf(c)])
  /\ \/ /\ Current(c)
        /\ Replace(KeyOf(c), Ready(c, now, b))
        /\ ThenWake(c, "idle")
     \/ ~Current(c) /\ Set(c, Idle) /\ UNCHANGED registryVars
  /\ UNCHANGED <<callVars, locked, next_version, changed, sweep>>

(* Faulty variant: a dropped lease is just forgotten.                      *)
ForgetLease(c) ==
  /\ client[c].at \in {"selecting", "attempting", "committing", "pending"}
  /\ Free(Shard[KeyOf(c)])
  /\ Set(c, Idle) /\ UNCHANGED registryVars
  /\ UNCHANGED <<callVars, locked, next_version, changed, sweep>>

(* Faulty variant: a dropped lease removes its entry and tells nobody.     *)
DropSilently(c) ==
  /\ client[c].at \in {"selecting", "attempting", "committing", "pending"}
  /\ Free(Shard[KeyOf(c)])
  /\ Remove(IF Current(c) THEN {KeyOf(c)} ELSE {})
  /\ Set(c, Idle)
  /\ UNCHANGED <<callVars, locked, next_version, changed, sweep>>

(* A lease is dropped: its request failed, timed out or went away.         *)
DropLease(c) ==
  /\ client[c].at \in {"selecting", "attempting", "committing", "pending"}
  /\ Free(Shard[KeyOf(c)])
  /\ \/ Current(c) /\ Remove({KeyOf(c)}) /\ ThenWake(c, "idle")
     \/ ~Current(c) /\ Set(c, Idle) /\ UNCHANGED registryVars
  /\ UNCHANGED <<callVars, locked, next_version, changed, sweep>>

-----------------------------------------------------------------------------
(* Waiting.                                                                *)

WakeByChange(c) ==
  /\ client[c].at \in {"sleep", "candidate"} /\ changed[c]
  /\ Set(c, [client[c] EXCEPT !.at = "observe"])
  /\ UNCHANGED <<callVars, registryVars, locked, next_version, changed, sweep>>

(* The retry time of the candidates has come.                              *)
RetryCandidate(c) ==
  /\ At(c, "candidate")
  /\ Set(c, [client[c] EXCEPT !.at = "observe"])
  /\ UNCHANGED <<callVars, registryVars, locked, next_version, changed, sweep>>

(* The wait times out or the client goes away.                             *)
GiveUp(c) ==
  /\ client[c].at \in {"sleep", "candidate"}
  /\ Set(c, Idle)
  /\ UNCHANGED <<callVars, registryVars, locked, next_version, changed, sweep>>

-----------------------------------------------------------------------------
(* clear_all, clear_credential and the sweeper visit one shard at a time.  *)

BeginSweep(op, c) ==
  /\ sweep.op = None /\ sweep.calls < MaxSweeps
  /\ sweep' = [op |-> op, clock |-> now, todo |-> Shards, owner |-> c, wake |-> FALSE,
                calls |-> sweep.calls + 1]
  /\ UNCHANGED <<callVars, registryVars, locked, next_version, changed, client>>

Swept(s) ==
  LET here == {k \in Keys : Shard[k] = s /\ entry[k] # Absent} IN
  CASE sweep.op = "all" -> here
    [] sweep.op = "credential" ->
         {k \in here : entry[k].kind # "creating" /\ entry[k].owner = sweep.owner}
    [] OTHER -> ExpiredIn(s, sweep.clock)

SweepShard(s) ==
  /\ sweep.op # None /\ s \in sweep.todo /\ Free(s)
  /\ Remove(Swept(s))
  /\ sweep' = [sweep EXCEPT !.todo = @ \ {s},
       !.wake = @ \/ \E k \in Swept(s) : entry[k].kind \in {"creating", "pending"}]
  /\ UNCHANGED <<callVars, locked, next_version, changed, client>>

(* Faulty variant: clearing wakes nobody.                                  *)
EndSweepSilently ==
  /\ sweep.op # None /\ sweep.todo = {}
  /\ sweep' = NoSweep(sweep.calls)
  /\ UNCHANGED <<callVars, registryVars, locked, next_version, changed, client>>

EndSweep ==
  /\ sweep.op # None /\ sweep.todo = {}
  /\ changed' = [c \in Clients |-> changed[c] \/ (sweep.wake /\ ~At(c, "idle"))]
  /\ sweep' = NoSweep(sweep.calls)
  /\ UNCHANGED <<callVars, registryVars, locked, next_version, client>>

-----------------------------------------------------------------------------
Request(c) ==
  \/ \E k \in Sessions : Begin(c, "session", k, 0)
  \/ \E k \in Continuations : Begin(c, "resolve", k, 0) \/ Begin(c, "pending", k, 0)
  \/ \E k \in Continuations, b \in StateBytes : Begin(c, "bind", k, b)

Step(c) ==
  \/ Observe(c) \/ Use(c) \/ Missing(c) \/ WaitForCreator(c) \/ Prepare(c)
  \/ ReserveEntry(c) \/ ReserveBytes(c)
  \/ BeginReclaim(c) \/ (\E s \in Shards : ReclaimShard(c, s)) \/ EndReclaim(c)
  \/ WakeWaiters(c) \/ ReleaseObserved(c)
  \/ WakeByChange(c)

Lease(c) ==
  \/ MarkAttempting(c) \/ ReleaseForWait(c) \/ ReadCommitClock(c) \/ Commit(c)
  \/ (\E b \in StateBytes : MakeReady(c, b)) \/ DropLease(c)
  \/ DeadlineExceeded(c)

Maintenance == (\E s \in Shards : SweepShard(s)) \/ EndSweep

Next ==
  \/ Tick \/ Maintenance
  \/ BeginSweep("all", None) \/ BeginSweep("expired", None)
  \/ \E c \in Clients :
       \/ Request(c) \/ Step(c) \/ Lease(c) \/ RetryCandidate(c) \/ GiveUp(c)
       \/ BeginSweep("credential", c)

(* Every request and every maintenance call that has begun goes on, and a  *)
(* lease is committed or dropped in the end; waits need not time out.      *)
Fairness ==
  /\ WF_vars(Maintenance)
  /\ \A c \in Clients : WF_vars(Step(c)) /\ WF_vars(Commit(c) \/ DropLease(c))

Spec == Init /\ [][Next]_vars /\ Fairness

-----------------------------------------------------------------------------
Reserving == {c \in Clients : At(c, "bytes")}
LeaseHolders == {c \in Clients :
                 \/ client[c].at \in {"selecting", "attempting", "committing", "pending"}
                 \/ At(c, "wake") /\ client[c].then = "attempting"}

(* The entry budget is exact: the counter is the number of entries plus    *)
(* the reservations on their way, on every path of insert, expiry, clearing*)
(* and lost leases, and it never exceeds the limit.                        *)
CountExact ==
  entry_count = Cardinality(Present) + Cardinality(Reserving) /\ entry_count <= MaxEntries

(* The byte budget is the sum of the footprints and never exceeds the      *)
(* limit.                                                                  *)
BytesExact ==
  /\ continuation_bytes = Cardinality(Booked(Keys))
  /\ continuation_bytes <= MaxBytes

(* Both budgets are exact: entries and the bytes of pending and ready      *)
(* states are booked once and given back once, whoever expires, clears or  *)
(* loses them.                                                             *)
BudgetsAreExact == BytesExact /\ CountExact

(* No orphan: what is being created belongs to exactly one live lease, so  *)
(* nobody waits for a creator that is gone and no lease touches what       *)
(* another one created.                                                    *)
NoOrphan ==
  \A k \in Keys : entry[k].kind \in {"creating", "pending"} =>
    \E c \in LeaseHolders :
      /\ KeyOf(c) = k /\ client[c].version = entry[k].version
      /\ \A d \in LeaseHolders : client[d].version = entry[k].version => d = c

(* No lost wake-up: a request sleeps only while somebody is creating what  *)
(* it waits for, or while a wake-up is on its way.                         *)
NoLostWakeup ==
  \A c \in Clients : At(c, "sleep") =>
    \/ entry[KeyOf(c)].kind \in {"creating", "pending"}
    \/ changed[c]
    \/ \E d \in Clients : At(d, "wake")
    \/ sweep.op # None /\ sweep.wake

(* A session stays with its credential: a live binding is never rebound in *)
(* place, it has to go first.                                              *)
SessionKeepsItsCredential ==
  [][\A k \in Sessions : entry[k].kind = "session" /\ entry'[k].kind = "session" =>
       entry'[k].owner = entry[k].owner]_vars

(* A request waits for the creator of its binding; it is to be woken when  *)
(* the creator is done, without having to time out.                        *)
Outstanding == \E c \in Clients : At(c, "sleep")

-----------------------------------------------------------------------------
(***************************************************************************)
(* Proofs, for every number of keys, shards and requests and for every     *)
(* budget.  The inductive invariant adds to the properties what the shard  *)
(* locks protect (between the check and the insert of a request nobody     *)
(* else touches its key) and that no two leases have the same version.     *)
(* The bytes are counted one by one, as pairs of a key and a number, so    *)
(* that their sum is the size of a set.                                    *)
(***************************************************************************)
Made == {"creating", "pending"}
Ops == {"session", "resolve", "bind", "pending"}
Leasing == {"selecting", "attempting", "committing", "pending"}
Places == Leasing \cup {"idle", "start", "observe", "sleep", "insert", "bytes", "full",
                        "reclaim", "wake", "released", "candidate"}
Goals == {"idle", "attempting", "released"}
Sizes == 0 .. PendingBytes

Entry ==
  [kind : {"absent"}]
    \cup [kind : {"creating"}, version : Nat, phase : {"selecting", "attempting"}]
    \cup [kind : {"session"}, owner : Clients, seen_at : Nat]
    \cup [kind : {"pending"}, owner : Clients, version : Nat]
    \cup [kind : {"ready"}, owner : Clients, seen_at : Nat, bytes : Sizes]
Client ==
  [at : Places, op : Ops \cup {None}, key : Keys \cup {None}, clock : Nat, version : Nat,
   bytes : Sizes, subscribed : BOOLEAN, reclaimed : BOOLEAN, then : Goals \cup {None},
   todo : SUBSET Shards, removed : BOOLEAN]
Sweep ==
  [op : {None, "all", "credential", "expired"}, clock : Nat, todo : SUBSET Shards,
   owner : Clients \cup {None}, wake : BOOLEAN, calls : Nat]

Types ==
  /\ now \in Nat /\ entry \in [Keys -> Entry] /\ locked \in [Shards -> Clients \cup {None}]
  /\ next_version \in Nat /\ changed \in [Clients -> BOOLEAN]
  /\ client \in [Clients -> Client] /\ sweep \in Sweep

(* A lease: what a request holds from the insert of its entry to the       *)
(* commit, the drop or the release.                                        *)
IsHolder(t) == t.at \in Leasing \/ (t.at = "wake" /\ t.then = "attempting")

(* What a request knows at each place.                                     *)
Sound(t) ==
  /\ t.at # "idle" => t.key \in Keys /\ t.op \in Ops
  /\ t.at = "wake" => t.then \in Goals
ClientsSound == \A c \in Clients : Sound(client[c])

(* The shard's lock is held from the check to the insert.                  *)
LocksHeld ==
  \A c \in Clients : client[c].at \in {"insert", "bytes"} =>
    locked[Shard[KeyOf(c)]] = c /\ entry[KeyOf(c)] = Absent

LeasesDiffer ==
  /\ \A c \in LeaseHolders : client[c].version <= next_version
  /\ \A c, d \in LeaseHolders : client[c].version = client[d].version => c = d

(* What is being created has its lease.                                    *)
Leased(k) ==
  \E c \in LeaseHolders :
    /\ KeyOf(c) = k /\ client[c].version = entry[k].version
    /\ entry[k].kind = "pending" <=> At(c, "pending")
AllLeased == \A k \in Keys : entry[k].kind \in Made => Leased(k)

Safe == Types /\ ClientsSound /\ LocksHeld /\ LeasesDiffer /\ AllLeased /\ NoLostWakeup
IInv == Safe /\ CountExact

-----------------------------------------------------------------------------
(* Entries.                                                                *)
LEMMA SizesFit == 0 \in Sizes /\ StateBytes \subseteq Sizes /\ Sizes \subseteq Nat
BY AffinityAssumption DEF Sizes

LEMMA Kinds ==
  ASSUME NEW e \in Entry
  PROVE  /\ e.kind \in {"absent", "creating", "session", "pending", "ready"}
         /\ e.kind = "absent" <=> e = Absent
         /\ e.kind = "creating"
              => e \in [kind : {"creating"}, version : Nat, phase : {"selecting", "attempting"}]
         /\ e.kind = "session" => e \in [kind : {"session"}, owner : Clients, seen_at : Nat]
         /\ e.kind = "pending" => e \in [kind : {"pending"}, owner : Clients, version : Nat]
         /\ e.kind = "ready"
              => e \in [kind : {"ready"}, owner : Clients, seen_at : Nat, bytes : Sizes]
BY DEF Entry, Absent

LEMMA NewEntries ==
  ASSUME NEW c \in Clients, NEW v \in Nat, NEW t \in Nat, NEW b \in Sizes
  PROVE  /\ Absent \in Entry /\ Session(c, t) \in Entry /\ Pending(c, v) \in Entry
         /\ Creating(v, "selecting") \in Entry /\ Ready(c, t, b) \in Entry
BY DEF Entry, Absent, Session, Pending, Creating, Ready

LEMMA Refreshed ==
  ASSUME NEW e \in Entry, NEW v \in Nat
  PROVE  /\ [e EXCEPT !.seen_at = v] \in Entry
         /\ [e EXCEPT !.seen_at = v].kind = e.kind
         /\ e.kind \in Made => [e EXCEPT !.seen_at = v].version = e.version
         /\ e.kind = "session" => [e EXCEPT !.seen_at = v].owner = e.owner
         /\ [e EXCEPT !.seen_at = v] = Absent <=> e = Absent
<1>1. CASE e.kind = "absent"
  BY <1>1, Kinds DEF Absent, Made
<1>2. CASE e.kind = "creating"
  <2>1. e \in [kind : {"creating"}, version : Nat, phase : {"selecting", "attempting"}]
    BY <1>2, Kinds
  <2>2. [e EXCEPT !.seen_at = v] = e
    BY <2>1
  <2> QED BY <1>2, <2>2
<1>3. CASE e.kind = "pending"
  <2>1. e \in [kind : {"pending"}, owner : Clients, version : Nat]
    BY <1>3, Kinds
  <2>2. [e EXCEPT !.seen_at = v] = e
    BY <2>1
  <2> QED BY <1>3, <2>2
<1>4. CASE e.kind = "session"
  <2>1. e \in [kind : {"session"}, owner : Clients, seen_at : Nat]
    BY <1>4, Kinds
  <2>2. [e EXCEPT !.seen_at = v] \in [kind : {"session"}, owner : Clients, seen_at : Nat]
        /\ [e EXCEPT !.seen_at = v].owner = e.owner /\ [e EXCEPT !.seen_at = v].kind = e.kind
    BY <2>1
  <2>3. [e EXCEPT !.seen_at = v] \in Entry
    BY <2>2 DEF Entry
  <2> QED BY <1>4, <2>2, <2>3, Kinds DEF Made
<1>5. CASE e.kind = "ready"
  <2>1. e \in [kind : {"ready"}, owner : Clients, seen_at : Nat, bytes : Sizes]
    BY <1>5, Kinds
  <2>2. [e EXCEPT !.seen_at = v] \in [kind : {"ready"}, owner : Clients, seen_at : Nat,
          bytes : Sizes]
        /\ [e EXCEPT !.seen_at = v].kind = e.kind
    BY <2>1
  <2>3. [e EXCEPT !.seen_at = v] \in Entry
    BY <2>2 DEF Entry
  <2> QED BY <1>5, <2>2, <2>3, Kinds DEF Made
<1> QED BY <1>1, <1>2, <1>3, <1>4, <1>5, Kinds

(* What is found under a key.                                              *)
LEMMA FoundMeans ==
  ASSUME NEW c, client[c].op \in Ops
  PROVE  /\ Found(c) = "wait" => entry[KeyOf(c)].kind \in Made
         /\ Found(c) = "create" =>
              entry[KeyOf(c)] = Absent \/ Expired(entry[KeyOf(c)], client[c].clock)
BY DEF Found, Ops, Made

LEMMA ExpiredKinds ==
  ASSUME NEW e, NEW t, Expired(e, t) PROVE e.kind \in {"session", "ready"}
BY DEF Expired

LEMMA ShardsOfKeys == \A k \in Keys : Shard[k] \in Shards
BY DEF Shards

(* Removing keys of one shard.                                             *)
LEMMA RemoveEntries ==
  ASSUME Types, NEW ks, Remove(ks)
  PROVE  /\ entry' \in [Keys -> Entry]
         /\ \A k \in Keys : IF k \in ks THEN entry'[k] = Absent ELSE entry'[k] = entry[k]
<1>1. Absent \in Entry
  BY DEF Entry, Absent
<1>2. entry \in [Keys -> Entry] /\ entry' = [k \in Keys |-> IF k \in ks THEN Absent ELSE entry[k]]
  BY DEF Types, Remove
<1> QED BY <1>1, <1>2

-----------------------------------------------------------------------------
(* A step of one request that keeps to the locks, creates no entry, and    *)
(* wakes the others when it ends one.                                      *)
Shrinks ==
  \A k \in Keys : entry'[k].kind \in Made =>
    entry[k].kind = entry'[k].kind /\ entry[k].version = entry'[k].version
KeepsToLocks(c) ==
  \A k \in Keys : locked[Shard[k]] \notin {None, c} =>
    entry'[k] = entry[k] /\ locked'[Shard[k]] = locked[Shard[k]]
Lets(c) ==
  \A k \in Keys : KeyOf(c) = k /\ entry'[k].kind \in Made => entry'[k].version # client[c].version
Outlasts(t, c) ==
  /\ IsHolder(client[c]) /\ t.key = KeyOf(c) /\ t.version = client[c].version
  /\ t.at = "pending" <=> At(c, "pending")
Wakes(c, t) ==
  /\ \/ t.at = "wake"
     \/ \A k \in Keys : entry[k].kind \in Made => entry'[k].kind \in Made
  /\ \A d \in Clients \ {c} : changed[d] => changed'[d]
  /\ At(c, "wake") => \A d \in Clients \ {c} : At(d, "sleep") => changed'[d]

LEMMA RequestStep ==
  ASSUME Safe, NEW c \in Clients, NEW t \in Client, client' = [client EXCEPT ![c] = t],
         entry' \in [Keys -> Entry], locked' \in [Shards -> Clients \cup {None}],
         changed' \in [Clients -> BOOLEAN], UNCHANGED <<now, next_version, sweep>>,
         Shrinks, KeepsToLocks(c), Wakes(c, t), Sound(t),
         t.at \in {"insert", "bytes"} => locked'[Shard[t.key]] = c /\ entry'[t.key] = Absent,
         IF IsHolder(t) THEN Outlasts(t, c) ELSE IsHolder(client[c]) => Lets(c),
         t.at = "sleep" => entry'[t.key].kind \in Made
  PROVE  Safe'
<1>1. Types'
  BY DEF Safe, Types
<1>2. client'[c] = t /\ \A d \in Clients : d # c => client'[d] = client[d]
  BY DEF Safe, Types
<1>3. ClientsSound'
  BY <1>2 DEF Safe, ClientsSound
<1>4. LocksHeld'
  <2> SUFFICES ASSUME NEW d \in Clients, client'[d].at \in {"insert", "bytes"}
               PROVE  locked'[Shard[client'[d].key]] = d /\ entry'[client'[d].key] = Absent
    BY DEF LocksHeld, KeyOf
  <2>1. CASE d = c
    BY <1>2, <2>1
  <2>2. CASE d # c
    <3>1. client'[d] = client[d] /\ client[d].key \in Keys
      BY <1>2, <2>2 DEF Safe, ClientsSound, Sound
    <3>2. locked[Shard[client[d].key]] = d /\ entry[client[d].key] = Absent
      BY <3>1 DEF Safe, LocksHeld, KeyOf
    <3>3. d # None
      BY AffinityAssumption
    <3> QED BY <2>2, <3>1, <3>2, <3>3 DEF KeepsToLocks
  <2> QED BY <2>1, <2>2
<1>5. \A d \in LeaseHolders' : d \in LeaseHolders /\ client'[d].version = client[d].version
                              /\ client'[d].key = client[d].key
                              /\ (client'[d].at = "pending" <=> client[d].at = "pending")
  <2> SUFFICES ASSUME NEW d \in Clients, IsHolder(client'[d])
               PROVE  IsHolder(client[d]) /\ client'[d].version = client[d].version
                      /\ client'[d].key = client[d].key
                      /\ (client'[d].at = "pending" <=> client[d].at = "pending")
    BY DEF LeaseHolders, IsHolder, At, Leasing
  <2> QED BY <1>2 DEF Outlasts, KeyOf, At
<1>6. LeasesDiffer'
  BY <1>5 DEF Safe, LeasesDiffer
<1>7. AllLeased'
  <2> SUFFICES ASSUME NEW k \in Keys, entry'[k].kind \in Made PROVE Leased(k)'
    BY DEF AllLeased
  <2>1. entry[k].kind = entry'[k].kind /\ entry[k].version = entry'[k].version
    BY DEF Shrinks
  <2>2. PICK d \in LeaseHolders : /\ client[d].key = k /\ client[d].version = entry[k].version
                                  /\ entry[k].kind = "pending" <=> client[d].at = "pending"
    BY <2>1 DEF Safe, AllLeased, Leased, KeyOf, At
  <2>3. d \in Clients /\ IsHolder(client[d])
    BY DEF LeaseHolders, IsHolder, At, Leasing
  <2>4. /\ IsHolder(client'[d]) /\ client'[d].key = client[d].key
        /\ client'[d].version = client[d].version
        /\ (client'[d].at = "pending" <=> client[d].at = "pending")
    <3>1. CASE d = c
      <4>1. ~Lets(c)
        BY <2>1, <2>2, <3>1 DEF Lets, KeyOf
      <4> QED BY <1>2, <2>3, <3>1, <4>1 DEF Outlasts, KeyOf, At
    <3>2. CASE d # c
      BY <1>2, <2>3, <3>2
    <3> QED BY <3>1, <3>2
  <2>5. d \in LeaseHolders'
    BY <2>3, <2>4 DEF LeaseHolders, IsHolder, At, Leasing
  <2> QED BY <2>1, <2>2, <2>4, <2>5 DEF Leased, KeyOf, At
<1>8. NoLostWakeup'
  <2> SUFFICES ASSUME NEW d \in Clients, client'[d].at = "sleep"
               PROVE  \/ entry'[client'[d].key].kind \in Made \/ changed'[d]
                      \/ \E x \in Clients : client'[x].at = "wake"
                      \/ sweep'.op # None /\ sweep'.wake
    BY DEF NoLostWakeup, At, KeyOf, Made
  <2>1. CASE d = c
    BY <1>2, <2>1
  <2>2. CASE d # c
    <3>1. client'[d] = client[d] /\ client[d].key \in Keys
      BY <1>2, <2>2 DEF Safe, ClientsSound, Sound
    <3>2. \/ entry[client[d].key].kind \in Made \/ changed[d]
          \/ \E x \in Clients : client[x].at = "wake"
          \/ sweep.op # None /\ sweep.wake
      BY <3>1 DEF Safe, NoLostWakeup, At, KeyOf, Made
    <3>3. CASE entry[client[d].key].kind \in Made
      BY <1>2, <3>1, <3>3 DEF Wakes
    <3>4. CASE changed[d]
      BY <2>2, <3>4 DEF Wakes
    <3>5. ASSUME NEW x \in Clients, client[x].at = "wake"
          PROVE  changed'[d] \/ \E y \in Clients : client'[y].at = "wake"
      <4>1. CASE x = c
        BY <2>2, <3>1, <3>5, <4>1 DEF Wakes, At
      <4>2. CASE x # c
        BY <1>2, <3>5, <4>2
      <4> QED BY <4>1, <4>2
    <3> QED BY <3>2, <3>3, <3>4, <3>5
  <2> QED BY <2>1, <2>2
<1> QED BY <1>1, <1>3, <1>4, <1>6, <1>7, <1>8 DEF Safe

-----------------------------------------------------------------------------
(* Counting.                                                               *)
LEMMA SmallSets ==
  /\ IsFiniteSet(Present) /\ Cardinality(Present) \in Nat
  /\ IsFiniteSet(Reserving) /\ Cardinality(Reserving) \in Nat
<1>1. Present \in SUBSET Keys /\ Reserving \in SUBSET Clients
  BY DEF Present, Reserving
<1> QED BY <1>1, AffinityAssumption, FS_Subset, FS_CardinalityType

LEMMA ReservingSame ==
  ASSUME Types, NEW c \in Clients, NEW t, client' = [client EXCEPT ![c] = t],
         t.at = "bytes" <=> At(c, "bytes")
  PROVE  Reserving' = Reserving
BY DEF Types, Reserving, At

LEMMA CountKept ==
  ASSUME CountExact, Reserving' = Reserving, entry_count' = entry_count,
         \A k \in Keys : entry'[k] = Absent <=> entry[k] = Absent
  PROVE  CountExact'
<1>1. Present' = Present
  BY DEF Present
<1> QED BY <1>1 DEF CountExact

LEMMA CountRemoved ==
  ASSUME Types, CountExact, NEW ks, Remove(ks), Reserving' = Reserving
  PROVE  CountExact'
<1>1. Present' = Present \ ks
  <2>1. \A k \in Keys : IF k \in ks THEN entry'[k] = Absent ELSE entry'[k] = entry[k]
    BY RemoveEntries
  <2> QED BY <2>1 DEF Present
<1>2. Cardinality(Present \ ks) = Cardinality(Present) - Cardinality(Present \cap ks)
      /\ IsFiniteSet(Present \ ks)
  BY SmallSets, FS_Difference
<1>3. Cardinality(Present \cap ks) \in Nat /\ Cardinality(Present \ ks) \in Nat
  BY <1>2, SmallSets, FS_Intersection, FS_CardinalityType
<1>4. ks \cap Present = Present \cap ks
  OBVIOUS
<1>5. entry_count' = entry_count - Cardinality(Present \cap ks)
  BY <1>4 DEF Remove
<1>6. entry_count = Cardinality(Present) + Cardinality(Reserving) /\ entry_count <= MaxEntries
  BY DEF CountExact
<1> QED BY <1>1, <1>2, <1>3, <1>5, <1>6, SmallSets, AffinityAssumption DEF CountExact

LEMMA CountInserted ==
  ASSUME Types, NEW k \in Keys, entry[k] = Absent, NEW e, e # Absent,
         entry' = [entry EXCEPT ![k] = e]
  PROVE  Cardinality(Present') = Cardinality(Present) + 1
<1>1. Present' = Present \cup {k} /\ k \notin Present
  BY DEF Types, Present
<1> QED BY <1>1, SmallSets, FS_AddElement

LEMMA CountReserving ==
  ASSUME Types, NEW c \in Clients, NEW t, client' = [client EXCEPT ![c] = t]
  PROVE  /\ ~At(c, "bytes") /\ t.at = "bytes" =>
              Cardinality(Reserving') = Cardinality(Reserving) + 1
         /\ At(c, "bytes") /\ t.at # "bytes" =>
              Cardinality(Reserving') = Cardinality(Reserving) - 1
<1>1. client'[c] = t /\ \A d \in Clients : d # c => client'[d] = client[d]
  BY DEF Types
<1>2. ASSUME ~At(c, "bytes"), t.at = "bytes"
      PROVE  Cardinality(Reserving') = Cardinality(Reserving) + 1
  <2>1. Reserving' = Reserving \cup {c} /\ c \notin Reserving
    BY <1>1, <1>2 DEF Reserving, At
  <2> QED BY <2>1, SmallSets, FS_AddElement
<1>3. ASSUME At(c, "bytes"), t.at # "bytes"
      PROVE  Cardinality(Reserving') = Cardinality(Reserving) - 1
  <2>1. Reserving' = Reserving \ {c} /\ c \in Reserving
    BY <1>1, <1>3 DEF Reserving, At
  <2> QED BY <2>1, SmallSets, FS_RemoveElement
<1> QED BY <1>2, <1>3

-----------------------------------------------------------------------------
(* Steps that leave the entries and the locks alone.                       *)
LEMMA IdleSound == Idle \in Client /\ Sound(Idle) /\ ~IsHolder(Idle) /\ Idle.at = "idle"
<1>1. Idle \in Client
  BY SizesFit DEF Idle, Client, Places, Leasing
<1> QED BY <1>1 DEF Idle, Sound, IsHolder, Leasing

LEMMA QuietStep ==
  ASSUME IInv, NEW c \in Clients, NEW t \in Client, client' = [client EXCEPT ![c] = t],
         changed' = changed \/ changed' = [changed EXCEPT ![c] = FALSE],
         UNCHANGED <<now, entry, entry_count, locked, next_version, sweep>>,
         Sound(t), t.at \notin {"insert", "bytes"}, client[c].at \notin {"wake", "bytes"},
         IF IsHolder(t) THEN Outlasts(t, c) ELSE ~IsHolder(client[c]) \/ ~Current(c),
         t.at = "sleep" => entry[t.key].kind \in Made
  PROVE  IInv'
<1>1. Types /\ entry' = entry
  BY DEF IInv, Safe
<1>2. entry' \in [Keys -> Entry] /\ locked' \in [Shards -> Clients \cup {None}]
      /\ changed' \in [Clients -> BOOLEAN]
  BY <1>1 DEF Types
<1>3. Shrinks /\ KeepsToLocks(c) /\ Wakes(c, t)
  BY <1>1 DEF Shrinks, KeepsToLocks, Wakes, Types, At
<1>4. IF IsHolder(t) THEN Outlasts(t, c) ELSE IsHolder(client[c]) => Lets(c)
  BY <1>1 DEF Lets, Current, Made, KeyOf
<1>5. Safe'
  BY <1>1, <1>2, <1>3, <1>4, RequestStep DEF IInv
<1>6. CountExact'
  BY <1>1, ReservingSame, CountKept DEF IInv, At
<1> QED BY <1>5, <1>6 DEF IInv

LEMMA BeginStep ==
  ASSUME IInv, NEW c \in Clients, NEW op \in Ops, NEW k \in Keys, NEW b \in Sizes,
         Begin(c, op, k, b)
  PROVE  IInv'
<1> DEFINE t == [Idle EXCEPT !.at = "start", !.op = op, !.key = k, !.clock = now, !.bytes = b]
<1>1. t \in Client /\ t.at = "start" /\ Sound(t) /\ ~IsHolder(t)
  BY DEF Idle, Client, Places, Leasing, Sound, IsHolder, IInv, Safe, Types
<1>2. /\ client' = [client EXCEPT ![c] = t] /\ changed' = [changed EXCEPT ![c] = FALSE]
      /\ UNCHANGED <<now, entry, entry_count, locked, next_version, sweep>>
      /\ client[c].at = "idle"
  BY DEF Begin, Set, At, registryVars
<1>3. ~IsHolder(client[c])
  BY <1>2 DEF IsHolder, Leasing
<1> HIDE DEF t
<1> QED BY <1>1, <1>2, <1>3, QuietStep

LEMMA LocalSteps ==
  ASSUME IInv, NEW c \in Clients,
         \/ Observe(c) \/ WaitForCreator(c) \/ BeginReclaim(c) \/ EndReclaim(c)
         \/ ReleaseObserved(c) \/ WakeByChange(c) \/ RetryCandidate(c) \/ GiveUp(c)
  PROVE  IInv'
<1>0. client[c] \in Client /\ now \in Nat /\ changed \in [Clients -> BOOLEAN] /\ Sound(client[c])
      /\ Shards \in SUBSET Shards
  BY DEF IInv, Safe, Types, ClientsSound
<1>1. UNCHANGED <<now, entry, entry_count, locked, next_version, sweep>>
      /\ (changed' = changed \/ changed' = [changed EXCEPT ![c] = FALSE])
  BY DEF Observe, WaitForCreator, BeginReclaim, EndReclaim, ReleaseObserved, WakeByChange,
         RetryCandidate, GiveUp, callVars, registryVars
<1>2. client[c].at \in {"observe", "start", "full", "reclaim", "released", "sleep", "candidate"}
  BY DEF Observe, WaitForCreator, BeginReclaim, EndReclaim, ReleaseObserved, WakeByChange,
         RetryCandidate, GiveUp, At
<1>3. ~IsHolder(client[c]) /\ client[c].at \notin {"wake", "bytes"}
  BY <1>2 DEF IsHolder, Leasing
<1>4. ASSUME NEW t \in Client, client' = [client EXCEPT ![c] = t],
             t.at \in {"start", "observe", "candidate", "reclaim"},
             t.key = client[c].key, t.op = client[c].op
      PROVE  IInv'
  <2>1. Sound(t) /\ ~IsHolder(t) /\ t.at \notin {"insert", "bytes", "sleep"}
    BY <1>0, <1>2, <1>4 DEF Sound, IsHolder, Leasing
  <2> QED BY <1>1, <1>3, <1>4, <2>1, QuietStep
<1>5. ASSUME client' = [client EXCEPT ![c] = Idle] PROVE IInv'
  BY <1>1, <1>3, <1>5, IdleSound, QuietStep
<1>6. CASE Observe(c)
  <2> DEFINE t == [client[c] EXCEPT !.at = "start", !.clock = now, !.reclaimed = FALSE]
  <2>1. t \in Client /\ t.at = "start" /\ t.key = client[c].key /\ t.op = client[c].op
    BY <1>0 DEF Client, Places, Leasing
  <2>2. client' = [client EXCEPT ![c] = t]
    BY <1>6 DEF Observe, Set
  <2> HIDE DEF t
  <2> QED BY <1>4, <2>1, <2>2
<1>7. CASE WaitForCreator(c)
  <2> DEFINE l == IF client[c].subscribed THEN "sleep" ELSE "observe"
             t == [client[c] EXCEPT !.at = l, !.subscribed = TRUE, !.clock = 0]
  <2>1. t \in Client /\ t.at = l /\ t.key = client[c].key /\ t.op = client[c].op
    BY <1>0 DEF Client, Places, Leasing
  <2>2. client' = [client EXCEPT ![c] = t]
    BY <1>7 DEF WaitForCreator, Set
  <2>3. l \in {"sleep", "observe"}
    OBVIOUS
  <2>4. entry[client[c].key].kind \in Made
    BY <1>0, <1>2, <1>7, FoundMeans DEF WaitForCreator, KeyOf, Sound
  <2> HIDE DEF t, l
  <2>5. Sound(t) /\ ~IsHolder(t) /\ t.at \notin {"insert", "bytes"}
    BY <1>0, <1>2, <2>1, <2>3 DEF Sound, IsHolder, Leasing
  <2> QED BY <1>1, <1>3, <2>1, <2>2, <2>4, <2>5, QuietStep
<1>8. CASE BeginReclaim(c)
  <2> DEFINE t == [client[c] EXCEPT !.at = "reclaim", !.todo = Shards, !.removed = FALSE]
  <2>1. t \in Client /\ t.at = "reclaim" /\ t.key = client[c].key /\ t.op = client[c].op
    BY <1>0 DEF Client, Places, Leasing
  <2>2. client' = [client EXCEPT ![c] = Idle] \/ client' = [client EXCEPT ![c] = t]
    BY <1>8 DEF BeginReclaim, Set
  <2> HIDE DEF t
  <2> QED BY <1>4, <1>5, <2>1, <2>2
<1>9. CASE EndReclaim(c)
  <2> DEFINE t == [client[c] EXCEPT !.at = "start", !.reclaimed = TRUE]
  <2>1. t \in Client /\ t.at = "start" /\ t.key = client[c].key /\ t.op = client[c].op
    BY <1>0 DEF Client, Places, Leasing
  <2>2. client' = [client EXCEPT ![c] = Idle] \/ client' = [client EXCEPT ![c] = t]
    BY <1>9 DEF EndReclaim, Set
  <2> HIDE DEF t
  <2> QED BY <1>4, <1>5, <2>1, <2>2
<1>10. CASE ReleaseObserved(c)
  <2> DEFINE l == IF changed[c] THEN "observe" ELSE "candidate"
             t == [client[c] EXCEPT !.at = l, !.subscribed = TRUE, !.version = 0]
  <2>1. t \in Client /\ t.at = l /\ t.key = client[c].key /\ t.op = client[c].op
    BY <1>0 DEF Client, Places, Leasing
  <2>2. client' = [client EXCEPT ![c] = t]
    BY <1>10 DEF ReleaseObserved, Set
  <2>3. l \in {"observe", "candidate"}
    OBVIOUS
  <2> HIDE DEF t, l
  <2> QED BY <1>4, <2>1, <2>2, <2>3
<1>11. CASE WakeByChange(c) \/ RetryCandidate(c)
  <2> DEFINE t == [client[c] EXCEPT !.at = "observe"]
  <2>1. t \in Client /\ t.at = "observe" /\ t.key = client[c].key /\ t.op = client[c].op
    BY <1>0 DEF Client, Places, Leasing
  <2>2. client' = [client EXCEPT ![c] = t]
    BY <1>11 DEF WakeByChange, RetryCandidate, Set
  <2> HIDE DEF t
  <2> QED BY <1>4, <2>1, <2>2
<1>12. CASE GiveUp(c)
  BY <1>5, <1>12 DEF GiveUp, Set
<1> QED BY <1>6, <1>7, <1>8, <1>9, <1>10, <1>11, <1>12

-----------------------------------------------------------------------------
(* Steps that remove what has expired.                                     *)
LEMMA ExpiredRemoved ==
  ASSUME IInv, NEW c \in Clients, NEW t \in Client, client' = [client EXCEPT ![c] = t],
         NEW s, NEW ks, Remove(ks), \A k \in ks : k \in Keys => Shard[k] = s,
         \A k \in ks : k \in Keys => entry[k].kind \notin Made,
         locked[s] \in {None, c}, locked' \in [Shards -> Clients \cup {None}],
         \A x \in Shards : x # s => locked'[x] = locked[x],
         UNCHANGED <<now, next_version, changed, sweep>>,
         Sound(t), ~IsHolder(t), t.at \notin {"bytes", "sleep"},
         t.at = "insert" => t.key \in ks /\ locked'[Shard[t.key]] = c,
         client[c].at \notin {"wake", "bytes"}, ~IsHolder(client[c])
  PROVE  IInv'
<1>1. Types /\ \A k \in Keys : IF k \in ks THEN entry'[k] = Absent ELSE entry'[k] = entry[k]
  BY RemoveEntries DEF IInv, Safe
<1>2. entry' \in [Keys -> Entry] /\ changed' \in [Clients -> BOOLEAN]
  BY <1>1, RemoveEntries DEF Types
<1>3. Absent.kind \notin Made
  BY DEF Absent, Made
<1>4. Shrinks
  BY <1>1, <1>3 DEF Shrinks
<1>5. KeepsToLocks(c)
  BY <1>1, ShardsOfKeys DEF KeepsToLocks
<1>6. Wakes(c, t)
  BY <1>1 DEF Wakes, At
<1>7. t.at \in {"insert", "bytes"} => locked'[Shard[t.key]] = c /\ entry'[t.key] = Absent
  BY <1>1 DEF Sound
<1>8. Safe'
  BY <1>2, <1>4, <1>5, <1>6, <1>7, RequestStep DEF IInv
<1>9. CountExact'
  BY <1>1, ReservingSame, CountRemoved DEF IInv, At
<1> QED BY <1>8, <1>9 DEF IInv

LEMMA ExpiringSteps ==
  ASSUME IInv, NEW c \in Clients,
         Missing(c) \/ Prepare(c) \/ \E s \in Shards : ReclaimShard(c, s)
  PROVE  IInv'
<1>0. /\ client[c] \in Client /\ Sound(client[c]) /\ client[c].at \in {"start", "reclaim"}
      /\ client[c].key \in Keys /\ client[c].op \in Ops
      /\ locked \in [Shards -> Clients \cup {None}] /\ Shard[client[c].key] \in Shards
      /\ UNCHANGED <<now, next_version, changed, sweep>> /\ Types
  <2>1. client[c].at \in {"start", "reclaim"} /\ UNCHANGED <<now, next_version, changed, sweep>>
    BY DEF Missing, Prepare, ReclaimShard, At, callVars
  <2>2. client[c] \in Client /\ Sound(client[c]) /\ Types
    BY DEF IInv, Safe, Types, ClientsSound
  <2>3. client[c].key \in Keys /\ client[c].op \in Ops
    BY <2>1, <2>2 DEF Sound
  <2> QED BY <2>1, <2>2, <2>3, ShardsOfKeys DEF Types
<1>1. ~IsHolder(client[c]) /\ client[c].at \notin {"wake", "bytes"}
  BY <1>0 DEF IsHolder, Leasing
<1>2. \A s, u : \A k \in ExpiredIn(s, u) : k \in Keys /\ Shard[k] = s /\ entry[k].kind \notin Made
  BY ExpiredKinds DEF ExpiredIn, Made
<1>3. CASE Missing(c)
  <2> DEFINE ks == IF client[c].op = "resolve" /\ Expired(entry[KeyOf(c)], client[c].clock)
                     THEN {KeyOf(c)} ELSE {}
  <2>1. Remove(ks) /\ client' = [client EXCEPT ![c] = Idle] /\ locked' = locked
        /\ locked[Shard[KeyOf(c)]] = None
    BY <1>3 DEF Missing, Set, Free
  <2>2. \A k \in ks : Shard[k] = Shard[KeyOf(c)] /\ entry[k].kind \notin Made
    BY ExpiredKinds DEF Made
  <2>3. locked' \in [Shards -> Clients \cup {None}] /\ \A x \in Shards : locked'[x] = locked[x]
    BY <1>0, <2>1
  <2>4. Idle.at \notin {"bytes", "sleep", "insert"}
    BY IdleSound
  <2> HIDE DEF ks
  <2> QED BY <1>0, <1>1, <2>1, <2>2, <2>3, <2>4, IdleSound, ExpiredRemoved
<1>4. CASE Prepare(c)
  <2> DEFINE s == Shard[KeyOf(c)]
             t == [client[c] EXCEPT !.at = "insert"]
  <2>1. PICK sample \in SUBSET ExpiredIn(s, client[c].clock) : Remove(sample \cup {KeyOf(c)})
    BY <1>4 DEF Prepare
  <2>2. /\ client' = [client EXCEPT ![c] = t] /\ locked' = [locked EXCEPT ![s] = c]
        /\ locked[s] = None /\ Found(c) = "create"
    BY <1>4 DEF Prepare, Set, Free
  <2>3. /\ t \in Client /\ t.at = "insert" /\ t.key = client[c].key /\ t.op = client[c].op
    BY <1>0 DEF Client, Places
  <2>4. Sound(t) /\ ~IsHolder(t)
    BY <1>0, <2>3 DEF Sound, IsHolder, Leasing
  <2>5. entry[KeyOf(c)].kind \notin Made
    BY <1>0, <2>2, FoundMeans, ExpiredKinds DEF Made, Absent
  <2>6. \A k \in sample \cup {KeyOf(c)} : Shard[k] = s /\ entry[k].kind \notin Made
    BY <1>2, <2>5
  <2>7. locked' \in [Shards -> Clients \cup {None}] /\ locked'[Shard[t.key]] = c
        /\ \A x \in Shards : x # s => locked'[x] = locked[x]
    BY <1>0, <2>2, <2>3 DEF KeyOf
  <2> DEFINE ks == sample \cup {KeyOf(c)}
  <2>8. t.key \in ks /\ Remove(ks) /\ \A k \in ks : Shard[k] = s /\ entry[k].kind \notin Made
    BY <2>1, <2>3, <2>6 DEF KeyOf
  <2>9. locked[s] \in {None, c} /\ t.at \notin {"bytes", "sleep"}
        /\ client' = [client EXCEPT ![c] = t]
    BY <2>2, <2>3
  <2>10. UNCHANGED <<now, next_version, changed, sweep>>
    BY <1>0
  <2> HIDE DEF t, s, ks
  <2>11. \A k \in ks : (k \in Keys => Shard[k] = s) /\ (k \in Keys => entry[k].kind \notin Made)
    BY <2>8
  <2> QED BY <1>1, <2>3, <2>4, <2>7, <2>8, <2>9, <2>10, <2>11, ExpiredRemoved
<1>5. ASSUME NEW s \in Shards, ReclaimShard(c, s) PROVE IInv'
  <2> DEFINE gone == ExpiredIn(s, client[c].clock)
             more == client[c].removed \/ gone # {}
             t == [client[c] EXCEPT !.todo = @ \ {s}, !.removed = more]
  <2>1. more \in BOOLEAN
    OBVIOUS
  <2>2. /\ client' = [client EXCEPT ![c] = t] /\ locked' = locked /\ locked[s] = None
        /\ Remove(gone) /\ client[c].at = "reclaim"
    BY <1>5 DEF ReclaimShard, Set, Free, At
  <2>3. \A k \in gone : Shard[k] = s /\ entry[k].kind \notin Made
    BY <1>2
  <2> HIDE DEF more, gone
  <2>4. /\ t \in Client /\ t.at = "reclaim" /\ t.key = client[c].key /\ t.op = client[c].op
    BY <1>0, <2>1, <2>2 DEF Client
  <2> HIDE DEF t
  <2>5. Sound(t) /\ ~IsHolder(t)
    BY <1>0, <2>4 DEF Sound, IsHolder, Leasing
  <2> QED BY <1>0, <1>1, <2>2, <2>3, <2>4, <2>5, ExpiredRemoved
<1> QED BY <1>3, <1>4, <1>5

LEMMA UseStep ==
  ASSUME IInv, NEW c \in Clients, Use(c)
  PROVE  IInv'
<1> DEFINE v == IF client[c].op = "bind" THEN now ELSE client[c].clock
           k0 == KeyOf(c)
<1>0. /\ Types /\ v \in Nat /\ k0 \in Keys /\ locked[Shard[k0]] = None
      /\ client[c].at = "start" /\ client' = [client EXCEPT ![c] = Idle]
      /\ UNCHANGED <<now, locked, next_version, changed, sweep, entry_count>>
      /\ entry' = [entry EXCEPT ![k0].seen_at = v]
  BY DEF IInv, Safe, Types, ClientsSound, Sound, Use, At, Set, Free, KeyOf, Client, callVars
<1> HIDE DEF v, k0
<1>1. /\ entry'[k0] = [entry[k0] EXCEPT !.seen_at = v]
      /\ \A k \in Keys : k # k0 => entry'[k] = entry[k]
      /\ DOMAIN entry' = Keys /\ entry' = [k \in Keys |-> entry'[k]]
      /\ entry \in [Keys -> Entry] /\ entry[k0] \in Entry
  BY <1>0 DEF Types
<1>2. /\ entry'[k0] \in Entry /\ entry'[k0].kind = entry[k0].kind
      /\ entry[k0].kind \in Made => entry'[k0].version = entry[k0].version
      /\ entry'[k0] = Absent <=> entry[k0] = Absent
  BY <1>0, <1>1, Refreshed
<1>3. entry' \in [Keys -> Entry]
  BY <1>1, <1>2
<1>4. Shrinks /\ KeepsToLocks(c) /\ Wakes(c, Idle)
  BY <1>0, <1>1, <1>2 DEF Shrinks, KeepsToLocks, Wakes, At
<1>5. ~IsHolder(client[c])
  BY <1>0 DEF IsHolder, Leasing
<1>6. Safe'
  <2>1. locked' \in [Shards -> Clients \cup {None}] /\ changed' \in [Clients -> BOOLEAN]
    BY <1>0 DEF Types
  <2> QED BY <1>0, <1>3, <1>4, <1>5, <2>1, IdleSound, RequestStep DEF IInv
<1>7. CountExact'
  <2>1. Reserving' = Reserving
    BY <1>0, IdleSound, ReservingSame DEF At
  <2> QED BY <1>0, <1>1, <1>2, <2>1, CountKept DEF IInv
<1> QED BY <1>6, <1>7 DEF IInv

-----------------------------------------------------------------------------
(* Steps of a lease.                                                       *)

(* The entry of a current lease is of the kind the lease was given for.    *)
LEMMA CurrentIsOwn ==
  ASSUME Safe, NEW c \in Clients, IsHolder(client[c]), KeyOf(c) \in Keys, Current(c)
  PROVE  /\ entry[KeyOf(c)].kind \in Made /\ entry[KeyOf(c)].version = client[c].version
         /\ entry[KeyOf(c)].kind = "pending" <=> At(c, "pending")
<1>1. entry[KeyOf(c)].kind \in Made /\ entry[KeyOf(c)].version = client[c].version
  BY DEF Current, Made
<1>2. PICK d \in LeaseHolders : /\ client[d].version = entry[KeyOf(c)].version
                                /\ entry[KeyOf(c)].kind = "pending" <=> At(d, "pending")
  BY <1>1 DEF Safe, AllLeased, Leased
<1>3. c \in LeaseHolders
  BY DEF LeaseHolders, IsHolder, Leasing, At
<1>4. c = d
  BY <1>1, <1>2, <1>3 DEF Safe, LeasesDiffer
<1> QED BY <1>1, <1>2, <1>4

(* A lease ends: its entry goes or becomes a binding, and the waiters will *)
(* be told.                                                                *)
LEMMA LeaseEnds ==
  ASSUME IInv, NEW c \in Clients, client[c].at \in Leasing, KeyOf(c) \in Keys,
         locked[Shard[KeyOf(c)]] = None, NEW e \in Entry, e.kind \notin Made,
         entry' \in [Keys -> Entry], entry'[KeyOf(c)] = e,
         \A k \in Keys : k # KeyOf(c) => entry'[k] = entry[k],
         NEW l \in {"idle", "released"}, ThenWake(c, l),
         UNCHANGED <<now, locked, next_version, changed, sweep>>
  PROVE  Safe' /\ Reserving' = Reserving
<1> DEFINE t == [client[c] EXCEPT !.at = "wake", !.then = l]
<1>0. Types /\ client[c] \in Client /\ Sound(client[c]) /\ Safe
  BY DEF IInv, Safe, Types, ClientsSound
<1>1. t \in Client /\ t.at = "wake" /\ t.then = l /\ t.key = client[c].key /\ t.op = client[c].op
  BY <1>0 DEF Client, Places, Goals
<1>2. client' = [client EXCEPT ![c] = t]
  BY DEF ThenWake, Set
<1> HIDE DEF t
<1>3. Sound(t) /\ ~IsHolder(t) /\ client[c].at \notin {"idle", "wake", "bytes", "sleep"}
  BY <1>0, <1>1 DEF Sound, IsHolder, Leasing, Goals
<1>4. Shrinks /\ Lets(c)
  BY DEF Shrinks, Lets
<1>5. KeepsToLocks(c) /\ Wakes(c, t)
  BY <1>1, <1>3 DEF KeepsToLocks, Wakes, At
<1>6. locked' \in [Shards -> Clients \cup {None}] /\ changed' \in [Clients -> BOOLEAN]
  BY <1>0 DEF Types
<1>7. Safe'
  BY <1>0, <1>1, <1>2, <1>3, <1>4, <1>5, <1>6, RequestStep
<1>8. Reserving' = Reserving
  BY <1>0, <1>1, <1>2, <1>3, ReservingSame DEF At
<1> QED BY <1>7, <1>8

(* A lease that lost its entry goes quietly.                               *)
LEMMA LostLease ==
  ASSUME IInv, NEW c \in Clients, client[c].at \in Leasing, ~Current(c), Set(c, Idle),
         UNCHANGED <<now, entry, entry_count, locked, next_version, changed, sweep>>
  PROVE  IInv'
<1>1. client[c].at \notin {"wake", "bytes"}
  BY DEF Leasing
<1> QED BY <1>1, IdleSound, QuietStep DEF Set

LEMMA LeaseSteps ==
  ASSUME IInv, NEW c \in Clients,
         ReleaseForWait(c) \/ Commit(c) \/ DropLease(c) \/ \E b \in StateBytes : MakeReady(c, b)
  PROVE  IInv'
<1>0. /\ client[c].at \in Leasing /\ KeyOf(c) \in Keys /\ locked[Shard[KeyOf(c)]] = None
      /\ UNCHANGED <<now, locked, next_version, changed, sweep>>
      /\ Types /\ now \in Nat /\ client[c].clock \in Nat /\ \A b \in StateBytes : b \in Sizes
      /\ entry \in [Keys -> Entry]
  <2>1. client[c].at \in Leasing /\ locked[Shard[KeyOf(c)]] = None
        /\ UNCHANGED <<now, locked, next_version, changed, sweep>>
    BY DEF ReleaseForWait, Commit, DropLease, MakeReady, At, Free, Leasing, callVars
  <2>2. Types /\ client[c] \in Client /\ Sound(client[c])
    BY DEF IInv, Safe, Types, ClientsSound
  <2>3. KeyOf(c) \in Keys
    BY <2>1, <2>2 DEF Sound, KeyOf, Leasing
  <2> QED BY <2>1, <2>2, <2>3, AffinityAssumption, SizesFit DEF Types, Client
<1>1. ASSUME ~Current(c), Set(c, Idle), UNCHANGED registryVars PROVE IInv'
  BY <1>0, <1>1, LostLease DEF registryVars
<1>2. ASSUME NEW l \in {"idle", "released"}, Remove({KeyOf(c)}), ThenWake(c, l) PROVE IInv'
  <2>1. /\ entry' \in [Keys -> Entry] /\ entry'[KeyOf(c)] = Absent
        /\ \A k \in Keys : k # KeyOf(c) => entry'[k] = entry[k]
    BY <1>0, <1>2, RemoveEntries
  <2>2. Absent \in Entry /\ Absent.kind \notin Made
    BY DEF Absent, Entry, Made
  <2>3. Safe' /\ Reserving' = Reserving
    BY <1>0, <1>2, <2>1, <2>2, LeaseEnds
  <2>4. CountExact'
    BY <1>0, <1>2, <2>3, CountRemoved DEF IInv
  <2> QED BY <2>3, <2>4 DEF IInv
<1>3. ASSUME NEW e \in Entry, e.kind \in {"session", "ready"}, Current(c), Replace(KeyOf(c), e),
             ThenWake(c, "idle")
      PROVE  IInv'
  <2>1. /\ entry' \in [Keys -> Entry] /\ entry'[KeyOf(c)] = e
        /\ \A k \in Keys : k # KeyOf(c) => entry'[k] = entry[k]
    BY <1>0, <1>3 DEF Replace
  <2>2. e.kind \notin Made /\ e # Absent
    BY <1>3 DEF Absent, Made
  <2>3. Safe' /\ Reserving' = Reserving
    BY <1>0, <1>3, <2>1, <2>2, LeaseEnds
  <2>4. entry[KeyOf(c)] # Absent
    BY <1>3 DEF Current, Absent
  <2>5. CountExact'
    BY <1>3, <2>1, <2>2, <2>3, <2>4, CountKept DEF IInv, Replace
  <2> QED BY <2>3, <2>5 DEF IInv
<1>4. CASE ReleaseForWait(c)
  BY <1>1, <1>2, <1>4 DEF ReleaseForWait
<1>5. CASE DropLease(c)
  BY <1>1, <1>2, <1>5 DEF DropLease
<1>6. CASE Commit(c)
  <2>1. Session(c, client[c].clock) \in Entry /\ Session(c, client[c].clock).kind = "session"
    BY <1>0 DEF Session, Entry
  <2> QED BY <1>1, <1>3, <1>6, <2>1 DEF Commit
<1>7. ASSUME NEW b \in StateBytes, MakeReady(c, b) PROVE IInv'
  <2>1. Ready(c, now, b) \in Entry /\ Ready(c, now, b).kind = "ready"
    BY <1>0 DEF Ready, Entry
  <2> QED BY <1>1, <1>3, <1>7, <2>1 DEF MakeReady
<1> QED BY <1>4, <1>5, <1>6, <1>7

LEMMA MarkStep ==
  ASSUME IInv, NEW c \in Clients, MarkAttempting(c)
  PROVE  IInv'
<1>0. /\ client[c].at = "selecting" /\ KeyOf(c) \in Keys /\ locked[Shard[KeyOf(c)]] = None
      /\ UNCHANGED <<now, locked, next_version, changed, sweep, entry_count>>
      /\ Types /\ client[c] \in Client /\ Safe /\ Sound(client[c]) /\ entry \in [Keys -> Entry]
  <2>1. Types /\ client[c] \in Client /\ Safe /\ Sound(client[c]) /\ entry \in [Keys -> Entry]
    BY DEF IInv, Safe, Types, ClientsSound
  <2> QED BY <2>1 DEF MarkAttempting, At, Free, Sound, KeyOf, callVars
<1>1. CASE ~Current(c)
  BY <1>0, <1>1, LostLease DEF MarkAttempting, Leasing
<1>2. CASE Current(c)
  <2> DEFINE t == [client[c] EXCEPT !.at = "wake", !.then = "attempting"]
             k0 == KeyOf(c)
  <2>1. /\ t \in Client /\ t.at = "wake" /\ t.then = "attempting" /\ t.key = client[c].key
        /\ t.op = client[c].op /\ t.version = client[c].version
    BY <1>0 DEF Client, Places, Goals
  <2>2. client' = [client EXCEPT ![c] = t] /\ entry' = [entry EXCEPT ![k0].phase = "attempting"]
    BY <1>2 DEF MarkAttempting, ThenWake, Set
  <2>3. IsHolder(client[c])
    BY <1>0 DEF IsHolder, Leasing
  <2>4. entry[k0].kind = "creating"
    BY <1>0, <1>2, <2>3, CurrentIsOwn DEF Made, At
  <2>5. entry[k0] \in [kind : {"creating"}, version : Nat, phase : {"selecting", "attempting"}]
    BY <1>0, <2>4, Kinds
  <2>6. /\ entry'[k0] = [entry[k0] EXCEPT !.phase = "attempting"]
        /\ \A k \in Keys : k # k0 => entry'[k] = entry[k]
        /\ entry' = [k \in Keys |-> entry'[k]]
    BY <1>0, <2>2
  <2>7. /\ entry'[k0] \in [kind : {"creating"}, version : Nat,
             phase : {"selecting", "attempting"}]
        /\ entry'[k0].kind = "creating" /\ entry'[k0].version = entry[k0].version
    BY <2>5, <2>6
  <2>8. entry'[k0] \in Entry /\ entry'[k0] # Absent /\ entry[k0] # Absent
    BY <2>4, <2>7 DEF Entry, Absent
  <2>9. entry' \in [Keys -> Entry]
    BY <1>0, <2>6, <2>8
  <2> HIDE DEF t, k0
  <2>10. Shrinks
    BY <2>4, <2>6, <2>7 DEF Shrinks
  <2>11. KeepsToLocks(c)
    BY <1>0, <2>6 DEF KeepsToLocks, k0
  <2>12. Wakes(c, t)
    BY <1>0, <2>1 DEF Wakes, At
  <2>13. Sound(t) /\ IsHolder(t) /\ Outlasts(t, c)
    BY <1>0, <2>1, <2>3 DEF Sound, IsHolder, Outlasts, KeyOf, At, Goals
  <2>14. Safe'
    <3>1. locked' \in [Shards -> Clients \cup {None}] /\ changed' \in [Clients -> BOOLEAN]
      BY <1>0 DEF Types
    <3> QED BY <1>0, <2>1, <2>2, <2>9, <2>10, <2>11, <2>12, <2>13, <3>1, RequestStep
  <2>15. CountExact'
    <3>1. Reserving' = Reserving
      BY <1>0, <2>1, <2>2, ReservingSame DEF At
    <3> QED BY <1>0, <2>6, <2>8, <3>1, CountKept DEF IInv
  <2> QED BY <2>14, <2>15 DEF IInv
<1> QED BY <1>1, <1>2

LEMMA ReadClockStep ==
  ASSUME IInv, NEW c \in Clients, ReadCommitClock(c)
  PROVE  IInv'
<1> DEFINE t == [client[c] EXCEPT !.at = "committing", !.clock = now]
<1>0. client[c] \in Client /\ now \in Nat /\ Sound(client[c]) /\ client[c].at = "attempting"
  BY DEF IInv, Safe, Types, ClientsSound, ReadCommitClock, At
<1>1. /\ t \in Client /\ t.at = "committing" /\ t.key = client[c].key /\ t.op = client[c].op
      /\ t.version = client[c].version
  BY <1>0 DEF Client, Places, Leasing
<1>2. client' = [client EXCEPT ![c] = t]
      /\ UNCHANGED <<now, entry, entry_count, locked, next_version, sweep, changed>>
  BY DEF ReadCommitClock, Set, callVars, registryVars
<1> HIDE DEF t
<1>3. Sound(t) /\ IsHolder(t) /\ Outlasts(t, c)
  BY <1>0, <1>1 DEF Sound, IsHolder, Outlasts, KeyOf, At, Leasing
<1> QED BY <1>0, <1>1, <1>2, <1>3, QuietStep

(* The waiters are told.                                                   *)
LEMMA WakeStep ==
  ASSUME IInv, NEW c \in Clients, WakeWaiters(c)
  PROVE  IInv'
<1>0. /\ Types /\ client[c] \in Client /\ Safe /\ Sound(client[c]) /\ client[c].at = "wake"
      /\ client[c].then \in Goals /\ client[c].key \in Keys /\ client[c].op \in Ops
      /\ UNCHANGED <<now, entry, entry_count, locked, next_version, sweep>>
      /\ changed' = [d \in Clients |-> changed[d] \/ (d # c /\ ~At(d, "idle"))]
  <2>1. Types /\ client[c] \in Client /\ Safe /\ Sound(client[c])
    BY DEF IInv, Safe, Types, ClientsSound
  <2> QED BY <2>1 DEF WakeWaiters, At, Sound, callVars, registryVars
<1>1. changed' \in [Clients -> BOOLEAN]
  BY <1>0 DEF Types
<1>2. ASSUME NEW d \in Clients \ {c}, changed[d] \/ At(d, "sleep") PROVE changed'[d]
  BY <1>0, <1>2 DEF At
<1>3. ASSUME NEW t \in Client, client' = [client EXCEPT ![c] = t], Sound(t),
             t.at \in {"idle", "attempting", "released"},
             IF t.at = "attempting" THEN Outlasts(t, c) ELSE ~IsHolder(client[c])
      PROVE  IInv'
  <2>1. Shrinks /\ KeepsToLocks(c)
    BY <1>0 DEF Shrinks, KeepsToLocks
  <2>2. Wakes(c, t)
    BY <1>0, <1>2 DEF Wakes
  <2>3. entry' \in [Keys -> Entry] /\ locked' \in [Shards -> Clients \cup {None}]
    BY <1>0 DEF Types
  <2>4. (IsHolder(t) <=> t.at = "attempting") /\ t.at \notin {"insert", "bytes", "sleep"}
    BY <1>3 DEF IsHolder, Leasing
  <2>5. Safe'
    BY <1>0, <1>1, <1>3, <2>1, <2>2, <2>3, <2>4, RequestStep
  <2>6. Reserving' = Reserving
    BY <1>0, <1>3, <2>4, ReservingSame DEF At
  <2>7. CountExact'
    BY <1>0, <2>6, CountKept DEF IInv
  <2> QED BY <2>5, <2>7 DEF IInv
<1>4. CASE client[c].then = "idle"
  <2>1. client' = [client EXCEPT ![c] = Idle]
    BY <1>4 DEF WakeWaiters, Set
  <2>2. ~IsHolder(client[c])
    BY <1>0, <1>4 DEF IsHolder, Leasing
  <2> QED BY <1>3, <2>1, <2>2, IdleSound
<1>5. CASE client[c].then # "idle"
  <2> DEFINE t == [client[c] EXCEPT !.at = client[c].then, !.then = None]
  <2>1. /\ t \in Client /\ t.at = client[c].then /\ t.key = client[c].key
        /\ t.op = client[c].op /\ t.version = client[c].version
    BY <1>0 DEF Client, Places, Leasing, Goals
  <2>2. client' = [client EXCEPT ![c] = t]
    BY <1>5 DEF WakeWaiters, Set
  <2> HIDE DEF t
  <2>3. Sound(t) /\ t.at \in {"attempting", "released"}
    BY <1>0, <1>5, <2>1 DEF Sound, Goals
  <2>4. IF t.at = "attempting" THEN Outlasts(t, c) ELSE ~IsHolder(client[c])
    BY <1>0, <2>1, <2>3 DEF Outlasts, IsHolder, Leasing, KeyOf, At
  <2> QED BY <1>3, <2>1, <2>2, <2>3, <2>4
<1> QED BY <1>4, <1>5

-----------------------------------------------------------------------------
(* Steps of a request that holds, or could take, the lock of its shard.    *)
LEMMA UnlockStep ==
  ASSUME Safe, NEW c \in Clients, NEW t \in Client, client' = [client EXCEPT ![c] = t],
         client[c].at \in {"start", "insert", "bytes"}, KeyOf(c) \in Keys,
         locked[Shard[KeyOf(c)]] \in {None, c}, Unlock(Shard[KeyOf(c)]),
         UNCHANGED <<now, entry, next_version, changed, sweep>>,
         Sound(t), ~IsHolder(t), t.at \notin {"insert", "bytes", "sleep"}
  PROVE  Safe'
<1>1. Types /\ locked' = [locked EXCEPT ![Shard[KeyOf(c)]] = None]
  BY DEF Safe, Unlock
<1>2. locked' \in [Shards -> Clients \cup {None}] /\ entry' \in [Keys -> Entry]
      /\ changed' \in [Clients -> BOOLEAN]
  BY <1>1 DEF Types
<1>3. Shrinks /\ Wakes(c, t) /\ ~IsHolder(client[c])
  BY DEF Shrinks, Wakes, At, IsHolder, Leasing
<1>4. KeepsToLocks(c)
  BY <1>1, ShardsOfKeys DEF KeepsToLocks, Types
<1> QED BY <1>2, <1>3, <1>4, RequestStep

LEMMA DeadlineStep ==
  ASSUME IInv, NEW c \in Clients, DeadlineExceeded(c)
  PROVE  IInv'
<1>0. /\ Safe /\ Types /\ client[c].at \in {"start", "insert"} /\ KeyOf(c) \in Keys
      /\ Unlock(Shard[KeyOf(c)]) /\ client' = [client EXCEPT ![c] = Idle]
      /\ UNCHANGED <<now, entry, entry_count, next_version, changed, sweep>>
  <2>1. Safe /\ Types /\ Sound(client[c])
    BY DEF IInv, Safe, ClientsSound
  <2> QED BY <2>1 DEF DeadlineExceeded, Sound, KeyOf, Set, callVars, registryVars
<1>1. locked[Shard[KeyOf(c)]] \in {None, c}
  BY <1>0 DEF DeadlineExceeded, At, Free, Safe, LocksHeld
<1>2. Idle.at \notin {"insert", "bytes", "sleep"}
  BY IdleSound
<1>3. Safe'
  BY <1>0, <1>1, <1>2, IdleSound, UnlockStep
<1>4. Reserving' = Reserving
  BY <1>0, <1>2, ReservingSame DEF At
<1> QED BY <1>0, <1>3, <1>4, CountKept DEF IInv

(* No room: the lock is given back.                                        *)
LEMMA FullStep ==
  ASSUME Safe, NEW c \in Clients, client[c].at \in {"insert", "bytes"}, Full(c),
         UNCHANGED <<now, entry, changed, sweep>>
  PROVE  /\ Safe'
         /\ At(c, "insert") => Reserving' = Reserving
         /\ At(c, "bytes") => Cardinality(Reserving') = Cardinality(Reserving) - 1
<1> DEFINE t == IF client[c].reclaimed THEN Idle ELSE [client[c] EXCEPT !.at = "full"]
<1>0. Types /\ client[c] \in Client /\ Sound(client[c])
  BY DEF Safe, Types, ClientsSound
<1>1. KeyOf(c) \in Keys /\ locked[Shard[KeyOf(c)]] = c
  BY <1>0 DEF Sound, KeyOf, Safe, LocksHeld
<1>2. t \in Client /\ Sound(t) /\ ~IsHolder(t) /\ t.at \in {"idle", "full"}
  <2> DEFINE u == [client[c] EXCEPT !.at = "full"]
  <2>1. u \in Client /\ u.at = "full" /\ u.key = client[c].key /\ u.op = client[c].op
    BY <1>0 DEF Client, Places
  <2> HIDE DEF u
  <2>2. Sound(u) /\ ~IsHolder(u)
    BY <1>0, <2>1 DEF Sound, IsHolder, Leasing
  <2>3. t = Idle \/ t = u
    BY DEF u
  <2> QED BY <2>1, <2>2, <2>3, IdleSound
<1>3. /\ client' = [client EXCEPT ![c] = t] /\ Unlock(Shard[KeyOf(c)])
      /\ next_version' = next_version
  BY DEF Full, Set
<1> HIDE DEF t
<1>4. Safe'
  BY <1>0, <1>1, <1>2, <1>3, UnlockStep
<1>5. At(c, "insert") => Reserving' = Reserving
  BY <1>0, <1>2, <1>3, ReservingSame DEF At
<1>6. At(c, "bytes") => Cardinality(Reserving') = Cardinality(Reserving) - 1
  BY <1>0, <1>2, <1>3, CountReserving
<1> QED BY <1>4, <1>5, <1>6

(* A lease is given out with its entry.                                    *)
LEMMA LeaseGiven ==
  ASSUME Safe, NEW c \in Clients, NEW k \in Keys, client[c].at \in {"insert", "bytes"},
         KeyOf(c) = k, entry[k] = Absent, locked[Shard[k]] = c,
         NEW t \in Client, client' = [client EXCEPT ![c] = t], Sound(t),
         t.at \in {"selecting", "pending"}, t.key = k, t.version = next_version + 1,
         NEW e \in Entry, entry' = [entry EXCEPT ![k] = e],
         e.kind \in Made => e.version = next_version + 1,
         e.kind \in Made => (e.kind = "pending" <=> t.at = "pending"),
         Unlock(Shard[k]), next_version' = next_version + 1,
         UNCHANGED <<now, changed, sweep>>
  PROVE  Safe'
<1>0. Types /\ next_version \in Nat
  BY DEF Safe, Types
<1>1. /\ client'[c] = t /\ \A d \in Clients : d # c => client'[d] = client[d]
      /\ entry'[k] = e /\ \A x \in Keys : x # k => entry'[x] = entry[x]
      /\ entry' \in [Keys -> Entry] /\ client' \in [Clients -> Client]
      /\ entry[k].kind \notin Made /\ ~IsHolder(client[c]) /\ IsHolder(t)
  BY <1>0 DEF Types, Absent, Made, IsHolder, Leasing
<1>2. /\ locked' \in [Shards -> Clients \cup {None}]
      /\ \A x \in Shards : x # Shard[k] => locked'[x] = locked[x]
  BY <1>0 DEF Types, Unlock
<1>3. Types'
  BY <1>0, <1>1, <1>2 DEF Types
<1>4. ClientsSound'
  BY <1>1 DEF Safe, ClientsSound
<1>5. LocksHeld'
  <2> SUFFICES ASSUME NEW d \in Clients, client'[d].at \in {"insert", "bytes"}
               PROVE  locked'[Shard[client'[d].key]] = d /\ entry'[client'[d].key] = Absent
    BY DEF LocksHeld, KeyOf
  <2>1. d # c
    BY <1>1
  <2>2. client'[d] = client[d] /\ client[d].key \in Keys
    BY <1>1, <2>1 DEF Safe, ClientsSound, Sound
  <2>3. locked[Shard[client[d].key]] = d /\ entry[client[d].key] = Absent
    BY <2>2 DEF Safe, LocksHeld, KeyOf
  <2>4. Shard[client[d].key] # Shard[k]
    BY <2>1, <2>3
  <2> QED BY <1>1, <1>2, <2>2, <2>3, <2>4, ShardsOfKeys
<1>6. LeaseHolders' = LeaseHolders \cup {c} /\ c \notin LeaseHolders
  BY <1>1 DEF LeaseHolders, IsHolder, At, Leasing
<1>7. LeasesDiffer'
  <2>1. \A d \in LeaseHolders : /\ client'[d].version = client[d].version
                               /\ client[d].version <= next_version /\ client[d].version \in Nat
    BY <1>0, <1>1, <1>6 DEF Safe, LeasesDiffer, LeaseHolders, Types, Client
  <2> QED BY <1>0, <1>1, <1>6, <2>1 DEF Safe, LeasesDiffer
<1>8. AllLeased'
  <2> SUFFICES ASSUME NEW x \in Keys, entry'[x].kind \in Made PROVE Leased(x)'
    BY DEF AllLeased
  <2>1. CASE x = k
    <3>1. c \in LeaseHolders' /\ client'[c].key = x /\ client'[c].version = entry'[x].version
          /\ (entry'[x].kind = "pending" <=> client'[c].at = "pending")
      BY <1>1, <1>6, <2>1
    <3> QED BY <3>1 DEF Leased, KeyOf, At
  <2>2. CASE x # k
    <3>1. PICK d \in LeaseHolders : /\ client[d].key = x /\ client[d].version = entry[x].version
                                    /\ entry[x].kind = "pending" <=> client[d].at = "pending"
      BY <1>1, <2>2 DEF Safe, AllLeased, Leased, KeyOf, At
    <3>2. d \in LeaseHolders' /\ client'[d] = client[d] /\ entry'[x] = entry[x]
      BY <1>1, <1>6, <2>2 DEF LeaseHolders
    <3> QED BY <3>1, <3>2 DEF Leased, KeyOf, At
  <2> QED BY <2>1, <2>2
<1>9. NoLostWakeup'
  <2> SUFFICES ASSUME NEW d \in Clients, client'[d].at = "sleep"
               PROVE  \/ entry'[client'[d].key].kind \in Made \/ changed'[d]
                      \/ \E x \in Clients : client'[x].at = "wake"
                      \/ sweep'.op # None /\ sweep'.wake
    BY DEF NoLostWakeup, At, KeyOf, Made
  <2>1. d # c
    BY <1>1
  <2>2. client'[d] = client[d] /\ client[d].key \in Keys
    BY <1>1, <2>1 DEF Safe, ClientsSound, Sound
  <2>3. \/ entry[client[d].key].kind \in Made \/ changed[d]
        \/ \E x \in Clients : client[x].at = "wake"
        \/ sweep.op # None /\ sweep.wake
    BY <2>2 DEF Safe, NoLostWakeup, At, KeyOf, Made
  <2>4. entry[client[d].key].kind \in Made => entry'[client[d].key].kind \in Made
    BY <1>1, <2>2
  <2>5. \A x \in Clients : client[x].at = "wake" => client'[x].at = "wake"
    BY <1>1
  <2> QED BY <2>2, <2>3, <2>4, <2>5
<1> QED BY <1>3, <1>4, <1>5, <1>7, <1>8, <1>9 DEF Safe

LEMMA InsertStep ==
  ASSUME Safe, NEW c \in Clients, client[c].at \in {"insert", "bytes"}, Insert(c),
         UNCHANGED <<now, changed, sweep>>
  PROVE  /\ Safe' /\ Cardinality(Present') = Cardinality(Present) + 1
         /\ At(c, "insert") => Reserving' = Reserving
         /\ At(c, "bytes") => Cardinality(Reserving') = Cardinality(Reserving) - 1
<1> DEFINE k == KeyOf(c)
           e == NewEntry(c)
<1>0. /\ Types /\ client[c] \in Client /\ Sound(client[c]) /\ next_version \in Nat /\ now \in Nat
      /\ entry \in [Keys -> Entry]
  BY DEF Safe, Types, ClientsSound
<1>1. /\ k \in Keys /\ client[c].op \in Ops /\ locked[Shard[k]] = c /\ entry[k] = Absent
      /\ client[c].bytes \in Sizes /\ client[c].subscribed \in BOOLEAN
  BY <1>0 DEF Sound, Safe, LocksHeld, Client, KeyOf
<1>2. /\ e \in Entry /\ e # Absent
      /\ e.kind \in Made => e.version = next_version + 1
           /\ client[c].op \in {"session", "pending"}
      /\ e.kind = "pending" <=> client[c].op = "pending"
  <2>1. CASE client[c].op = "session"
    <3>1. e = Creating(next_version + 1, "selecting")
      BY <2>1 DEF NewEntry
    <3> QED BY <1>0, <2>1, <3>1 DEF Creating, Entry, Absent, Made
  <2>2. CASE client[c].op = "pending"
    <3>1. e = Pending(c, next_version + 1)
      BY <2>2 DEF NewEntry
    <3> QED BY <1>0, <2>2, <3>1 DEF Pending, Entry, Absent, Made
  <2>3. CASE client[c].op \notin {"session", "pending"}
    <3>1. e = Ready(c, now, client[c].bytes)
      BY <2>3 DEF NewEntry
    <3> QED BY <1>0, <1>1, <2>3, <3>1 DEF Ready, Entry, Absent, Made
  <2> QED BY <2>1, <2>2, <2>3
<1>3. entry' = [entry EXCEPT ![k] = e] /\ Unlock(Shard[k])
  BY DEF Insert
<1> HIDE DEF e, k
<1>4. Cardinality(Present') = Cardinality(Present) + 1
  BY <1>0, <1>1, <1>2, <1>3, CountInserted
<1>5. CASE client[c].op = "bind"
  <2>1. client' = [client EXCEPT ![c] = Idle] /\ next_version' = next_version
    BY <1>5 DEF Insert, Set
  <2>2. /\ entry' \in [Keys -> Entry] /\ entry'[k] = e
        /\ \A x \in Keys : x # k => entry'[x] = entry[x]
    BY <1>0, <1>1, <1>2, <1>3
  <2>3. e.kind \notin Made /\ entry[k].kind \notin Made
    BY <1>1, <1>2, <1>5 DEF Absent, Made
  <2>4. Shrinks
    BY <2>2, <2>3 DEF Shrinks
  <2>5. /\ locked' \in [Shards -> Clients \cup {None}] /\ changed' \in [Clients -> BOOLEAN]
        /\ \A x \in Shards : x # Shard[k] => locked'[x] = locked[x]
    BY <1>0, <1>3 DEF Types, Unlock
  <2>6. KeepsToLocks(c)
    BY <1>1, <2>2, <2>5, ShardsOfKeys DEF KeepsToLocks
  <2>7. Wakes(c, Idle) /\ ~IsHolder(client[c])
    BY <2>2, <2>3 DEF Wakes, At, IsHolder, Leasing
  <2>8. Idle.at \notin {"insert", "bytes", "sleep"}
    BY IdleSound
  <2>9. Safe'
    BY <2>1, <2>2, <2>4, <2>5, <2>6, <2>7, <2>8, IdleSound, RequestStep
  <2>10. At(c, "insert") => Reserving' = Reserving
    BY <1>0, <2>1, <2>8, ReservingSame DEF At
  <2>11. At(c, "bytes") => Cardinality(Reserving') = Cardinality(Reserving) - 1
    BY <1>0, <2>1, <2>8, CountReserving
  <2> QED BY <1>4, <2>9, <2>10, <2>11
<1>6. CASE client[c].op # "bind"
  <2> DEFINE l == IF client[c].op = "session" THEN "selecting" ELSE "pending"
             t == [Idle EXCEPT !.at = l, !.op = client[c].op, !.key = KeyOf(c),
                               !.version = next_version + 1, !.subscribed = client[c].subscribed]
  <2>2. client' = [client EXCEPT ![c] = t] /\ next_version' = next_version + 1
    BY <1>6 DEF Insert, Set
  <2>3. l \in {"selecting", "pending"} /\ (client[c].op \in {"session", "pending"} =>
          (l = "pending" <=> client[c].op = "pending"))
    OBVIOUS
  <2> HIDE DEF l
  <2>1. /\ t \in Client /\ t.at = l /\ t.op = client[c].op /\ t.key = k
        /\ t.version = next_version + 1
    <3>1. KeyOf(c) \in Keys /\ next_version + 1 \in Nat
      BY <1>0, <1>1 DEF k
    <3>2. t \in Client
      BY <1>1, <2>3, <3>1, IdleSound DEF Client, Places, Leasing
    <3>3. t.at = l /\ t.op = client[c].op /\ t.key = KeyOf(c) /\ t.version = next_version + 1
      BY DEF Idle
    <3> QED BY <3>2, <3>3 DEF k
  <2> HIDE DEF t
  <2>4. Sound(t)
    BY <1>1, <2>1, <2>3 DEF Sound
  <2>5. e.kind \in Made => (e.kind = "pending" <=> t.at = "pending")
    BY <1>2, <2>1, <2>3
  <2>6. KeyOf(c) = k
    BY DEF k
  <2>7. Safe'
    <3>1. t.at \in {"selecting", "pending"}
      BY <2>1, <2>3
    <3>2. e.kind \in Made => e.version = next_version + 1
      BY <1>2
    <3>3. e \in Entry
      BY <1>2
    <3> QED BY <1>1, <1>3, <2>1, <2>2, <2>4, <2>5, <2>6, <3>1, <3>2, <3>3, LeaseGiven
  <2>8. t.at # "bytes"
    BY <2>1, <2>3
  <2>9. At(c, "insert") => Reserving' = Reserving
    BY <1>0, <2>2, <2>8, ReservingSame DEF At
  <2>10. At(c, "bytes") => Cardinality(Reserving') = Cardinality(Reserving) - 1
    BY <1>0, <2>2, <2>8, CountReserving
  <2> QED BY <1>4, <2>7, <2>9, <2>10
<1> QED BY <1>5, <1>6

LEMMA ReserveSteps ==
  ASSUME IInv, NEW c \in Clients, ReserveEntry(c) \/ ReserveBytes(c)
  PROVE  IInv'
<1>0. /\ Safe /\ Types /\ client[c] \in Client /\ Sound(client[c])
      /\ entry_count = Cardinality(Present) + Cardinality(Reserving) /\ entry_count <= MaxEntries
      /\ Cardinality(Present) \in Nat /\ Cardinality(Reserving) \in Nat /\ MaxEntries \in Nat
      /\ UNCHANGED <<now, changed, sweep>>
  <2>1. UNCHANGED <<now, changed, sweep>>
    BY DEF ReserveEntry, ReserveBytes, callVars
  <2>2. Safe /\ Types /\ client[c] \in Client /\ Sound(client[c])
    BY DEF IInv, Safe, Types, ClientsSound
  <2> QED BY <2>1, <2>2, SmallSets, AffinityAssumption DEF IInv, CountExact
<1>1. ASSUME At(c, "insert"), entry_count < MaxEntries, entry_count' = entry_count + 1, Insert(c)
      PROVE  IInv'
  <2>1. Safe' /\ Cardinality(Present') = Cardinality(Present) + 1 /\ Reserving' = Reserving
    BY <1>0, <1>1, InsertStep DEF At
  <2> QED BY <1>0, <1>1, <2>1 DEF IInv, CountExact
<1>2. ASSUME At(c, "insert"), entry_count < MaxEntries, entry_count' = entry_count + 1,
             Set(c, [client[c] EXCEPT !.at = "bytes"]), UNCHANGED <<entry, locked, next_version>>
      PROVE  IInv'
  <2> DEFINE t == [client[c] EXCEPT !.at = "bytes"]
  <2>1. /\ t \in Client /\ t.at = "bytes" /\ t.key = client[c].key /\ t.op = client[c].op
    BY <1>0 DEF Client, Places
  <2>2. client' = [client EXCEPT ![c] = t]
    BY <1>2 DEF Set
  <2> HIDE DEF t
  <2>3. Sound(t) /\ ~IsHolder(t) /\ ~IsHolder(client[c])
    BY <1>0, <1>2, <2>1 DEF Sound, IsHolder, Leasing, At
  <2>4. locked'[Shard[t.key]] = c /\ entry'[t.key] = Absent
    BY <1>0, <1>2, <2>1 DEF Safe, LocksHeld, KeyOf, At
  <2>5. Shrinks /\ KeepsToLocks(c) /\ Wakes(c, t)
    BY <1>0, <1>2 DEF Shrinks, KeepsToLocks, Wakes, At
  <2>6. entry' \in [Keys -> Entry] /\ locked' \in [Shards -> Clients \cup {None}]
        /\ changed' \in [Clients -> BOOLEAN]
    BY <1>0, <1>2 DEF Types
  <2>7. Safe'
    BY <1>0, <1>2, <2>1, <2>2, <2>3, <2>4, <2>5, <2>6, RequestStep
  <2>8. Cardinality(Reserving') = Cardinality(Reserving) + 1
    BY <1>0, <1>2, <2>1, <2>2, CountReserving DEF At
  <2>9. Present' = Present
    BY <1>2 DEF Present
  <2> QED BY <1>0, <1>2, <2>7, <2>8, <2>9 DEF IInv, CountExact
<1>3. ASSUME At(c, "insert"), Full(c), UNCHANGED <<entry, entry_count>>
      PROVE  IInv'
  <2>1. Safe' /\ Reserving' = Reserving
    BY <1>0, <1>3, FullStep DEF At
  <2> QED BY <1>3, <2>1, CountKept DEF IInv
<1>4. ASSUME At(c, "bytes"), Insert(c), UNCHANGED entry_count
      PROVE  IInv'
  <2>1. Safe' /\ Cardinality(Present') = Cardinality(Present) + 1
        /\ Cardinality(Reserving') = Cardinality(Reserving) - 1
    BY <1>0, <1>4, InsertStep DEF At
  <2> QED BY <1>0, <1>4, <2>1 DEF IInv, CountExact
<1>5. ASSUME At(c, "bytes"), Full(c), entry_count' = entry_count - 1, UNCHANGED entry
      PROVE  IInv'
  <2>1. Safe' /\ Cardinality(Reserving') = Cardinality(Reserving) - 1
    BY <1>0, <1>5, FullStep DEF At
  <2>2. Present' = Present
    BY <1>5 DEF Present
  <2> QED BY <1>0, <1>5, <2>1, <2>2 DEF IInv, CountExact
<1> QED BY <1>1, <1>2, <1>3, <1>4, <1>5 DEF ReserveEntry, ReserveBytes

-----------------------------------------------------------------------------
(* Maintenance.                                                            *)
LEMMA SweepStep ==
  ASSUME IInv, NEW s \in Shards, SweepShard(s)
  PROVE  IInv'
<1> DEFINE ks == Swept(s)
           more == sweep.wake \/ \E k \in ks : entry[k].kind \in Made
<1>0. /\ Types /\ Safe /\ Remove(ks) /\ UNCHANGED <<now, locked, next_version, changed, client>>
      /\ sweep.op # None /\ sweep' = [sweep EXCEPT !.todo = @ \ {s}, !.wake = more]
  BY DEF IInv, Safe, SweepShard, callVars, Made
<1>1. more \in BOOLEAN
  OBVIOUS
<1>2. (\E k \in ks : entry[k].kind \in Made) \/ sweep.wake => more
  OBVIOUS
<1> HIDE DEF more, ks
<1>3. sweep' \in Sweep /\ sweep'.op = sweep.op /\ sweep'.wake = more
  BY <1>0, <1>1 DEF Types, Sweep
<1>4. /\ entry' \in [Keys -> Entry]
      /\ \A k \in Keys : IF k \in ks THEN entry'[k] = Absent ELSE entry'[k] = entry[k]
  BY <1>0, RemoveEntries
<1>5. Absent.kind \notin Made
  BY DEF Absent, Made
<1>6. Types' /\ ClientsSound' /\ LeasesDiffer' /\ LeaseHolders' = LeaseHolders
  BY <1>0, <1>3, <1>4 DEF Types, Safe, ClientsSound, LeasesDiffer, LeaseHolders, At
<1>7. LocksHeld'
  <2>1. \A c \in Clients : client[c].at \in {"insert", "bytes"} => client[c].key \in Keys
    BY DEF IInv, Safe, ClientsSound, Sound
  <2> QED BY <1>0, <1>4, <2>1 DEF Safe, LocksHeld, KeyOf
<1>8. AllLeased'
  <2> SUFFICES ASSUME NEW k \in Keys, entry'[k].kind \in Made PROVE Leased(k)'
    BY DEF AllLeased
  <2>1. entry'[k] = entry[k]
    BY <1>4, <1>5
  <2>2. Leased(k)
    BY <2>1, <1>0 DEF Safe, AllLeased
  <2> QED BY <1>0, <1>6, <2>1, <2>2 DEF Leased, KeyOf, At
<1>9. NoLostWakeup'
  <2> SUFFICES ASSUME NEW d \in Clients, client'[d].at = "sleep"
               PROVE  \/ entry'[client'[d].key].kind \in Made \/ changed'[d]
                      \/ \E x \in Clients : client'[x].at = "wake"
                      \/ sweep'.op # None /\ sweep'.wake
    BY DEF NoLostWakeup, At, KeyOf, Made
  <2>1. client[d].at = "sleep" /\ client[d].key \in Keys
    BY <1>0 DEF Safe, ClientsSound, Sound
  <2>2. \/ entry[client[d].key].kind \in Made \/ changed[d]
        \/ \E x \in Clients : client[x].at = "wake"
        \/ sweep.op # None /\ sweep.wake
    BY <1>0, <2>1 DEF Safe, NoLostWakeup, At, KeyOf, Made
  <2>3. CASE entry[client[d].key].kind \in Made
    <3>1. CASE client[d].key \in ks
      BY <1>0, <1>2, <1>3, <2>3, <3>1
    <3>2. CASE client[d].key \notin ks
      BY <1>0, <1>4, <2>1, <2>3, <3>2
    <3> QED BY <3>1, <3>2
  <2> QED BY <1>0, <1>2, <1>3, <2>2, <2>3
<1>10. CountExact'
  <2>1. Reserving' = Reserving
    BY <1>0 DEF Reserving, At
  <2> QED BY <1>0, <2>1, CountRemoved DEF IInv
<1> QED BY <1>6, <1>7, <1>8, <1>9, <1>10 DEF IInv, Safe

LEMMA MaintenanceSteps ==
  ASSUME IInv,
         \/ Tick \/ EndSweep \/ UNCHANGED vars
         \/ \E op \in {"all", "credential", "expired"},
              c \in Clients \cup {None} : BeginSweep(op, c)
  PROVE  IInv'
<1>0. Types /\ UNCHANGED <<entry, entry_count, locked, next_version, client>> /\ Safe
  BY DEF IInv, Safe, Tick, EndSweep, BeginSweep, vars, callVars, registryVars
<1>1. now' \in Nat /\ sweep' \in Sweep /\ changed' \in [Clients -> BOOLEAN]
  <2>1. CASE Tick \/ UNCHANGED vars
    BY <1>0, <2>1 DEF Tick, vars, Types
  <2>2. CASE EndSweep
    BY <1>0, <2>2 DEF EndSweep, Types, NoSweep, Sweep, callVars
  <2>3. ASSUME NEW op \in {"all", "credential", "expired"}, NEW c \in Clients \cup {None},
               BeginSweep(op, c)
        PROVE  now' \in Nat /\ sweep' \in Sweep /\ changed' \in [Clients -> BOOLEAN]
    BY <1>0, <2>3 DEF BeginSweep, Types, Sweep, callVars
  <2> QED BY <2>1, <2>2, <2>3
<1>2. Types' /\ ClientsSound' /\ LocksHeld' /\ LeasesDiffer' /\ AllLeased'
  BY <1>0, <1>1 DEF Types, Safe, ClientsSound, LocksHeld, LeasesDiffer, AllLeased, Leased,
                    LeaseHolders, KeyOf, At
<1>3. ASSUME NEW d \in Clients, At(d, "sleep"), changed[d] \/ (sweep.op # None /\ sweep.wake)
      PROVE  changed'[d] \/ (sweep'.op # None /\ sweep'.wake)
  BY <1>0, <1>3 DEF Tick, EndSweep, BeginSweep, vars, At
<1>4. NoLostWakeup'
  BY <1>0, <1>3 DEF Safe, NoLostWakeup, KeyOf, At
<1>5. CountExact'
  BY <1>0 DEF IInv, CountExact, Present, Reserving, At
<1> QED BY <1>2, <1>4, <1>5 DEF IInv, Safe

-----------------------------------------------------------------------------
LEMMA InitIInv == Init => IInv
<1> SUFFICES ASSUME Init PROVE IInv
  OBVIOUS
<1>1. Types
  BY NewEntries, IdleSound DEF Init, Types, Entry, Absent, NoSweep, Sweep
<1>2. \A c \in Clients : client[c] = Idle /\ client[c].at = "idle" /\ Sound(client[c])
                         /\ ~IsHolder(client[c])
  BY IdleSound DEF Init
<1>3. ClientsSound /\ LocksHeld /\ NoLostWakeup
  BY <1>2 DEF ClientsSound, LocksHeld, NoLostWakeup, At
<1>4. LeasesDiffer
  BY <1>2 DEF LeasesDiffer, LeaseHolders, At, IsHolder, Leasing
<1>5. AllLeased
  BY DEF AllLeased, Init, Absent, Made
<1>6. CountExact
  <2>1. Present = {} /\ Reserving = {}
    BY <1>2 DEF Present, Reserving, Init, At
  <2>2. Cardinality({}) = 0
    BY FS_EmptySet
  <2> QED BY <2>1, <2>2, AffinityAssumption DEF CountExact, Init
<1> QED BY <1>1, <1>3, <1>4, <1>5, <1>6 DEF IInv, Safe

LEMMA NextIInv == IInv /\ [Next]_vars => IInv'
<1> SUFFICES ASSUME IInv, [Next]_vars PROVE IInv'
  OBVIOUS
<1>1. ASSUME NEW c \in Clients, Request(c) PROVE IInv'
  <2>1. \E op \in Ops, k \in Keys, b \in Sizes : Begin(c, op, k, b)
    BY <1>1, SizesFit DEF Request, Ops, Keys
  <2> QED BY <2>1, BeginStep
<1>2. ASSUME NEW c \in Clients, Step(c) PROVE IInv'
  BY <1>2, LocalSteps, ExpiringSteps, UseStep, ReserveSteps, WakeStep DEF Step
<1>3. ASSUME NEW c \in Clients, Lease(c) PROVE IInv'
  BY <1>3, LeaseSteps, MarkStep, ReadClockStep, DeadlineStep DEF Lease
<1>4. ASSUME NEW c \in Clients, RetryCandidate(c) \/ GiveUp(c) PROVE IInv'
  BY <1>4, LocalSteps
<1>5. CASE Maintenance
  BY <1>5, SweepStep, MaintenanceSteps DEF Maintenance
<1> QED BY <1>1, <1>2, <1>3, <1>4, <1>5, MaintenanceSteps DEF Next

(* The registry is consistent in every reachable state.                    *)
THEOREM InvariantHolds == Spec => []IInv
<1> QED BY InitIInv, NextIInv, PTL DEF Spec

(* Nobody waits for a creator that is gone, and no lease touches what      *)
(* another one created.                                                    *)
THEOREM NothingIsOrphaned == Spec => []NoOrphan
<1>1. IInv => NoOrphan
  BY DEF IInv, Safe, AllLeased, Leased, LeasesDiffer, NoOrphan, Made
<1> QED BY <1>1, InvariantHolds, PTL

(* Who sleeps on a binding that is being created is told when it is        *)
(* committed, dropped, released or cleared.                                *)
THEOREM WaitersAreTold == Spec => []NoLostWakeup
<1>1. IInv => NoLostWakeup
  BY DEF IInv, Safe
<1> QED BY <1>1, InvariantHolds, PTL

(* A binding is never rebound in place: a request that finds a live one    *)
(* uses it, and a late commit touches only what its own lease created.     *)
THEOREM SessionsStay == Spec => SessionKeepsItsCredential
<1> DEFINE Keeps(k) == entry[k].kind = "session" /\ entry'[k].kind = "session" =>
                         entry'[k].owner = entry[k].owner
<1>1. ASSUME IInv, [Next]_vars, NEW k \in Keys PROVE Keeps(k)
  <2>0. Types /\ Safe /\ entry \in [Keys -> Entry] /\ entry[k] \in Entry
    BY <1>1 DEF IInv, Safe, Types
  <2>1. CASE UNCHANGED entry
    BY <2>1
  <2>2. ASSUME NEW ks, Remove(ks) PROVE Keeps(k)
    <3>1. entry'[k] = Absent \/ entry'[k] = entry[k]
      BY <2>0, <2>2, RemoveEntries
    <3> QED BY <3>1 DEF Absent
  <2>3. ASSUME NEW c \in Clients, Use(c) PROVE Keeps(k)
    <3> DEFINE v == IF client[c].op = "bind" THEN now ELSE client[c].clock
    <3>1. client[c] \in Client /\ now \in Nat
      BY <2>0 DEF Types
    <3>2. v \in Nat
      BY <3>1 DEF Client
    <3>3. entry' = [entry EXCEPT ![KeyOf(c)].seen_at = v]
      BY <2>3 DEF Use
    <3> HIDE DEF v
    <3>4. entry'[k] = entry[k] \/ entry'[k] = [entry[k] EXCEPT !.seen_at = v]
      BY <2>0, <3>3
    <3> QED BY <2>0, <3>2, <3>4, Refreshed
  <2>4. ASSUME NEW c \in Clients, client[c].at \in {"insert", "bytes"}, Insert(c) PROVE Keeps(k)
    <3>1. entry[KeyOf(c)] = Absent
      BY <2>0, <2>4 DEF Safe, LocksHeld
    <3>2. k = KeyOf(c) \/ entry'[k] = entry[k]
      BY <2>0, <2>4 DEF Insert
    <3> QED BY <3>1, <3>2 DEF Absent
  <2>5. ASSUME NEW c \in Clients, Current(c), NEW e, Replace(KeyOf(c), e) PROVE Keeps(k)
    <3>1. entry[KeyOf(c)].kind # "session"
      BY <2>5 DEF Current
    <3>2. k = KeyOf(c) \/ entry'[k] = entry[k]
      BY <2>0, <2>5 DEF Replace
    <3> QED BY <3>1, <3>2
  <2>6. ASSUME NEW c \in Clients, MarkAttempting(c) PROVE Keeps(k)
    <3>1. CASE Current(c)
      <4>1. entry[KeyOf(c)].kind # "session"
        BY <3>1 DEF Current
      <4>2. k = KeyOf(c) \/ entry'[k] = entry[k]
        BY <2>0, <2>6, <3>1 DEF MarkAttempting
      <4> QED BY <4>1, <4>2
    <3>2. CASE ~Current(c)
      BY <2>6, <3>2 DEF MarkAttempting
    <3> QED BY <3>1, <3>2
  <2>7. ASSUME NEW c \in Clients, ReserveEntry(c) \/ ReserveBytes(c) PROVE Keeps(k)
    BY <2>4, <2>7 DEF ReserveEntry, ReserveBytes, At
  <2>8. ASSUME NEW c \in Clients, Commit(c) \/ \E b \in StateBytes : MakeReady(c, b)
        PROVE Keeps(k)
    BY <2>1, <2>5, <2>8 DEF Commit, MakeReady, registryVars
  <2>9. ASSUME NEW c \in Clients,
               \/ Missing(c) \/ Prepare(c) \/ ReleaseForWait(c) \/ DropLease(c)
               \/ \E s \in Shards : ReclaimShard(c, s)
        PROVE  Keeps(k)
    BY <2>1, <2>2, <2>9 DEF Missing, Prepare, ReleaseForWait, DropLease, ReclaimShard,
       registryVars
  <2>10. ASSUME NEW s \in Shards, SweepShard(s) PROVE Keeps(k)
    BY <2>2, <2>10 DEF SweepShard
  <2>11. ASSUME NEW c \in Clients, Request(c) \/ Step(c) \/ Lease(c) \/ RetryCandidate(c)
                  \/ GiveUp(c)
         PROVE  Keeps(k)
    <3>1. CASE entry' = entry
      BY <2>1, <3>1
    <3>2. CASE entry' # entry
      <4>1. ~Request(c) /\ ~RetryCandidate(c) /\ ~GiveUp(c)
        BY <3>2 DEF Request, Begin, RetryCandidate, GiveUp, registryVars
      <4>2. CASE Step(c)
        BY <2>3, <2>7, <2>9, <3>2, <4>2
           DEF Step, Observe, WaitForCreator, BeginReclaim, EndReclaim, WakeWaiters,
               ReleaseObserved, WakeByChange, registryVars
      <4>3. CASE Lease(c)
        BY <2>6, <2>8, <2>9, <3>2, <4>3 DEF Lease, ReadCommitClock, DeadlineExceeded,
           registryVars
      <4> QED BY <2>11, <4>1, <4>2, <4>3
    <3> QED BY <3>1, <3>2
  <2> QED BY <1>1, <2>1, <2>10, <2>11
          DEF Next, Maintenance, Tick, EndSweep, BeginSweep, vars, registryVars
<1>2. IInv /\ [Next]_vars => [\A k \in Sessions : Keeps(k)]_vars
  BY <1>1 DEF Keys
<1> QED BY <1>2, InvariantHolds, PTL DEF Spec, SessionKeepsItsCredential

-----------------------------------------------------------------------------
(* The bytes, counted one by one.                                          *)
Cells(en, ks) == {b \in ks \X (1 .. PendingBytes) : b[2] <= Footprint(en[b[1]])}
Fits(e) == Footprint(e) \in Sizes

LEMMA CellsFinite ==
  ASSUME NEW en, NEW ks \in SUBSET Keys
  PROVE  IsFiniteSet(Cells(en, ks)) /\ Cardinality(Cells(en, ks)) \in Nat
<1>1. IsFiniteSet(ks)
  BY AffinityAssumption, FS_Subset
<1>2. IsFiniteSet(1 .. PendingBytes)
  BY AffinityAssumption, FS_Interval
<1>3. IsFiniteSet(ks \X (1 .. PendingBytes))
  BY <1>1, <1>2, FS_Product
<1>4. Cells(en, ks) \in SUBSET (ks \X (1 .. PendingBytes))
  BY DEF Cells
<1> QED BY <1>3, <1>4, FS_Subset, FS_CardinalityType

LEMMA CellsOfOne ==
  ASSUME NEW en, NEW k \in Keys, Fits(en[k])
  PROVE  Cardinality(Cells(en, {k})) = Footprint(en[k])
<1> DEFINE n == Footprint(en[k])
<1>1. n \in 0 .. PendingBytes /\ PendingBytes \in Nat
  BY AffinityAssumption DEF Fits, Sizes
<1>2. Cells(en, {k}) = {k} \X (1 .. n)
  BY <1>1 DEF Cells
<1> HIDE DEF n
<1>3. IsFiniteSet(1 .. n) /\ Cardinality(1 .. n) = n
  BY <1>1, FS_Interval
<1>4. IsFiniteSet({k}) /\ Cardinality({k}) = 1
  BY FS_Singleton
<1>5. Cardinality({k} \X (1 .. n)) = 1 * n
  BY <1>3, <1>4, FS_Product
<1>6. 1 * n = n
  BY <1>1
<1> QED BY <1>2, <1>5, <1>6 DEF n

(* One entry changes, and with it the sum.                                 *)
LEMMA CellsChange ==
  ASSUME NEW en, NEW fn, NEW k \in Keys, Fits(en[k]), Fits(fn[k]),
         \A j \in Keys : j # k => Footprint(fn[j]) = Footprint(en[j])
  PROVE  Cardinality(Cells(fn, Keys)) =
           Cardinality(Cells(en, Keys)) - Footprint(en[k]) + Footprint(fn[k])
<1> DEFINE rest == Keys \ {k}
<1>1. ASSUME NEW f, Fits(f[k])
      PROVE  Cardinality(Cells(f, Keys)) = Cardinality(Cells(f, rest)) + Footprint(f[k])
  <2>1. /\ Cells(f, Keys) = Cells(f, rest) \cup Cells(f, {k})
        /\ Cells(f, rest) \cap Cells(f, {k}) = {}
    BY DEF Cells
  <2>2. /\ IsFiniteSet(Cells(f, rest)) /\ IsFiniteSet(Cells(f, {k}))
        /\ Cardinality(Cells(f, rest)) \in Nat
    BY CellsFinite
  <2>3. Cardinality(Cells(f, {k})) = Footprint(f[k]) /\ Footprint(f[k]) \in Nat
    BY <1>1, CellsOfOne, AffinityAssumption DEF Fits, Sizes
  <2>4. Cardinality({}) = 0
    BY FS_EmptySet
  <2>5. Cardinality(Cells(f, rest) \cup Cells(f, {k})) =
          Cardinality(Cells(f, rest)) + Cardinality(Cells(f, {k}))
            - Cardinality(Cells(f, rest) \cap Cells(f, {k}))
    BY <2>2, FS_Union
  <2>6. Cardinality(Cells(f, rest) \cap Cells(f, {k})) = 0
    BY <2>1, <2>4
  <2> HIDE DEF rest
  <2> QED BY <2>1, <2>2, <2>3, <2>5, <2>6
<1>2. Cells(fn, rest) = Cells(en, rest)
  BY DEF Cells
<1>3. /\ Cardinality(Cells(en, rest)) \in Nat
      /\ Footprint(en[k]) \in Nat /\ Footprint(fn[k]) \in Nat
  BY CellsFinite, AffinityAssumption DEF Fits, Sizes
<1>4. /\ Cardinality(Cells(en, Keys)) = Cardinality(Cells(en, rest)) + Footprint(en[k])
      /\ Cardinality(Cells(fn, Keys)) = Cardinality(Cells(fn, rest)) + Footprint(fn[k])
  BY <1>1
<1> HIDE DEF rest
<1> QED BY <1>2, <1>3, <1>4

LEMMA EntriesFit == \A e \in Entry : Fits(e)
<1> SUFFICES ASSUME NEW e \in Entry PROVE Fits(e)
  OBVIOUS
<1>1. CASE e.kind = "ready"
  <2>1. e.bytes \in Sizes
    BY <1>1, Kinds
  <2> QED BY <1>1, <2>1 DEF Fits, Footprint
<1>2. CASE e.kind # "ready"
  BY <1>2, AffinityAssumption DEF Fits, Footprint, Sizes
<1> QED BY <1>1, <1>2

LEMMA AbsentIsFree == Footprint(Absent) = 0 /\ Fits(Absent)
<1>1. Footprint(Absent) = 0
  BY DEF Footprint, Absent
<1> QED BY <1>1, AffinityAssumption DEF Fits, Sizes

(* Removing entries gives their bytes back.                                *)
LEMMA BytesRemoved ==
  ASSUME Types, BytesExact, NEW ks, Remove(ks)
  PROVE  BytesExact'
<1> DEFINE gone == Cells(entry, ks \cap Present)
<1>1. \A k \in Keys : IF k \in ks THEN entry'[k] = Absent ELSE entry'[k] = entry[k]
  BY RemoveEntries
<1>2. ASSUME NEW k \in Keys
      PROVE  Footprint(entry'[k]) = IF k \in ks \cap Present THEN 0 ELSE Footprint(entry[k])
  BY <1>1, AbsentIsFree DEF Present
<1>3. Cells(entry', Keys) = Cells(entry, Keys) \ gone
  <2>1. ASSUME NEW b \in Keys \X (1 .. PendingBytes)
        PROVE  b \in Cells(entry', Keys) <=> b \in Cells(entry, Keys) /\ b \notin gone
    <3>1. b[1] \in Keys /\ b[2] \in 1 .. PendingBytes /\ b = <<b[1], b[2]>>
      OBVIOUS
    <3>2. /\ b \in Cells(entry', Keys) <=> b[2] <= Footprint(entry'[b[1]])
          /\ b \in Cells(entry, Keys) <=> b[2] <= Footprint(entry[b[1]])
          /\ b \in gone <=> b[1] \in ks \cap Present /\ b[2] <= Footprint(entry[b[1]])
      BY <3>1 DEF Cells
    <3>3. ~(b[2] <= 0)
      BY <3>1
    <3> QED BY <1>2, <3>1, <3>2, <3>3
  <2>2. Cells(entry', Keys) \subseteq Keys \X (1 .. PendingBytes)
        /\ Cells(entry, Keys) \subseteq Keys \X (1 .. PendingBytes)
    BY DEF Cells
  <2> QED BY <2>1, <2>2
<1>4. gone \subseteq Cells(entry, Keys)
  BY DEF Cells, Present
<1>5. /\ IsFiniteSet(Cells(entry, Keys)) /\ Cardinality(Cells(entry, Keys)) \in Nat
      /\ Cardinality(gone) \in Nat
  BY CellsFinite DEF Present
<1>6. continuation_bytes' = continuation_bytes - Cardinality(gone)
  BY DEF Remove, Booked, Cells
<1>7. continuation_bytes = Cardinality(Cells(entry, Keys)) /\ continuation_bytes <= MaxBytes
  BY DEF BytesExact, Booked, Cells
<1> HIDE DEF gone
<1>8. Cardinality(Cells(entry, Keys) \ gone) = Cardinality(Cells(entry, Keys)) - Cardinality(gone)
  <2>1. Cells(entry, Keys) \cap gone = gone
    BY <1>4
  <2> QED BY <1>5, <2>1, FS_Difference
<1>9. /\ continuation_bytes' = Cardinality(Cells(entry', Keys))
      /\ continuation_bytes' <= MaxBytes
  BY <1>3, <1>5, <1>6, <1>7, <1>8, AffinityAssumption
<1> QED BY <1>9 DEF BytesExact, Booked, Cells

(* One entry is replaced, inserted or refreshed.                           *)
LEMMA BytesChanged ==
  ASSUME Types, BytesExact, NEW k \in Keys, NEW e, Fits(e),
         entry' = [entry EXCEPT ![k] = e],
         continuation_bytes' = continuation_bytes - (Footprint(entry[k]) - Footprint(e)),
         Footprint(e) <= Footprint(entry[k]) \/ continuation_bytes' <= MaxBytes
  PROVE  BytesExact'
<1>1. entry'[k] = e /\ \A j \in Keys : j # k => entry'[j] = entry[j]
  BY DEF Types
<1>2. Fits(entry[k]) /\ Fits(entry'[k])
  BY <1>1, EntriesFit DEF Types
<1>3. Cardinality(Cells(entry', Keys)) =
        Cardinality(Cells(entry, Keys)) - Footprint(entry[k]) + Footprint(entry'[k])
  BY <1>1, <1>2, CellsChange
<1>4. continuation_bytes = Cardinality(Cells(entry, Keys)) /\ continuation_bytes <= MaxBytes
  BY DEF BytesExact, Booked, Cells
<1>5. /\ Cardinality(Cells(entry, Keys)) \in Nat /\ MaxBytes \in Nat
      /\ Footprint(entry[k]) \in Nat /\ Footprint(e) \in Nat
  BY <1>2, CellsFinite, AffinityAssumption DEF Fits, Sizes
<1>6. /\ continuation_bytes' = Cardinality(Cells(entry', Keys))
      /\ continuation_bytes' <= MaxBytes
  BY <1>1, <1>3, <1>4, <1>5
<1> QED BY <1>1, <1>6 DEF BytesExact, Booked, Cells

(* The sizes of the entries that are made.                                 *)
LEMMA Footprints ==
  ASSUME NEW c, NEW v, NEW t, NEW b, NEW e \in Entry
  PROVE  /\ Footprint(Session(c, t)) = 0 /\ Footprint(Pending(c, v)) = PendingBytes
         /\ Footprint(Creating(v, "selecting")) = 0 /\ Footprint(Ready(c, t, b)) = b
         /\ Footprint([e EXCEPT !.seen_at = t]) = Footprint(e)
         /\ e.kind = "pending" => Footprint(e) = PendingBytes
         /\ e.kind = "creating" =>
              Footprint(e) = 0 /\ Footprint([e EXCEPT !.phase = "attempting"]) = 0
<1>1. /\ Footprint(Session(c, t)) = 0 /\ Footprint(Pending(c, v)) = PendingBytes
      /\ Footprint(Creating(v, "selecting")) = 0 /\ Footprint(Ready(c, t, b)) = b
  BY DEF Footprint, Session, Pending, Creating, Ready
<1>2. Footprint([e EXCEPT !.seen_at = t]) = Footprint(e)
  <2>1. CASE e.kind = "ready"
    <3>1. e \in [kind : {"ready"}, owner : Clients, seen_at : Nat, bytes : Sizes]
      BY <2>1, Kinds
    <3>2. [e EXCEPT !.seen_at = t].kind = "ready" /\ [e EXCEPT !.seen_at = t].bytes = e.bytes
      BY <2>1, <3>1
    <3> QED BY <2>1, <3>2 DEF Footprint
  <2>2. CASE e.kind # "ready"
    <3>1. [e EXCEPT !.seen_at = t].kind = e.kind
      <4>1. e = [f \in DOMAIN e |-> e[f]] /\ "kind" \in DOMAIN e
        BY DEF Entry
      <4> QED BY <4>1
    <3> QED BY <2>2, <3>1 DEF Footprint
  <2> QED BY <2>1, <2>2
<1>3. e.kind = "pending" => Footprint(e) = PendingBytes
  BY DEF Footprint
<1>4. ASSUME e.kind = "creating"
      PROVE  Footprint(e) = 0 /\ Footprint([e EXCEPT !.phase = "attempting"]) = 0
  <2>1. e \in [kind : {"creating"}, version : Nat, phase : {"selecting", "attempting"}]
    BY <1>4, Kinds
  <2>2. [e EXCEPT !.phase = "attempting"].kind = "creating"
    BY <2>1
  <2> QED BY <1>4, <2>2 DEF Footprint
<1> QED BY <1>1, <1>2, <1>3, <1>4

(* Every step keeps the byte budget exact.                                 *)
LEMMA BytesStep == IInv /\ BytesExact /\ [Next]_vars => BytesExact'
<1> SUFFICES ASSUME IInv, BytesExact, [Next]_vars PROVE BytesExact'
  OBVIOUS
<1>0. Safe /\ Types /\ entry \in [Keys -> Entry] /\ \A c \in Clients : client[c] \in Client
  BY DEF IInv, Safe, Types
<1>1. ASSUME UNCHANGED <<entry, continuation_bytes>> PROVE BytesExact'
  BY <1>1 DEF BytesExact, Booked
<1>2. ASSUME NEW ks, Remove(ks) PROVE BytesExact'
  BY <1>0, <1>2, BytesRemoved
<1>3. ASSUME NEW c \in Clients, client[c].at # "idle"
      PROVE  KeyOf(c) \in Keys /\ entry[KeyOf(c)] \in Entry /\ client[c].op \in Ops
  BY <1>0, <1>3 DEF Safe, ClientsSound, Sound, KeyOf
<1>4. ASSUME NEW c \in Clients, Use(c) PROVE BytesExact'
  <2> DEFINE k == KeyOf(c)
             v == IF client[c].op = "bind" THEN now ELSE client[c].clock
             e == [entry[k] EXCEPT !.seen_at = v]
  <2>1. k \in Keys /\ entry[k] \in Entry
    BY <1>3, <1>4 DEF Use, At
  <2>2. entry' = [entry EXCEPT ![k] = e] /\ UNCHANGED continuation_bytes
    BY <1>0, <1>4, <2>1 DEF Use
  <2>3. Footprint(e) = Footprint(entry[k])
    BY <2>1, Footprints
  <2>4. Fits(entry[k])
    BY <2>1, EntriesFit
  <2> HIDE DEF k, v, e
  <2>5. Fits(e) /\ Footprint(entry[k]) \in Nat /\ continuation_bytes \in Nat
    BY <2>3, <2>4, SizesFit, CellsFinite DEF Fits, BytesExact, Booked, Cells
  <2>6. continuation_bytes' = continuation_bytes - (Footprint(entry[k]) - Footprint(e))
        /\ Footprint(e) <= Footprint(entry[k])
    BY <2>2, <2>3, <2>5
  <2> QED BY <1>0, <2>1, <2>2, <2>5, <2>6, BytesChanged
<1>5. ASSUME NEW c \in Clients, MarkAttempting(c), Current(c) PROVE BytesExact'
  <2> DEFINE k == KeyOf(c)
             e == [entry[k] EXCEPT !.phase = "attempting"]
  <2>1. k \in Keys /\ entry[k] \in Entry /\ client[c].at = "selecting"
    BY <1>3, <1>5 DEF MarkAttempting, At
  <2>2. entry' = [entry EXCEPT ![k] = e] /\ UNCHANGED continuation_bytes
    BY <1>0, <1>5, <2>1 DEF MarkAttempting
  <2>3. entry[k].kind = "creating"
    BY <1>0, <1>5, <2>1, CurrentIsOwn DEF IsHolder, Leasing, At, Made
  <2>4. Footprint(e) = 0 /\ Footprint(entry[k]) = 0
    BY <2>1, <2>3, Footprints
  <2> HIDE DEF k, e
  <2>5. Fits(e) /\ continuation_bytes \in Nat
    BY <2>4, SizesFit, CellsFinite DEF Fits, BytesExact, Booked, Cells
  <2>6. continuation_bytes' = continuation_bytes - (Footprint(entry[k]) - Footprint(e))
        /\ Footprint(e) <= Footprint(entry[k])
    BY <2>2, <2>4, <2>5
  <2> QED BY <1>0, <2>1, <2>2, <2>5, <2>6, BytesChanged
<1>6. ASSUME NEW c \in Clients, client[c].at \in {"insert", "bytes"}, Insert(c),
             continuation_bytes' = continuation_bytes + Footprint(NewEntry(c)),
             Footprint(NewEntry(c)) = 0 \/ continuation_bytes' <= MaxBytes
      PROVE  BytesExact'
  <2> DEFINE k == KeyOf(c)
             e == NewEntry(c)
  <2>1. k \in Keys /\ client[c].op \in Ops /\ client[c].bytes \in Sizes
    BY <1>0, <1>3, <1>6 DEF Client
  <2>2. entry[k] = Absent
    BY <1>0, <1>6 DEF Safe, LocksHeld
  <2>3. Fits(e)
    BY <2>1, Footprints, NewEntries, SizesFit, AffinityAssumption
       DEF NewEntry, Fits, Sizes, Ready, Pending, Creating, Footprint
  <2>4. entry' = [entry EXCEPT ![k] = e]
    BY <1>6 DEF Insert
  <2>5. Footprint(entry[k]) = 0
    BY <2>2, AbsentIsFree
  <2>7. continuation_bytes' = continuation_bytes + Footprint(e)
        /\ (Footprint(e) = 0 \/ continuation_bytes' <= MaxBytes)
    BY <1>6
  <2> HIDE DEF k, e
  <2>6. Footprint(e) \in Nat /\ continuation_bytes \in Nat
    BY <2>3, SizesFit, CellsFinite DEF Fits, BytesExact, Booked, Cells
  <2>8. continuation_bytes' = continuation_bytes - (Footprint(entry[k]) - Footprint(e))
        /\ (Footprint(e) <= Footprint(entry[k]) \/ continuation_bytes' <= MaxBytes)
    BY <2>5, <2>6, <2>7
  <2> QED BY <1>0, <2>1, <2>3, <2>4, <2>8, BytesChanged
<1>7. ASSUME NEW c \in Clients, Commit(c), Current(c) PROVE BytesExact'
  <2> DEFINE k == KeyOf(c)
             e == Session(c, client[c].clock)
  <2>1. k \in Keys /\ entry[k] \in Entry
    BY <1>3, <1>7 DEF Commit, At
  <2>2. Replace(k, e)
    BY <1>7 DEF Commit
  <2>3. Footprint(e) = 0
    BY DEF Footprint, Session
  <2>4. Fits(e) /\ Fits(entry[k])
    BY <2>1, <2>3, SizesFit, EntriesFit DEF Fits
  <2> HIDE DEF k, e
  <2>5. Footprint(e) <= Footprint(entry[k])
    BY <2>3, <2>4 DEF Fits, Sizes
  <2> QED BY <1>0, <2>1, <2>2, <2>4, <2>5, BytesChanged DEF Replace
<1>8. ASSUME NEW c \in Clients, NEW b \in StateBytes, MakeReady(c, b), Current(c)
      PROVE  BytesExact'
  <2> DEFINE k == KeyOf(c)
             e == Ready(c, now, b)
  <2>1. k \in Keys /\ entry[k] \in Entry /\ At(c, "pending")
    BY <1>3, <1>8 DEF MakeReady, At
  <2>2. Replace(k, e)
    BY <1>8 DEF MakeReady
  <2>3. entry[k].kind = "pending"
    BY <1>0, <1>8, <2>1, CurrentIsOwn DEF IsHolder, Leasing, At
  <2>4. Footprint(e) = b /\ Footprint(entry[k]) = PendingBytes
    BY <2>3 DEF Footprint, Ready
  <2> HIDE DEF k, e
  <2>5. Fits(e) /\ Footprint(e) <= Footprint(entry[k])
    BY <2>4, AffinityAssumption DEF Fits, Sizes
  <2> QED BY <1>0, <2>1, <2>2, <2>5, BytesChanged DEF Replace
<1>9. ASSUME NEW c \in Clients, ReserveEntry(c) \/ ReserveBytes(c) PROVE BytesExact'
  <2>1. CASE ReserveEntry(c)
    <3>1. UNCHANGED continuation_bytes /\ client[c].at = "insert"
      BY <2>1 DEF ReserveEntry, At
    <3>2. CASE UNCHANGED entry
      BY <1>1, <3>1, <3>2
    <3>3. CASE Footprint(NewEntry(c)) = 0 /\ Insert(c)
      <4>1. continuation_bytes \in Nat
        BY CellsFinite DEF BytesExact, Booked, Cells
      <4>2. continuation_bytes' = continuation_bytes + Footprint(NewEntry(c))
        BY <3>1, <3>3, <4>1
      <4> QED BY <1>6, <3>1, <3>3, <4>2
    <3> QED BY <2>1, <3>2, <3>3 DEF ReserveEntry
  <2>2. CASE ReserveBytes(c)
    <3>1. CASE UNCHANGED <<entry, continuation_bytes>>
      BY <1>1, <3>1
    <3>2. CASE /\ continuation_bytes + Footprint(NewEntry(c)) <= MaxBytes
               /\ continuation_bytes' = continuation_bytes + Footprint(NewEntry(c)) /\ Insert(c)
      BY <1>6, <2>2, <3>2 DEF ReserveBytes, At
    <3> QED BY <2>2, <3>1, <3>2 DEF ReserveBytes
  <2> QED BY <1>9, <2>1, <2>2
<1>10. ASSUME NEW c \in Clients,
              \/ Request(c) \/ Step(c) \/ Lease(c) \/ RetryCandidate(c) \/ GiveUp(c)
       PROVE  BytesExact'
  <2>1. CASE Request(c) \/ RetryCandidate(c) \/ GiveUp(c)
    BY <1>1, <2>1 DEF Request, Begin, RetryCandidate, GiveUp, registryVars
  <2>2. CASE Step(c)
    BY <1>1, <1>2, <1>4, <1>9, <2>2
       DEF Step, Observe, Missing, WaitForCreator, Prepare, BeginReclaim, ReclaimShard,
           EndReclaim, WakeWaiters, ReleaseObserved, WakeByChange, registryVars
  <2>3. CASE Lease(c)
    <3>1. CASE Current(c)
      BY <1>1, <1>2, <1>5, <1>7, <1>8, <2>3, <3>1
         DEF Lease, ReleaseForWait, DropLease, ReadCommitClock, DeadlineExceeded, registryVars
    <3>2. CASE ~Current(c)
      BY <1>1, <2>3, <3>2 DEF Lease, MarkAttempting, ReleaseForWait, ReadCommitClock, Commit,
         MakeReady, DropLease, DeadlineExceeded, registryVars
    <3> QED BY <3>1, <3>2
  <2> QED BY <1>10, <2>1, <2>2, <2>3
<1> QED BY <1>1, <1>2, <1>10
        DEF Next, Maintenance, SweepShard, EndSweep, Tick, BeginSweep, vars, registryVars

(* Both budgets of ShardedBindings are exact and within their limits, for  *)
(* any number of shards, keys and requests and whatever sizes the states   *)
(* have: a reservation that does not fit is given back, a state that is    *)
(* stored returns what it did not need, and nothing is returned twice.     *)
THEOREM BudgetsHold == Spec => []BudgetsAreExact
<1>1. Init => BytesExact
  <2> SUFFICES ASSUME Init PROVE BytesExact
    OBVIOUS
  <2>1. Booked(Keys) = {}
    <3>1. \A k \in Keys : Footprint(entry[k]) = 0
      BY AbsentIsFree DEF Init
    <3> QED BY <3>1 DEF Booked
  <2>2. Cardinality({}) = 0
    BY FS_EmptySet
  <2> QED BY <2>1, <2>2, AffinityAssumption DEF BytesExact, Init
<1>2. IInv => CountExact
  BY DEF IInv
<1> QED BY <1>1, <1>2, BytesStep, InvariantHolds, PTL DEF Spec, BudgetsAreExact
=============================================================================
