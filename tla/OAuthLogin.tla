----------------------------- MODULE OAuthLogin -----------------------------
(***************************************************************************)
(* The login sessions of OAuth accounts (oauth/login/session, oauth/       *)
(* coordinator.rs) and the pacer of the control plane.                     *)
(*                                                                         *)
(* A login is a session of a bounded store.  A session of the              *)
(* authorization code flow is taken out of the store by its first          *)
(* callback; one of the device flow is lent to one poll at a time and put  *)
(* back with the instant of its next poll.  The HTTP handler that polls    *)
(* may be dropped at every await, clocks are read before the store is      *)
(* locked, and sessions expire while they are lent.  All requests to a     *)
(* provider's control plane are spaced by a pacer.                         *)
(*                                                                         *)
(* The clock ticks PerSecond times in a second, and every lifetime and     *)
(* interval is given in ticks; the interval to the next poll is computed   *)
(* from whole seconds.  A session id is random and never repeated.         *)
(***************************************************************************)
EXTENDS Integers, FiniteSets

CONSTANTS
  Clients,       \* callers of the admin API: each drives one login at a time
  Sessions,      \* session ids, each given out once
  Capacity,      \* MAX_ACTIVE_SESSIONS
  Ttl,           \* lifetime of a session
  Interval,      \* poll interval the provider asks for
  PerSecond,     \* clock ticks in a second
  SlowDown,      \* DEVICE_SLOW_DOWN_SECONDS
  Spacing,       \* OAUTH_CONTROL_PLANE_MIN_START_INTERVAL
  MaxTime,       \* bound on the clock
  Nil            \* an absent value

(* A provider that answers with a lifetime or an interval of no second is  *)
(* refused (prepare).                                                      *)
LoginAssumption ==
  /\ {Ttl, Interval, SlowDown, Spacing} \subseteq Nat
  /\ PerSecond \in Nat \ {0} /\ Interval >= PerSecond /\ Ttl >= PerSecond

VARIABLES
  now,           \* the monotonic clock
  sessions,      \* OAuthSessionStore::sessions: id -> session, or Absent
  generation,    \* next_poll_generation
  issued,        \* ids that have been inserted
  client,        \* what each caller is doing, with the values it holds
  next_start,    \* the pacer's gate: earliest start of the next request
  gate,          \* the caller that holds the gate, or Nil
  last_start,    \* instant of the latest request that started
  ended          \* instant the latest poll of a session was over

vars == <<now, sessions, generation, issued, client, next_start, gate, last_start,
          ended>>

Absent == [kind |-> "absent", expires |-> 0, generation |-> 0, next |-> 0, interval |-> 0]
Idle == [pc |-> "idle", id |-> Nil, at |-> 0, generation |-> 0, session |-> Absent,
         flow |-> "code"]

Minimum(a, b) == IF a < b THEN a ELSE b
Maximum(a, b) == IF a > b THEN a ELSE b

Live(id) == sessions[id] # Absent
Goto(c, pc) == client' = [client EXCEPT ![c].pc = pc]
Return(c) == client' = [client EXCEPT ![c] = Idle]
At(c, pc) == client[c].pc = pc

-----------------------------------------------------------------------------
(* The store.                                                              *)

Unexpired(t) == [s \in Sessions |-> IF sessions[s].expires > t THEN sessions[s] ELSE Absent]

(* Insert purges what has expired and refuses the session when the store   *)
(* is still full.                                                          *)
Insert(id, session) ==
  LET kept == Unexpired(now) IN
  IF Cardinality({s \in Sessions : kept[s] # Absent}) >= Capacity
    THEN sessions' = kept
    ELSE sessions' = [kept EXCEPT ![id] = session]

PrepareCode ==
  [kind |-> "code", expires |-> now + Ttl, generation |-> 0, next |-> 0, interval |-> 0]
PrepareDevice(interval) ==
  [kind |-> "ready", expires |-> now + Ttl, generation |-> 0,
   next |-> now, interval |-> Minimum(interval, Ttl)]

(* An authorization code session is removed by whoever presents its id,    *)
(* unless the id belongs to a device login.                                *)
TakeCode(id, t) ==
  sessions' = IF sessions[id].expires <= t \/ sessions[id].kind = "code"
                THEN [sessions EXCEPT ![id] = Absent]
                ELSE sessions
CodeTaken(id, t) == sessions[id].kind = "code" /\ sessions[id].expires > t

(* A device session that is ready and due is lent; while it is lent a      *)
(* marker with the generation of the loan keeps its place.                 *)
PollDue(id, t) ==
  sessions[id].kind = "ready" /\ sessions[id].expires > t /\ sessions[id].next <= t
LendPoll(id) ==
  /\ generation' = generation + 1
  /\ sessions' = [sessions EXCEPT ![id].kind = "polling", ![id].generation = generation + 1]
RefusePoll(id, t) ==
  /\ sessions' = IF sessions[id].expires <= t THEN [sessions EXCEPT ![id] = Absent] ELSE sessions
  /\ UNCHANGED generation

Lent(id, g) == sessions[id].kind = "polling" /\ sessions[id].generation = g

(* Duration::as_secs, in ticks: the part of a second is dropped.           *)
WholeSeconds(ticks) == ticks - (ticks % PerSecond)

(* DeviceCodeSession::defer: the next poll is an interval away, or as many *)
(* whole seconds as the session still lives, and at least one second.      *)
Defer(session, t, slow) ==
  LET interval == Minimum(session.interval + (IF slow THEN SlowDown ELSE 0), Ttl) IN
  [session EXCEPT !.interval = interval,
                  !.next = t + Minimum(interval,
                                      Maximum(WholeSeconds(session.expires - t), PerSecond))]

\* A faulty variant: a session is put back whatever has become of its place.
RestoreBlindly(id, g, session) == sessions' = [sessions EXCEPT ![id] = session]

RestorePoll(id, g, session) ==
  sessions' = IF Lent(id, g) THEN [sessions EXCEPT ![id] = session] ELSE sessions
FinishPoll(id, g) ==
  sessions' = IF Lent(id, g) THEN [sessions EXCEPT ![id] = Absent] ELSE sessions

-----------------------------------------------------------------------------
(* Starting a login.                                                       *)

Unused(id) == id \notin issued

StartCode(c, id) ==
  /\ At(c, "idle") /\ Unused(id)
  /\ Insert(id, PrepareCode)
  /\ issued' = issued \cup {id}
  /\ UNCHANGED <<now, generation, client, next_start, gate, last_start, ended>>

(* A device login first asks the provider for a device code.               *)
StartDevice(c) ==
  /\ At(c, "idle")
  /\ client' = [client EXCEPT ![c].pc = "pacing", ![c].flow = "start"]
  /\ UNCHANGED <<now, sessions, generation, issued, next_start, gate, last_start, ended>>

DeviceStarted(c, id) ==
  /\ At(c, "sent") /\ client[c].flow = "start" /\ Unused(id)
  /\ Insert(id, PrepareDevice(Interval))
  /\ issued' = issued \cup {id}
  /\ Return(c)
  /\ UNCHANGED <<now, generation, next_start, gate, last_start, ended>>

-----------------------------------------------------------------------------
(* The pacer: the gate is held while the caller sleeps, and given back     *)
(* with the next start an interval later.                                  *)

TakeGate(c) ==
  /\ At(c, "pacing") /\ gate = Nil
  /\ gate' = c
  /\ Goto(c, "gated")
  /\ UNCHANGED <<now, sessions, generation, issued, next_start, last_start, ended>>

Send(c) ==
  /\ At(c, "gated") /\ gate = c
  /\ next_start <= now
  /\ next_start' = now + Spacing
  /\ last_start' = now
  /\ gate' = Nil
  /\ Goto(c, "sent")
  /\ UNCHANGED <<now, sessions, generation, issued, ended>>

ReleaseGate(c) == gate' = IF gate = c THEN Nil ELSE gate

-----------------------------------------------------------------------------
(* exchange: the callback of an authorization code login.  The session is  *)
(* gone before the callback is parsed, so a callback that names another    *)
(* state or reports a denial ends the login.                               *)

Exchange(c, id, valid) ==
  /\ At(c, "idle") /\ id \in issued
  /\ TakeCode(id, now)
  /\ client' = IF CodeTaken(id, now) /\ valid
                 THEN [client EXCEPT ![c].pc = "pacing", ![c].flow = "code", ![c].id = id]
                 ELSE client
  /\ UNCHANGED <<now, generation, issued, next_start, gate, last_start, ended>>

(* The token goes to the publisher (OAuthAccounts).                        *)
ExchangeAnswered(c) ==
  /\ At(c, "sent") /\ client[c].flow = "code"
  /\ Return(c)
  /\ UNCHANGED <<now, sessions, generation, issued, next_start, gate, last_start, ended>>

-----------------------------------------------------------------------------
(* poll_device.  The clock is read before the store is locked.             *)

ReadClock(c, id) ==
  /\ At(c, "idle") /\ id \in issued
  /\ client' = [client EXCEPT ![c].pc = "clocked", ![c].id = id, ![c].at = now]
  /\ UNCHANGED <<now, sessions, generation, issued, next_start, gate, last_start, ended>>

AcquirePoll(c) ==
  LET id == client[c].id IN
  /\ At(c, "clocked")
  /\ IF PollDue(id, client[c].at)
       THEN /\ LendPoll(id)
            /\ client' = [client EXCEPT ![c].pc = "pacing", ![c].flow = "device",
                                        ![c].generation = generation + 1,
                                        ![c].session = sessions[id]]
       ELSE RefusePoll(id, client[c].at) /\ Return(c)
  /\ UNCHANGED <<now, issued, next_start, gate, last_start, ended>>

Polling(c) == At(c, "sent") /\ client[c].flow = "device"

(* Still pending, or asked to slow down: the session is deferred by a      *)
(* clock read before the lock, and put back under it.                      *)
PollPending(c, slow) ==
  /\ Polling(c)
  /\ client' = [client EXCEPT ![c].pc = "deferring",
                              ![c].session = Defer(client[c].session, now, slow),
                              ![c].at = now]
  /\ ended' = [ended EXCEPT ![client[c].id] = now]
  /\ UNCHANGED <<now, sessions, generation, issued, next_start, gate, last_start>>

RestoreLease(c) ==
  /\ At(c, "deferring")
  /\ IF client[c].session.expires <= client[c].at
       THEN FinishPoll(client[c].id, client[c].generation)
       ELSE RestorePoll(client[c].id, client[c].generation, client[c].session)
  /\ Return(c)
  /\ UNCHANGED <<now, generation, issued, next_start, gate, last_start, ended>>

(* Denied or expired at the provider, or authorized: the lease is finished *)
(* before the token goes to the publisher (OAuthAccounts).                 *)
PollEnds(c) ==
  /\ Polling(c)
  /\ FinishPoll(client[c].id, client[c].generation)
  /\ Return(c)
  /\ UNCHANGED <<now, generation, issued, next_start, gate, last_start, ended>>

-----------------------------------------------------------------------------
(* A request that fails, and a handler whose client disconnects: every     *)
(* guard is dropped.  A lease puts its session back, deferred, under the   *)
(* lock.                                                                   *)

HoldsLease(c) == client[c].flow = "device" /\ client[c].pc \in {"pacing", "gated", "sent"}

\* A faulty variant: the session is put back as it was lent.
DropUndeferred(c) ==
  LET held == client[c] IN
  IF HoldsLease(c) THEN RestorePoll(held.id, held.generation, held.session)
                   ELSE UNCHANGED sessions

DropLease(c) ==
  LET held == client[c] IN
  IF ~HoldsLease(c) THEN UNCHANGED sessions
  ELSE IF held.session.expires <= now THEN FinishPoll(held.id, held.generation)
  ELSE RestorePoll(held.id, held.generation, Defer(held.session, now, FALSE))

Abandon(c) ==
  /\ client[c].pc \in {"pacing", "gated", "sent"}
  /\ DropLease(c)
  /\ ReleaseGate(c)
  /\ Return(c)
  /\ ended' = IF HoldsLease(c) THEN [ended EXCEPT ![client[c].id] = now] ELSE ended
  /\ UNCHANGED <<now, generation, issued, next_start, last_start>>

-----------------------------------------------------------------------------
Tick ==
  /\ now < MaxTime
  /\ now' = now + 1
  /\ UNCHANGED <<sessions, generation, issued, client, next_start, gate, last_start, ended>>

Init ==
  /\ now = 0 /\ generation = 0 /\ issued = {}
  /\ sessions = [s \in Sessions |-> Absent]
  /\ client = [c \in Clients |-> Idle]
  /\ next_start = 0 /\ gate = Nil /\ last_start = -Spacing
  /\ ended = [s \in Sessions |-> -Interval]

Next ==
  \/ Tick
  \/ \E c \in Clients :
       \/ StartDevice(c) \/ TakeGate(c) \/ Send(c) \/ AcquirePoll(c)
       \/ RestoreLease(c) \/ PollEnds(c) \/ Abandon(c) \/ ExchangeAnswered(c)
       \/ \E slow \in BOOLEAN : PollPending(c, slow)
       \/ \E id \in Sessions :
            \/ StartCode(c, id) \/ DeviceStarted(c, id) \/ ReadClock(c, id)
            \/ \E valid \in BOOLEAN : Exchange(c, id, valid)

Spec == Init /\ [][Next]_vars

-----------------------------------------------------------------------------
TypeOK ==
  /\ now \in 0..MaxTime /\ generation \in Nat /\ issued \subseteq Sessions
  /\ \A s \in Sessions : sessions[s].kind \in {"absent", "code", "ready", "polling"}
  /\ Cardinality({s \in Sessions : Live(s)}) <= Capacity
  /\ gate \in Clients \cup {Nil}

(* A session that has left the store (taken by its callback, finished by   *)
(* its poll, or purged when it expired) never comes back to it, although a *)
(* poll may still hold it and try to put it back: an id is entered once.   *)
SessionsStayGone == \A s \in Sessions : Live(s)' /\ s \in issued => Live(s)

(* The earliest poll after one that ended: the interval later, except in   *)
(* the last second of the session, and in any case a second later.         *)
EarliestPoll(end, expires) ==
  Maximum(end + PerSecond, Minimum(end + Interval, expires - PerSecond + 1))

(* Nobody polls a provider faster than it asked for: one poll of a session *)
(* at a time, and the next one not before the interval has passed, even    *)
(* when the client disconnects in the middle and comes back.  The one poll *)
(* that may come earlier is the last: a session with less than an interval *)
(* to live is polled once more in its last second, a second or more after  *)
(* the poll before (as_secs drops the part of a second, so not at its very *)
(* end).  Any two requests to the control plane are spaced, those of       *)
(* abandoned callers included.                                             *)
PollsPaced ==
  /\ \A c \in Clients :
       At(c, "clocked") /\ HoldsLease(c)' =>
         \A d \in Clients \ {c} : HoldsLease(d) => client[d].id # client[c].id
  /\ \A c \in Clients :
       At(c, "sent")' /\ ~At(c, "sent") => now >= last_start + Spacing
  /\ \A c \in Clients :
       At(c, "clocked") /\ HoldsLease(c)' =>
         now >= EarliestPoll(ended[client[c].id], client'[c].session.expires)
=============================================================================
