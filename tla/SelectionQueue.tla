--------------------------- MODULE SelectionQueue ---------------------------
(***************************************************************************)
(* Waiting for a credential: the bounded queue, the scheduler epoch that   *)
(* wakes waiters, the per-credential change feed of fixed waiters, and the *)
(* wait loops of wait_for_candidate (normal requests) and                  *)
(* select_with_queue (fixed requests).                                     *)
(*                                                                         *)
(* The credential's window is the set of reservations younger than Window; *)
(* a request makes at most one.  Requests that already hold a reservation  *)
(* may roll it back.                                                       *)
(***************************************************************************)
EXTENDS Integers, FiniteSets

CONSTANTS
  Normal,     \* requests of the normal path
  Fixed,      \* requests bound to the credential
  Holders,    \* requests that reserved a slot before the behaviour starts
  Limit,      \* requests_per_minute
  Window,     \* RATE_WINDOW, in ticks
  Timeout,    \* queue_timeout and the binding wait timeout, in ticks
  MaxWaiting, \* max_waiting_requests
  None,       \* Option::None
  MaxTime     \* bound: last tick of the clock

Waiters == Normal \cup Fixed
Requests == Waiters \cup Holders

(* How a wait may end.                                                     *)
Outcomes == {"acquired", "queue_full", "timeout", "cancelled"}

ASSUME QueueAssumption ==
  /\ IsFiniteSet(Requests)
  /\ Normal \cap Fixed = {} /\ Waiters \cap Holders = {}
  /\ Limit \in Nat \ {0} /\ Window \in Nat \ {0} /\ Timeout \in Nat \ {0}
  /\ MaxWaiting \in Nat \ {0} /\ MaxTime \in Nat
  /\ None \notin Nat /\ None \notin Outcomes

VARIABLES
  now,            \* the monotonic clock
  slot,           \* when each request made its reservation, or None
  fixed_waiters,  \* MutableRuntimeState.fixed_waiters
  changes,        \* CredentialRuntimeHandle.changes (a watch channel)
  epoch,          \* SchedulerEpoch.current
  published,      \* SchedulerEpoch.sender (a watch channel)
  waiting,        \* QueueState.waiting
  pc,             \* progress of each request
  seen,           \* the epoch a waiter marked as seen
  seen_changes,   \* the change generation a fixed waiter marked as seen
  retry_at,       \* retry time reported by the last failed try
  deadline,       \* absolute wait limit of the request
  registered,     \* requests that hold a FixedCredentialWaiter
  advancing,      \* the epoch a request has taken but not yet published
  outcome         \* how the wait ended

channelVars == <<changes, epoch, published, advancing>>
windowVars == <<slot, fixed_waiters, registered>>
localVars == <<seen, seen_changes, retry_at, deadline, outcome>>
vars == <<now, windowVars, channelVars, waiting, pc, localVars>>

Init ==
  /\ now = 0
  /\ slot \in [Requests -> {None, 0}]
  /\ \A r \in Requests : slot[r] = 0 <=> r \in Holders
  /\ fixed_waiters = 0 /\ registered = {}
  /\ changes = 0 /\ epoch = 0 /\ published = 0
  /\ advancing = [r \in Requests |-> None]
  /\ waiting = 0
  /\ pc = [r \in Requests |-> IF r \in Holders THEN "holding" ELSE "first"]
  /\ seen = [r \in Waiters |-> 0] /\ seen_changes = [r \in Waiters |-> 0]
  /\ retry_at = [r \in Waiters |-> None] /\ deadline = [r \in Waiters |-> None]
  /\ outcome = [r \in Waiters |-> None]

Tick ==
  /\ now < MaxTime
  /\ now' = now + 1
  /\ UNCHANGED <<windowVars, channelVars, waiting, pc, localVars>>

-----------------------------------------------------------------------------
(* The credential, as try_reserve sees it.                                 *)

InWindow == {r \in Requests : slot[r] # None /\ slot[r] > now - Window}
Available(r) ==
  IF r \in Fixed THEN Cardinality(InWindow) < Limit
                 ELSE Limit - Cardinality(InWindow) > fixed_waiters

(* next_available_at: when the Limit-th youngest reservation expires.      *)
NextAvailableAt ==
  LET T == {slot[r] : r \in InWindow}
      younger(t) == Cardinality({r \in InWindow : slot[r] >= t})
  IN (CHOOSE t \in T : younger(t) >= Limit /\ \A u \in T : younger(u) >= Limit => u <= t)
       + Window

RetryAt == IF Cardinality(InWindow) >= Limit THEN NextAvailableAt ELSE None

-----------------------------------------------------------------------------
(* SchedulerEpoch::advance: an atomic increment, then a send that is       *)
(* skipped when an equal or newer epoch is already published.              *)

Increment(r) ==
  /\ epoch' = epoch + 1
  /\ advancing' = [advancing EXCEPT ![r] = epoch + 1]

(* Faulty variant: racing advances are coalesced by dropping the send of   *)
(* any epoch that is not the next one.                                     *)
SendOnlyNext(r) ==
  /\ advancing[r] # None
  /\ published' = IF published + 1 = advancing[r] THEN advancing[r] ELSE published
  /\ advancing' = [advancing EXCEPT ![r] = None]
  /\ UNCHANGED <<now, windowVars, changes, epoch, waiting, pc, localVars>>

Send(r) ==
  /\ advancing[r] # None
  /\ published' = IF published >= advancing[r] THEN published ELSE advancing[r]
  /\ advancing' = [advancing EXCEPT ![r] = None]
  /\ UNCHANGED <<now, windowVars, changes, epoch, waiting, pc, localVars>>

-----------------------------------------------------------------------------
(* A holder rolls its reservation back (rollback_before_attempt) or keeps  *)
(* it (its attempt starts).                                                *)

(* Faulty variant: the slot is given back without telling anyone.          *)
RollbackSilently(h) ==
  /\ pc[h] = "holding"
  /\ slot' = [slot EXCEPT ![h] = None]
  /\ pc' = [pc EXCEPT ![h] = "done"]
  /\ UNCHANGED <<now, fixed_waiters, registered, channelVars, waiting, localVars>>

Rollback(h) ==
  /\ pc[h] = "holding"
  /\ slot' = [slot EXCEPT ![h] = None]
  /\ changes' = IF h \in InWindow THEN changes + 1 ELSE changes
  /\ IF h \in InWindow THEN Increment(h) ELSE UNCHANGED <<epoch, advancing>>
  /\ pc' = [pc EXCEPT ![h] = "done"]
  /\ UNCHANGED <<now, fixed_waiters, registered, published, waiting, localVars>>

Keep(h) ==
  /\ pc[h] = "holding"
  /\ pc' = [pc EXCEPT ![h] = "done"]
  /\ UNCHANGED <<now, windowVars, channelVars, waiting, localVars>>

-----------------------------------------------------------------------------
(* The wait loop.  Every step between two awaits is one action; marking    *)
(* the watch channels, trying and going to sleep are separate, because     *)
(* other threads run in between.                                           *)

Goto(r, l) == pc' = [pc EXCEPT ![r] = l]

Acquire(r) ==
  /\ slot' = [slot EXCEPT ![r] = now]
  /\ outcome' = [outcome EXCEPT ![r] = "acquired"]

(* The first try, before a ticket is taken.                                *)
FirstTry(r) ==
  /\ pc[r] = "first"
  /\ \/ Available(r) /\ Acquire(r) /\ Goto(r, "leave")
     \/ ~Available(r) /\ Goto(r, "ticket") /\ UNCHANGED <<slot, outcome>>
  /\ UNCHANGED <<now, fixed_waiters, registered, channelVars, waiting,
                 seen, seen_changes, retry_at, deadline>>

(* try_ticket: a place in the queue and a subscription; the deadline is    *)
(* set once.                                                               *)
TakeTicket(r) ==
  /\ pc[r] = "ticket" /\ waiting < MaxWaiting
  /\ waiting' = waiting + 1
  /\ seen' = [seen EXCEPT ![r] = published]
  /\ seen_changes' = [seen_changes EXCEPT ![r] = changes]
  /\ deadline' = [deadline EXCEPT ![r] = now + Timeout]
  /\ Goto(r, "observe")
  /\ UNCHANGED <<now, windowVars, channelVars, retry_at, outcome>>

QueueFull(r) ==
  /\ pc[r] = "ticket" /\ waiting >= MaxWaiting
  /\ outcome' = [outcome EXCEPT ![r] = "queue_full"]
  /\ Goto(r, "leave")
  /\ UNCHANGED <<now, windowVars, channelVars, waiting, seen, seen_changes,
                 retry_at, deadline>>

(* borrow_and_update on the epoch and, for a fixed request, on the changes.*)
Observe(r) ==
  /\ pc[r] = "observe"
  /\ seen' = [seen EXCEPT ![r] = published]
  /\ seen_changes' = [seen_changes EXCEPT ![r] = changes]
  /\ Goto(r, "try")
  /\ UNCHANGED <<now, windowVars, channelVars, waiting, retry_at, deadline,
                 outcome>>

TrySelect(r) ==
  /\ pc[r] = "try"
  /\ \/ Available(r) /\ Acquire(r) /\ Goto(r, "leave") /\ UNCHANGED retry_at
     \/ /\ ~Available(r)
        /\ retry_at' = [retry_at EXCEPT ![r] = RetryAt]
        /\ Goto(r, IF r \in Fixed \ registered THEN "register" ELSE "check")
        /\ UNCHANGED <<slot, outcome>>
  /\ UNCHANGED <<now, fixed_waiters, registered, channelVars, waiting,
                 seen, seen_changes, deadline>>

(* register_fixed_waiter tells the credential's waiters, not the epoch.    *)
RegisterFixedWaiter(r) ==
  /\ pc[r] = "register"
  /\ fixed_waiters' = fixed_waiters + 1
  /\ registered' = registered \cup {r}
  /\ changes' = changes + 1
  /\ Goto(r, "check")
  /\ UNCHANGED <<now, slot, epoch, published, advancing, waiting, localVars>>

(* The deadline check before the select!.                                  *)
CheckDeadline(r) ==
  /\ pc[r] = "check"
  /\ Goto(r, IF now >= deadline[r] THEN "final" ELSE "sleep")
  /\ UNCHANGED <<now, windowVars, channelVars, waiting, localVars>>

Changed(r) == published # seen[r] \/ (r \in Fixed /\ changes # seen_changes[r])
TimerFired(r) ==
  \/ now >= deadline[r]
  \/ retry_at[r] # None /\ now >= retry_at[r]

WakeByChange(r) ==
  /\ pc[r] = "sleep" /\ Changed(r)
  /\ Goto(r, "observe")
  /\ UNCHANGED <<now, windowVars, channelVars, waiting, localVars>>

(* Faulty variant: the timer is armed for the retry time only.             *)
WakeByRetryOnly(r) ==
  /\ pc[r] = "sleep" /\ retry_at[r] # None /\ now >= retry_at[r]
  /\ Goto(r, "observe")
  /\ UNCHANGED <<now, windowVars, channelVars, waiting, localVars>>

(* Without a retry time the timer is the deadline and ends the wait.       *)
WakeByTimer(r) ==
  /\ pc[r] = "sleep" /\ TimerFired(r)
  /\ Goto(r, IF retry_at[r] = None THEN "final" ELSE "observe")
  /\ UNCHANGED <<now, windowVars, channelVars, waiting, localVars>>

(* Faulty variant: the deadline ends the wait without a last try.          *)
TimeoutAtOnce(r) ==
  /\ pc[r] = "final"
  /\ Goto(r, "leave")
  /\ outcome' = [outcome EXCEPT ![r] = "timeout"]
  /\ UNCHANGED <<now, windowVars, channelVars, waiting, seen, seen_changes,
                 retry_at, deadline>>

(* final_selection: one last try.                                          *)
FinalSelection(r) ==
  /\ pc[r] = "final"
  /\ Goto(r, "leave")
  /\ \/ Available(r) /\ Acquire(r)
     \/ /\ ~Available(r) /\ UNCHANGED slot
        /\ outcome' = [outcome EXCEPT ![r] = "timeout"]
  /\ UNCHANGED <<now, fixed_waiters, registered, channelVars, waiting,
                 seen, seen_changes, retry_at, deadline>>

(* The client goes away: the selection future is dropped at an await.      *)
Cancel(r) ==
  /\ pc[r] = "sleep"
  /\ outcome' = [outcome EXCEPT ![r] = "cancelled"]
  /\ Goto(r, "leave")
  /\ UNCHANGED <<now, windowVars, channelVars, waiting, seen, seen_changes,
                 retry_at, deadline>>

(* Guards are dropped in order: first the fixed waiter, which tells both   *)
(* channels, then the ticket.                                              *)
ReleaseFixedWaiter(r) ==
  /\ pc[r] = "leave" /\ r \in registered
  /\ fixed_waiters' = fixed_waiters - 1
  /\ registered' = registered \ {r}
  /\ changes' = changes + 1
  /\ Increment(r)
  /\ UNCHANGED <<now, slot, published, waiting, pc, localVars>>

(* The local variables of the wait go out of scope.                        *)
ForgetLocals(r) ==
  /\ seen' = [seen EXCEPT ![r] = 0]
  /\ seen_changes' = [seen_changes EXCEPT ![r] = 0]
  /\ retry_at' = [retry_at EXCEPT ![r] = None]
  /\ deadline' = [deadline EXCEPT ![r] = None]

(* Faulty variant: a wait that ended without a slot keeps its place.       *)
DropTicketIfServed(r) ==
  /\ pc[r] = "leave" /\ r \notin registered /\ advancing[r] = None
  /\ waiting' = IF deadline[r] = None \/ outcome[r] # "acquired" THEN waiting ELSE waiting - 1
  /\ Goto(r, "done")
  /\ ForgetLocals(r)
  /\ UNCHANGED <<now, windowVars, channelVars, outcome>>

DropTicket(r) ==
  /\ pc[r] = "leave" /\ r \notin registered /\ advancing[r] = None
  /\ waiting' = IF deadline[r] = None THEN waiting ELSE waiting - 1
  /\ Goto(r, "done")
  /\ ForgetLocals(r)
  /\ UNCHANGED <<now, windowVars, channelVars, outcome>>

-----------------------------------------------------------------------------
Wait(r) ==
  \/ FirstTry(r) \/ TakeTicket(r) \/ QueueFull(r) \/ Observe(r) \/ TrySelect(r)
  \/ RegisterFixedWaiter(r) \/ CheckDeadline(r) \/ WakeByChange(r)
  \/ WakeByTimer(r) \/ FinalSelection(r) \/ ReleaseFixedWaiter(r) \/ DropTicket(r)

Next ==
  \/ Tick
  \/ \E r \in Requests : Send(r)
  \/ \E h \in Holders : Rollback(h) \/ Keep(h)
  \/ \E r \in Waiters : Wait(r) \/ Cancel(r)

(* The runtime polls a ready task and the clock does not stop; a client    *)
(* need not cancel and an attempt need not be rolled back.                 *)
Fairness ==
  /\ WF_vars(Tick)
  /\ \A r \in Requests : WF_vars(Send(r))
  /\ \A r \in Waiters : WF_vars(Wait(r))

Spec == Init /\ [][Next]_vars /\ Fairness

-----------------------------------------------------------------------------
Ticketed == {r \in Waiters : deadline[r] # None /\ pc[r] # "done"}
Advances == {advancing[r] : r \in Requests} \ {None}

(* Every variable keeps its type.                                          *)
TypeOK ==
  /\ now \in Nat /\ epoch \in Nat /\ published \in Nat /\ changes \in Nat
  /\ slot \in [Requests -> Nat \cup {None}]
  /\ fixed_waiters \in Nat /\ waiting \in Nat
  /\ registered \subseteq Fixed
  /\ advancing \in [Requests -> Nat \cup {None}]
  /\ pc \in [Requests -> {"holding", "first", "ticket", "observe", "try",
       "register", "check", "sleep", "final", "leave", "done"}]
  /\ seen \in [Waiters -> Nat] /\ seen_changes \in [Waiters -> Nat]
  /\ retry_at \in [Waiters -> Nat \cup {None}]
  /\ deadline \in [Waiters -> Nat \cup {None}]
  /\ outcome \in [Waiters -> {None} \cup Outcomes]

(* The queue never holds more waiters than configured and its counter is   *)
(* the number of live tickets: every way out of the wait returns its place.*)
QueueBounded ==
  waiting = Cardinality(Ticketed) /\ waiting <= MaxWaiting

(* Coalescing racing advances loses none: the published epoch is the       *)
(* newest one as soon as no advance is between its two steps.              *)
EpochPublished ==
  /\ published <= epoch
  /\ epoch # published => \E e \in Advances : e = epoch

(* No lost wake-up: a sleeping waiter that could be served now has a       *)
(* wake-up on its way, or (a normal one) was refused for the sake of a     *)
(* fixed waiter that is still registered and will advance the epoch when   *)
(* it leaves.                                                              *)
NoLostWakeup ==
  \A r \in Waiters : pc[r] = "sleep" /\ Available(r) =>
    \/ Changed(r) \/ TimerFired(r)
    \/ \E e \in Advances : e > seen[r]
    \/ r \in Normal /\ retry_at[r] = None /\ fixed_waiters > 0

(* Somebody is in the queue with a deadline that will come (deadlines past *)
(* the last tick of the bounded clock cannot fire).  Every wait is to end. *)
Outstanding == \E r \in Waiters : deadline[r] \in 0 .. MaxTime

(* A request that gives up at its deadline does so because the credential  *)
(* was not available to it at that very moment.                            *)
TimeoutIsHonest ==
  [][\A r \in Waiters : outcome'[r] = "timeout" /\ outcome[r] = None =>
       now >= deadline[r] /\ ~Available(r)]_vars
=============================================================================
