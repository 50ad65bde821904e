----------------------------- MODULE WakeWorker -----------------------------
(***************************************************************************)
(* The wake schedule of SchedulerEpoch and the one worker task that sleeps *)
(* until the earliest scheduled deadline and then advances the epoch.      *)
(*                                                                         *)
(* Health code schedules and cancels slots while it holds its own locks    *)
(* and publishes the notification after it has released them, so a change  *)
(* of the schedule and the notification of the worker are separate steps.  *)
(***************************************************************************)
EXTENDS Integers, FiniteSets, FiniteSetsExt, Functions

CONSTANTS
  Slots,     \* wake slots
  Clients,   \* threads that use the slots
  MaxDelay,  \* bound: how far ahead a deadline is scheduled
  MaxTime,   \* bound: last tick of the clock
  MaxOps,    \* bound: calls of schedule or cancel
  None       \* Option::None

WakeAssumption ==
  /\ MaxDelay \in Nat /\ MaxTime \in Nat /\ MaxOps \in Nat
  /\ None \notin Nat

VARIABLES
  now,          \* the monotonic clock
  phase,        \* ProcessLifecycle::phase
  by_slot,      \* WakeSchedule.by_slot
  by_deadline,  \* WakeSchedule.by_deadline, a map from deadlines to slots
  wake_changes, \* generation sent on the wake_changes channel
  wake_worker_started,
  epoch,        \* SchedulerEpoch.current
  pc,           \* progress of each client
  worker,       \* progress of the worker, the generation it marked as seen
                \* and the deadline it sleeps for
  ops,          \* calls made so far
  owed          \* history: slots scheduled, not cancelled and not yet
                \* followed by an epoch advance

scheduleVars == <<by_slot, by_deadline>>
vars == <<now, phase, scheduleVars, wake_changes, wake_worker_started, epoch,
          pc, worker, ops, owed>>

Init ==
  /\ now = 0 /\ phase = "running"
  /\ by_slot = [s \in Slots |-> None]
  /\ by_deadline = [d \in {} |-> {}]
  /\ wake_changes = 0 /\ wake_worker_started = FALSE
  /\ epoch = 0
  /\ pc = [c \in Clients |-> "idle"]
  /\ worker = [at |-> "off", seen |-> 0, next |-> None]
  /\ ops = 0 /\ owed = {}

Tick ==
  /\ now < MaxTime
  /\ now' = now + 1
  /\ UNCHANGED <<phase, scheduleVars, wake_changes, wake_worker_started, epoch,
                 pc, worker, ops, owed>>

BeginDraining ==
  /\ phase = "running"
  /\ phase' = "draining"
  /\ UNCHANGED <<now, scheduleVars, wake_changes, wake_worker_started, epoch,
                 pc, worker, ops, owed>>

-----------------------------------------------------------------------------
(* WakeSchedule: the two indexes, as its methods keep them.                *)

(* Faulty variant: a deadline that lost its last slot stays in the map.    *)
RemoveReverseKeepsKey(m, d, s) ==
  IF d \in DOMAIN m THEN [m EXCEPT ![d] = @ \ {s}] ELSE m

RemoveReverse(m, d, s) ==
  IF d \notin DOMAIN m THEN m
  ELSE IF m[d] \subseteq {s} THEN Restrict(m, DOMAIN m \ {d})
  ELSE [m EXCEPT ![d] = @ \ {s}]

InsertReverse(m, d, s) ==
  [x \in DOMAIN m \cup {d} |->
     IF x = d THEN (IF d \in DOMAIN m THEN m[d] ELSE {}) \cup {s} ELSE m[x]]

NextDeadline == IF by_deadline = <<>> THEN None ELSE Min(DOMAIN by_deadline)

(* remove_due pops the deadlines that have passed.                         *)
RemoveDue(t) ==
  LET due == {d \in DOMAIN by_deadline : d <= t}
      slots == UNION {by_deadline[d] : d \in due}
  IN /\ by_deadline' = Restrict(by_deadline, DOMAIN by_deadline \ due)
     /\ by_slot' = [s \in Slots |-> IF s \in slots THEN None ELSE by_slot[s]]

-----------------------------------------------------------------------------
(* Clients.                                                                *)

Goto(c, l) == pc' = [pc EXCEPT ![c] = l]

(* prepare_wake_schedule reads the phase before it locks the schedule.     *)
CheckPhase(c) ==
  /\ pc[c] = "idle" /\ phase = "running" /\ ops < MaxOps
  /\ ops' = ops + 1
  /\ Goto(c, "schedule")
  /\ UNCHANGED <<now, phase, scheduleVars, wake_changes, wake_worker_started,
                 epoch, worker, owed>>

Schedule(c, s, d) ==
  /\ pc[c] = "schedule"
  /\ \/ /\ by_slot[s] = d
        /\ Goto(c, "idle")
        /\ UNCHANGED <<scheduleVars, owed>>
     \/ /\ by_slot[s] # d
        /\ by_slot' = [by_slot EXCEPT ![s] = d]
        /\ by_deadline' =
             InsertReverse(IF by_slot[s] = None THEN by_deadline
                           ELSE RemoveReverse(by_deadline, by_slot[s], s), d, s)
        /\ owed' = owed \cup {s}
        /\ Goto(c, "notify")
  /\ UNCHANGED <<now, phase, wake_changes, wake_worker_started, epoch, worker, ops>>

Cancel(c, s) ==
  /\ pc[c] = "idle" /\ ops < MaxOps /\ by_slot[s] # None
  /\ ops' = ops + 1
  /\ by_slot' = [by_slot EXCEPT ![s] = None]
  /\ by_deadline' = RemoveReverse(by_deadline, by_slot[s], s)
  /\ owed' = owed \ {s}
  /\ Goto(c, "notify_cancel")
  /\ UNCHANGED <<now, phase, wake_changes, wake_worker_started, epoch, worker>>

(* publish: the generation first, then, for a schedule, the worker.        *)
NotifyWakeWorker(c) ==
  /\ pc[c] \in {"notify", "notify_cancel"}
  /\ wake_changes' = wake_changes + 1
  /\ Goto(c, IF pc[c] = "notify" THEN "ensure" ELSE "idle")
  /\ UNCHANGED <<now, phase, scheduleVars, wake_worker_started, epoch, worker,
                 ops, owed>>

(* ensure_wake_worker: phase, compare_exchange, phase again, spawn.        *)
EnsureCheck(c) ==
  /\ pc[c] = "ensure"
  /\ Goto(c, IF phase = "running" THEN "cas" ELSE "idle")
  /\ UNCHANGED <<now, phase, scheduleVars, wake_changes, wake_worker_started,
                 epoch, worker, ops, owed>>

(* Faulty variant: the swap does not look at the old value.                *)
CompareAlways(c) ==
  /\ pc[c] = "cas"
  /\ wake_worker_started' = TRUE
  /\ Goto(c, "spawn")
  /\ UNCHANGED <<now, phase, scheduleVars, wake_changes, epoch, worker, ops, owed>>

CompareExchange(c) ==
  /\ pc[c] = "cas"
  /\ wake_worker_started' = TRUE
  /\ Goto(c, IF wake_worker_started THEN "idle" ELSE "spawn")
  /\ UNCHANGED <<now, phase, scheduleVars, wake_changes, epoch, worker, ops, owed>>

Spawn(c) ==
  /\ pc[c] = "spawn"
  /\ Goto(c, "idle")
  /\ \/ /\ phase = "running"
        /\ worker' = [at |-> "observe", seen |-> wake_changes, next |-> None]
        /\ UNCHANGED wake_worker_started
     \/ /\ phase # "running"
        /\ wake_worker_started' = FALSE
        /\ UNCHANGED worker
  /\ UNCHANGED <<now, phase, scheduleVars, wake_changes, epoch, ops, owed>>

-----------------------------------------------------------------------------
(* run_wake_worker.                                                        *)

Observe ==
  /\ worker.at = "observe"
  /\ worker' = [worker EXCEPT !.at = "read", !.seen = wake_changes]
  /\ UNCHANGED <<now, phase, scheduleVars, wake_changes, wake_worker_started,
                 epoch, pc, ops, owed>>

(* Faulty variant: the deadline is read first and the channel marked after.*)
ReadThenObserve ==
  /\ worker.at = "read"
  /\ worker' = [worker EXCEPT !.at = "sleep", !.seen = wake_changes]
  /\ UNCHANGED <<now, phase, scheduleVars, wake_changes, wake_worker_started,
                 epoch, pc, ops, owed>>

ReadNextDeadline ==
  /\ worker.at = "read"
  /\ worker' = [worker EXCEPT !.at = "sleep", !.next = NextDeadline]
  /\ UNCHANGED <<now, phase, scheduleVars, wake_changes, wake_worker_started,
                 epoch, pc, ops, owed>>

WakeByChange ==
  /\ worker.at = "sleep" /\ wake_changes # worker.seen
  /\ worker' = [worker EXCEPT !.at = "observe"]
  /\ UNCHANGED <<now, phase, scheduleVars, wake_changes, wake_worker_started,
                 epoch, pc, ops, owed>>

WakeByTimer ==
  /\ worker.at = "sleep" /\ worker.next # None /\ now >= worker.next
  /\ RemoveDue(now)
  /\ worker' = [worker EXCEPT !.at = IF by_deadline' # by_deadline
                                        THEN "advance" ELSE "observe"]
  /\ UNCHANGED <<now, phase, wake_changes, wake_worker_started, epoch, pc, ops, owed>>

(* Faulty variant: due wakes are removed without an advance.               *)
RemoveWithoutAdvance ==
  /\ worker.at = "advance"
  /\ worker' = [worker EXCEPT !.at = "observe"]
  /\ UNCHANGED <<now, phase, scheduleVars, wake_changes, wake_worker_started,
                 epoch, pc, ops, owed>>

Advance ==
  /\ worker.at = "advance"
  /\ epoch' = epoch + 1
  /\ worker' = [worker EXCEPT !.at = "observe"]
  /\ owed' = {s \in owed : by_slot[s] # None}
  /\ UNCHANGED <<now, phase, scheduleVars, wake_changes, wake_worker_started,
                 pc, ops>>

(* spawn_until_draining drops the worker at an await.                      *)
StopWorker ==
  /\ worker.at = "sleep" /\ phase = "draining"
  /\ worker' = [worker EXCEPT !.at = "off"]
  /\ UNCHANGED <<now, phase, scheduleVars, wake_changes, wake_worker_started,
                 epoch, pc, ops, owed>>

-----------------------------------------------------------------------------
Deadlines == now .. now + MaxDelay

Publish(c) == NotifyWakeWorker(c) \/ EnsureCheck(c) \/ CompareExchange(c) \/ Spawn(c)

Worker == Observe \/ ReadNextDeadline \/ WakeByChange \/ WakeByTimer \/ Advance \/ StopWorker

Next ==
  \/ Tick \/ BeginDraining \/ Worker
  \/ \E c \in Clients :
       \/ CheckPhase(c) \/ Publish(c)
       \/ \E s \in Slots : Cancel(c, s) \/ \E d \in Deadlines : Schedule(c, s, d)

(* A started thread goes on, a spawned task is polled, the clock runs;     *)
(* nobody has to schedule, to cancel or to shut the process down.          *)
Fairness ==
  /\ WF_vars(Tick) /\ WF_vars(Worker)
  /\ \A c \in Clients : WF_vars(Publish(c))

Spec == Init /\ [][Next]_vars /\ Fairness

-----------------------------------------------------------------------------
(* The two indexes of WakeSchedule always describe the same set of wakes,  *)
(* and no deadline without slots stays behind for the worker to wake for.  *)
IndexesAgree ==
  /\ \A s \in Slots, d \in DOMAIN by_deadline : s \in by_deadline[d] <=> by_slot[s] = d
  /\ \A s \in Slots : by_slot[s] # None => by_slot[s] \in DOMAIN by_deadline
  /\ \A d \in DOMAIN by_deadline : by_deadline[d] # {}

(* The worker never sleeps past the earliest deadline: if what it sleeps   *)
(* for is not the earliest deadline any more, a notification it has not    *)
(* seen was sent or is about to be.                                        *)
NeverOversleeps ==
  worker.at = "sleep" /\ NextDeadline # None
    /\ (worker.next = None \/ worker.next > NextDeadline) =>
      \/ wake_changes # worker.seen
      \/ \E c \in Clients : pc[c] \in {"notify", "notify_cancel"}

(* Racing calls of ensure_wake_worker start one worker: whoever is about   *)
(* to spawn is alone in doing so, and no worker is running.                *)
OneWorker ==
  \A c \in Clients : pc[c] = "spawn" =>
    worker.at = "off" /\ \A b \in Clients : pc[b] = "spawn" => b = c

(* A wake that was scheduled, and not cancelled, has not been paid for by  *)
(* an advance of the epoch yet.  A draining process owes nothing, and wakes*)
(* past the last tick of the bounded clock cannot come.                    *)
Outstanding ==
  phase # "draining"
    /\ \E s \in owed : by_slot[s] \in {None} \cup 0 .. MaxTime
=============================================================================
