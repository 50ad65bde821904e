--------------------------- MODULE EndpointHealth ---------------------------
(***************************************************************************)
(* The health of one endpoint (or egress path): the circuit breaker of     *)
(* CircuitRuntime and the transient cooldown of EndpointHealthRuntime, with*)
(* the wake slot of each.  A proxy is the same breaker without a cooldown. *)
(*                                                                         *)
(* Every operation reads the clock BEFORE it takes the lock, so readings   *)
(* reach the state out of order; reading and locking are separate steps.   *)
(* The scheduler epoch, which only wakes waiters, is left to               *)
(* SelectionQueue.                                                         *)
(***************************************************************************)
EXTENDS Integers, Sequences, FiniteSets, FiniteSetsExt

CONSTANTS
  Attempts,      \* concurrent users of the endpoint
  Threshold,     \* endpoint_failure_threshold
  FailureWindow, \* endpoint_failure_window
  OpenDuration,  \* endpoint_open_duration
  Transient,     \* transient_endpoint
  MaxProbes,     \* half_open_max_probes
  MaxTime,       \* bound: last tick of the clock
  None           \* Option::None

HealthAssumption ==
  /\ IsFiniteSet(Attempts)
  /\ Threshold \in Nat \ {0} /\ FailureWindow \in Nat /\ OpenDuration \in Nat
  /\ Transient \in Nat /\ MaxProbes \in Nat \ {0} /\ MaxTime \in Nat
  /\ None \notin Nat

VARIABLES
  now,                 \* the monotonic clock
  failure_times,       \* CircuitState, field by field
  open_until,
  half_open_in_flight,
  last_failure_at,
  circuit_wake,        \* deadline scheduled in CircuitRuntime.wake, or None
  transient_until,     \* EndpointHealthRuntime.transient_until
  transient_wake,      \* deadline scheduled in transient_wake, or None
  attempt              \* progress of each attempt, its clock reading, its
                       \* permit and when the attempt started

circuitVars == <<failure_times, open_until, half_open_in_flight,
                 last_failure_at, circuit_wake>>
transientVars == <<transient_until, transient_wake>>
vars == <<now, circuitVars, transientVars, attempt>>

Idle == [at |-> "idle", clock |-> 0, half_open |-> FALSE, permit_at |-> 0,
         started_at |-> 0]

Init ==
  /\ now = 0
  /\ failure_times = <<>> /\ open_until = None
  /\ half_open_in_flight = 0 /\ last_failure_at = None
  /\ circuit_wake = None
  /\ transient_until = None /\ transient_wake = None
  /\ attempt = [a \in Attempts |-> Idle]

Tick ==
  /\ now < MaxTime
  /\ now' = now + 1
  /\ UNCHANGED <<circuitVars, transientVars, attempt>>

Goto(a, l) == attempt' = [attempt EXCEPT ![a].at = l, ![a].clock = 0]
Succeeded(a) ==
  attempt' = [attempt EXCEPT ![a] =
                [Idle EXCEPT !.at = "succeeded", !.started_at = attempt[a].started_at]]
Finish(a) == attempt' = [attempt EXCEPT ![a] = Idle]

(* Reading Instant::now() on the way from one lock to the next.            *)
ReadClock(a, from, to) ==
  /\ attempt[a].at = from
  /\ attempt' = [attempt EXCEPT ![a].at = to, ![a].clock = now]
  /\ UNCHANGED <<now, circuitVars, transientVars>>

-----------------------------------------------------------------------------
(* try_acquire: the cooldown, then the breaker.                            *)

CheckTransient(a) ==
  /\ attempt[a].at = "check"
  /\ IF transient_until # None /\ attempt[a].clock < transient_until
       THEN Finish(a) ELSE Goto(a, "checked")
  /\ UNCHANGED <<now, circuitVars, transientVars>>

Permitted(a, half_open) ==
  attempt' = [attempt EXCEPT ![a].at = "permitted", ![a].clock = 0,
               ![a].half_open = half_open, ![a].permit_at = attempt[a].clock]

AcquireClosed(a) ==
  /\ attempt[a].at = "acquire" /\ open_until = None
  /\ Permitted(a, FALSE)
  /\ UNCHANGED <<now, circuitVars, transientVars>>

AcquireProbe(a) ==
  /\ attempt[a].at = "acquire" /\ open_until # None /\ attempt[a].clock >= open_until
  /\ half_open_in_flight < MaxProbes
  /\ half_open_in_flight' = half_open_in_flight + 1
  /\ Permitted(a, TRUE)
  /\ UNCHANGED <<now, failure_times, open_until, last_failure_at, circuit_wake,
                 transientVars>>

AcquireRefused(a) ==
  /\ attempt[a].at = "acquire" /\ open_until # None
  /\ attempt[a].clock < open_until \/ half_open_in_flight >= MaxProbes
  /\ Finish(a)
  /\ UNCHANGED <<now, circuitVars, transientVars>>

(* AttemptHealth::new reads the clock once all permits are held.           *)
StartAttempt(a) ==
  /\ attempt[a].at = "permitted"
  /\ attempt' = [attempt EXCEPT ![a].at = "running", ![a].started_at = now]
  /\ UNCHANGED <<now, circuitVars, transientVars>>

-----------------------------------------------------------------------------
(* The end of an attempt.                                                  *)

ReleaseProbe(a) ==
  half_open_in_flight' =
    IF attempt[a].half_open /\ half_open_in_flight > 0
      THEN half_open_in_flight - 1 ELSE half_open_in_flight

(* The last recorded failure is newer than the attempt.                    *)
Stale(a) == last_failure_at # None /\ last_failure_at > attempt[a].permit_at

(* Faulty variant: a stale success returns before it gives its probe back. *)
StaleKeepsProbe(a) ==
  /\ attempt[a].at = "running"
  /\ Succeeded(a)
  /\ \/ /\ Stale(a)
        /\ UNCHANGED circuitVars
     \/ /\ ~Stale(a)
        /\ ReleaseProbe(a)
        /\ failure_times' = <<>> /\ open_until' = None
        /\ last_failure_at' = None /\ circuit_wake' = None
  /\ UNCHANGED <<now, transientVars>>

(* Faulty variant: a stale success still cancels the wake.                 *)
StaleCancelsWake(a) ==
  /\ attempt[a].at = "running"
  /\ ReleaseProbe(a)
  /\ Succeeded(a)
  /\ circuit_wake' = None
  /\ \/ /\ Stale(a)
        /\ UNCHANGED <<failure_times, open_until, last_failure_at>>
     \/ /\ ~Stale(a)
        /\ failure_times' = <<>> /\ open_until' = None
        /\ last_failure_at' = None
  /\ UNCHANGED <<now, transientVars>>

(* CircuitRuntime::success ignores a success older than the last failure.  *)
CircuitSuccess(a) ==
  /\ attempt[a].at = "running"
  /\ ReleaseProbe(a)
  /\ Succeeded(a)
  /\ \/ /\ Stale(a)
        /\ UNCHANGED <<failure_times, open_until, last_failure_at, circuit_wake>>
     \/ /\ ~Stale(a)
        /\ failure_times' = <<>> /\ open_until' = None
        /\ last_failure_at' = None /\ circuit_wake' = None
  /\ UNCHANGED <<now, transientVars>>

(* Faulty variant: any success ends the cooldown.                          *)
ClearTransient(a) ==
  /\ attempt[a].at = "succeeded"
  /\ transient_until' = None /\ transient_wake' = None
  /\ Finish(a)
  /\ UNCHANGED <<now, circuitVars>>

(* EndpointHealthRuntime::success ends a cooldown that was over when the   *)
(* attempt started.                                                        *)
TransientSuccess(a) ==
  /\ attempt[a].at = "succeeded"
  /\ IF transient_until # None /\ transient_until <= attempt[a].started_at
       THEN transient_until' = None /\ transient_wake' = None
       ELSE UNCHANGED transientVars
  /\ Finish(a)
  /\ UNCHANGED <<now, circuitVars>>

(* transient(): the cooldown is only ever extended.                        *)
TransientFailure(a) ==
  /\ attempt[a].at = "cooling"
  /\ transient_until' =
       IF transient_until = None THEN attempt[a].clock + Transient
       ELSE Max({transient_until, attempt[a].clock + Transient})
  /\ transient_wake' = transient_until'
  /\ Goto(a, "cooled")
  /\ UNCHANGED <<now, circuitVars>>

(* The failures a reading t finds in the window: the deque is pruned from  *)
(* its front only.                                                         *)
Pruned(t) ==
  LET old(i) == t - failure_times[i] >= FailureWindow
      kept == {i \in 1 .. Len(failure_times) : \E j \in 1 .. i : ~old(j)}
  IN SubSeq(failure_times, Len(failure_times) - Cardinality(kept) + 1, Len(failure_times))

CircuitFailure(a) ==
  LET t == attempt[a].clock
      times == Append(Pruned(t), t)
      should_open == attempt[a].half_open \/ Len(times) >= Threshold
  IN /\ attempt[a].at = "failing"
     /\ ReleaseProbe(a)
     /\ last_failure_at' = t
     /\ IF should_open
          THEN /\ open_until' = t + OpenDuration
               /\ failure_times' = <<>>
               /\ circuit_wake' = t + OpenDuration
          ELSE /\ failure_times' = times
               /\ UNCHANGED <<open_until, circuit_wake>>
     /\ Finish(a)
     /\ UNCHANGED <<now, transientVars>>

(* Faulty variant: a dropped probe is forgotten.                           *)
DropSilently(a) ==
  /\ attempt[a].at \in {"permitted", "running"}
  /\ Finish(a)
  /\ UNCHANGED <<now, circuitVars, transientVars>>

(* neutral() and a dropped attempt give a probe back and say nothing else. *)
DropPermit(a) ==
  /\ attempt[a].at \in {"permitted", "running"}
  /\ ReleaseProbe(a)
  /\ Finish(a)
  /\ UNCHANGED <<now, failure_times, open_until, last_failure_at, circuit_wake,
                 transientVars>>

(* The wake worker removes a due deadline and advances the epoch.          *)
FireWake ==
  /\ \/ circuit_wake # None /\ circuit_wake <= now
     \/ transient_wake # None /\ transient_wake <= now
  /\ circuit_wake' = IF circuit_wake # None /\ circuit_wake <= now THEN None ELSE circuit_wake
  /\ transient_wake' = IF transient_wake # None /\ transient_wake <= now THEN None
                       ELSE transient_wake
  /\ UNCHANGED <<now, failure_times, open_until, half_open_in_flight,
                 last_failure_at, transient_until, attempt>>

-----------------------------------------------------------------------------
Begin(a) == ReadClock(a, "idle", "check")

Acquire(a) ==
  \/ CheckTransient(a) \/ ReadClock(a, "checked", "acquire")
  \/ AcquireClosed(a) \/ AcquireProbe(a) \/ AcquireRefused(a)
  \/ StartAttempt(a)

Complete(a) ==
  \/ CircuitSuccess(a) \/ TransientSuccess(a)
  \/ ReadClock(a, "running", "cooling") \/ TransientFailure(a)
  \/ ReadClock(a, "cooled", "failing") \/ CircuitFailure(a)
  \/ DropPermit(a)

Next ==
  \/ Tick \/ FireWake
  \/ \E a \in Attempts : Begin(a) \/ Acquire(a) \/ Complete(a)

(* A request is bounded by its timeouts and drops its permit at the latest *)
(* then; the clock and the wake worker run.                                *)
Fairness ==
  /\ WF_vars(Tick) /\ WF_vars(FireWake)
  /\ \A a \in Attempts : WF_vars(Acquire(a)) /\ WF_vars(Complete(a))

Spec == Init /\ [][Next]_vars /\ Fairness

-----------------------------------------------------------------------------
Probing == {"permitted", "running", "cooling", "cooled", "failing"}
Probes == {a \in Attempts : attempt[a].half_open /\ attempt[a].at \in Probing}

(* Every variable keeps its type.                                          *)
TypeOK ==
  /\ now \in Nat
  /\ failure_times \in Seq(Nat)
  /\ open_until \in Nat \cup {None} /\ last_failure_at \in Nat \cup {None}
  /\ half_open_in_flight \in Nat
  /\ circuit_wake \in Nat \cup {None}
  /\ transient_until \in Nat \cup {None} /\ transient_wake \in Nat \cup {None}
  /\ attempt \in [Attempts -> [at : Probing \cup {"idle", "check", "checked",
                                  "acquire", "succeeded"},
                               clock : Nat, half_open : BOOLEAN,
                               permit_at : Nat, started_at : Nat]]

(* The probe counter is the number of half-open permits in use, whatever   *)
(* became of the circuit since they were given out: none is leaked, so the *)
(* circuit can always be probed again, and never more than allowed run.    *)
ProbesExact ==
  half_open_in_flight = Cardinality(Probes) /\ half_open_in_flight <= MaxProbes

(* An open circuit always has its wake scheduled at the moment it may be   *)
(* probed, and so has a cooldown: no stale success and no racing failure   *)
(* leaves waiters without the wake-up that tells them to try again.        *)
WakeArmed ==
  /\ open_until # None /\ now < open_until => circuit_wake = open_until
  /\ transient_until # None /\ now < transient_until => transient_wake = transient_until

(* A cooldown is never cut short: it is replaced by a later one or cleared *)
(* after it is over, although racing failures record their readings out of *)
(* order.                                                                  *)
CooldownKept ==
  [][transient_until # None /\ transient_until' # transient_until =>
       IF transient_until' = None THEN transient_until <= now
                                  ELSE transient_until' > transient_until]_vars

(* The circuit is shut to probes: it is open, or half-open with its probes *)
(* taken (past the last tick of the bounded clock it stays as it is).      *)
Shut ==
  /\ open_until \in 0 .. MaxTime
  /\ now < open_until \/ half_open_in_flight >= MaxProbes
=============================================================================
