--------------------------- MODULE QuotaActivity ---------------------------
(***************************************************************************)
(* The activity worker of the quota service: every request that used an    *)
(* OAuth account asks for a refresh of its quota. Requests are debounced,  *)
(* refreshes of an account keep a distance, at most Concurrency of them    *)
(* run, and activity during a refresh makes the account due again. Times   *)
(* are kept relative to now: what is left until an instant, or what has    *)
(* passed since one.                                                       *)
(***************************************************************************)
EXTENDS Integers, FiniteSets, FiniteSetsExt

CONSTANTS Accounts,
          Debounce,      \* ACTIVITY_DEBOUNCE
          Interval,      \* MIN_REFRESH_INTERVAL
          Retention,     \* IDLE_STATE_RETENTION
          Concurrency,   \* MAX_CONCURRENT_REFRESHES
          MaxRun,        \* the longest a refresh takes
          MaxLate,       \* bound on how late a refresh may be
          Nil

Entry == [due : Int \cup {Nil}, inFlight : BOOLEAN, dirty : BOOLEAN, last : Int \cup {Nil}]

(* An entry is kept at least as long as the distance it keeps.             *)
ActivityAssumption ==
  /\ Nil \notin Entry
  /\ {Debounce, Interval, Retention} \subseteq Int /\ Interval <= Retention

VARIABLES activity,   \* ActivityState: [due, inFlight, dirty, last] or Nil
          permit,     \* the permit of notify
          worker,     \* "loop", or "wait" for what comes first
          until,      \* the instant the worker sleeps to, or Nil
          running,    \* running[a]: how long a's refresh runs, or Nil
          asked       \* activity no refresh has been started for yet

vars == <<activity, permit, worker, until, running, asked>>

Fresh == [due |-> Nil, inFlight |-> FALSE, dirty |-> FALSE, last |-> Nil]

Known   == {a \in Accounts : activity[a] # Nil}
Running == {a \in Accounts : running[a] # Nil}

\* What is left of the distance to the last attempt.
Distance(entry) == IF entry.last = Nil THEN 0 ELSE Interval - entry.last

PruneIdle(a) ==
  LET e == activity[a]
  IN  IF e = Nil \/ e.inFlight \/ e.due # Nil \/ e.last = Nil \/ e.last < Retention THEN e ELSE Nil

\* A faulty variant: an account is due as soon as its activity is debounced.
RecordSoon(a) ==
  LET kept == IF activity[a] = Nil THEN Fresh ELSE activity[a]
  IN  /\ activity' = [activity EXCEPT ![a] =
           IF kept.inFlight THEN [kept EXCEPT !.dirty = TRUE] ELSE [kept EXCEPT !.due = Debounce]]
      /\ permit' = TRUE
      /\ asked' = [asked EXCEPT ![a] = TRUE]
      /\ UNCHANGED <<worker, until, running>>

\* OAuthQuotaActivityGuard is dropped when a request has ended.
Record(a) ==
  LET kept  == IF PruneIdle(a) = Nil THEN Fresh ELSE PruneIdle(a)
      entry == IF kept.inFlight THEN [kept EXCEPT !.dirty = TRUE]
               ELSE IF kept.due # Nil THEN kept
               ELSE [kept EXCEPT !.due = Max({Distance(kept), Debounce})]
  IN  /\ activity' = [b \in Accounts |-> IF b = a THEN entry ELSE PruneIdle(b)]
      /\ permit' = TRUE
      /\ asked' = [asked EXCEPT ![a] = TRUE]
      /\ UNCHANGED <<worker, until, running>>

\* The accounts take_due takes: the earliest of those that are due.
DueNow == {a \in Known : activity[a].due # Nil /\ activity[a].due <= 0 /\ ~activity[a].inFlight}

Taken(S) ==
  /\ S \subseteq DueNow
  /\ Cardinality(S) = Min({Cardinality(DueNow), Concurrency - Cardinality(Running)})
  /\ \A a \in S, b \in DueNow \ S : activity[a].due <= activity[b].due

NextDue(state, active) ==
  LET dues == {state[a].due : a \in {b \in Accounts : state[b] # Nil /\ state[b].due # Nil}}
  IN  IF Cardinality(active) = Concurrency \/ dues = {} THEN Nil ELSE Max({Min(dues), 0})

\* One round of run: start what is due, then wait for what comes first.
Loop ==
  /\ worker = "loop"
  /\ \E S \in SUBSET DueNow :
       /\ Taken(S)
       /\ activity' = [a \in Accounts |->
            IF a \in S THEN [activity[a] EXCEPT !.due = Nil, !.inFlight = TRUE, !.last = 0] ELSE activity[a]]
       /\ running' = [a \in Accounts |-> IF a \in S THEN 0 ELSE running[a]]
       /\ asked' = [a \in Accounts |-> asked[a] /\ a \notin S]
  /\ until' = NextDue(activity', {a \in Accounts : running'[a] # Nil})
  /\ worker' = "wait"
  /\ UNCHANGED permit

Notified ==
  /\ worker = "wait"
  /\ permit
  /\ permit' = FALSE
  /\ worker' = "loop"
  /\ UNCHANGED <<activity, until, running, asked>>

SleepEnds ==
  /\ worker = "wait"
  /\ until # Nil /\ until <= 0
  /\ worker' = "loop"
  /\ UNCHANGED <<activity, permit, until, running, asked>>

\* A faulty variant: activity during the refresh is forgotten.
CompleteClean(a) ==
  /\ worker = "wait"
  /\ running[a] # Nil
  /\ running' = [running EXCEPT ![a] = Nil]
  /\ activity' = [activity EXCEPT ![a] = [@ EXCEPT !.inFlight = FALSE, !.dirty = FALSE]]
  /\ permit' = TRUE
  /\ worker' = "loop"
  /\ UNCHANGED <<until, asked>>

\* A refresh has ended, whatever its result.
Complete(a) ==
  LET e == activity[a]
  IN  /\ worker = "wait"
      /\ running[a] # Nil
      /\ running' = [running EXCEPT ![a] = Nil]
      /\ activity' = [activity EXCEPT ![a] =
           [e EXCEPT !.inFlight = FALSE, !.dirty = FALSE,
                     !.due = IF e.dirty THEN Max({Distance(e), 0}) ELSE @]]
      /\ permit' = TRUE
      /\ worker' = "loop"
      /\ UNCHANGED <<until, asked>>

Elapse(left) == IF left = Nil THEN Nil ELSE left - 1

\* Time passes, whatever the worker does. A refresh ends within MaxRun, and
\* the worker is never more than MaxLate behind.
Tick ==
  /\ \A a \in Running : running[a] < MaxRun
  /\ \A a \in Known : activity[a].due # Nil => activity[a].due > -MaxLate
  /\ activity' = [a \in Accounts |->
       IF activity[a] = Nil THEN Nil
       ELSE [activity[a] EXCEPT !.due = Elapse(@),
                                !.last = IF @ = Nil THEN Nil ELSE Min({@ + 1, Retention})]]
  /\ until' = IF until = 0 THEN 0 ELSE Elapse(until)
  /\ running' = [a \in Accounts |-> IF running[a] = Nil THEN Nil ELSE running[a] + 1]
  /\ UNCHANGED <<permit, worker, asked>>

Init ==
  /\ activity = [a \in Accounts |-> Nil]
  /\ permit = FALSE
  /\ worker = "loop"
  /\ until = Nil
  /\ running = [a \in Accounts |-> Nil]
  /\ asked = [a \in Accounts |-> FALSE]

Next ==
  \/ \E a \in Accounts : Record(a) \/ Complete(a)
  \/ Loop \/ Notified \/ SleepEnds \/ Tick

\* The worker is scheduled, its timer fires, refreshes end: every request of
\* one has a timeout.
Fairness ==
  /\ WF_vars(Loop) /\ WF_vars(Notified) /\ WF_vars(SleepEnds) /\ WF_vars(Tick)
  /\ \A a \in Accounts : SF_vars(Complete(a))

Spec == Init /\ [][Next]_vars /\ Fairness

----------------------------------------------------------------------------

TypeOK ==
  /\ permit \in BOOLEAN /\ worker \in {"loop", "wait"}
  /\ \A a \in Accounts : activity[a] # Nil =>
       /\ activity[a].due \in {Nil} \cup (-MaxLate)..Interval
       /\ activity[a].inFlight = (running[a] # Nil)
  /\ Cardinality(Running) <= Concurrency

\* Activity of an account is followed by a refresh of its quota that starts
\* after it, whatever runs at the time (record, complete, run: dirty accounts
\* and stored permits).
ActivityIsObserved == \A a \in Accounts : asked[a] ~> ~asked[a]

\* Refreshes of an account start at least MIN_REFRESH_INTERVAL apart, also
\* when its state was pruned or it became due again during a refresh.
AttemptsAreSpaced ==
  \A a \in Accounts : (running[a] = Nil /\ running'[a] # Nil) =>
    (activity[a].last # Nil => activity[a].last >= Interval)
====
