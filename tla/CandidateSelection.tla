------------------------- MODULE CandidateSelection -------------------------
(***************************************************************************)
(* Choosing a candidate: the scan of the fallback tiers with its shared    *)
(* round-robin cursors, the reservation of a slot and the acquisition of   *)
(* every layer of health behind it, and the wait of the requests that find *)
(* nothing.  A request of a session scans under the lease of its session   *)
(* and gives the lease back before it waits.                               *)
(*                                                                         *)
(* A credential has a rate window of one slot; a layer of health is a      *)
(* circuit with one probe.  The scheduler epoch is a flag per request: an  *)
(* advance sets it, observing the epoch clears it; what a request compares *)
(* the epochs for is whether anybody else advanced it.                     *)
(***************************************************************************)
EXTENDS Integers, Sequences, SequencesExt, FiniteSets, FiniteSetsExt

CONSTANTS
  Requests, \* public requests
  Sessions, \* explicit sessions that requests may belong to
  Tiers,    \* the candidates of the route: a sequence of sequences
  Key,      \* the credential of each candidate
  Layers,   \* endpoint, proxy and path health behind each candidate, in order
  States,   \* CandidateSelectionState: who is allowed, until when deferred, preference
  Fallback, \* fallback_on_rate_limit
  Rejects,  \* on_rate_limited is Reject
  Window, OpenFor, Cooldown,                 \* RATE_WINDOW, open_duration, in ticks
  QueueTimeout, BindingTimeout, MaxWaiting,  \* QueuePolicy, AffinityPolicy
  MaxTime, MaxFaults, \* bounds: the clock, what befalls the candidates
  MaxIdle,            \* bound: fruitless scans that are counted
  Nil

VARIABLES
  now,      \* the monotonic clock
  cursor,   \* RouteTierCursor.next of each tier, modulo the size of the tier
  slot,     \* the reservation in each credential's window
  cooling,  \* rate-limit cooldown of each credential, or -1 when it is rejected for good
  circuit,  \* each layer: open until when, who probes, and its scheduled wake
  active,   \* candidates whose route admission is active
  binding,  \* the entry of each session
  changed,  \* requests for whom the epoch advanced since they observed it
  req,      \* progress and locals of each request
  idle,     \* fruitless scans of each request since anything but itself moved
  faults

worldVars == <<cursor, slot, cooling, circuit, active, binding>>
vars == <<now, worldVars, changed, req, idle, faults>>

Candidates == UNION {ToSet(Tiers[t]) : t \in DOMAIN Tiers}
Keys == {Key[c] : c \in Candidates}
Circuits == UNION {ToSet(Layers[c]) : c \in Candidates}

Absent == [kind |-> "absent", by |-> Nil]

(* The retry times that one tier, and the tiers before it, reported.       *)
NoTimes == [limited |-> FALSE, rate |-> Nil, outage |-> Nil, cooldown |-> Nil,
            deferred |-> Nil]

Idle == [pc |-> "idle", session |-> Nil, state |-> Nil, first |-> TRUE, attempt |-> FALSE,
         ticket |-> FALSE, queue_deadline |-> Nil, binding_deadline |-> Nil,
         tier |-> 0, todo |-> <<>>, deferral |-> FALSE, here |-> NoTimes, before |-> NoTimes,
         layer |-> 0, result |-> Nil, retry_at |-> Nil, answer |-> Nil]

Init ==
  /\ now = 0
  /\ cursor = [t \in DOMAIN Tiers |-> 0]
  /\ slot = [k \in Keys |-> Nil]
  /\ cooling = [k \in Keys |-> 0]
  /\ circuit = [b \in Circuits |-> [until |-> Nil, probe |-> Nil, wake |-> Nil]]
  /\ active = Candidates
  /\ binding = [s \in Sessions |-> Absent]
  /\ changed = {}
  /\ req = [r \in Requests |-> Idle]
  /\ idle = [r \in Requests |-> 0]
  /\ faults = 0

Set(r, f) == req' = [req EXCEPT ![r] = f]
At(r, l) == req[r].pc = l
Session(r) == req[r].session
Live(r) == req[r].pc \notin {"idle", "answered"}

(* SchedulerEpoch::advance, seen by everybody in S.                        *)
Advance(S) == changed' = changed \cup {r \in S : Live(r)}
Stirred == idle' = [r \in Requests |-> 0]
StirOthers(r) == idle' = [q \in Requests |-> IF q = r THEN idle[q] ELSE 0]

Earliest(a, b) == IF a = Nil THEN b ELSE IF b = Nil THEN a ELSE IF a < b THEN a ELSE b

-----------------------------------------------------------------------------
(* What the scan asks a candidate.                                         *)

Reserved(k) == slot[k] # Nil /\ now < slot[k].at + Window

(* CircuitRuntime::availability; a probe in flight is asked again soon.    *)
CircuitBusy(b) ==
  IF circuit[b].until = Nil THEN Nil
  ELSE IF now < circuit[b].until THEN circuit[b].until
  ELSE IF circuit[b].probe # Nil THEN now + 1 ELSE Nil

(* health_availability: the credential first, then the layers in order.    *)
HealthError(c) ==
  LET busy == {i \in DOMAIN Layers[c] : CircuitBusy(Layers[c][i]) # Nil}
  IN IF cooling[Key[c]] = -1 THEN [cause |-> "permanent", until |-> Nil]
     ELSE IF now < cooling[Key[c]] THEN [cause |-> "cooldown", until |-> cooling[Key[c]]]
     ELSE IF busy # {}
          THEN [cause |-> "outage", until |-> CircuitBusy(Layers[c][Min(busy)])]
     ELSE Nil

(* note_health_error, note_temporary.                                      *)
NoteHealth(times, e) ==
  CASE e.cause = "outage" -> [times EXCEPT !.outage = Earliest(@, e.until)]
    [] e.cause = "cooldown" -> [times EXCEPT !.cooldown = Earliest(@, e.until)]
    [] OTHER -> times

(* The tier from the cursor on, one level of preference after the other.   *)
ScanOrder(s, t, start) ==
  LET n == Len(Tiers[t])
      rotated == [i \in 1 .. n |-> [candidate |-> Tiers[t][((start + i - 1) % n) + 1],
                                    offset |-> i - 1]]
      level(p) == SelectSeq(rotated, LAMBDA x : /\ s.preference[x.candidate] = p
                                                /\ x.candidate \in s.allowed)
  IN FlattenSeq([p \in 1 .. 5 |-> level(p - 1)])

Looking(r) == Head(req[r].todo).candidate
Skip(r, times) == [req[r] EXCEPT !.pc = "looking", !.todo = Tail(@), !.here = times]

-----------------------------------------------------------------------------
(* try_select_with and tier::scan.                                         *)

(* A deferral of any candidate that may be used opens the lower tiers.     *)
ActiveDeferral(s) == \E c \in active \cap s.allowed : s.deferred[c] > now

BeginScan(r, f) == [f EXCEPT !.pc = "entering", !.tier = 1, !.before = NoTimes,
                             !.deferral = ActiveDeferral(f.state)]

(* RouteTierCursor::reserve.                                               *)
EnterTier(r) ==
  LET t == req[r].tier IN
  /\ At(r, "entering") /\ t <= Len(Tiers)
  /\ cursor' = [cursor EXCEPT ![t] = (@ + 1) % Len(Tiers[t])]
  /\ Set(r, [req[r] EXCEPT !.pc = "looking", !.here = NoTimes,
                           !.todo = ScanOrder(req[r].state, t, cursor[t])])
  /\ UNCHANGED <<now, slot, cooling, circuit, active, binding, changed, idle, faults>>

Look(r) ==
  LET c == Looking(r)
      not_before == req[r].state.deferred[c]
  IN /\ At(r, "looking") /\ req[r].todo # <<>>
     /\ IF c \notin active THEN Set(r, Skip(r, req[r].here))
        ELSE IF not_before > now
             THEN Set(r, Skip(r, [req[r].here EXCEPT !.deferred = Earliest(@, not_before)]))
        ELSE IF HealthError(c) # Nil THEN Set(r, Skip(r, NoteHealth(req[r].here, HealthError(c))))
        ELSE Set(r, [req[r] EXCEPT !.pc = "reserving"])
     /\ UNCHANGED <<now, worldVars, changed, idle, faults>>

(* CredentialRuntimeBinding::try_reserve.                                  *)
TryReserve(r) ==
  LET k == Key[Looking(r)] IN
  /\ At(r, "reserving")
  /\ IF Reserved(k)
       THEN /\ Set(r, Skip(r, [req[r].here EXCEPT !.limited = TRUE,
                                 !.rate = Earliest(@, slot[k].at + Window)]))
            /\ UNCHANGED slot
       ELSE /\ slot' = [slot EXCEPT ![k] = [at |-> now, by |-> r]]
            /\ Set(r, [req[r] EXCEPT !.pc = "acquiring", !.layer = 0])
  /\ UNCHANGED <<now, cursor, cooling, circuit, active, binding, changed, idle, faults>>

Mine(r) == {b \in Circuits : circuit[b].probe = r}
WithoutProbes(r) ==
  [b \in Circuits |-> IF b \in Mine(r) THEN [circuit[b] EXCEPT !.probe = Nil] ELSE circuit[b]]

(* Faulty variant: a failed acquisition leaves the reservation behind.     *)
KeepReservation(r, e) ==
  /\ circuit' = WithoutProbes(r)
  /\ Advance(IF Mine(r) # {} THEN Requests ELSE {})
  /\ Set(r, Skip(r, NoteHealth(req[r].here, e)))
  /\ Stirred /\ UNCHANGED slot

(* What was acquired is dropped and the reservation rolled back.           *)
GiveBack(r, e) ==
  LET k == Key[Looking(r)]
      mine == IF slot[k] = Nil THEN FALSE ELSE slot[k].by = r
  IN
  /\ circuit' = WithoutProbes(r)
  /\ slot' = IF mine THEN [slot EXCEPT ![k] = Nil] ELSE slot
  /\ Advance(IF mine \/ Mine(r) # {} THEN Requests ELSE {})
  /\ Stirred
  /\ Set(r, Skip(r, NoteHealth(req[r].here, e)))

(* acquire_health: the credential is asked again, then each layer in turn. *)
AcquireLayer(r) ==
  LET c == Looking(r)
      i == req[r].layer
      error == IF i = 0 THEN IF cooling[Key[c]] = -1 THEN [cause |-> "permanent", until |-> Nil]
                             ELSE IF now < cooling[Key[c]]
                             THEN [cause |-> "cooldown", until |-> cooling[Key[c]]] ELSE Nil
               ELSE IF CircuitBusy(Layers[c][i]) # Nil
                    THEN [cause |-> "outage", until |-> CircuitBusy(Layers[c][i])] ELSE Nil
  IN /\ At(r, "acquiring") /\ i <= Len(Layers[c])
     /\ IF error # Nil THEN GiveBack(r, error)
        ELSE /\ circuit' = IF i > 0 /\ circuit[Layers[c][i]].until # Nil
                             THEN [circuit EXCEPT ![Layers[c][i]].probe = r] ELSE circuit
             /\ Set(r, [req[r] EXCEPT !.layer = i + 1])
             /\ UNCHANGED <<slot, changed, idle>>
     /\ UNCHANGED <<now, cursor, cooling, active, binding, faults>>

(* The cursor moves on behind the candidate that was taken.                *)
Acquired(r) ==
  LET t == req[r].tier IN
  /\ At(r, "acquiring") /\ req[r].layer > Len(Layers[Looking(r)])
  /\ cursor' = [cursor EXCEPT ![t] = (@ + Head(req[r].todo).offset) % Len(Tiers[t])]
  /\ Set(r, [req[r] EXCEPT !.pc = "selected", !.result = Looking(r), !.todo = <<>>])
  /\ UNCHANGED <<now, slot, cooling, circuit, active, binding, changed, idle, faults>>

Merged(a, b) ==
  [limited |-> a.limited \/ b.limited, rate |-> Earliest(a.rate, b.rate),
   outage |-> Earliest(a.outage, b.outage), cooldown |-> Earliest(a.cooldown, b.cooldown),
   deferred |-> Earliest(a.deferred, b.deferred)]
Skipped(times) == Earliest(times.outage, times.cooldown)

Found(r, result, retry_at) ==
  /\ Set(r, [req[r] EXCEPT !.pc = "decided", !.result = result, !.retry_at = retry_at])
  /\ idle' = [idle EXCEPT ![r] = IF @ < MaxIdle THEN @ + 1 ELSE @]

(* Nothing in this tier: the request waits in place when the tier is only  *)
(* rate limited or cooling, unless the route spills over or a deferral is  *)
(* active; otherwise it goes on to the next tier.                          *)
LeaveTier(r) ==
  LET here == req[r].here
      times == Merged(req[r].before, here)
      stays == ~Fallback /\ ~req[r].deferral
  IN /\ At(r, "looking") /\ req[r].todo = <<>>
     /\ IF stays /\ here.limited
          THEN Found(r, "limited", Earliest(times.rate, Skipped(times)))
        ELSE IF stays /\ here.cooldown # Nil
          THEN Found(r, "unavailable", Skipped(here))
        ELSE /\ Set(r, [req[r] EXCEPT !.pc = "entering", !.tier = @ + 1, !.before = times,
                                      !.here = NoTimes])
             /\ UNCHANGED idle
     /\ UNCHANGED <<now, worldVars, changed, faults>>

(* After the last tier.                                                    *)
EndScan(r) ==
  LET times == req[r].before
      wake_at == Earliest(times.deferred, Earliest(times.rate, Skipped(times)))
  IN /\ At(r, "entering") /\ req[r].tier > Len(Tiers)
     /\ Found(r, IF times.deferred # Nil THEN "deferred"
                 ELSE IF times.limited THEN "limited"
                 ELSE IF Skipped(times) # Nil THEN "unavailable" ELSE "none",
              wake_at)
     /\ UNCHANGED <<now, worldVars, changed, faults>>

-----------------------------------------------------------------------------
(* select_candidate and wait_for_candidate: requests without a session.    *)

Tickets == {r \in Requests : req[r].ticket}

(* The request ends here: locals, ticket and subscription are gone.        *)
Answered(r, answer) == Set(r, [Idle EXCEPT !.pc = "answered", !.answer = answer])
Quit(r, answer) == Answered(r, answer) /\ UNCHANGED <<now, worldVars, changed, idle, faults>>

Arrive(r) ==
  /\ At(r, "idle")
  /\ \E s \in States :
       \/ Set(r, BeginScan(r, [Idle EXCEPT !.state = s]))
       \/ \E x \in Sessions : Set(r, [Idle EXCEPT !.pc = "observing", !.session = x, !.state = s])
  /\ changed' = changed \ {r}
  /\ UNCHANGED <<now, worldVars, idle, faults>>

(* SelectionWaitState::queue_changes and ::queue.                          *)
Ticketed(r, f) == [f EXCEPT !.ticket = TRUE]
QueueFull(r) == ~req[r].ticket /\ Cardinality(Tickets) >= MaxWaiting
QueueDeadline(r) ==
  IF req[r].queue_deadline = Nil THEN now + QueueTimeout ELSE req[r].queue_deadline
BindingDeadline(r) ==
  IF req[r].binding_deadline = Nil THEN now + BindingTimeout ELSE req[r].binding_deadline

Refusing(result) == result = "none" \/ (Rejects /\ result \in {"limited", "unavailable"})

(* The first try fails: refused, or the request takes a ticket, subscribes *)
(* and tries again.  A later failure sends it to sleep, and one past the   *)
(* deadline is the last but one.                                           *)
Decide(r) ==
  LET f == req[r] IN
  /\ At(r, "decided") /\ Session(r) = Nil
  /\ IF IF f.first THEN Refusing(f.result) ELSE f.result = "none" THEN Answered(r, f.result)
     ELSE IF f.first THEN
       IF QueueFull(r) THEN Answered(r, "queue_full")
       ELSE Set(r, [Ticketed(r, f) EXCEPT !.pc = "observing", !.first = FALSE,
                                          !.queue_deadline = QueueDeadline(r)])
     ELSE IF f.attempt THEN Answered(r, f.result)
     ELSE IF now >= f.queue_deadline
          THEN Set(r, BeginScan(r, [f EXCEPT !.attempt = TRUE]))
     ELSE Set(r, [f EXCEPT !.pc = "sleeping"])
  /\ UNCHANGED <<now, worldVars, changed, idle, faults>>

(* borrow_and_update, then the scan.                                       *)
Observe(r) ==
  /\ At(r, "observing") /\ Session(r) = Nil
  /\ changed' = changed \ {r}
  /\ Set(r, BeginScan(r, req[r]))
  /\ UNCHANGED <<now, worldVars, idle, faults>>

WakeAt(r) == Earliest(req[r].retry_at, req[r].queue_deadline)

Wake(r) ==
  /\ At(r, "sleeping") /\ (r \in changed \/ now >= WakeAt(r))
  /\ Set(r, [req[r] EXCEPT !.pc = "observing"])
  /\ UNCHANGED <<now, worldVars, changed, idle, faults>>

(* Without a retry time the deadline leads to the last selection at once.  *)
WakeAtDeadline(r) ==
  /\ At(r, "sleeping") /\ Session(r) = Nil /\ req[r].retry_at = Nil
  /\ now >= req[r].queue_deadline /\ r \notin changed
  /\ Set(r, BeginScan(r, [req[r] EXCEPT !.attempt = TRUE]))
  /\ UNCHANGED <<now, worldVars, changed, idle, faults>>

-----------------------------------------------------------------------------
(* select_session.                                                         *)

Lease(r) == Session(r) # Nil /\ binding[Session(r)] = [kind |-> "selecting", by |-> r]

(* begin_session, after the epoch is observed: the lease, the binding, or  *)
(* a wait for whoever creates it.  The first time that wait only takes a   *)
(* ticket and looks again.                                                 *)
BeginSession(r) ==
  LET s == Session(r)
      e == binding[s]
      late == IF e.kind = "selecting" THEN now >= QueueDeadline(r) ELSE now >= BindingDeadline(r)
      waits == IF e.kind = "selecting"
                 THEN [req[r] EXCEPT !.queue_deadline = QueueDeadline(r)]
                 ELSE [req[r] EXCEPT !.binding_deadline = BindingDeadline(r)]
  IN /\ At(r, "observing") /\ s # Nil
     /\ changed' = changed \ {r}
     /\ IF req[r].attempt /\ now >= BindingDeadline(r)
          THEN Answered(r, "binding_timeout") /\ UNCHANGED binding
        ELSE IF e.kind = "absent"
          THEN /\ binding' = [binding EXCEPT ![s] = [kind |-> "selecting", by |-> r]]
               /\ Set(r, BeginScan(r, [req[r] EXCEPT !.attempt = FALSE]))
        ELSE /\ UNCHANGED binding
             /\ IF e.kind = "bound" THEN Answered(r, IF e.by \in active THEN "bound" ELSE "lost")
                ELSE IF late THEN Answered(r, "creation_timeout")
                ELSE IF QueueFull(r) THEN Answered(r, "queue_full")
                ELSE IF req[r].first
                  THEN Set(r, [Ticketed(r, waits) EXCEPT !.first = FALSE, !.attempt = FALSE])
                ELSE Set(r, [waits EXCEPT !.pc = IF e.kind = "selecting" THEN "awaiting"
                                                 ELSE "awaiting_attempt",
                                          !.attempt = e.kind = "attempting"])
     /\ UNCHANGED <<now, cursor, slot, cooling, circuit, active, idle, faults>>

(* A refused request drops its lease with it.                              *)
Refuse(r) ==
  /\ At(r, "decided") /\ Session(r) # Nil /\ Refusing(req[r].result)
  /\ binding' = [binding EXCEPT ![Session(r)] = Absent]
  /\ Advance(Requests) /\ Stirred
  /\ Answered(r, req[r].result)
  /\ UNCHANGED <<now, cursor, slot, cooling, circuit, active, faults>>

(* Faulty variant: nobody is told that the lease is free again.            *)
ReleaseSilently(r) ==
  /\ At(r, "decided") /\ Session(r) # Nil /\ ~Refusing(req[r].result)
  /\ binding' = [binding EXCEPT ![Session(r)] = Absent]
  /\ Set(r, [req[r] EXCEPT !.pc = "released"])
  /\ UNCHANGED <<now, cursor, slot, cooling, circuit, active, changed, idle, faults>>

(* Faulty variant: the request takes its own release for somebody else's.  *)
ReleaseToItself(r) ==
  /\ At(r, "decided") /\ Session(r) # Nil /\ ~Refusing(req[r].result)
  /\ binding' = [binding EXCEPT ![Session(r)] = Absent]
  /\ Advance(Requests) /\ StirOthers(r)
  /\ Set(r, [req[r] EXCEPT !.pc = "released"])
  /\ UNCHANGED <<now, cursor, slot, cooling, circuit, active, faults>>

(* release_for_wait returns the epoch of its own advance, which is not     *)
(* taken for an external change.                                           *)
ReleaseForWait(r) ==
  /\ At(r, "decided") /\ Session(r) # Nil /\ ~Refusing(req[r].result)
  /\ binding' = [binding EXCEPT ![Session(r)] = Absent]
  /\ Advance(Requests \ {r}) /\ StirOthers(r)
  /\ Set(r, [req[r] EXCEPT !.pc = "released"])
  /\ UNCHANGED <<now, cursor, slot, cooling, circuit, active, faults>>

(* Faulty variant: whatever happened during the scan is taken as seen.     *)
SleepAfterRelease(r) ==
  /\ At(r, "released")
  /\ changed' = changed \ {r}
  /\ IF now >= QueueDeadline(r) THEN Answered(r, req[r].result)
     ELSE IF QueueFull(r) THEN Answered(r, "queue_full")
     ELSE Set(r, [Ticketed(r, req[r]) EXCEPT !.first = FALSE, !.pc = "sleeping",
                                             !.queue_deadline = QueueDeadline(r)])
  /\ UNCHANGED <<now, worldVars, idle, faults>>

(* The deadline, the ticket, and release_observed_external_change: whoever *)
(* else advanced the epoch during the scan sends the request round again.  *)
AfterRelease(r) ==
  /\ At(r, "released")
  /\ changed' = changed \ {r}
  /\ IF now >= QueueDeadline(r) THEN Answered(r, req[r].result)
     ELSE IF QueueFull(r) THEN Answered(r, "queue_full")
     ELSE Set(r, [Ticketed(r, req[r]) EXCEPT
                    !.first = FALSE, !.queue_deadline = QueueDeadline(r),
                    !.pc = IF r \in changed THEN "observing" ELSE "sleeping"])
  /\ UNCHANGED <<now, worldVars, idle, faults>>

(* wait_for_epoch and wait_for_attempt.                                    *)
CreatorMoved(r) ==
  /\ req[r].pc \in {"awaiting", "awaiting_attempt"}
  /\ r \in changed \/ (At(r, "awaiting") /\ now >= req[r].queue_deadline)
  /\ Set(r, [req[r] EXCEPT !.pc = "observing"])
  /\ UNCHANGED <<now, worldVars, changed, idle, faults>>

CreatorTooSlow(r) ==
  /\ At(r, "awaiting_attempt") /\ now >= req[r].binding_deadline /\ r \notin changed
  /\ Quit(r, "binding_timeout")

-----------------------------------------------------------------------------
(* The attempt with the selected candidate.                                *)

(* mark_attempting tells those who wait for the session.                   *)
StartAttempt(r) ==
  /\ At(r, "selected")
  /\ IF Session(r) = Nil THEN UNCHANGED <<binding, changed, idle>>
     ELSE /\ binding' = [binding EXCEPT ![Session(r)] = [kind |-> "attempting", by |-> r]]
          /\ Advance(Requests \ {r}) /\ StirOthers(r)
  /\ Set(r, [Idle EXCEPT !.pc = "attempting", !.session = Session(r), !.result = req[r].result])
  /\ UNCHANGED <<now, cursor, slot, cooling, circuit, active, faults>>

(* The probes of the attempt report: a success closes their circuits, a    *)
(* failure opens them again.                                               *)
Reported(r, success) ==
  [b \in Circuits |->
     IF circuit[b].probe # r THEN circuit[b]
     ELSE IF success THEN [until |-> Nil, probe |-> Nil, wake |-> Nil]
     ELSE [until |-> now + OpenFor, probe |-> Nil, wake |-> now + OpenFor]]

(* commit binds the session; a failed or dropped attempt leaves it free.   *)
EndAttempt(r, success) ==
  /\ At(r, "attempting")
  /\ circuit' = Reported(r, success)
  /\ binding' = IF Session(r) = Nil THEN binding
                ELSE [binding EXCEPT ![Session(r)] =
                        IF success THEN [kind |-> "bound", by |-> req[r].result] ELSE Absent]
  /\ IF Session(r) # Nil \/ (success /\ Mine(r) # {}) THEN Advance(Requests) ELSE UNCHANGED changed
  /\ Answered(r, IF success THEN "success" ELSE "failure")
  /\ Stirred
  /\ UNCHANGED <<now, cursor, slot, cooling, active, faults>>

(* The client goes away while its request waits or attempts.               *)
Cancel(r) ==
  /\ req[r].pc \in {"sleeping", "awaiting", "awaiting_attempt", "attempting"}
  /\ circuit' = WithoutProbes(r)
  /\ IF At(r, "attempting") /\ Session(r) # Nil
       THEN binding' = [binding EXCEPT ![Session(r)] = Absent] ELSE UNCHANGED binding
  /\ IF At(r, "attempting") /\ (Session(r) # Nil \/ Mine(r) # {}) THEN Advance(Requests)
     ELSE UNCHANGED changed
  /\ Answered(r, "cancelled")
  /\ Stirred
  /\ UNCHANGED <<now, cursor, slot, cooling, active, faults>>

-----------------------------------------------------------------------------
(* What others do to the candidates.                                       *)

Tick ==
  /\ now < MaxTime
  /\ now' = now + 1
  /\ Stirred
  /\ UNCHANGED <<worldVars, changed, req, faults>>

Fault ==
  /\ faults < MaxFaults /\ faults' = faults + 1
  /\ Stirred
  /\ UNCHANGED <<now, cursor, slot, binding, req>>

(* Attempts of other routes open a circuit; its wake is scheduled.         *)
Trip(b) ==
  /\ Fault
  /\ circuit' = [circuit EXCEPT ![b].until = now + OpenFor, ![b].wake = now + OpenFor]
  /\ UNCHANGED <<cooling, active, changed>>

WakeFires(b) ==
  /\ circuit[b].wake # Nil /\ circuit[b].wake <= now
  /\ circuit' = [circuit EXCEPT ![b].wake = Nil]
  /\ Advance(Requests)
  /\ Stirred
  /\ UNCHANGED <<now, cursor, slot, cooling, active, binding, req, faults>>

(* A credential is rate limited upstream, rejected or restored.            *)
Cool(k) ==
  /\ Fault
  /\ \/ cooling' = [cooling EXCEPT ![k] = now + Cooldown] /\ UNCHANGED changed
     \/ cooling' = [cooling EXCEPT ![k] = -1] /\ UNCHANGED changed
     \/ cooling[k] # 0 /\ cooling' = [cooling EXCEPT ![k] = 0] /\ Advance(Requests)
  /\ UNCHANGED <<circuit, active>>

(* An edit takes a candidate out of the route.                             *)
Revoke(c) ==
  /\ Fault /\ c \in active
  /\ active' = active \ {c}
  /\ Advance(Requests)
  /\ UNCHANGED <<cooling, circuit>>

Scan(r) ==
  \/ EnterTier(r) \/ Look(r) \/ TryReserve(r) \/ AcquireLayer(r) \/ Acquired(r)
  \/ LeaveTier(r) \/ EndScan(r)

Next ==
  \/ Tick
  \/ \E b \in Circuits : Trip(b) \/ WakeFires(b)
  \/ \E k \in Keys : Cool(k)
  \/ \E c \in Candidates : Revoke(c)
  \/ \E r \in Requests :
       \/ Arrive(r) \/ Scan(r) \/ Decide(r) \/ Observe(r) \/ Wake(r) \/ WakeAtDeadline(r)
       \/ BeginSession(r) \/ Refuse(r) \/ ReleaseForWait(r) \/ AfterRelease(r)
       \/ CreatorMoved(r) \/ CreatorTooSlow(r)
       \/ StartAttempt(r) \/ Cancel(r) \/ \E success \in BOOLEAN : EndAttempt(r, success)

Spec == Init /\ [][Next]_vars

-----------------------------------------------------------------------------
(* Properties.                                                             *)

Times == Int \cup {Nil}

TypeOK ==
  /\ now \in 0 .. MaxTime /\ faults \in 0 .. MaxFaults
  /\ \A t \in DOMAIN Tiers : cursor[t] \in 0 .. Len(Tiers[t]) - 1
  /\ active \subseteq Candidates /\ changed \subseteq Requests
  /\ \A k \in Keys : cooling[k] \in Int
  /\ \A b \in Circuits : circuit[b].probe \in Requests \cup {Nil}
  /\ \A s \in Sessions : binding[s].kind \in {"absent", "selecting", "attempting", "bound"}
  /\ \A r \in Requests : req[r].todo \in Seq([candidate : Candidates, offset : Nat])

(* A scan that began now would take a candidate of tier t, or stop at it.  *)
(* The tiers below the one where the request stopped are not its own.      *)
Usable(r, t) ==
  \E c \in ToSet(Tiers[t]) \cap active \cap req[r].state.allowed :
    req[r].state.deferred[c] <= now /\ HealthError(c) = Nil /\ ~Reserved(Key[c])
StopsAt(r, t) ==
  /\ ~Fallback /\ ~ActiveDeferral(req[r].state)
  /\ \E c \in ToSet(Tiers[t]) \cap active \cap req[r].state.allowed :
       /\ req[r].state.deferred[c] <= now
       /\ IF HealthError(c) = Nil THEN Reserved(Key[c]) ELSE HealthError(c).cause = "cooldown"
WouldSelect(r) ==
  \E t \in DOMAIN Tiers :
    /\ t <= req[r].tier
    /\ Usable(r, t)
    /\ \A u \in 1 .. t - 1 : ~Usable(r, u) /\ ~StopsAt(r, u)

(* No request sleeps through a candidate it could have: when a new scan    *)
(* would succeed, the sleeper has been told, its timer has come, or a      *)
(* scheduled wake is due.  The scan looks at one candidate after the other *)
(* while slots, probes and leases come and go behind it, and a session's   *)
(* request advances the very epoch it waits for.                           *)
NeverSleepsThrough ==
  \A r \in Requests :
    (At(r, "sleeping") /\ WouldSelect(r)) =>
      \/ r \in changed \/ now >= WakeAt(r)
      \/ \E b \in Circuits : circuit[b].wake # Nil /\ circuit[b].wake <= now

(* A request that waits for the creator of its session is told when there  *)
(* is none any more.                                                       *)
NoOrphanedWait ==
  \A r \in Requests :
    (req[r].pc \in {"awaiting", "awaiting_attempt"} /\ binding[Session(r)].kind \in {"absent", "bound"})
      => r \in changed

(* Whatever a request took on the way to a candidate it did not get is     *)
(* given back: while it waits, and once it is answered, it holds no probe, *)
(* no lease, and no slot unless its attempt began.                         *)
NothingHeldAsleep ==
  \A r \in Requests :
    req[r].pc \in {"sleeping", "awaiting", "awaiting_attempt", "answered"} =>
      /\ Mine(r) = {}
      /\ ~Lease(r)
      /\ req[r].pc # "answered" => \A k \in Keys : slot[k] = Nil \/ slot[k].by # r

(* A request that found nothing waits until somebody else moves: while the *)
(* clock stands, nothing is given back and nobody else advances the epoch, *)
(* it scans in vain at most twice, before and after it takes its ticket.   *)
(* Its scan advances the epoch it then waits for: it must not take its own *)
(* release for an external change and go round for ever                    *)
(* (release_observed_external_change).                                     *)
WaitsAreQuiet == \A r \in Requests : idle[r] <= 2
=============================================================================
