---------------------------- MODULE RpmAdmission ----------------------------
(***************************************************************************)
(* Admission of requests to one credential: the rolling RPM window, the    *)
(* slots kept for fixed (session bound) waiters, the in-flight counter,    *)
(* and the route admissions that a configuration publication revokes.      *)
(*                                                                         *)
(* One CredentialRuntimeHandle survives every publication that keeps its   *)
(* credential; a request binds to a published snapshot (a limit and a      *)
(* route admission) and may use that binding long after the snapshot was   *)
(* replaced.                                                               *)
(***************************************************************************)
EXTENDS Integers, FiniteSets, FiniteSetTheorems, TLAPS

CONSTANTS
  Requests,         \* request tasks that may select this credential
  FixedRequests,    \* those bound to it by a session (try_reserve_fixed)
  Limits,           \* values requests_per_minute takes when it is set
  Routes,           \* route identities (generation, endpoint, proxy versions)
  Configs,          \* configurations of the credential that may be published
  Window,           \* RATE_WINDOW, in ticks
  None,             \* Option::None
  MaxTime,          \* bound: last tick of the clock
  MaxReservations,  \* bound: reservations made in one behaviour
  MaxIncarnations   \* bound: route admissions created in one behaviour

Reservation == [id : Nat, at : Nat]

ASSUME RequestsAssumption ==
  /\ IsFiniteSet(Requests)
  /\ FixedRequests \subseteq Requests
ASSUME LimitsAssumption == Limits \subseteq Nat \ {0}
ASSUME ConfigsAssumption ==
  Configs \subseteq [limit : Limits \cup {None}, route : Routes \cup {None}]
ASSUME WindowAssumption == Window \in Nat \ {0}
ASSUME NoneAssumption == None \notin Routes \cup Nat \cup Reservation
ASSUME BoundsAssumption ==
  MaxTime \in Nat /\ MaxReservations \in Nat /\ MaxIncarnations \in Nat \ {0}

VARIABLES
  now,           \* the monotonic clock
  attempts,      \* rate_window.attempts; deque order is the order of ids
  next_id,       \* rate_window.next_reservation_id
  fixed_waiters, \* MutableRuntimeState.fixed_waiters
  in_flight,     \* CredentialRuntimeHandle.in_flight
  active,        \* the incarnations whose RouteAdmission.active is true
  by_identity,   \* RouteAdmissionRegistry.by_identity: route -> incarnation
  next_inc,      \* RouteAdmissionRegistry.next_incarnation
  current,       \* the published binding: its limit and its admission
  bound,         \* the binding produced by bind(), not yet published
  phase,         \* progress of the (serialized) publication
  pc,            \* progress of each request
  binding,       \* the binding each request selected with
  reservation,   \* RoutingPermit.rate_reservation
  registered,    \* requests that hold a FixedCredentialWaiter
  granted        \* history: reservations made and not rolled back

rateVars == <<attempts, next_id, granted>>
admissionVars == <<active, by_identity, next_inc>>
publishVars == <<current, bound, phase>>
requestVars == <<pc, binding, reservation>>
vars == <<now, rateVars, fixed_waiters, in_flight, admissionVars, publishVars,
          requestVars, registered>>

Incarnation == Nat \ {0}
Binding == [limit : Limits \cup {None}, admission : Incarnation \cup {None}]
Grant == [id : Nat, at : Nat, limit : Limits, fixed : BOOLEAN]

Unbound == [limit |-> None, admission |-> None]

(* The process starts with one published configuration.                    *)
Init ==
  /\ now = 0
  /\ attempts = {} /\ next_id = 0 /\ granted = {}
  /\ fixed_waiters = 0 /\ in_flight = 0
  /\ \E c \in Configs :
       /\ current = [limit |-> c.limit, admission |-> IF c.route = None THEN None ELSE 1]
       /\ active = {current.admission} \ {None}
       /\ by_identity = [r \in Routes |-> IF r = c.route THEN 1 ELSE None]
  /\ next_inc = 2
  /\ bound = Unbound /\ phase = "idle"
  /\ pc = [r \in Requests |-> "idle"]
  /\ binding = [r \in Requests |-> Unbound]
  /\ reservation = [r \in Requests |-> None]
  /\ registered = {}

Tick ==
  /\ now < MaxTime
  /\ now' = now + 1
  /\ UNCHANGED <<rateVars, fixed_waiters, in_flight, admissionVars,
                 publishVars, requestVars, registered>>

-----------------------------------------------------------------------------
(* The rolling window.                                                     *)

Expired(r) == r.at <= now - Window

(* prune: pop from the front while the front is expired, that is, drop the *)
(* longest prefix of expired reservations.                                 *)
Prune(s) == {r \in s : \E q \in s : q.id <= r.id /\ ~Expired(q)}

(* Observing the window (rate_snapshot) prunes it too.                     *)
RateSnapshot ==
  /\ attempts' = Prune(attempts)
  /\ UNCHANGED <<now, next_id, granted, fixed_waiters, in_flight,
                 admissionVars, publishVars, requestVars, registered>>

(* Faulty variants: the limit is compared, and the kept slots are counted, *)
(* one off.                                                                *)
FullOffByOne(s, limit) == Cardinality(s) > limit
KeptOffByOne(s, limit) == limit - Cardinality(s) < fixed_waiters

(* The three outcomes of CredentialRateWindow::try_reserve for a request   *)
(* whose binding sets a limit.                                             *)
Full(s, limit) == Cardinality(s) >= limit
KeptForFixed(s, limit) == limit - Cardinality(s) <= fixed_waiters
MayReserve(r, s, limit) ==
  /\ ~Full(s, limit)
  /\ r \in FixedRequests \/ ~KeptForFixed(s, limit)

-----------------------------------------------------------------------------
(* Publication of a configuration that keeps the credential: reconcile     *)
(* builds a new binding on the same handle, replace makes it the current   *)
(* snapshot, publish_current revokes every other admission.                *)

(* RouteAdmissionRegistry::prepare for one identity, or no admission when  *)
(* the credential, its endpoint or its proxy is disabled.                  *)
Live(route) == by_identity[route] # None /\ by_identity[route] \in active

Bind(c) ==
  /\ phase = "idle"
  /\ phase' = "bound"
  /\ \/ /\ c.route = None
        /\ bound' = [limit |-> c.limit, admission |-> None]
        /\ UNCHANGED admissionVars
     \/ /\ c.route # None /\ Live(c.route)
        /\ bound' = [limit |-> c.limit, admission |-> by_identity[c.route]]
        /\ UNCHANGED admissionVars
     \/ /\ c.route # None /\ ~Live(c.route) /\ next_inc <= MaxIncarnations
        /\ bound' = [limit |-> c.limit, admission |-> next_inc]
        /\ active' = active \cup {next_inc}
        /\ by_identity' = [by_identity EXCEPT ![c.route] = next_inc]
        /\ next_inc' = next_inc + 1
  /\ UNCHANGED <<now, rateVars, fixed_waiters, in_flight, current,
                 requestVars, registered>>

Replace ==
  /\ phase = "bound"
  /\ phase' = "replaced"
  /\ current' = bound
  /\ UNCHANGED <<now, rateVars, fixed_waiters, in_flight, admissionVars,
                 bound, requestVars, registered>>

(* Faulty variant: the replaced admissions leave the registry unrevoked.   *)
ForgetWithoutRevoke ==
  /\ phase = "replaced"
  /\ phase' = "idle"
  /\ by_identity' = [r \in Routes |->
       IF by_identity[r] = current.admission THEN by_identity[r] ELSE None]
  /\ bound' = Unbound
  /\ UNCHANGED <<now, rateVars, fixed_waiters, in_flight, active, next_inc,
                 current, requestVars, registered>>

PublishCurrent ==
  /\ phase = "replaced"
  /\ phase' = "idle"
  /\ active' = {i \in active : \/ i = current.admission
                               \/ \A r \in Routes : by_identity[r] # i}
  /\ by_identity' = [r \in Routes |->
       IF by_identity[r] = current.admission THEN by_identity[r] ELSE None]
  /\ bound' = Unbound
  /\ UNCHANGED <<now, rateVars, fixed_waiters, in_flight, next_inc, current,
                 requestVars, registered>>

-----------------------------------------------------------------------------
(* A request: it binds to the current snapshot, reserves a slot, counts    *)
(* itself in flight, and starts its attempt unless its route was revoked.  *)

LoadSnapshot(r) ==
  /\ pc[r] = "idle" /\ r \notin registered
  /\ pc' = [pc EXCEPT ![r] = "selecting"]
  /\ binding' = [binding EXCEPT ![r] = current]
  /\ UNCHANGED <<now, rateVars, fixed_waiters, in_flight, admissionVars,
                 publishVars, reservation, registered>>

(* The candidate's admission is checked before anything is reserved.       *)
AdmissionInactive(r) ==
  /\ pc[r] = "selecting" /\ binding[r].admission \notin active
  /\ pc' = [pc EXCEPT ![r] = "idle"]
  /\ binding' = [binding EXCEPT ![r] = Unbound]
  /\ UNCHANGED <<now, rateVars, fixed_waiters, in_flight, admissionVars,
                 publishVars, reservation, registered>>

AdmissionActive(r) ==
  /\ pc[r] = "selecting" /\ binding[r].admission \in active
  /\ pc' = [pc EXCEPT ![r] = "reserving"]
  /\ UNCHANGED <<now, rateVars, fixed_waiters, in_flight, admissionVars,
                 publishVars, binding, reservation, registered>>

(* try_reserve under the handle's lock: no limit, so no reservation.       *)
ReserveUnlimited(r) ==
  /\ pc[r] = "reserving" /\ binding[r].limit = None
  /\ attempts' = Prune(attempts)
  /\ pc' = [pc EXCEPT ![r] = "reserved"]
  /\ UNCHANGED <<now, next_id, granted, fixed_waiters, in_flight,
                 admissionVars, publishVars, binding, reservation, registered>>

(* try_reserve under the handle's lock: the clock is read inside the lock. *)
Reserve(r) ==
  LET limit == binding[r].limit
      kept == Prune(attempts)
      new == [id |-> next_id, at |-> now]
  IN
  /\ pc[r] = "reserving" /\ limit # None
  /\ MayReserve(r, kept, limit)
  /\ next_id < MaxReservations
  /\ attempts' = kept \cup {new}
  /\ next_id' = next_id + 1
  /\ granted' = granted \cup {[id |-> next_id, at |-> now, limit |-> limit,
                               fixed |-> r \in FixedRequests]}
  /\ reservation' = [reservation EXCEPT ![r] = new]
  /\ pc' = [pc EXCEPT ![r] = "reserved"]
  /\ UNCHANGED <<now, fixed_waiters, in_flight, admissionVars, publishVars,
                 binding, registered>>

(* try_reserve fails: the pruning stays, the request has to wait.          *)
RateLimited(r) ==
  LET kept == Prune(attempts) IN
  /\ pc[r] = "reserving" /\ binding[r].limit # None
  /\ ~MayReserve(r, kept, binding[r].limit)
  /\ attempts' = kept
  /\ pc' = [pc EXCEPT ![r] = "limited"]
  /\ UNCHANGED <<now, next_id, granted, fixed_waiters, in_flight,
                 admissionVars, publishVars, binding, reservation, registered>>

(* A fixed request registers once as a waiter before it waits.             *)
RegisterFixedWaiter(r) ==
  /\ pc[r] = "limited" /\ r \in FixedRequests \ registered
  /\ fixed_waiters' = fixed_waiters + 1
  /\ registered' = registered \cup {r}
  /\ UNCHANGED <<now, rateVars, in_flight, admissionVars, publishVars,
                 requestVars>>

(* The health of the candidate is checked before the reservation; a wait   *)
(* for health holds no RPM slot.                                           *)
HealthUnavailable(r) ==
  /\ pc[r] = "reserving"
  /\ pc' = [pc EXCEPT ![r] = "unhealthy"]
  /\ UNCHANGED <<now, rateVars, fixed_waiters, in_flight, admissionVars,
                 publishVars, binding, reservation, registered>>

(* A fixed request wakes up (a change, its retry time) and tries the same  *)
(* candidate again; a normal request re-plans from the latest snapshot.    *)
RetryFixed(r) ==
  /\ r \in FixedRequests
  /\ \/ pc[r] = "limited" /\ r \in registered
     \/ pc[r] = "unhealthy" /\ r \notin registered
  /\ pc' = [pc EXCEPT ![r] = "selecting"]
  /\ UNCHANGED <<now, rateVars, fixed_waiters, in_flight, admissionVars,
                 publishVars, binding, reservation, registered>>

(* Deadline, queue full, cancellation, or a normal request that re-plans.  *)
GiveUp(r) ==
  /\ pc[r] \in {"selecting", "limited", "unhealthy"}
  /\ pc' = [pc EXCEPT ![r] = "idle"]
  /\ binding' = [binding EXCEPT ![r] = Unbound]
  /\ UNCHANGED <<now, rateVars, fixed_waiters, in_flight, admissionVars,
                 publishVars, reservation, registered>>

(* in_flight is an atomic outside the lock.                                *)
CountInFlight(r) ==
  /\ pc[r] = "reserved"
  /\ in_flight' = in_flight + 1
  /\ pc' = [pc EXCEPT ![r] = "held"]
  /\ UNCHANGED <<now, rateVars, fixed_waiters, admissionVars, publishVars,
                 binding, reservation, registered>>

(* try_start_attempt linearizes against revocation.                        *)
StartAttempt(r) ==
  /\ pc[r] = "held" /\ binding[r].admission \in active
  /\ pc' = [pc EXCEPT ![r] = "started"]
  /\ UNCHANGED <<now, rateVars, fixed_waiters, in_flight, admissionVars,
                 publishVars, binding, reservation, registered>>

(* The retry budget lets the attempt go to the upstream.                   *)
RegisterAttempt(r) ==
  /\ pc[r] = "started"
  /\ pc' = [pc EXCEPT ![r] = "running"]
  /\ UNCHANGED <<now, rateVars, fixed_waiters, in_flight, admissionVars,
                 publishVars, binding, reservation, registered>>

(* Faulty variants: a rollback that leaves the in-flight count alone, one  *)
(* that pops the youngest reservation instead of its own.                  *)
RollbackWithoutRelease(r) ==
  /\ pc[r] \in {"held", "started"}
  /\ attempts' = {a \in attempts : reservation[r] = None \/ a.id # reservation[r].id}
  /\ granted' = {g \in granted : reservation[r] = None \/ g.id # reservation[r].id}
  /\ reservation' = [reservation EXCEPT ![r] = None]
  /\ pc' = [pc EXCEPT ![r] = "idle"]
  /\ UNCHANGED <<now, next_id, fixed_waiters, in_flight, admissionVars,
                 publishVars, binding, registered>>

RollbackYoungest(r) ==
  /\ pc[r] \in {"held", "started"}
  /\ attempts' = {a \in attempts : \E b \in attempts : b.id > a.id}
  /\ granted' = {g \in granted : \E h \in granted : h.id > g.id}
  /\ reservation' = [reservation EXCEPT ![r] = None]
  /\ pc' = [pc EXCEPT ![r] = "releasing"]
  /\ UNCHANGED <<now, next_id, fixed_waiters, in_flight, admissionVars,
                 publishVars, binding, registered>>

(* rollback_before_attempt, after a health rejection, a newer snapshot, a  *)
(* revoked route or a retry budget that ran out in between: the exact      *)
(* reservation leaves the window, if it is still there.                    *)
RollbackBeforeAttempt(r) ==
  /\ pc[r] \in {"held", "started"}
  /\ attempts' = {a \in attempts : reservation[r] = None \/ a.id # reservation[r].id}
  /\ granted' = {g \in granted : reservation[r] = None \/ g.id # reservation[r].id}
  /\ reservation' = [reservation EXCEPT ![r] = None]
  /\ pc' = [pc EXCEPT ![r] = "releasing"]
  /\ UNCHANGED <<now, next_id, fixed_waiters, in_flight, admissionVars,
                 publishVars, binding, registered>>

(* The permit is dropped: an attempt ended, or its future was cancelled.   *)
(* The reservation stays in the window.                                    *)
DropPermit(r) ==
  /\ pc[r] \in {"held", "started", "running"}
  /\ reservation' = [reservation EXCEPT ![r] = None]
  /\ pc' = [pc EXCEPT ![r] = "releasing"]
  /\ UNCHANGED <<now, rateVars, fixed_waiters, in_flight, admissionVars,
                 publishVars, binding, registered>>

ReleaseInFlight(r) ==
  /\ pc[r] = "releasing"
  /\ in_flight' = in_flight - 1
  /\ pc' = [pc EXCEPT ![r] = "idle"]
  /\ binding' = [binding EXCEPT ![r] = Unbound]
  /\ UNCHANGED <<now, rateVars, fixed_waiters, admissionVars, publishVars,
                 reservation, registered>>

(* FixedCredentialWaiter::drop: the selection returned, waits for health,  *)
(* or its future was dropped.                                              *)
ReleaseFixedWaiter(r) ==
  /\ r \in registered /\ pc[r] \in {"idle", "unhealthy", "held", "releasing"}
  /\ fixed_waiters' = fixed_waiters - 1
  /\ registered' = registered \ {r}
  /\ UNCHANGED <<now, rateVars, in_flight, admissionVars, publishVars,
                 requestVars>>

-----------------------------------------------------------------------------
Publish ==
  \/ \E c \in Configs : Bind(c)
  \/ Replace
  \/ PublishCurrent

Request(r) ==
  \/ LoadSnapshot(r) \/ AdmissionInactive(r) \/ AdmissionActive(r)
  \/ ReserveUnlimited(r) \/ Reserve(r) \/ RateLimited(r)
  \/ HealthUnavailable(r) \/ RegisterFixedWaiter(r) \/ RetryFixed(r) \/ GiveUp(r)
  \/ CountInFlight(r) \/ StartAttempt(r) \/ RegisterAttempt(r)
  \/ RollbackBeforeAttempt(r) \/ DropPermit(r) \/ ReleaseInFlight(r)
  \/ ReleaseFixedWaiter(r)

Next == Tick \/ RateSnapshot \/ Publish \/ \E r \in Requests : Request(r)

Spec == Init /\ [][Next]_vars

-----------------------------------------------------------------------------
(* Every variable keeps its type.                                          *)
TypeOK ==
  /\ now \in Nat
  /\ attempts \subseteq Reservation
  /\ next_id \in Nat
  /\ granted \subseteq Grant
  /\ fixed_waiters \in Nat /\ in_flight \in Nat
  /\ active \subseteq Incarnation
  /\ by_identity \in [Routes -> Incarnation \cup {None}]
  /\ next_inc \in Incarnation
  /\ current \in Binding /\ bound \in Binding
  /\ phase \in {"idle", "bound", "replaced"}
  /\ pc \in [Requests -> {"idle", "selecting", "reserving", "reserved",
                          "limited", "unhealthy", "held", "started", "running",
                          "releasing"}]
  /\ binding \in [Requests -> Binding]
  /\ reservation \in [Requests -> Reservation \cup {None}]
  /\ registered \subseteq FixedRequests

(* The grants that a reservation g was admitted next to: those not later   *)
(* than g that were younger than one window when g was made.               *)
WindowOf(g) == {h \in granted : h.id <= g.id /\ h.at > g.at - Window}

(* try_reserve never lets more than the limit of a request's binding fall  *)
(* in one rolling window ending at its reservation, whatever publications, *)
(* rollbacks, cancellations and stale bindings came before.                *)
RollingWindow ==
  \A g \in granted : Cardinality(WindowOf(g)) <= g.limit

(* in_flight counts exactly the permits that exist: a permit is released   *)
(* once, on every path (rollback, revoked route, completion, cancelled).   *)
InFlightExact ==
  in_flight = Cardinality({r \in Requests : pc[r] \in {"held", "started", "running", "releasing"}})

(* While no publication is under way the only admission on which an        *)
(* attempt can start is the one of the current snapshot: a publication     *)
(* that disables or changes the route revokes every binding still in use.  *)
OnlyCurrentRouteStarts ==
  phase = "idle" => active \subseteq {current.admission}

(* A normal reservation never takes a slot of the window that a registered *)
(* fixed waiter is waiting for.                                            *)
FixedSlotsKept ==
  [][\A g \in granted' \ granted :
        g.fixed \/ Cardinality({h \in granted' : h.at > now - Window})
                     + Cardinality(registered) <= g.limit]_vars

(* A rollback gives back the slot of its own reservation and of no other   *)
(* request, and never one that an attempt already used.                    *)
StartedKeepsSlot ==
  [][\A r \in Requests : pc[r] = "running" /\ reservation[r] # None =>
        {g \in granted : g.id = reservation[r].id}
          \subseteq granted']_vars

-----------------------------------------------------------------------------
(* Proofs, for every set of requests, limit, window and bound.  The        *)
(* inductive invariant has four parts: the counters count what exists, the *)
(* deque is ordered and agrees with the grants not yet out of the window,  *)
(* reservations belong to one permit, and every active route admission is  *)
(* known to the registry.                                                  *)

Permits == {r \in Requests : pc[r] \in {"held", "started", "running", "releasing"}}

CountersExact ==
  /\ in_flight = Cardinality(Permits)
  /\ fixed_waiters = Cardinality(registered)

(* The deque in id order is in time order, its reservations are grants, and*)
(* every grant younger than a window is still in it.                       *)
WindowExact ==
  /\ IsFiniteSet(attempts)
  /\ \A a \in attempts : a.id < next_id /\ a.at <= now
  /\ \A a, b \in attempts : a.id <= b.id => a.at <= b.at
  /\ \A g \in granted : g.id < next_id /\ g.at <= now
  /\ \A g, h \in granted : g.id = h.id => g = h
  /\ \A g \in granted : g.at > now - Window =>
       [id |-> g.id, at |-> g.at] \in attempts
  /\ \A g \in granted : IsFiniteSet(WindowOf(g))

(* A reservation belongs to the permit of one request.                     *)
ReservationsOwned ==
  /\ \A r \in Requests : reservation[r] # None =>
       pc[r] \in {"reserved", "held", "started", "running"} /\ reservation[r].id < next_id
  /\ \A r, q \in Requests :
       reservation[r] # None /\ reservation[q] # None
         /\ reservation[r].id = reservation[q].id => r = q

(* Every active admission can still be found, hence revoked.               *)
ActiveRegistered ==
  \A i \in active : \E r \in Routes : by_identity[r] = i

IInv ==
  /\ TypeOK /\ CountersExact /\ WindowExact /\ RollingWindow
  /\ ReservationsOwned /\ ActiveRegistered /\ OnlyCurrentRouteStarts

-----------------------------------------------------------------------------
(* Pruning keeps the reservations that are younger than a window and only  *)
(* removes expired ones: with the deque in time order, dropping the        *)
(* expired prefix drops every expired reservation.                         *)
LEMMA PruneSound ==
  /\ Prune(attempts) \subseteq attempts
  /\ \A a \in attempts : a.at > now - Window /\ TypeOK => a \in Prune(attempts)
<1>1. Prune(attempts) \subseteq attempts
  BY DEF Prune
<1>2. ASSUME NEW a \in attempts, a.at > now - Window, TypeOK
      PROVE  a \in Prune(attempts)
  <2>1. a.id \in Nat /\ a.at \in Nat /\ now \in Nat /\ Window \in Nat
    BY <1>2, WindowAssumption DEF TypeOK, Reservation
  <2>2. a.id <= a.id /\ ~Expired(a)
    BY <1>2, <2>1 DEF Expired
  <2> QED BY <2>2 DEF Prune
<1> QED BY <1>1, <1>2

(* Grants with distinct ids whose reservations all lie in a finite set are *)
(* no more than that set.                                                  *)
LEMMA GrantCount ==
  ASSUME NEW S, NEW T, IsFiniteSet(T),
         \A g, h \in S : g.id = h.id => g = h,
         \A g \in S : [id |-> g.id, at |-> g.at] \in T
  PROVE  IsFiniteSet(S) /\ Cardinality(S) <= Cardinality(T)
<1> DEFINE f == [g \in S |-> [id |-> g.id, at |-> g.at]]
<1>1. f \in [S -> T]
  OBVIOUS
<1>2. \A g, h \in S : f[g] = f[h] => g = h
  <2> SUFFICES ASSUME NEW g \in S, NEW h \in S, f[g] = f[h] PROVE g = h
    OBVIOUS
  <2>1. f[g].id = g.id /\ f[h].id = h.id
    OBVIOUS
  <2> QED BY <2>1
<1>3. f \in Injection(S, T)
  BY <1>1, <1>2 DEF Injection, IsInjective
<1> QED BY <1>3, FS_Injection

-----------------------------------------------------------------------------
(* Adding one request to the permits adds one, removing one removes one.   *)
LEMMA PermitCount ==
  ASSUME TypeOK, CountersExact, NEW r \in Requests, NEW v,
         pc' = [pc EXCEPT ![r] = v]
  PROVE  /\ r \notin Permits /\ v \in {"held", "started", "running", "releasing"}
              => Cardinality(Permits') = in_flight + 1
         /\ r \in Permits /\ v \notin {"held", "started", "running", "releasing"}
              => Cardinality(Permits') = in_flight - 1 /\ in_flight > 0
         /\ (r \in Permits <=> v \in {"held", "started", "running", "releasing"})
              => Permits' = Permits
<1>1. IsFiniteSet(Permits)
  BY RequestsAssumption, FS_Subset DEF Permits
<1>2. \A q \in Requests : pc'[q] = IF q = r THEN v ELSE pc[q]
  BY DEF TypeOK
<1>3. ASSUME r \notin Permits, v \in {"held", "started", "running", "releasing"}
      PROVE  Cardinality(Permits') = in_flight + 1
  <2>1. Permits' = Permits \cup {r}
    BY <1>2, <1>3 DEF Permits
  <2> QED BY <1>1, <1>3, <2>1, FS_AddElement DEF CountersExact
<1>4. ASSUME r \in Permits, v \notin {"held", "started", "running", "releasing"}
      PROVE  Cardinality(Permits') = in_flight - 1 /\ in_flight > 0
  <2>1. Permits' = Permits \ {r}
    BY <1>2, <1>4 DEF Permits
  <2>2. Cardinality(Permits') = in_flight - 1
    BY <1>1, <1>4, <2>1, FS_RemoveElement DEF CountersExact
  <2>3. in_flight # 0
    BY <1>1, <1>4, FS_EmptySet DEF CountersExact
  <2> QED BY <2>2, <2>3 DEF TypeOK
<1>5. ASSUME r \in Permits <=> v \in {"held", "started", "running", "releasing"}
      PROVE  Permits' = Permits
  BY <1>2, <1>5 DEF Permits
<1> QED BY <1>3, <1>4, <1>5

(* Every step keeps the types and the counters.                            *)
LEMMA CountersStep ==
  TypeOK /\ CountersExact /\ [Next]_vars => TypeOK' /\ CountersExact'
<1> SUFFICES ASSUME TypeOK, CountersExact, [Next]_vars
             PROVE  TypeOK' /\ CountersExact'
  OBVIOUS
<1>0. IsFiniteSet(registered) /\ Window \in Nat
  BY RequestsAssumption, WindowAssumption, FS_Subset DEF TypeOK
<1> USE NoneAssumption, ConfigsAssumption, LimitsAssumption
<1>1. CASE UNCHANGED vars
  BY <1>1 DEF vars, rateVars, admissionVars, publishVars, requestVars, TypeOK, CountersExact, Permits
<1>2. CASE Tick
  BY <1>2 DEF Tick, rateVars, admissionVars, publishVars, requestVars, TypeOK, CountersExact, Permits
<1>3. CASE RateSnapshot
  BY <1>3, PruneSound DEF RateSnapshot, rateVars, admissionVars, publishVars, requestVars, TypeOK, CountersExact, Permits
<1>4. ASSUME NEW c \in Configs, Bind(c) PROVE TypeOK' /\ CountersExact'
  <2>0. c.limit \in Limits \cup {None} /\ c.route \in Routes \cup {None}
    OBVIOUS
  <2>u. ASSUME bound' \in Binding, active' \subseteq Incarnation, next_inc' \in Incarnation,
               by_identity' \in [Routes -> Incarnation \cup {None}]
        PROVE  TypeOK'
    BY <1>4, <2>u DEF Bind, rateVars, requestVars, TypeOK
  <2>a. ASSUME c.route = None PROVE TypeOK'
    <3>1. bound' \in Binding
      BY <1>4, <2>0, <2>a DEF Bind, Binding
    <3>2. UNCHANGED <<active, by_identity, next_inc>>
      BY <1>4, <2>a DEF Bind, admissionVars
    <3> QED BY <2>u, <3>1, <3>2 DEF TypeOK
  <2>b. ASSUME c.route # None /\ Live(c.route) PROVE TypeOK'
    <3>1. bound' \in Binding
      BY <1>4, <2>0, <2>b DEF Bind, Live, Binding, TypeOK
    <3>2. UNCHANGED <<active, by_identity, next_inc>>
      BY <1>4, <2>b DEF Bind, admissionVars
    <3> QED BY <2>u, <3>1, <3>2 DEF TypeOK
  <2>c. ASSUME c.route # None /\ ~Live(c.route) PROVE TypeOK'
    <3>1. bound' \in Binding
      BY <1>4, <2>0, <2>c DEF Bind, Binding, TypeOK
    <3>2. /\ active' = active \cup {next_inc} /\ next_inc' = next_inc + 1
          /\ by_identity' = [by_identity EXCEPT ![c.route] = next_inc]
      BY <1>4, <2>c DEF Bind
    <3>3. active' \subseteq Incarnation /\ next_inc' \in Incarnation
      BY <3>2 DEF TypeOK, Incarnation
    <3>4. by_identity' \in [Routes -> Incarnation \cup {None}]
      BY <3>2 DEF TypeOK
    <3> QED BY <2>u, <3>1, <3>3, <3>4
  <2>1. TypeOK'
    BY <2>a, <2>b, <2>c
  <2> QED BY <1>4, <2>1 DEF Bind, requestVars, CountersExact, Permits
<1>5. CASE Replace
  BY <1>5 DEF Replace, rateVars, admissionVars, publishVars, requestVars, TypeOK, CountersExact, Permits
<1>6. CASE PublishCurrent
  <2>1. TypeOK'
    BY <1>6 DEF PublishCurrent, rateVars, admissionVars, publishVars, requestVars, TypeOK, Unbound, Binding
  <2> QED BY <1>6, <2>1 DEF PublishCurrent, requestVars, CountersExact, Permits
<1>7. ASSUME NEW r \in Requests, Request(r) PROVE TypeOK' /\ CountersExact'
  <2>0. Unbound \in Binding
    BY DEF Unbound, Binding
  <2>1. CASE LoadSnapshot(r)
    <3>1. TypeOK'
      BY <2>1 DEF LoadSnapshot, rateVars, admissionVars, publishVars, TypeOK
    <3>2. Permits' = Permits
      BY <2>1, PermitCount DEF LoadSnapshot, Permits
    <3> QED BY <2>1, <3>1, <3>2 DEF LoadSnapshot, CountersExact
  <2>2. CASE AdmissionInactive(r)
    <3>1. TypeOK'
      BY <2>2, <2>0 DEF AdmissionInactive, rateVars, admissionVars, publishVars, TypeOK
    <3>2. Permits' = Permits
      BY <2>2, PermitCount DEF AdmissionInactive, Permits
    <3> QED BY <2>2, <3>1, <3>2 DEF AdmissionInactive, CountersExact
  <2>3. CASE AdmissionActive(r)
    <3>1. TypeOK'
      BY <2>3 DEF AdmissionActive, rateVars, admissionVars, publishVars, TypeOK
    <3>2. Permits' = Permits
      BY <2>3, PermitCount DEF AdmissionActive, Permits
    <3> QED BY <2>3, <3>1, <3>2 DEF AdmissionActive, CountersExact
  <2>4. CASE ReserveUnlimited(r)
    <3>1. TypeOK'
      BY <2>4, PruneSound DEF ReserveUnlimited, admissionVars, publishVars, TypeOK
    <3>2. Permits' = Permits
      BY <2>4, PermitCount DEF ReserveUnlimited, Permits
    <3> QED BY <2>4, <3>1, <3>2 DEF ReserveUnlimited, CountersExact
  <2>5. CASE Reserve(r)
    <3>a. binding[r].limit \in Limits
      BY <2>5 DEF Reserve, TypeOK, Binding
    <3>b. [id |-> next_id, at |-> now] \in Reservation
      BY DEF TypeOK, Reservation
    <3>c. [id |-> next_id, at |-> now, limit |-> binding[r].limit,
           fixed |-> r \in FixedRequests] \in Grant
      BY <3>a DEF TypeOK, Grant
    <3>1. TypeOK'
      BY <2>5, <3>b, <3>c, PruneSound DEF Reserve, admissionVars, publishVars, TypeOK
    <3>2. Permits' = Permits
      BY <2>5, PermitCount DEF Reserve, Permits
    <3> QED BY <2>5, <3>1, <3>2 DEF Reserve, CountersExact
  <2>6. CASE RateLimited(r)
    <3>1. TypeOK'
      BY <2>6, PruneSound DEF RateLimited, admissionVars, publishVars, TypeOK
    <3>2. Permits' = Permits
      BY <2>6, PermitCount DEF RateLimited, Permits
    <3> QED BY <2>6, <3>1, <3>2 DEF RateLimited, CountersExact
  <2>7. CASE HealthUnavailable(r)
    <3>1. TypeOK'
      BY <2>7 DEF HealthUnavailable, rateVars, admissionVars, publishVars, TypeOK
    <3>2. Permits' = Permits
      BY <2>7, PermitCount DEF HealthUnavailable, Permits
    <3> QED BY <2>7, <3>1, <3>2 DEF HealthUnavailable, CountersExact
  <2>8. CASE RegisterFixedWaiter(r)
    <3>1. Cardinality(registered') = fixed_waiters'
      BY <1>0, <2>8, FS_AddElement DEF RegisterFixedWaiter, CountersExact
    <3>2. TypeOK'
      BY <2>8 DEF RegisterFixedWaiter, rateVars, admissionVars, publishVars, requestVars, TypeOK
    <3> QED BY <2>8, <3>1, <3>2 DEF RegisterFixedWaiter, requestVars, CountersExact, Permits
  <2>9. CASE RetryFixed(r)
    <3>1. TypeOK'
      BY <2>9 DEF RetryFixed, rateVars, admissionVars, publishVars, TypeOK
    <3>2. Permits' = Permits
      BY <2>9, PermitCount DEF RetryFixed, Permits
    <3> QED BY <2>9, <3>1, <3>2 DEF RetryFixed, CountersExact
  <2>10. CASE GiveUp(r)
    <3>1. TypeOK'
      BY <2>10, <2>0 DEF GiveUp, rateVars, admissionVars, publishVars, TypeOK
    <3>2. Permits' = Permits
      BY <2>10, PermitCount DEF GiveUp, Permits
    <3> QED BY <2>10, <3>1, <3>2 DEF GiveUp, CountersExact
  <2>11. CASE CountInFlight(r)
    <3>1. TypeOK'
      BY <2>11 DEF CountInFlight, rateVars, admissionVars, publishVars, TypeOK
    <3>2. Cardinality(Permits') = in_flight + 1
      BY <2>11, PermitCount DEF CountInFlight, Permits
    <3> QED BY <2>11, <3>1, <3>2 DEF CountInFlight, CountersExact
  <2>12. CASE StartAttempt(r)
    <3>1. TypeOK'
      BY <2>12 DEF StartAttempt, rateVars, admissionVars, publishVars, TypeOK
    <3>2. Permits' = Permits
      BY <2>12, PermitCount DEF StartAttempt, Permits
    <3> QED BY <2>12, <3>1, <3>2 DEF StartAttempt, CountersExact
  <2>17. CASE RegisterAttempt(r)
    <3>1. TypeOK'
      BY <2>17 DEF RegisterAttempt, rateVars, admissionVars, publishVars, TypeOK
    <3>2. Permits' = Permits
      BY <2>17, PermitCount DEF RegisterAttempt, Permits
    <3> QED BY <2>17, <3>1, <3>2 DEF RegisterAttempt, CountersExact
  <2>13. CASE RollbackBeforeAttempt(r)
    <3>1. TypeOK'
      BY <2>13 DEF RollbackBeforeAttempt, admissionVars, publishVars, TypeOK
    <3>2. Permits' = Permits
      BY <2>13, PermitCount DEF RollbackBeforeAttempt, Permits
    <3> QED BY <2>13, <3>1, <3>2 DEF RollbackBeforeAttempt, CountersExact
  <2>14. CASE DropPermit(r)
    <3>1. TypeOK'
      BY <2>14 DEF DropPermit, rateVars, admissionVars, publishVars, TypeOK
    <3>2. Permits' = Permits
      BY <2>14, PermitCount DEF DropPermit, Permits
    <3> QED BY <2>14, <3>1, <3>2 DEF DropPermit, CountersExact
  <2>15. CASE ReleaseInFlight(r)
    <3>1. Cardinality(Permits') = in_flight - 1 /\ in_flight > 0
      BY <2>15, PermitCount DEF ReleaseInFlight, Permits
    <3>2. TypeOK'
      BY <2>15, <2>0, <3>1 DEF ReleaseInFlight, rateVars, admissionVars, publishVars, TypeOK
    <3> QED BY <2>15, <3>1, <3>2 DEF ReleaseInFlight, CountersExact
  <2>16. CASE ReleaseFixedWaiter(r)
    <3>1. Cardinality(registered') = fixed_waiters' /\ fixed_waiters # 0
      BY <1>0, <2>16, FS_RemoveElement, FS_EmptySet DEF ReleaseFixedWaiter, CountersExact
    <3>2. TypeOK'
      BY <2>16, <3>1 DEF ReleaseFixedWaiter, rateVars, admissionVars, publishVars, requestVars, TypeOK
    <3> QED BY <2>16, <3>1, <3>2 DEF ReleaseFixedWaiter, requestVars, CountersExact, Permits
  <2> QED BY <1>7, <2>1, <2>2, <2>3, <2>4, <2>5, <2>6, <2>7, <2>8, <2>9, <2>10,
             <2>11, <2>12, <2>13, <2>14, <2>15, <2>16, <2>17 DEF Request
<1> QED BY <1>1, <1>2, <1>3, <1>4, <1>5, <1>6, <1>7 DEF Next, Publish

-----------------------------------------------------------------------------
(* The window invariants.  Only the clock, a prune, a reservation and a    *)
(* rollback disturb them.                                                  *)

LEMMA WindowUnchanged ==
  ASSUME WindowExact, RollingWindow, UNCHANGED <<now, attempts, next_id, granted>>
  PROVE  WindowExact' /\ RollingWindow'
BY DEF WindowExact, RollingWindow, WindowOf

LEMMA WindowTick ==
  ASSUME TypeOK, WindowExact, RollingWindow, Tick
  PROVE  WindowExact' /\ RollingWindow'
<1>1. now' = now + 1 /\ now \in Nat /\ Window \in Nat
  BY WindowAssumption DEF Tick, TypeOK
<1>2. UNCHANGED <<attempts, next_id, granted>>
  BY DEF Tick, rateVars
<1>3. \A a \in attempts : a.at \in Nat
  BY DEF TypeOK, Reservation
<1>4. \A g \in granted : g.at \in Nat
  BY DEF TypeOK, Grant
<1>5. \A g \in granted : WindowOf(g)' = WindowOf(g)
  BY <1>2 DEF WindowOf
<1>6. RollingWindow'
  BY <1>2, <1>5 DEF RollingWindow
<1>7. \A a \in attempts' : a.id < next_id' /\ a.at <= now'
  BY <1>1, <1>2, <1>3 DEF WindowExact
<1>8. \A g \in granted' : g.id < next_id' /\ g.at <= now'
  BY <1>1, <1>2, <1>4 DEF WindowExact
<1>9. \A g \in granted' : g.at > now' - Window => [id |-> g.id, at |-> g.at] \in attempts'
  BY <1>1, <1>2, <1>4 DEF WindowExact
<1> QED BY <1>2, <1>5, <1>6, <1>7, <1>8, <1>9 DEF WindowExact

LEMMA WindowPrune ==
  ASSUME TypeOK, WindowExact, RollingWindow,
         attempts' = Prune(attempts), UNCHANGED <<now, next_id, granted>>
  PROVE  WindowExact' /\ RollingWindow'
<1>1. attempts' \subseteq attempts
  BY PruneSound
<1>2. IsFiniteSet(attempts')
  BY <1>1, FS_Subset DEF WindowExact
<1>3. \A g \in granted : WindowOf(g)' = WindowOf(g)
  BY DEF WindowOf
<1>4. RollingWindow'
  BY <1>3 DEF RollingWindow
<1>5. \A g \in granted' : g.at > now' - Window => [id |-> g.id, at |-> g.at] \in attempts'
  BY PruneSound DEF WindowExact
<1> QED BY <1>1, <1>2, <1>3, <1>4, <1>5 DEF WindowExact

(* The grants a new reservation shares its window with are what pruning    *)
(* leaves of the deque, so they are fewer than the limit it was checked    *)
(* against.                                                                *)
LEMMA YoungGrants ==
  ASSUME TypeOK, WindowExact
  PROVE  LET young == {h \in granted : h.at > now - Window} IN
         /\ IsFiniteSet(young) /\ IsFiniteSet(Prune(attempts))
         /\ Cardinality(young) \in Nat /\ Cardinality(Prune(attempts)) \in Nat
         /\ Cardinality(young) <= Cardinality(Prune(attempts))
<1> DEFINE young == {h \in granted : h.at > now - Window}
<1>1. IsFiniteSet(Prune(attempts))
  BY PruneSound, FS_Subset DEF WindowExact
<1>2. \A g, h \in young : g.id = h.id => g = h
  BY DEF WindowExact
<1>3. \A g \in young : [id |-> g.id, at |-> g.at] \in Prune(attempts)
  BY PruneSound DEF WindowExact
<1>4. IsFiniteSet(young) /\ Cardinality(young) <= Cardinality(Prune(attempts))
  <2> HIDE DEF young
  <2> QED BY <1>1, <1>2, <1>3, GrantCount
<1>5. Cardinality(young) \in Nat /\ Cardinality(Prune(attempts)) \in Nat
  BY <1>1, <1>4, FS_CardinalityType
<1> QED BY <1>1, <1>4, <1>5

LEMMA WindowReserve ==
  ASSUME TypeOK, WindowExact, RollingWindow, NEW r \in Requests, Reserve(r)
  PROVE  WindowExact' /\ RollingWindow'
<1> DEFINE kept == Prune(attempts)
           new == [id |-> next_id, at |-> now]
           limit == binding[r].limit
           grant == [id |-> next_id, at |-> now, limit |-> limit, fixed |-> r \in FixedRequests]
           young == {h \in granted : h.at > now - Window}
           window == {h \in granted' : h.id <= next_id /\ h.at > now - Window}
<1>0. /\ attempts' = kept \cup {new} /\ granted' = granted \cup {grant}
      /\ next_id' = next_id + 1 /\ now' = now /\ ~Full(kept, limit)
  BY DEF Reserve, MayReserve
<1>1. now \in Nat /\ next_id \in Nat /\ Window \in Nat \ {0} /\ limit \in Nat
  BY WindowAssumption, LimitsAssumption DEF TypeOK, Binding, Reserve
<1>2. kept \subseteq attempts
  BY PruneSound
<1>3. \A a \in attempts : a.id \in Nat /\ a.at \in Nat
  BY DEF TypeOK, Reservation
<1>4. \A g \in granted : g.id \in Nat /\ g.at \in Nat
  BY DEF TypeOK, Grant
<1>5. IsFiniteSet(young) /\ IsFiniteSet(kept) /\ Cardinality(young) \in Nat
      /\ Cardinality(kept) \in Nat /\ Cardinality(young) <= Cardinality(kept)
  BY YoungGrants
<1>6. Cardinality(young) < limit
  BY <1>0, <1>1, <1>5 DEF Full
<1>7. window = young \cup {grant}
  BY <1>0, <1>1, <1>4 DEF WindowExact
<1>8. grant \notin young
  BY <1>4, <1>1 DEF WindowExact
<1>9. IsFiniteSet(window) /\ Cardinality(window) <= limit
  <2> HIDE DEF young, grant, limit, window
  <2>1. IsFiniteSet(young \cup {grant}) /\ Cardinality(young \cup {grant}) = Cardinality(young) + 1
    BY <1>5, <1>8, FS_AddElement
  <2> QED BY <1>1, <1>5, <1>6, <1>7, <2>1
<1>10. \A g \in granted : WindowOf(g)' = WindowOf(g)
  BY <1>0, <1>1, <1>4 DEF WindowOf, WindowExact
<1>11. RollingWindow'
  <2> SUFFICES ASSUME NEW g \in granted' PROVE Cardinality(WindowOf(g)') <= g.limit
    BY DEF RollingWindow
  <2>1. CASE g = grant
    <3>1. WindowOf(g)' = window /\ g.limit = limit
      BY <2>1 DEF WindowOf
    <3> QED BY <1>9, <3>1
  <2>2. CASE g \in granted
    BY <1>10, <2>2 DEF RollingWindow
  <2> QED BY <1>0, <2>1, <2>2
<1>12. IsFiniteSet(attempts')
  BY <1>0, <1>5, FS_AddElement
<1>13. \A a \in attempts' : a.id < next_id' /\ a.at <= now'
  BY <1>0, <1>1, <1>2, <1>3 DEF WindowExact
<1>14. \A a, b \in attempts' : a.id <= b.id => a.at <= b.at
  BY <1>0, <1>1, <1>2, <1>3 DEF WindowExact
<1>15. \A g \in granted' : g.id < next_id' /\ g.at <= now'
  BY <1>0, <1>1, <1>4 DEF WindowExact
<1>16. \A g, h \in granted' : g.id = h.id => g = h
  BY <1>0, <1>1, <1>4 DEF WindowExact
<1>17. \A g \in granted' : g.at > now' - Window => [id |-> g.id, at |-> g.at] \in attempts'
  BY <1>0, <1>1, <1>4, PruneSound DEF WindowExact
<1>18. ASSUME NEW g \in granted' PROVE IsFiniteSet(WindowOf(g)')
  <2>1. CASE g = grant
    <3>1. WindowOf(g)' = window /\ g.limit = limit
      BY <2>1 DEF WindowOf
    <3> QED BY <1>9, <3>1
  <2>2. CASE g \in granted
    BY <1>10, <2>2 DEF WindowExact
  <2> QED BY <1>0, <2>1, <2>2
<1> QED BY <1>11, <1>12, <1>13, <1>14, <1>15, <1>16, <1>17, <1>18 DEF WindowExact

LEMMA WindowRollback ==
  ASSUME TypeOK, WindowExact, RollingWindow, NEW r \in Requests, RollbackBeforeAttempt(r)
  PROVE  WindowExact' /\ RollingWindow'
<1>0. /\ attempts' \subseteq attempts /\ granted' \subseteq granted
      /\ now' = now /\ next_id' = next_id
  BY DEF RollbackBeforeAttempt
<1>1. \A g \in granted' : WindowOf(g)' \subseteq WindowOf(g)
  BY <1>0 DEF WindowOf
<1>2. \A g \in granted' : IsFiniteSet(WindowOf(g)')
  BY <1>0, <1>1, FS_Subset DEF WindowExact
<1>3. ASSUME NEW g \in granted' PROVE Cardinality(WindowOf(g)') <= g.limit
  <2>1. g \in granted /\ g.limit \in Nat
    BY <1>0, LimitsAssumption DEF TypeOK, Grant
  <2>2. Cardinality(WindowOf(g)) <= g.limit /\ IsFiniteSet(WindowOf(g))
    BY <2>1 DEF RollingWindow, WindowExact
  <2>3. Cardinality(WindowOf(g)') <= Cardinality(WindowOf(g))
    BY <1>1, <2>2, FS_Subset
  <2>4. Cardinality(WindowOf(g)) \in Nat /\ Cardinality(WindowOf(g)') \in Nat
    BY <1>2, <2>2, FS_CardinalityType
  <2> QED BY <2>1, <2>2, <2>3, <2>4
<1>4. \A g \in granted' : g.at > now' - Window => [id |-> g.id, at |-> g.at] \in attempts'
  BY <1>0 DEF RollbackBeforeAttempt, WindowExact
<1>5. IsFiniteSet(attempts')
  BY <1>0, FS_Subset DEF WindowExact
<1> QED BY <1>0, <1>2, <1>3, <1>4, <1>5 DEF WindowExact, RollingWindow

(* Every step keeps the window invariants.                                 *)
LEMMA WindowStep ==
  TypeOK /\ WindowExact /\ RollingWindow /\ [Next]_vars
    => WindowExact' /\ RollingWindow'
<1> SUFFICES ASSUME TypeOK, WindowExact, RollingWindow, [Next]_vars
             PROVE  WindowExact' /\ RollingWindow'
  OBVIOUS
<1>1. CASE UNCHANGED <<now, attempts, next_id, granted>>
  BY <1>1, WindowUnchanged
<1>2. CASE Tick
  BY <1>2, WindowTick
<1>3. CASE attempts' = Prune(attempts) /\ UNCHANGED <<now, next_id, granted>>
  BY <1>3, WindowPrune
<1>4. ASSUME NEW r \in Requests, Reserve(r) PROVE WindowExact' /\ RollingWindow'
  BY <1>4, WindowReserve
<1>5. ASSUME NEW r \in Requests, RollbackBeforeAttempt(r) PROVE WindowExact' /\ RollingWindow'
  BY <1>5, WindowRollback
<1>6. Publish \/ UNCHANGED vars => UNCHANGED <<now, attempts, next_id, granted>>
  BY DEF Publish, Bind, Replace, PublishCurrent, vars, rateVars
<1>7. RateSnapshot => attempts' = Prune(attempts) /\ UNCHANGED <<now, next_id, granted>>
  BY DEF RateSnapshot
<1>8. ASSUME NEW r \in Requests, Request(r)
      PROVE  \/ UNCHANGED <<now, attempts, next_id, granted>>
             \/ attempts' = Prune(attempts) /\ UNCHANGED <<now, next_id, granted>>
             \/ Reserve(r) \/ RollbackBeforeAttempt(r)
  BY <1>8 DEF Request, LoadSnapshot, AdmissionInactive, AdmissionActive,
     ReserveUnlimited, RateLimited, HealthUnavailable, RegisterFixedWaiter,
     RetryFixed, GiveUp, CountInFlight, StartAttempt, RegisterAttempt, DropPermit,
     ReleaseInFlight, ReleaseFixedWaiter, rateVars, requestVars
<1> QED BY <1>1, <1>2, <1>3, <1>4, <1>5, <1>6, <1>7, <1>8 DEF Next

(* Every step keeps each reservation with the one permit that owns it.     *)
LEMMA OwnershipStep ==
  TypeOK /\ ReservationsOwned /\ [Next]_vars => ReservationsOwned'
<1> SUFFICES ASSUME TypeOK, ReservationsOwned, [Next]_vars
             PROVE  ReservationsOwned'
  OBVIOUS
<1>1. CASE UNCHANGED <<pc, reservation, next_id>>
  BY <1>1 DEF ReservationsOwned
<1>2. Tick \/ RateSnapshot \/ Publish \/ UNCHANGED vars => UNCHANGED <<pc, reservation, next_id>>
  BY DEF Tick, RateSnapshot, Publish, Bind, Replace, PublishCurrent, vars, rateVars, requestVars
<1>3. ASSUME NEW r \in Requests, Request(r) PROVE ReservationsOwned'
  <2>1. CASE Reserve(r)
    <3>1. /\ reservation' = [reservation EXCEPT ![r] = [id |-> next_id, at |-> now]]
          /\ pc' = [pc EXCEPT ![r] = "reserved"]
          /\ next_id' = next_id + 1 /\ next_id \in Nat
      BY <2>1 DEF Reserve, TypeOK
    <3>2. \A q \in Requests : reservation[q] # None => reservation[q].id \in Nat
      BY DEF TypeOK, Reservation
    <3>3. \A q \in Requests : q # r => reservation'[q] = reservation[q] /\ pc'[q] = pc[q]
      BY <3>1 DEF TypeOK
    <3>4. reservation'[r].id = next_id /\ pc'[r] = "reserved"
      BY <3>1 DEF TypeOK
    <3> QED BY <3>1, <3>2, <3>3, <3>4 DEF ReservationsOwned
  <2>2. CASE RollbackBeforeAttempt(r) \/ DropPermit(r)
    <3>1. /\ reservation' = [reservation EXCEPT ![r] = None]
          /\ pc' = [pc EXCEPT ![r] = "releasing"]
          /\ next_id' = next_id
      BY <2>2 DEF RollbackBeforeAttempt, DropPermit, rateVars
    <3>2. \A q \in Requests : q # r => reservation'[q] = reservation[q] /\ pc'[q] = pc[q]
      BY <3>1 DEF TypeOK
    <3>3. reservation'[r] = None
      BY <3>1 DEF TypeOK
    <3> QED BY <3>1, <3>2, <3>3 DEF ReservationsOwned
  <2>3. CASE CountInFlight(r) \/ StartAttempt(r) \/ RegisterAttempt(r)
    BY <2>3 DEF CountInFlight, StartAttempt, RegisterAttempt, ReservationsOwned, rateVars, TypeOK
  <2>4. CASE RegisterFixedWaiter(r) \/ ReleaseFixedWaiter(r)
    BY <1>1, <2>4 DEF RegisterFixedWaiter, ReleaseFixedWaiter, requestVars, rateVars
  <2>5. ASSUME pc[r] \notin {"reserved", "held", "started", "running"},
               \E v : pc' = [pc EXCEPT ![r] = v], reservation' = reservation, next_id' = next_id
        PROVE  ReservationsOwned'
    BY <2>5 DEF ReservationsOwned, TypeOK
  <2>6. CASE LoadSnapshot(r) \/ AdmissionInactive(r) \/ AdmissionActive(r)
             \/ ReserveUnlimited(r) \/ RateLimited(r) \/ HealthUnavailable(r)
    BY <2>5, <2>6 DEF LoadSnapshot, AdmissionInactive, AdmissionActive,
       ReserveUnlimited, RateLimited, HealthUnavailable, rateVars
  <2>7. CASE RetryFixed(r) \/ GiveUp(r) \/ ReleaseInFlight(r)
    BY <2>5, <2>7 DEF RetryFixed, GiveUp, ReleaseInFlight, rateVars
  <2> QED BY <1>3, <2>1, <2>2, <2>3, <2>4, <2>6, <2>7 DEF Request
<1> QED BY <1>1, <1>2, <1>3 DEF Next

(* Every step keeps the route admissions revocable and revoked in time.    *)
LEMMA AdmissionStep ==
  TypeOK /\ ActiveRegistered /\ OnlyCurrentRouteStarts /\ [Next]_vars
    => ActiveRegistered' /\ OnlyCurrentRouteStarts'
<1> SUFFICES ASSUME TypeOK, ActiveRegistered, OnlyCurrentRouteStarts, [Next]_vars
             PROVE  ActiveRegistered' /\ OnlyCurrentRouteStarts'
  OBVIOUS
<1>1. CASE UNCHANGED <<active, by_identity, current, phase>>
  BY <1>1 DEF ActiveRegistered, OnlyCurrentRouteStarts
<1>2. Tick \/ RateSnapshot \/ UNCHANGED vars => UNCHANGED <<active, by_identity, current, phase>>
  BY DEF Tick, RateSnapshot, vars, admissionVars, publishVars
<1>3. ASSUME NEW r \in Requests, Request(r)
      PROVE  UNCHANGED <<active, by_identity, current, phase>>
  BY <1>3 DEF Request, LoadSnapshot, AdmissionInactive, AdmissionActive,
     ReserveUnlimited, Reserve, RateLimited, HealthUnavailable,
     RegisterFixedWaiter, RetryFixed, GiveUp, CountInFlight, StartAttempt, RegisterAttempt,
     RollbackBeforeAttempt, DropPermit, ReleaseInFlight, ReleaseFixedWaiter,
     admissionVars, publishVars
<1>4. ASSUME NEW c \in Configs, Bind(c) PROVE ActiveRegistered' /\ OnlyCurrentRouteStarts'
  <2>1. OnlyCurrentRouteStarts'
    BY <1>4 DEF Bind, OnlyCurrentRouteStarts
  <2>2. CASE UNCHANGED admissionVars
    BY <2>1, <2>2 DEF admissionVars, ActiveRegistered
  <2>3. CASE /\ c.route # None /\ ~Live(c.route)
             /\ active' = active \cup {next_inc}
             /\ by_identity' = [by_identity EXCEPT ![c.route] = next_inc]
    <3>1. c.route \in Routes
      BY <2>3, ConfigsAssumption
    <3>2. \A r \in Routes : by_identity'[r] = IF r = c.route THEN next_inc ELSE by_identity[r]
      BY <2>3 DEF TypeOK
    <3>3. by_identity[c.route] \notin active
      BY <2>3, NoneAssumption DEF Live, TypeOK, Incarnation
    <3> QED BY <2>1, <2>3, <3>1, <3>2, <3>3 DEF ActiveRegistered
  <2> QED BY <1>4, <2>2, <2>3 DEF Bind
<1>5. CASE Replace
  BY <1>5 DEF Replace, admissionVars, ActiveRegistered, OnlyCurrentRouteStarts
<1>6. CASE PublishCurrent
  BY <1>6 DEF PublishCurrent, ActiveRegistered, OnlyCurrentRouteStarts, TypeOK
<1> QED BY <1>1, <1>2, <1>3, <1>4, <1>5, <1>6 DEF Next, Publish

LEMMA InitInv == Init => IInv
<1> SUFFICES ASSUME Init PROVE IInv
  OBVIOUS
<1>0. PICK c \in Configs :
        /\ current = [limit |-> c.limit, admission |-> IF c.route = None THEN None ELSE 1]
        /\ active = {current.admission} \ {None}
        /\ by_identity = [r \in Routes |-> IF r = c.route THEN 1 ELSE None]
  BY DEF Init
<1>1. c.limit \in Limits \cup {None} /\ c.route \in Routes \cup {None}
  BY ConfigsAssumption
<1>2. Unbound \in Binding /\ current \in Binding
  BY <1>0, <1>1 DEF Unbound, Binding, Incarnation
<1>3. TypeOK
  BY <1>0, <1>2 DEF Init, TypeOK, Incarnation
<1>4. CountersExact
  BY FS_EmptySet DEF Init, CountersExact, Permits
<1>5. WindowExact /\ RollingWindow
  BY FS_EmptySet DEF Init, WindowExact, RollingWindow
<1>6. ReservationsOwned
  BY DEF Init, ReservationsOwned
<1>7. ActiveRegistered /\ OnlyCurrentRouteStarts
  BY <1>0, <1>1 DEF ActiveRegistered, OnlyCurrentRouteStarts
<1> QED BY <1>3, <1>4, <1>5, <1>6, <1>7 DEF IInv

LEMMA Inductive == Spec => []IInv
<1>1. IInv /\ [Next]_vars => IInv'
  BY CountersStep, WindowStep, OwnershipStep, AdmissionStep DEF IInv
<1> QED BY InitInv, <1>1, PTL DEF Spec

-----------------------------------------------------------------------------
(* Types hold; in particular in_flight and fixed_waiters never go below    *)
(* zero, so the checked_sub of release_in_flight and release_fixed_waiter  *)
(* never panics.                                                           *)
THEOREM TypeCorrect == Spec => []TypeOK
BY Inductive, PTL DEF IInv

(* No rolling window ever holds more reservations than the limit under     *)
(* which its last one was admitted.                                        *)
THEOREM RateLimitHolds == Spec => []RollingWindow
BY Inductive, PTL DEF IInv

(* in_flight is the number of permits that exist.                          *)
THEOREM InFlightIsExact == Spec => []InFlightExact
<1>1. IInv => InFlightExact
  BY DEF IInv, CountersExact, Permits, InFlightExact
<1> QED BY <1>1, Inductive, PTL

(* Between publications only the current route can start attempts.         *)
THEOREM RevocationHolds == Spec => []OnlyCurrentRouteStarts
BY Inductive, PTL DEF IInv

(* A normal reservation leaves room for every registered fixed waiter.     *)
THEOREM FixedWaitersKeepTheirSlots == Spec => FixedSlotsKept
<1> DEFINE A == \A g \in granted' \ granted :
        g.fixed \/ Cardinality({h \in granted' : h.at > now - Window})
                     + Cardinality(registered) <= g.limit
<1>1. IInv /\ [Next]_vars => [A]_vars
  <2> SUFFICES ASSUME IInv, Next PROVE A
    OBVIOUS
  <2>1. CASE granted' \subseteq granted
    BY <2>1
  <2>2. Tick \/ RateSnapshot \/ Publish => granted' \subseteq granted
    BY DEF Tick, RateSnapshot, Publish, Bind, Replace, PublishCurrent, rateVars
  <2>3. ASSUME NEW r \in Requests, Request(r), ~Reserve(r) PROVE granted' \subseteq granted
    BY <2>3 DEF Request, LoadSnapshot, AdmissionInactive, AdmissionActive,
       ReserveUnlimited, RateLimited, HealthUnavailable, RegisterFixedWaiter,
       RetryFixed, GiveUp, CountInFlight, StartAttempt, RegisterAttempt, RollbackBeforeAttempt,
       DropPermit, ReleaseInFlight, ReleaseFixedWaiter, rateVars
  <2>4. ASSUME NEW r \in Requests, Reserve(r) PROVE A
    <3> DEFINE kept == Prune(attempts)
               limit == binding[r].limit
               grant == [id |-> next_id, at |-> now, limit |-> limit,
                         fixed |-> r \in FixedRequests]
               young == {h \in granted : h.at > now - Window}
               after == {h \in granted' : h.at > now - Window}
    <3>1. granted' = granted \cup {grant} /\ MayReserve(r, kept, limit)
      BY <2>4 DEF Reserve
    <3>2. limit \in Nat /\ now \in Nat /\ Window \in Nat \ {0}
      BY <2>4, WindowAssumption, LimitsAssumption DEF IInv, TypeOK, Binding, Reserve
    <3>3. IsFiniteSet(young) /\ Cardinality(young) \in Nat
          /\ Cardinality(kept) \in Nat /\ Cardinality(young) <= Cardinality(kept)
      BY YoungGrants DEF IInv
    <3>4. after = young \cup {grant}
      BY <3>1, <3>2
    <3>5. grant \notin young
      BY DEF IInv, WindowExact, TypeOK, Grant
    <3>6. Cardinality(young \cup {grant}) = Cardinality(young) + 1
      <4> HIDE DEF young, grant
      <4> QED BY <3>3, <3>5, FS_AddElement
    <3>7. fixed_waiters = Cardinality(registered) /\ fixed_waiters \in Nat
      BY DEF IInv, CountersExact, TypeOK
    <3>8. CASE r \in FixedRequests
      <4>1. grant.fixed = TRUE
        BY <3>8
      <4> HIDE DEF grant
      <4> QED BY <3>1, <4>1
    <3>9. CASE r \notin FixedRequests
      <4>1. limit - Cardinality(kept) > fixed_waiters
        BY <3>1, <3>2, <3>3, <3>7, <3>9 DEF MayReserve, KeptForFixed
      <4>2. Cardinality(after) + Cardinality(registered) <= limit
        <5> HIDE DEF young, grant, kept, limit, after
        <5> QED BY <3>2, <3>3, <3>4, <3>6, <3>7, <4>1
      <4> QED BY <3>1, <4>2
    <3> QED BY <3>8, <3>9
  <2> QED BY <2>1, <2>2, <2>3, <2>4 DEF Next
<1> QED BY <1>1, Inductive, PTL DEF Spec, FixedSlotsKept

(* The slot of a started attempt is not given back by anyone's rollback.   *)
THEOREM StartedSlotsStay == Spec => StartedKeepsSlot
<1> DEFINE A == \A r \in Requests : pc[r] = "running" /\ reservation[r] # None =>
        {g \in granted : g.id = reservation[r].id} \subseteq granted'
<1>1. IInv /\ [Next]_vars => [A]_vars
  <2> SUFFICES ASSUME IInv, Next PROVE A
    OBVIOUS
  <2>1. CASE granted \subseteq granted'
    BY <2>1
  <2>2. Tick \/ RateSnapshot \/ Publish => granted \subseteq granted'
    BY DEF Tick, RateSnapshot, Publish, Bind, Replace, PublishCurrent, rateVars
  <2>3. ASSUME NEW r \in Requests, Request(r), ~RollbackBeforeAttempt(r)
        PROVE  granted \subseteq granted'
    BY <2>3 DEF Request, LoadSnapshot, AdmissionInactive, AdmissionActive,
       ReserveUnlimited, Reserve, RateLimited, HealthUnavailable, RegisterFixedWaiter,
       RetryFixed, GiveUp, CountInFlight, StartAttempt, RegisterAttempt,
       DropPermit, ReleaseInFlight, ReleaseFixedWaiter, rateVars
  <2>4. ASSUME NEW q \in Requests, RollbackBeforeAttempt(q) PROVE A
    BY <2>4 DEF RollbackBeforeAttempt, IInv, ReservationsOwned
  <2> QED BY <2>1, <2>2, <2>3, <2>4 DEF Next
<1> QED BY <1>1, Inductive, PTL DEF Spec, StartedKeepsSlot
=============================================================================
