-------------------------- MODULE SchedulingProofs --------------------------
(***************************************************************************)
(* Proofs about SelectionQueue, WakeWorker and EndpointHealth, for every   *)
(* number of requests, limit, window, timeout, queue length, schedule and  *)
(* threshold.                                                              *)
(*                                                                         *)
(* The inductive invariant of the queue says that the counters count what  *)
(* exists, that no epoch is lost between its two steps, that deadlines are *)
(* set before they are read, and why a waiter that nothing is on its way   *)
(* to wake was refused: either the reservations that filled the window     *)
(* then fill it still, until the time it waits for, or the fixed waiter it *)
(* gave way to is still there.  The ones of the wake schedule and of the   *)
(* endpoint are given where they are used.                                 *)
(***************************************************************************)
EXTENDS SelectionQueue, FiniteSetTheorems, WellFoundedInduction, TLAPS

Queued == {"observe", "try", "register", "check", "sleep", "final"}

CountersExact ==
  /\ QueueBounded
  /\ fixed_waiters = Cardinality(registered)
  /\ \A r \in Waiters : pc[r] = "register" => r \in Fixed \ registered

DeadlinesSet ==
  \A r \in Waiters :
    /\ pc[r] \in {"first", "ticket"} => deadline[r] = None
    /\ pc[r] \in Queued => deadline[r] # None
    /\ pc[r] = "final" => now >= deadline[r]

(* What a waiter marked as seen has been published, what was published has *)
(* been taken, and the newest epoch is published or about to be.           *)
EpochsOrdered ==
  /\ EpochPublished
  /\ \A e \in Advances : e <= epoch
  /\ \A r \in Waiters : seen[r] <= published /\ seen_changes[r] <= changes

SlotsPast == \A r \in Requests : slot[r] # None => slot[r] <= now

(* No wake-up is on its way to r.                                          *)
Quiet(r) == ~Changed(r) /\ \A e \in Advances : e <= seen[r]
(* The reservations that do not expire before t.                           *)
Lasting(t) == {q \in Requests : slot[q] # None /\ slot[q] + Window >= t}

RefusedFor(r) ==
  IF retry_at[r] = None
  THEN r \in Normal /\ fixed_waiters > 0
  ELSE now >= retry_at[r] \/ Cardinality(Lasting(retry_at[r])) >= Limit
RefusalsStand ==
  \A r \in Waiters : pc[r] \in {"check", "sleep"} /\ Quiet(r) => RefusedFor(r)

IInv ==
  /\ TypeOK /\ CountersExact /\ DeadlinesSet /\ EpochsOrdered /\ SlotsPast
  /\ RefusalsStand

-----------------------------------------------------------------------------
(* A set of numbers has a least one and, when it is bounded, a greatest.   *)
LEMMA LeastNumber ==
  ASSUME NEW T \in SUBSET Nat, T # {}
  PROVE  \E x \in T : \A y \in T : x <= y
<1> DEFINE R == OpToRel(<, Nat)
<1>1. IsWellFoundedOn(R, Nat)
  BY NatLessThanWellFounded
<1>2. \A x, y \in Nat : x < y => <<x, y>> \in R
  BY DEF OpToRel
<1> HIDE DEF R
<1>3. PICK x \in T : \A y \in T : ~(<<y, x>> \in R)
  BY <1>1, WFMin
<1>4. \A y \in T : ~(y < x)
  BY <1>2, <1>3
<1> QED BY <1>4

LEMMA GreatestNumber ==
  ASSUME NEW T \in SUBSET Nat, T # {}, NEW n \in Nat, \A y \in T : y <= n
  PROVE  \E x \in T : \A y \in T : y <= x
<1> DEFINE D == {n - y : y \in T}
<1>1. D \in SUBSET Nat /\ D # {}
  <2>1. \A y \in T : n - y \in Nat
    OBVIOUS
  <2>2. D \subseteq Nat
    BY <2>1
  <2>3. PICK y \in T : TRUE
    OBVIOUS
  <2>4. n - y \in D
    OBVIOUS
  <2> QED BY <2>2, <2>4
<1>2. PICK d \in D : \A e \in D : d <= e
  BY <1>1, LeastNumber
<1>3. PICK x \in T : d = n - x
  BY <1>2
<1>4. ASSUME NEW y \in T PROVE y <= x
  <2>1. n - y \in D /\ y \in Nat /\ x \in Nat
    OBVIOUS
  <2>2. n - x <= n - y
    BY <1>2, <1>3, <2>1
  <2> QED BY <2>1, <2>2
<1> QED BY <1>4

(* All sets of requests are finite.                                        *)
LEMMA RequestSets ==
  ASSUME NEW S \in SUBSET Requests
  PROVE  IsFiniteSet(S) /\ Cardinality(S) \in Nat
         /\ \A T \in SUBSET S : Cardinality(T) <= Cardinality(S)
<1>1. IsFiniteSet(S)
  BY QueueAssumption, FS_Subset
<1> QED BY <1>1, FS_Subset, FS_CardinalityType

(* The time a refused request is told to retry at: as many reservations as *)
(* the limit allows last until then.                                       *)
LEMMA RetryTime ==
  ASSUME TypeOK, SlotsPast, Cardinality(InWindow) >= Limit
  PROVE  NextAvailableAt \in Nat /\ Cardinality(Lasting(NextAvailableAt)) >= Limit
<1> DEFINE T == {slot[r] : r \in InWindow}
           younger(t) == Cardinality({r \in InWindow : slot[r] >= t})
           B == {t \in T : younger(t) >= Limit}
           c == CHOOSE t \in T : younger(t) >= Limit /\ \A u \in T : younger(u) >= Limit => u <= t
<1>1. Limit \in Nat \ {0} /\ Window \in Nat /\ None \notin Nat /\ now \in Nat
  BY QueueAssumption DEF TypeOK
<1>2. \A r \in InWindow : r \in Requests /\ slot[r] \in Nat /\ slot[r] <= now
  BY DEF InWindow, TypeOK, SlotsPast
<1>3. T \in SUBSET Nat /\ \A t \in T : t <= now
  BY <1>2
<1>4. InWindow # {} /\ T # {}
  <2>1. Cardinality({}) = 0
    BY FS_EmptySet
  <2> QED BY <1>1, <2>1
<1>5. PICK m \in T : \A t \in T : m <= t
  BY <1>3, <1>4, LeastNumber
<1>6. {r \in InWindow : slot[r] >= m} = InWindow
  BY <1>2, <1>3, <1>5
<1>7. B # {}
  BY <1>5, <1>6
<1>8. \E x \in B : \A y \in B : y <= x
  BY <1>1, <1>3, <1>7, GreatestNumber
<1>9. \E t \in T : younger(t) >= Limit /\ \A u \in T : younger(u) >= Limit => u <= t
  BY <1>8
<1>10. c \in T /\ younger(c) >= Limit
  BY <1>9
<1>11. NextAvailableAt = c + Window
  BY DEF NextAvailableAt
<1> HIDE DEF c
<1>12. {r \in InWindow : slot[r] >= c} \in SUBSET Lasting(c + Window)
  BY <1>1, <1>2, <1>3, <1>10 DEF Lasting
<1>13. younger(c) <= Cardinality(Lasting(c + Window)) /\ younger(c) \in Nat
       /\ Cardinality(Lasting(c + Window)) \in Nat
  <2>1. Lasting(c + Window) \in SUBSET Requests
    BY DEF Lasting
  <2>2. {r \in InWindow : slot[r] >= c} \in SUBSET Requests
    BY <1>2
  <2> QED BY <1>12, <2>1, <2>2, RequestSets
<1> QED BY <1>1, <1>3, <1>10, <1>11, <1>13

LEMMA RetryAtType ==
  ASSUME TypeOK, SlotsPast
  PROVE  RetryAt \in Nat \cup {None}
BY RetryTime DEF RetryAt

-----------------------------------------------------------------------------
(* Types, the clock and the deadlines.                                     *)
LEMMA TypesStep ==
  ASSUME IInv, [Next]_vars
  PROVE  TypeOK'
<1> USE QueueAssumption DEF TypeOK, Requests, Waiters, Outcomes
<1>0. TypeOK /\ SlotsPast
  BY DEF IInv
<1>1. ASSUME UNCHANGED vars PROVE TypeOK'
  BY <1>0, <1>1 DEF vars, windowVars, channelVars, localVars
<1>2. ASSUME Tick PROVE TypeOK'
  BY <1>0, <1>2 DEF Tick, windowVars, channelVars, localVars
<1>3. ASSUME NEW r \in Requests, Send(r) PROVE TypeOK'
  BY <1>0, <1>3 DEF Send, windowVars, channelVars, localVars
<1>4. ASSUME NEW h \in Holders, Rollback(h) \/ Keep(h) PROVE TypeOK'
  BY <1>0, <1>4 DEF Rollback, Keep, Increment, windowVars, channelVars, localVars
<1>5. ASSUME NEW r \in Waiters, FirstTry(r) \/ FinalSelection(r) PROVE TypeOK'
  BY <1>0, <1>5 DEF FirstTry, FinalSelection, Acquire, Goto, windowVars, channelVars, localVars
<1>6. ASSUME NEW r \in Waiters, TakeTicket(r) \/ QueueFull(r) \/ Observe(r) PROVE TypeOK'
  BY <1>0, <1>6 DEF TakeTicket, QueueFull, Observe, Goto, windowVars, channelVars, localVars
<1>7. ASSUME NEW r \in Waiters, TrySelect(r) PROVE TypeOK'
  <2>1. RetryAt \in Nat \cup {None}
    BY <1>0, RetryAtType
  <2> QED BY <1>0, <1>7, <2>1 DEF TrySelect, Acquire, Goto, windowVars, channelVars, localVars
<1>8. ASSUME NEW r \in Waiters, RegisterFixedWaiter(r) PROVE TypeOK'
  <2>1. r \in Fixed
    BY <1>8 DEF RegisterFixedWaiter, IInv, CountersExact
  <2> QED BY <1>0, <1>8, <2>1 DEF RegisterFixedWaiter, Goto, windowVars, channelVars, localVars
<1>9. ASSUME NEW r \in Waiters,
             CheckDeadline(r) \/ WakeByChange(r) \/ WakeByTimer(r) \/ Cancel(r)
      PROVE  TypeOK'
  BY <1>0, <1>9 DEF CheckDeadline, WakeByChange, WakeByTimer, Cancel, Goto,
     windowVars, channelVars, localVars
<1>10. ASSUME NEW r \in Waiters, ReleaseFixedWaiter(r) PROVE TypeOK'
  <2>1. fixed_waiters - 1 \in Nat
    <3>1. registered \in SUBSET Requests /\ fixed_waiters = Cardinality(registered)
          /\ r \in registered
      BY <1>0, <1>10 DEF IInv, CountersExact, ReleaseFixedWaiter
    <3>2. /\ Cardinality(registered \ {r}) = fixed_waiters - 1
          /\ registered \ {r} \in SUBSET Requests
      BY <3>1, RequestSets, FS_RemoveElement
    <3> QED BY <3>2, RequestSets
  <2> QED BY <1>0, <1>10, <2>1 DEF ReleaseFixedWaiter, Increment, windowVars, channelVars,
             localVars
<1>11. ASSUME NEW r \in Waiters, DropTicket(r) PROVE TypeOK'
  <2>1. ASSUME deadline[r] # None PROVE waiting - 1 \in Nat
    <3>1. r \in Ticketed /\ Ticketed \in SUBSET Requests /\ waiting = Cardinality(Ticketed)
      BY <1>11, <2>1 DEF DropTicket, Ticketed, IInv, CountersExact, QueueBounded
    <3>2. Cardinality(Ticketed \ {r}) = waiting - 1 /\ Ticketed \ {r} \in SUBSET Requests
      BY <3>1, RequestSets, FS_RemoveElement
    <3> QED BY <3>2, RequestSets
  <2> QED BY <1>0, <1>11, <2>1 DEF DropTicket, ForgetLocals, Goto, windowVars, channelVars,
             localVars
<1> QED BY <1>1, <1>2, <1>3, <1>4, <1>5, <1>6, <1>7, <1>8, <1>9, <1>10, <1>11
        DEF Next, Wait

LEMMA SlotsPastStep ==
  ASSUME IInv, [Next]_vars
  PROVE  SlotsPast'
<1> USE QueueAssumption DEF TypeOK, Requests, Waiters, SlotsPast
<1>0. TypeOK /\ SlotsPast
  BY DEF IInv
<1>1. now' >= now /\ now' \in Nat
  BY <1>0, TypesStep
     DEF Next, Wait, vars, Tick, Send, Rollback, Keep, FirstTry, TakeTicket, QueueFull,
         Observe, TrySelect, RegisterFixedWaiter, CheckDeadline, WakeByChange, WakeByTimer,
         FinalSelection, ReleaseFixedWaiter, DropTicket, Cancel
<1>2. \/ slot' = slot
      \/ \E r \in Requests : slot' = [slot EXCEPT ![r] = None]
      \/ \E r \in Requests : slot' = [slot EXCEPT ![r] = now]
  BY DEF Next, Wait, vars, windowVars, Tick, Send, Rollback, Keep, FirstTry, TakeTicket,
         QueueFull, Observe, TrySelect, RegisterFixedWaiter, CheckDeadline, WakeByChange,
         WakeByTimer, FinalSelection, ReleaseFixedWaiter, DropTicket, Cancel, Acquire
<1> QED BY <1>0, <1>1, <1>2

LEMMA DeadlinesStep ==
  ASSUME IInv, [Next]_vars
  PROVE  DeadlinesSet'
<1> USE QueueAssumption DEF TypeOK, Requests, Waiters, DeadlinesSet, Queued
<1>0. TypeOK /\ DeadlinesSet
  BY DEF IInv
<1>1. CASE UNCHANGED <<pc, deadline>> /\ (now' = now \/ now' = now + 1)
  BY <1>0, <1>1
<1>2. ASSUME NEW h \in Holders, pc' = [pc EXCEPT ![h] = "done"], UNCHANGED <<now, deadline>>
      PROVE  DeadlinesSet'
  BY <1>0, <1>2
<1>3. ASSUME NEW r \in Waiters, FirstTry(r) \/ TakeTicket(r) \/ QueueFull(r) \/ Observe(r)
      PROVE  DeadlinesSet'
  BY <1>0, <1>3 DEF FirstTry, TakeTicket, QueueFull, Observe, Goto
<1>4. ASSUME NEW r \in Waiters, TrySelect(r) \/ RegisterFixedWaiter(r) \/ CheckDeadline(r)
      PROVE  DeadlinesSet'
  BY <1>0, <1>4 DEF TrySelect, RegisterFixedWaiter, CheckDeadline, Goto, localVars
<1>5. ASSUME NEW r \in Waiters, WakeByChange(r) \/ WakeByTimer(r) \/ Cancel(r)
      PROVE  DeadlinesSet'
  BY <1>0, <1>5 DEF WakeByChange, WakeByTimer, Cancel, TimerFired, Goto, localVars
<1>6. ASSUME NEW r \in Waiters, FinalSelection(r) \/ DropTicket(r)
      PROVE  DeadlinesSet'
  BY <1>0, <1>6 DEF FinalSelection, DropTicket, ForgetLocals, Goto
<1> QED BY <1>1, <1>2, <1>3, <1>4, <1>5, <1>6
        DEF Next, Wait, vars, localVars, Tick, Send, Rollback, Keep, ReleaseFixedWaiter

(* A place in the queue is taken with the ticket and given back with it.   *)
LEMMA CountersStep ==
  ASSUME IInv, [Next]_vars
  PROVE  CountersExact'
<1> USE QueueAssumption DEF TypeOK, Requests, Waiters
<1>0. TypeOK /\ CountersExact /\ DeadlinesSet /\ waiting = Cardinality(Ticketed)
      /\ waiting <= MaxWaiting
  BY DEF IInv, CountersExact, QueueBounded
<1>1. ASSUME Ticketed' = Ticketed, waiting' = waiting PROVE QueueBounded'
  BY <1>0, <1>1 DEF QueueBounded
<1>2. ASSUME NEW r \in Waiters, TakeTicket(r) PROVE QueueBounded'
  <2>1. Ticketed' = Ticketed \cup {r} /\ r \notin Ticketed /\ waiting' = waiting + 1
        /\ waiting < MaxWaiting
    BY <1>0, <1>2 DEF Ticketed, TakeTicket, Goto, DeadlinesSet
  <2>2. Cardinality(Ticketed \cup {r}) = Cardinality(Ticketed) + 1
    BY <2>1, RequestSets, FS_AddElement DEF Ticketed
  <2> QED BY <1>0, <2>1, <2>2 DEF QueueBounded
<1>3. ASSUME NEW r \in Waiters, DropTicket(r) PROVE QueueBounded'
  <2>1. CASE deadline[r] = None
    <3>1. Ticketed' = Ticketed /\ waiting' = waiting
      BY <1>0, <1>3, <2>1 DEF Ticketed, DropTicket, ForgetLocals, Goto
    <3> QED BY <1>1, <3>1
  <2>2. CASE deadline[r] # None
    <3>1. Ticketed' = Ticketed \ {r} /\ r \in Ticketed /\ waiting' = waiting - 1
      BY <1>0, <1>3, <2>2 DEF Ticketed, DropTicket, ForgetLocals, Goto
    <3>2. Cardinality(Ticketed \ {r}) = Cardinality(Ticketed) - 1
      BY <3>1, RequestSets, FS_RemoveElement DEF Ticketed
    <3> QED BY <1>0, <3>1, <3>2 DEF QueueBounded
  <2> QED BY <2>1, <2>2
<1>4. ASSUME NEW r \in Waiters,
             FirstTry(r) \/ QueueFull(r) \/ Observe(r) \/ TrySelect(r) \/ RegisterFixedWaiter(r)
               \/ CheckDeadline(r) \/ WakeByChange(r) \/ WakeByTimer(r) \/ FinalSelection(r)
               \/ Cancel(r)
      PROVE  Ticketed' = Ticketed /\ waiting' = waiting
  <2>1. \E l \in {"leave", "ticket", "observe", "try", "check", "register", "sleep", "final"} :
          pc' = [pc EXCEPT ![r] = l]
    BY <1>4 DEF FirstTry, QueueFull, Observe, TrySelect, RegisterFixedWaiter, CheckDeadline,
                WakeByChange, WakeByTimer, FinalSelection, Cancel, Goto
  <2>2. deadline' = deadline /\ waiting' = waiting /\ pc[r] # "done"
    BY <1>4 DEF FirstTry, QueueFull, Observe, TrySelect, RegisterFixedWaiter, CheckDeadline,
                WakeByChange, WakeByTimer, FinalSelection, Cancel, localVars
  <2> QED BY <1>0, <2>1, <2>2 DEF Ticketed
<1>5. ASSUME NEW h \in Holders, Rollback(h) \/ Keep(h)
      PROVE  Ticketed' = Ticketed /\ waiting' = waiting
  BY <1>0, <1>5 DEF Rollback, Keep, Ticketed, localVars
<1>6. QueueBounded'
  <2>1. CASE UNCHANGED <<pc, deadline, waiting>>
    BY <2>1, <1>1 DEF Ticketed
  <2> QED BY <2>1, <1>1, <1>2, <1>3, <1>4, <1>5
          DEF Next, Wait, vars, localVars, Tick, Send, ReleaseFixedWaiter
<1>7. fixed_waiters' = Cardinality(registered')
  <2>0. registered \in SUBSET Requests /\ fixed_waiters = Cardinality(registered)
    BY <1>0 DEF CountersExact
  <2>1. ASSUME NEW r \in Waiters, RegisterFixedWaiter(r)
        PROVE  fixed_waiters' = Cardinality(registered')
    <3>1. /\ r \notin registered /\ registered' = registered \cup {r}
          /\ fixed_waiters' = fixed_waiters + 1
      BY <1>0, <2>1 DEF RegisterFixedWaiter, CountersExact
    <3> QED BY <2>0, <3>1, RequestSets, FS_AddElement
  <2>2. ASSUME NEW r \in Waiters, ReleaseFixedWaiter(r)
        PROVE  fixed_waiters' = Cardinality(registered')
    <3>1. r \in registered /\ registered' = registered \ {r} /\ fixed_waiters' = fixed_waiters - 1
      BY <2>2 DEF ReleaseFixedWaiter
    <3> QED BY <2>0, <3>1, RequestSets, FS_RemoveElement
  <2>3. CASE UNCHANGED <<fixed_waiters, registered>>
    BY <2>0, <2>3
  <2> QED BY <2>1, <2>2, <2>3
          DEF Next, Wait, vars, windowVars, Tick, Send, Rollback, Keep, FirstTry, TakeTicket,
              QueueFull, Observe, TrySelect, CheckDeadline, WakeByChange, WakeByTimer,
              FinalSelection, DropTicket, Cancel
<1>8. \A r \in Waiters : pc'[r] = "register" => r \in Fixed \ registered'
  <2>0. \A r \in Waiters : pc[r] = "register" => r \in Fixed \ registered
    BY <1>0 DEF CountersExact
  <2>1. ASSUME NEW q \in Waiters, TrySelect(q) \/ RegisterFixedWaiter(q) \/ ReleaseFixedWaiter(q)
        PROVE  \A r \in Waiters : pc'[r] = "register" => r \in Fixed \ registered'
    BY <1>0, <2>0, <2>1 DEF TrySelect, RegisterFixedWaiter, ReleaseFixedWaiter, Goto
  <2>2. ASSUME NEW q \in Requests,
               NEW l \in {"leave", "ticket", "observe", "try", "check", "sleep", "final", "done"},
               pc' = [pc EXCEPT ![q] = l], registered' = registered
        PROVE  \A r \in Waiters : pc'[r] = "register" => r \in Fixed \ registered'
    BY <1>0, <2>0, <2>2
  <2>3. CASE UNCHANGED <<pc, registered>>
    BY <2>0, <2>3
  <2>4. ASSUME NEW q \in Waiters, Wait(q) \/ Cancel(q), ~TrySelect(q),
               ~RegisterFixedWaiter(q), ~ReleaseFixedWaiter(q)
        PROVE  registered' = registered /\
               \E l \in {"leave", "ticket", "observe", "try", "check", "sleep", "final", "done"} :
                 pc' = [pc EXCEPT ![q] = l]
    BY <2>4
       DEF Wait, windowVars, FirstTry, TakeTicket, QueueFull, Observe, CheckDeadline,
           WakeByChange, WakeByTimer, FinalSelection, DropTicket, Cancel, Goto
  <2> QED BY <2>1, <2>2, <2>3, <2>4
          DEF Next, vars, windowVars, Tick, Send, Rollback, Keep
<1> QED BY <1>6, <1>7, <1>8 DEF CountersExact

-----------------------------------------------------------------------------
(* The epoch is taken and sent in two steps.                               *)
LEMMA AdvancesAre ==
  ASSUME TypeOK
  PROVE  /\ Advances \subseteq Nat
         /\ \A e : e \in Advances <=> \E r \in Requests : advancing[r] = e /\ e # None
BY QueueAssumption DEF Advances, TypeOK

LEMMA IncrementStep ==
  ASSUME TypeOK, EpochsOrdered, TypeOK', NEW r \in Requests, Increment(r), published' = published
  PROVE  /\ epoch' = epoch + 1 /\ epoch + 1 \in Advances'
         /\ published' <= epoch' /\ \A e \in Advances' : e <= epoch'
<1>1. epoch \in Nat /\ published \in Nat /\ published <= epoch /\ None \notin Nat
  BY QueueAssumption DEF TypeOK, EpochsOrdered, EpochPublished
<1>2. advancing'[r] = epoch + 1 /\ \A q \in Requests : q # r => advancing'[q] = advancing[q]
  BY DEF TypeOK, Increment
<1>3. epoch' = epoch + 1
  BY DEF Increment
<1>4. epoch + 1 \in Advances'
  BY <1>1, <1>2 DEF Advances
<1>5. ASSUME NEW e \in Advances' PROVE e <= epoch'
  <2>1. PICK q \in Requests : advancing'[q] = e /\ e # None
    BY DEF Advances
  <2>2. CASE q = r
    BY <1>1, <1>2, <1>3, <2>1, <2>2
  <2>3. CASE q # r
    <3>1. e \in Advances /\ e \in Nat
      BY <1>2, <2>1, <2>3, AdvancesAre
    <3>2. e <= epoch
      BY <3>1 DEF EpochsOrdered
    <3> QED BY <1>1, <1>3, <3>1, <3>2
  <2> QED BY <2>2, <2>3
<1> QED BY <1>1, <1>3, <1>4, <1>5

LEMMA SendStep ==
  ASSUME TypeOK, EpochsOrdered, NEW r \in Requests, Send(r)
  PROVE  /\ published' >= published /\ published' >= advancing[r] /\ published' <= epoch
         /\ published' \in Nat
         /\ Advances' \subseteq Advances /\ Advances \subseteq Advances' \cup {advancing[r]}
         /\ advancing[r] \in Nat
<1>1. epoch \in Nat /\ published \in Nat /\ published <= epoch /\ None \notin Nat
  BY QueueAssumption DEF TypeOK, EpochsOrdered, EpochPublished
<1>2. advancing[r] \in Nat /\ advancing[r] \in Advances
  BY DEF Send, TypeOK, Advances
<1>3. advancing[r] <= epoch
  BY <1>2 DEF EpochsOrdered
<1>4. published' = IF published >= advancing[r] THEN published ELSE advancing[r]
  BY DEF Send
<1>5. advancing'[r] = None /\ \A q \in Requests : q # r => advancing'[q] = advancing[q]
  BY DEF TypeOK, Send
<1>6. Advances' \subseteq Advances /\ Advances \subseteq Advances' \cup {advancing[r]}
  BY <1>5 DEF Advances
<1> QED BY <1>1, <1>2, <1>3, <1>4, <1>6

LEMMA EpochsStep ==
  ASSUME IInv, [Next]_vars
  PROVE  EpochsOrdered'
<1>0. TypeOK /\ TypeOK' /\ EpochsOrdered
  BY TypesStep DEF IInv
<1>1. /\ epoch \in Nat /\ published \in Nat /\ published <= epoch /\ changes \in Nat
      /\ \A r \in Waiters : /\ seen[r] \in Nat /\ seen[r] <= published
                            /\ seen_changes[r] \in Nat /\ seen_changes[r] <= changes
      /\ \A e \in Advances : e <= epoch
      /\ epoch # published => epoch \in Advances
      /\ seen \in [Waiters -> Nat] /\ seen_changes \in [Waiters -> Nat]
  BY <1>0 DEF EpochsOrdered, EpochPublished, TypeOK
<1>2. ASSUME UNCHANGED <<epoch, published, advancing>>, changes' = changes
               \/ changes' = changes + 1,
             UNCHANGED <<seen, seen_changes>>
      PROVE  EpochsOrdered'
  <2>1. Advances' = Advances
    BY <1>2 DEF Advances
  <2> QED BY <1>1, <1>2, <2>1 DEF EpochsOrdered, EpochPublished
<1>3. ASSUME NEW r \in Requests, Increment(r), published' = published, changes' = changes + 1,
             UNCHANGED <<seen, seen_changes>>
      PROVE  EpochsOrdered'
  <2>1. /\ epoch' = epoch + 1 /\ epoch + 1 \in Advances'
        /\ published' <= epoch' /\ \A e \in Advances' : e <= epoch'
    BY <1>0, <1>3, IncrementStep
  <2> QED BY <1>1, <1>3, <2>1 DEF EpochsOrdered, EpochPublished
<1>4. ASSUME NEW r \in Requests, Send(r)
      PROVE  EpochsOrdered'
  <2>1. /\ published' >= published /\ published' >= advancing[r] /\ published' <= epoch
        /\ published' \in Nat
        /\ Advances' \subseteq Advances /\ Advances \subseteq Advances' \cup {advancing[r]}
        /\ advancing[r] \in Nat
    BY <1>0, <1>4, SendStep
  <2>2. UNCHANGED <<epoch, changes, seen, seen_changes>>
    BY <1>4 DEF Send, localVars
  <2>3. epoch' # published' => epoch' \in Advances'
    BY <1>1, <2>1, <2>2
  <2>4. \A q \in Waiters : seen'[q] <= published' /\ seen_changes'[q] <= changes'
    BY <1>1, <2>1, <2>2
  <2> QED BY <1>1, <2>1, <2>2, <2>3, <2>4 DEF EpochsOrdered, EpochPublished
<1>5. ASSUME NEW r \in Waiters, UNCHANGED <<epoch, published, advancing, changes>>,
             \/ /\ seen' = [seen EXCEPT ![r] = published]
                /\ seen_changes' = [seen_changes EXCEPT ![r] = changes]
             \/ /\ seen' = [seen EXCEPT ![r] = 0]
                /\ seen_changes' = [seen_changes EXCEPT ![r] = 0]
      PROVE  EpochsOrdered'
  <2>1. Advances' = Advances
    BY <1>5 DEF Advances
  <2>2. \A q \in Waiters : seen'[q] <= published /\ seen_changes'[q] <= changes
    BY <1>1, <1>5
  <2> QED BY <1>1, <1>5, <2>1, <2>2 DEF EpochsOrdered, EpochPublished
<1>6. ASSUME NEW h \in Holders, Rollback(h) \/ Keep(h)
      PROVE  EpochsOrdered'
  BY <1>2, <1>3, <1>6 DEF Rollback, Keep, channelVars, localVars, Requests
<1>7. ASSUME NEW r \in Waiters, Wait(r) \/ Cancel(r)
      PROVE  EpochsOrdered'
  <2>1. CASE ReleaseFixedWaiter(r)
    BY <1>3, <2>1 DEF ReleaseFixedWaiter, localVars, Requests
  <2>2. CASE TakeTicket(r) \/ Observe(r) \/ DropTicket(r)
    BY <1>5, <2>2 DEF TakeTicket, Observe, DropTicket, ForgetLocals, channelVars
  <2>3. CASE RegisterFixedWaiter(r)
    BY <1>2, <2>3 DEF RegisterFixedWaiter, localVars
  <2> QED BY <1>2, <1>7, <2>1, <2>2, <2>3
          DEF Wait, channelVars, localVars, FirstTry, QueueFull, TrySelect, CheckDeadline,
              WakeByChange, WakeByTimer, FinalSelection, Cancel
<1> QED BY <1>2, <1>4, <1>6, <1>7 DEF Next, vars, Tick, channelVars, localVars

-----------------------------------------------------------------------------
(* Refusals stand while nothing is on its way to the refused.              *)

(* An advance or a change that r has not seen is not Quiet.                *)
LEMMA IncrementWakes ==
  ASSUME IInv, TypeOK', NEW q \in Requests, Increment(q), published' = published,
         NEW r \in Waiters, seen'[r] = seen[r]
  PROVE  ~Quiet(r)'
<1>1. epoch + 1 \in Advances'
  BY IncrementStep DEF IInv
<1>2. seen[r] \in Nat /\ seen[r] <= published /\ published <= epoch /\ epoch \in Nat
      /\ published \in Nat
  BY DEF IInv, TypeOK, EpochsOrdered, EpochPublished
<1>3. ~(epoch + 1 <= seen[r])
  BY <1>2
<1> QED BY <1>1, <1>3 DEF Quiet

(* A slot taken makes no reservation end sooner.                           *)
LEMMA AcquireLasts ==
  ASSUME TypeOK, SlotsPast, NEW q \in Requests, slot' = [slot EXCEPT ![q] = now],
         NEW t \in Nat
  PROVE  Cardinality(Lasting(t)') >= Cardinality(Lasting(t))
<1>1. Lasting(t) \subseteq Lasting(t)'
  BY QueueAssumption DEF Lasting, TypeOK, SlotsPast
<1>2. Lasting(t)' \in SUBSET Requests /\ Lasting(t) \in SUBSET Requests
  BY DEF Lasting
<1> QED BY <1>1, <1>2, RequestSets

(* A step that leaves the window, the waiter and the channels alone.       *)
LEMMA RefusalKept ==
  ASSUME IInv, NEW r \in Waiters, RefusedFor(r),
         retry_at'[r] = retry_at[r], now' \in Nat, now' >= now, fixed_waiters' >= fixed_waiters,
         fixed_waiters' \in Nat,
         slot' = slot \/ \E q \in Requests : slot' = [slot EXCEPT ![q] = now]
  PROVE  RefusedFor(r)'
<1>1. TypeOK /\ SlotsPast /\ Limit \in Nat /\ now \in Nat /\ fixed_waiters \in Nat
      /\ retry_at[r] \in Nat \cup {None}
  BY QueueAssumption DEF IInv, TypeOK
<1>2. CASE retry_at[r] = None
  BY <1>1, <1>2 DEF RefusedFor
<1>3. CASE retry_at[r] # None
  <2>1. Cardinality(Lasting(retry_at[r])') >= Cardinality(Lasting(retry_at[r]))
        /\ Cardinality(Lasting(retry_at[r])') \in Nat /\ Cardinality(Lasting(retry_at[r])) \in Nat
    <3>1. Lasting(retry_at[r]) \in SUBSET Requests /\ Lasting(retry_at[r])' \in SUBSET Requests
      BY DEF Lasting
    <3>2. Cardinality(Lasting(retry_at[r])') \in Nat /\ Cardinality(Lasting(retry_at[r])) \in Nat
      BY <3>1, RequestSets
    <3>3. CASE slot' = slot
      <4>1. Lasting(retry_at[r])' = Lasting(retry_at[r])
        BY <3>3 DEF Lasting
      <4> QED BY <3>2, <4>1
    <3>4. CASE slot' # slot
      BY <1>1, <1>3, <3>2, <3>4, AcquireLasts
    <3> QED BY <3>3, <3>4
  <2> QED BY <1>1, <1>3, <2>1 DEF RefusedFor
<1> QED BY <1>2, <1>3

(* A step after which nothing is on its way to a waiter that only slept,   *)
(* and that took nothing from anybody.                                     *)
LEMMA StillRefused ==
  ASSUME IInv, TypeOK', NEW r \in Waiters, pc'[r] = pc[r] \/ pc[r] = "check",
         pc'[r] \in {"check", "sleep"}, Quiet(r)',
         seen'[r] = seen[r], seen_changes'[r] = seen_changes[r], retry_at'[r] = retry_at[r],
         \/ UNCHANGED channelVars
         \/ UNCHANGED <<epoch, published, advancing>> /\ changes' = changes + 1
         \/ \E q \in Requests : Send(q),
         now' >= now, fixed_waiters' >= fixed_waiters,
         slot' = slot \/ \E q \in Requests : slot' = [slot EXCEPT ![q] = now]
  PROVE  RefusedFor(r)'
<1>1. /\ seen[r] \in Nat /\ seen[r] <= published /\ published \in Nat /\ changes \in Nat
      /\ seen_changes[r] \in Nat /\ seen_changes[r] <= changes /\ Advances \subseteq Nat
  BY AdvancesAre DEF IInv, TypeOK, EpochsOrdered
<1>2. published' = seen[r] /\ (r \in Fixed => changes' = seen_changes[r])
      /\ \A e \in Advances' : e <= seen[r]
  BY DEF Quiet, Changed
<1>3. Quiet(r)
  <2>1. CASE UNCHANGED <<epoch, published, advancing>>
    <3>1. Advances' = Advances
      BY <2>1 DEF Advances
    <3>2. r \in Fixed => changes = seen_changes[r]
      BY <1>1, <1>2, <2>1 DEF channelVars, Send
    <3> QED BY <1>2, <2>1, <3>1, <3>2 DEF Quiet, Changed
  <2>2. ASSUME NEW q \in Requests, Send(q) PROVE Quiet(r)
    <3>1. /\ published' >= published /\ published' >= advancing[q]
          /\ Advances \subseteq Advances' \cup {advancing[q]} /\ advancing[q] \in Nat
      BY <2>2, SendStep DEF IInv
    <3>2. changes' = changes
      BY <2>2 DEF Send
    <3> QED BY <1>1, <1>2, <3>1, <3>2 DEF Quiet, Changed
  <2> QED BY <2>1, <2>2 DEF channelVars
<1>4. RefusedFor(r)
  BY <1>3 DEF IInv, RefusalsStand
<1>5. now' \in Nat /\ fixed_waiters' \in Nat
  BY DEF TypeOK
<1> QED BY <1>4, <1>5, RefusalKept

(* A failed try: the request was refused for one of the two reasons.       *)
LEMMA TryRefused ==
  ASSUME IInv, NEW r \in Waiters, ~Available(r), TrySelect(r)
  PROVE  RefusedFor(r)'
<1>1. /\ Limit \in Nat \ {0} /\ None \notin Nat /\ now \in Nat /\ fixed_waiters \in Nat
      /\ retry_at \in [Waiters -> Nat \cup {None}] /\ TypeOK /\ SlotsPast
      /\ r \in Normal \/ r \in Fixed
  BY QueueAssumption DEF IInv, TypeOK, Waiters
<1>2. retry_at'[r] = RetryAt /\ UNCHANGED <<slot, now, fixed_waiters>>
  BY <1>1 DEF TrySelect
<1>3. Cardinality(InWindow) \in Nat
  BY RequestSets DEF InWindow
<1>4. CASE Cardinality(InWindow) >= Limit
  <2>1. NextAvailableAt \in Nat /\ Cardinality(Lasting(NextAvailableAt)) >= Limit
    BY <1>1, <1>4, RetryTime
  <2>2. retry_at'[r] = NextAvailableAt
    BY <1>2, <1>4 DEF RetryAt
  <2>3. Lasting(retry_at[r])' = Lasting(NextAvailableAt)
    BY <1>2, <2>2 DEF Lasting
  <2> QED BY <1>1, <2>1, <2>2, <2>3 DEF RefusedFor
<1>5. CASE ~(Cardinality(InWindow) >= Limit)
  <2>1. retry_at'[r] = None
    BY <1>2, <1>5 DEF RetryAt
  <2>2. r \in Normal /\ fixed_waiters > 0
    BY <1>1, <1>3, <1>5 DEF Available
  <2> QED BY <1>2, <2>1, <2>2 DEF RefusedFor
<1> QED BY <1>4, <1>5

(* A reservation given back after it expired matters to nobody.            *)
LEMMA LateRollback ==
  ASSUME IInv, TypeOK', NEW h \in Holders, Rollback(h), h \notin InWindow,
         NEW r \in Waiters, pc[r] \in {"check", "sleep"}, Quiet(r)
  PROVE  RefusedFor(r)'
<1>1. /\ Limit \in Nat /\ None \notin Nat /\ now \in Nat /\ Window \in Nat
      /\ retry_at[r] \in Nat \cup {None} /\ slot \in [Requests -> Nat \cup {None}]
      /\ h \in Requests
  BY QueueAssumption DEF IInv, TypeOK, Requests
<1>2. UNCHANGED <<now, fixed_waiters, retry_at>> /\ slot' = [slot EXCEPT ![h] = None]
  BY DEF Rollback, localVars
<1>3. RefusedFor(r)
  BY DEF IInv, RefusalsStand
<1>4. CASE retry_at[r] = None \/ now >= retry_at[r]
  BY <1>2, <1>3, <1>4 DEF RefusedFor
<1>5. CASE retry_at[r] # None /\ ~(now >= retry_at[r])
  <2>1. slot[h] = None \/ ~(slot[h] > now - Window)
    BY <1>1 DEF InWindow
  <2>2. h \notin Lasting(retry_at[r])
    BY <1>1, <1>5, <2>1 DEF Lasting
  <2>3. Lasting(retry_at[r])' = Lasting(retry_at[r])
    BY <1>1, <1>2, <2>2 DEF Lasting
  <2> QED BY <1>2, <1>3, <1>5, <2>3 DEF RefusedFor
<1> QED BY <1>4, <1>5

LEMMA RefusalsStep ==
  ASSUME IInv, [Next]_vars
  PROVE  RefusalsStand'
<1> SUFFICES ASSUME NEW r \in Waiters, pc'[r] \in {"check", "sleep"}, Quiet(r)'
             PROVE  RefusedFor(r)'
  BY DEF RefusalsStand
<1>0. /\ TypeOK /\ TypeOK' /\ now \in Nat /\ fixed_waiters \in Nat /\ r \in Requests
      /\ Waiters \cap Holders = {}
  BY TypesStep, QueueAssumption DEF IInv, TypeOK, Requests
<1>1. CASE UNCHANGED vars
  BY <1>0, <1>1, StillRefused DEF vars, windowVars, localVars
<1>2. CASE Tick
  BY <1>0, <1>2, StillRefused DEF Tick, windowVars, localVars
<1>3. ASSUME NEW q \in Requests, Send(q) PROVE RefusedFor(r)'
  <2>1. UNCHANGED <<pc, seen, seen_changes, retry_at, now, fixed_waiters, slot>>
    BY <1>3 DEF Send, windowVars, localVars
  <2>2. now' >= now /\ fixed_waiters' >= fixed_waiters
    BY <1>0, <2>1
  <2> QED BY <1>0, <1>3, <2>1, <2>2, StillRefused
<1>4. ASSUME NEW h \in Holders, Keep(h) PROVE RefusedFor(r)'
  <2>1. pc'[r] = pc[r]
    BY <1>0, <1>4 DEF Keep, TypeOK
  <2> QED BY <1>0, <1>4, <2>1, StillRefused DEF Keep, windowVars, localVars
<1>5. ASSUME NEW h \in Holders, Rollback(h) PROVE RefusedFor(r)'
  <2>1. pc'[r] = pc[r] /\ h \in Requests
    BY <1>0, <1>5 DEF Rollback, TypeOK, Requests
  <2>2. CASE h \in InWindow
    <3>1. Increment(h) /\ published' = published /\ seen'[r] = seen[r]
      BY <1>5, <2>2 DEF Rollback, localVars
    <3> QED BY <1>0, <2>1, <3>1, IncrementWakes
  <2>3. CASE h \notin InWindow
    <3>1. UNCHANGED <<published, changes, epoch, advancing, seen, seen_changes>>
      BY <1>5, <2>3 DEF Rollback, localVars
    <3>2. Quiet(r)
      BY <3>1 DEF Quiet, Changed, Advances
    <3> QED BY <1>0, <1>5, <2>1, <2>3, <3>2, LateRollback
  <2> QED BY <2>2, <2>3
<1>6. ASSUME NEW q \in Waiters, q # r, Wait(q) \/ Cancel(q), ~ReleaseFixedWaiter(q)
      PROVE  RefusedFor(r)'
  <2>1. pc'[r] = pc[r] /\ seen'[r] = seen[r] /\ seen_changes'[r] = seen_changes[r]
        /\ retry_at'[r] = retry_at[r]
    BY <1>0, <1>6
       DEF TypeOK, Wait, localVars, FirstTry, TakeTicket, QueueFull, Observe, TrySelect,
           RegisterFixedWaiter, CheckDeadline, WakeByChange, WakeByTimer, FinalSelection,
           DropTicket, ForgetLocals, Cancel, Goto
  <2>2. now' = now /\ (fixed_waiters' = fixed_waiters \/ fixed_waiters' = fixed_waiters + 1)
        /\ (slot' = slot \/ slot' = [slot EXCEPT ![q] = now])
    BY <1>6
       DEF Wait, windowVars, FirstTry, TakeTicket, QueueFull, Observe, TrySelect, Acquire,
           RegisterFixedWaiter, CheckDeadline, WakeByChange, WakeByTimer, FinalSelection,
           DropTicket, Cancel
  <2>3. \/ UNCHANGED channelVars
        \/ UNCHANGED <<epoch, published, advancing>> /\ changes' = changes + 1
    BY <1>6
       DEF Wait, FirstTry, TakeTicket, QueueFull, Observe, TrySelect,
           RegisterFixedWaiter, CheckDeadline, WakeByChange, WakeByTimer, FinalSelection,
           DropTicket, Cancel
  <2>4. q \in Requests /\ now' >= now /\ fixed_waiters' >= fixed_waiters
    BY <1>0, <2>2 DEF Requests
  <2> QED BY <1>0, <2>1, <2>2, <2>3, <2>4, StillRefused
<1>7. ASSUME NEW q \in Waiters, ReleaseFixedWaiter(q)
      PROVE  RefusedFor(r)'
  <2>1. Increment(q) /\ published' = published /\ seen'[r] = seen[r] /\ q \in Requests
    BY <1>7 DEF ReleaseFixedWaiter, localVars, Requests
  <2> QED BY <1>0, <2>1, IncrementWakes
<1>8. CASE TrySelect(r)
  <2>1. ~Available(r)
    BY <1>0, <1>8 DEF TrySelect, Goto, TypeOK
  <2> QED BY <1>8, <2>1, TryRefused
<1>9. CASE RegisterFixedWaiter(r)
  <2>1. r \in Fixed /\ changes' = changes + 1 /\ seen_changes'[r] = seen_changes[r]
    BY <1>9 DEF RegisterFixedWaiter, localVars, IInv, CountersExact
  <2>2. changes \in Nat /\ seen_changes[r] \in Nat /\ seen_changes[r] <= changes
    BY DEF IInv, TypeOK, EpochsOrdered
  <2>3. changes' # seen_changes'[r]
    BY <2>1, <2>2
  <2> QED BY <2>1, <2>3 DEF Quiet, Changed
<1>10. CASE CheckDeadline(r)
  <2>1. /\ pc[r] = "check"
        /\ UNCHANGED <<slot, fixed_waiters, now, seen, seen_changes, retry_at, channelVars>>
    BY <1>10 DEF CheckDeadline, windowVars, localVars
  <2> QED BY <1>0, <2>1, StillRefused
<1>11. ASSUME FirstTry(r) \/ TakeTicket(r) \/ QueueFull(r) \/ Observe(r) \/ WakeByChange(r)
                \/ WakeByTimer(r) \/ FinalSelection(r) \/ DropTicket(r) \/ Cancel(r)
       PROVE  RefusedFor(r)'
  <2>1. \E l \in {"leave", "ticket", "observe", "try", "final",
          "done"} : pc' = [pc EXCEPT ![r] = l]
    BY <1>11
       DEF FirstTry, TakeTicket, QueueFull, Observe, WakeByChange, WakeByTimer,
           FinalSelection, DropTicket, Cancel, Goto
  <2> QED BY <1>0, <2>1 DEF TypeOK
<1> QED BY <1>1, <1>2, <1>3, <1>4, <1>5, <1>6, <1>7, <1>8, <1>9, <1>10, <1>11
        DEF Next, Wait

-----------------------------------------------------------------------------
LEMMA InitIInv == Init => IInv
<1> SUFFICES ASSUME Init PROVE IInv
  OBVIOUS
<1> USE QueueAssumption DEF Init, Requests, Waiters
<1>1. TypeOK
  <2>1. slot \in [Requests -> Nat \cup {None}]
    OBVIOUS
  <2>2. pc \in [Requests -> {"holding", "first"}]
    OBVIOUS
  <2> QED BY <2>1, <2>2 DEF TypeOK
<1>2. \A r \in Waiters : pc[r] = "first"
  OBVIOUS
<1>3. CountersExact
  <2>1. Ticketed = {}
    BY DEF Ticketed
  <2>2. Cardinality({}) = 0
    BY FS_EmptySet
  <2> QED BY <1>2, <2>1, <2>2 DEF CountersExact, QueueBounded
<1>4. DeadlinesSet
  BY <1>2 DEF DeadlinesSet, Queued
<1>5. EpochsOrdered
  <2>1. Advances = {}
    BY DEF Advances
  <2> QED BY <2>1 DEF EpochsOrdered, EpochPublished
<1>6. SlotsPast
  BY DEF SlotsPast
<1>7. RefusalsStand
  BY <1>2 DEF RefusalsStand
<1> QED BY <1>1, <1>3, <1>4, <1>5, <1>6, <1>7 DEF IInv

LEMMA NextIInv == IInv /\ [Next]_vars => IInv'
BY TypesStep, CountersStep, DeadlinesStep, EpochsStep, SlotsPastStep, RefusalsStep DEF IInv

(* The queue, its counters and its channels are consistent in every        *)
(* reachable state, whatever the number of waiters.                        *)
THEOREM InvariantHolds == Spec => []IInv
<1> QED BY InitIInv, NextIInv, PTL DEF Spec

(* The waiting counter counts the live tickets and stays within            *)
(* max_waiting_requests: every way out of the wait, cancellation included, *)
(* gives exactly one place back.                                           *)
THEOREM QueueHolds == Spec => []QueueBounded
<1>1. IInv => QueueBounded
  BY DEF IInv, CountersExact
<1> QED BY <1>1, InvariantHolds, PTL

(* SchedulerEpoch::advance may be interrupted between its increment and    *)
(* its send and sends may overtake each other; still the newest epoch is   *)
(* published or about to be.                                               *)
THEOREM EpochsArrive == Spec => []EpochPublished
<1>1. IInv => EpochPublished
  BY DEF IInv, EpochsOrdered
<1> QED BY <1>1, InvariantHolds, PTL

(* No wake-up is lost between a failed try and the sleep, for any number   *)
(* of waiters, holders and slots.                                          *)
THEOREM WakeupsArrive == Spec => []NoLostWakeup
<1>1. ASSUME IInv, NEW r \in Waiters, pc[r] = "sleep", Available(r),
             ~Changed(r), ~TimerFired(r), ~\E e \in Advances : e > seen[r]
      PROVE  r \in Normal /\ retry_at[r] = None /\ fixed_waiters > 0
  <2>1. /\ Limit \in Nat /\ now \in Nat /\ fixed_waiters \in Nat /\ seen[r] \in Nat
        /\ retry_at[r] \in Nat \cup {None} /\ Advances \subseteq Nat /\ Window \in Nat
        /\ None \notin Nat /\ slot \in [Requests -> Nat \cup {None}]
    BY <1>1, QueueAssumption, AdvancesAre DEF IInv, TypeOK
  <2>2. Quiet(r)
    BY <1>1, <2>1 DEF Quiet
  <2>3. RefusedFor(r)
    BY <1>1, <2>2 DEF IInv, RefusalsStand
  <2>4. ASSUME retry_at[r] # None PROVE FALSE
    <3>1. ~(now >= retry_at[r]) /\ Cardinality(Lasting(retry_at[r])) >= Limit
      BY <1>1, <2>3, <2>4 DEF RefusedFor, TimerFired
    <3>2. Lasting(retry_at[r]) \subseteq InWindow
      BY <2>1, <2>4, <3>1 DEF Lasting, InWindow
    <3>3. Cardinality(InWindow) >= Cardinality(Lasting(retry_at[r]))
          /\ Cardinality(InWindow) \in Nat /\ Cardinality(Lasting(retry_at[r])) \in Nat
      <4>1. InWindow \in SUBSET Requests /\ Lasting(retry_at[r]) \in SUBSET Requests
        BY DEF InWindow, Lasting
      <4> QED BY <3>2, <4>1, RequestSets
    <3> QED BY <1>1, <2>1, <3>1, <3>3 DEF Available
  <2> QED BY <2>3, <2>4 DEF RefusedFor
<1>2. IInv => NoLostWakeup
  BY <1>1 DEF NoLostWakeup
<1> QED BY <1>2, InvariantHolds, PTL

(* Nobody is timed out while the credential is available to them: the last *)
(* try of final_selection comes after the deadline and decides.            *)
THEOREM TimeoutsAreHonest == Spec => TimeoutIsHonest
<1>1. ASSUME IInv, [Next]_vars, NEW r \in Waiters, outcome'[r] = "timeout", outcome[r] = None
      PROVE  now >= deadline[r] /\ ~Available(r)
  <2>1. outcome \in [Waiters -> {None} \cup Outcomes] /\ None # "timeout" /\ outcome' # outcome
    BY <1>1, QueueAssumption DEF IInv, TypeOK, Outcomes
  <2>2. PICK q \in Waiters : FirstTry(q) \/ QueueFull(q) \/ TrySelect(q) \/ FinalSelection(q)
          \/ Cancel(q)
    BY <1>1, <2>1
       DEF Next, Wait, vars, localVars, Tick, Send, Rollback, Keep, TakeTicket, Observe,
           RegisterFixedWaiter, CheckDeadline, WakeByChange, WakeByTimer,
           ReleaseFixedWaiter, DropTicket
  <2>3. FinalSelection(q) /\ ~Available(q) /\ q = r
    BY <1>1, <2>1, <2>2 DEF FirstTry, QueueFull, TrySelect, FinalSelection, Cancel, Acquire
  <2> QED BY <1>1, <2>3 DEF FinalSelection, IInv, DeadlinesSet
<1>2. IInv /\ [Next]_vars =>
        [\A r \in Waiters : outcome'[r] = "timeout" /\ outcome[r] = None =>
           now >= deadline[r] /\ ~Available(r)]_vars
  BY <1>1
<1> QED BY <1>2, InvariantHolds, PTL DEF Spec, TimeoutIsHonest

-----------------------------------------------------------------------------
CONSTANTS
  Slots, Users, MaxDelay, WakeTime, MaxOps,
  EndpointUsers, Threshold, FailureWindow, OpenDuration, Transient, MaxProbes, HealthTime

VARIABLES
  wake_now, wake_phase, by_slot, by_deadline, wake_changes, wake_worker_started,
  wake_epoch, wake_pc, worker, ops, owed,
  health_now, failure_times, open_until, half_open_in_flight, last_failure_at,
  circuit_wake, transient_until, transient_wake, attempt

Wake == INSTANCE WakeWorker WITH
  Clients <- Users, MaxTime <- WakeTime,
  now <- wake_now, phase <- wake_phase, epoch <- wake_epoch, pc <- wake_pc
Health == INSTANCE EndpointHealth WITH
  Attempts <- EndpointUsers, MaxTime <- HealthTime, now <- health_now

(* The wake schedule.  The two indexes are maps of their own types, the    *)
(* worker has not seen more notifications than were sent, and a worker, or *)
(* a client about to spawn one, is there only while the flag is set.       *)
WakeTypes ==
  /\ by_slot \in [Slots -> Nat \cup {None}]
  /\ DOMAIN by_deadline \subseteq Nat
  /\ by_deadline = [d \in DOMAIN by_deadline |-> by_deadline[d]]
  /\ \A d \in DOMAIN by_deadline : by_deadline[d] \subseteq Slots
  /\ wake_now \in Nat /\ wake_changes \in Nat /\ wake_worker_started \in BOOLEAN
  /\ wake_pc \in [Users -> {"idle", "schedule", "notify", "notify_cancel", "ensure",
                         "cas", "spawn"}]
  /\ worker \in [at : {"off", "observe", "read", "sleep", "advance"},
                 seen : Nat, next : Nat \cup {None}]
WorkerIsFlagged ==
  /\ worker.seen <= wake_changes
  /\ ~wake_worker_started => worker.at = "off" /\ \A c \in Users : wake_pc[c] # "spawn"

WakeInv == WakeTypes /\ WorkerIsFlagged /\ Wake!IndexesAgree /\ Wake!OneWorker
  /\ Wake!NeverOversleeps

(* The next deadline is one of those in the schedule.                      *)
LEMMA NextDeadlineIs ==
  ASSUME WakeTypes
  PROVE  Wake!NextDeadline \in Nat \cup {None}
<1>1. CASE by_deadline = <<>>
  BY <1>1 DEF Wake!NextDeadline
<1>2. CASE by_deadline # <<>>
  <2>1. DOMAIN by_deadline # {}
    <3>1. DOMAIN by_deadline = {} => by_deadline = [d \in {} |-> by_deadline[d]]
      BY DEF WakeTypes
    <3>2. [d \in {} |-> by_deadline[d]] = <<>>
      OBVIOUS
    <3> QED BY <1>2, <3>1, <3>2
  <2>2. PICK x \in DOMAIN by_deadline : \A y \in DOMAIN by_deadline : x <= y
    BY <2>1, LeastNumber DEF WakeTypes
  <2>3. Wake!Min(DOMAIN by_deadline) \in DOMAIN by_deadline
    BY <2>2 DEF Wake!Min
  <2> QED BY <1>2, <2>3 DEF Wake!NextDeadline, WakeTypes
<1> QED BY <1>1, <1>2


(* A slot moves to a new deadline, or leaves the schedule: the indexes     *)
(* change together.                                                        *)
LEMMA ScheduleAgrees ==
  ASSUME Wake!WakeAssumption, WakeInv, NEW c \in Users, NEW s \in Slots, NEW d \in Nat,
         Wake!Schedule(c, s, d), by_slot[s] # d
  PROVE  /\ DOMAIN by_deadline' \subseteq Nat
         /\ by_deadline' = [x \in DOMAIN by_deadline' |-> by_deadline'[x]]
         /\ \A x \in DOMAIN by_deadline' : by_deadline'[x] \subseteq Slots
         /\ Wake!IndexesAgree'
<1> DEFINE o == by_slot[s]
           m == IF o = None THEN by_deadline ELSE Wake!RemoveReverse(by_deadline, o, s)
<1>1. by_deadline' = Wake!InsertReverse(m, d, s) /\ by_slot' = [by_slot EXCEPT ![s] = d]
  BY DEF Wake!Schedule
<1>2. /\ DOMAIN m = {x \in DOMAIN by_deadline : x = o => ~(by_deadline[x] \subseteq {s})}
      /\ \A x \in DOMAIN m : m[x] = IF x = o THEN by_deadline[x] \ {s} ELSE by_deadline[x]
  <2>1. CASE o = None
    BY <2>1 DEF WakeInv, WakeTypes, Wake!WakeAssumption
  <2>2. CASE o # None
    <3>1. by_deadline = [x \in DOMAIN by_deadline |-> by_deadline[x]]
      BY DEF WakeInv, WakeTypes
    <3>2. m = Wake!RemoveReverse(by_deadline, o, s)
      BY <2>2
    <3>3. CASE o \notin DOMAIN by_deadline
      BY <3>1, <3>2, <3>3 DEF Wake!RemoveReverse
    <3>4. CASE o \in DOMAIN by_deadline /\ by_deadline[o] \subseteq {s}
      BY <3>1, <3>2, <3>4 DEF Wake!RemoveReverse, Wake!Restrict
    <3>5. CASE o \in DOMAIN by_deadline /\ ~(by_deadline[o] \subseteq {s})
      BY <3>1, <3>2, <3>5 DEF Wake!RemoveReverse
    <3> QED BY <3>3, <3>4, <3>5
  <2> QED BY <2>1, <2>2
<1> HIDE DEF m
<1>3. /\ by_deadline' = [x \in DOMAIN by_deadline' |-> by_deadline'[x]]
      /\ DOMAIN by_deadline' = DOMAIN m \cup {d}
      /\ by_deadline'[d] = (IF d \in DOMAIN m THEN m[d] ELSE {}) \cup {s}
      /\ \A x \in DOMAIN m \ {d} : by_deadline'[x] = m[x]
  BY <1>1 DEF Wake!InsertReverse
<1>4. DOMAIN m \subseteq DOMAIN by_deadline
  BY <1>2
<1>5. \A x \in DOMAIN m : m[x] = by_deadline[x] \ {s} /\ m[x] # {}
  <2> SUFFICES ASSUME NEW x \in DOMAIN m PROVE m[x] = by_deadline[x] \ {s} /\ m[x] # {}
    OBVIOUS
  <2>1. x \in DOMAIN by_deadline /\ by_deadline[x] # {}
    BY <1>4 DEF WakeInv, Wake!IndexesAgree
  <2>2. CASE x = o
    BY <1>2, <2>1, <2>2
  <2>3. CASE x # o
    <3>1. s \notin by_deadline[x]
      BY <2>1, <2>3 DEF WakeInv, Wake!IndexesAgree
    <3>2. by_deadline[x] \ {s} = by_deadline[x]
      BY <3>1
    <3> QED BY <1>2, <2>1, <2>3, <3>2
  <2> QED BY <2>2, <2>3
<1>6. /\ DOMAIN by_deadline' \subseteq Nat
      /\ \A x \in DOMAIN by_deadline' : by_deadline'[x] \subseteq Slots
  BY <1>3, <1>4, <1>5 DEF WakeInv, WakeTypes
<1>7. \A t \in Slots, x \in DOMAIN by_deadline' : t \in by_deadline'[x] <=> by_slot'[t] = x
  <2> SUFFICES ASSUME NEW t \in Slots, NEW x \in DOMAIN by_deadline'
               PROVE  t \in by_deadline'[x] <=> by_slot'[t] = x
    OBVIOUS
  <2>1. CASE t = s
    BY <1>1, <1>3, <1>5, <2>1 DEF WakeInv, WakeTypes
  <2>2. CASE t # s
    <3>1. by_slot'[t] = by_slot[t]
      BY <1>1, <2>2 DEF WakeInv, WakeTypes
    <3>2. x \in DOMAIN by_deadline => (t \in by_deadline[x] <=> by_slot[t] = x)
      BY DEF WakeInv, Wake!IndexesAgree
    <3>3. CASE x \in DOMAIN m
      BY <1>3, <1>4, <1>5, <2>2, <3>1, <3>2, <3>3
    <3>4. CASE x \notin DOMAIN m
      <4>1. x = d /\ by_deadline'[x] = {s}
        BY <1>3, <3>4
      <4>2. by_slot[t] # d
        <5>1. CASE d \notin DOMAIN by_deadline
          BY <5>1 DEF WakeInv, Wake!IndexesAgree, WakeTypes, Wake!WakeAssumption
        <5>2. CASE d \in DOMAIN by_deadline
          BY <1>2, <2>2, <3>2, <3>4, <4>1, <5>2
        <5> QED BY <5>1, <5>2
      <4> QED BY <2>2, <3>1, <4>1, <4>2
    <3> QED BY <3>3, <3>4
  <2> QED BY <2>1, <2>2
<1>8. \A t \in Slots : by_slot'[t] # None => by_slot'[t] \in DOMAIN by_deadline'
  <2> SUFFICES ASSUME NEW t \in Slots, by_slot'[t] # None
               PROVE by_slot'[t] \in DOMAIN by_deadline'
    OBVIOUS
  <2>1. CASE t = s
    BY <1>1, <1>3, <2>1 DEF WakeInv, WakeTypes
  <2>2. CASE t # s
    <3>1. by_slot'[t] = by_slot[t] /\ by_slot[t] \in DOMAIN by_deadline
      BY <1>1, <2>2 DEF WakeInv, WakeTypes, Wake!IndexesAgree
    <3>2. t \in by_deadline[by_slot[t]]
      BY <3>1 DEF WakeInv, Wake!IndexesAgree
    <3> QED BY <1>2, <1>3, <2>2, <3>1, <3>2
  <2> QED BY <2>1, <2>2
<1>9. \A x \in DOMAIN by_deadline' : by_deadline'[x] # {}
  BY <1>3, <1>5
<1> QED BY <1>3, <1>6, <1>7, <1>8, <1>9 DEF Wake!IndexesAgree

LEMMA CancelAgrees ==
  ASSUME Wake!WakeAssumption, WakeInv, NEW c \in Users, NEW s \in Slots, Wake!Cancel(c, s)
  PROVE  /\ DOMAIN by_deadline' \subseteq Nat
         /\ by_deadline' = [x \in DOMAIN by_deadline' |-> by_deadline'[x]]
         /\ \A x \in DOMAIN by_deadline' : by_deadline'[x] \subseteq Slots
         /\ Wake!IndexesAgree'
<1> DEFINE o == by_slot[s]
<1>1. /\ by_deadline' = Wake!RemoveReverse(by_deadline, o, s)
      /\ by_slot' = [by_slot EXCEPT ![s] = None]
  BY DEF Wake!Cancel
<1>2. /\ by_deadline' = [x \in DOMAIN by_deadline' |-> by_deadline'[x]]
      /\ DOMAIN by_deadline' = {x \in DOMAIN by_deadline : x = o =>
           ~(by_deadline[x] \subseteq {s})}
      /\ \A x \in DOMAIN by_deadline' :
           by_deadline'[x] = IF x = o THEN by_deadline[x] \ {s} ELSE by_deadline[x]
  <2>1. by_deadline = [x \in DOMAIN by_deadline |-> by_deadline[x]]
    BY DEF WakeInv, WakeTypes
  <2>2. CASE o \notin DOMAIN by_deadline
    BY <1>1, <2>1, <2>2 DEF Wake!RemoveReverse
  <2>3. CASE o \in DOMAIN by_deadline /\ by_deadline[o] \subseteq {s}
    BY <1>1, <2>1, <2>3 DEF Wake!RemoveReverse, Wake!Restrict
  <2>4. CASE o \in DOMAIN by_deadline /\ ~(by_deadline[o] \subseteq {s})
    BY <1>1, <2>1, <2>4 DEF Wake!RemoveReverse
  <2> QED BY <2>2, <2>3, <2>4
<1>3. ASSUME NEW x \in DOMAIN by_deadline'
      PROVE  by_deadline'[x] = by_deadline[x] \ {s} /\ by_deadline'[x] # {}
  <2>1. x \in DOMAIN by_deadline /\ by_deadline[x] # {}
    BY <1>2 DEF WakeInv, Wake!IndexesAgree
  <2>2. CASE x = o
    BY <1>2, <2>1, <2>2
  <2>3. CASE x # o
    <3>1. s \notin by_deadline[x]
      BY <2>1, <2>3 DEF WakeInv, Wake!IndexesAgree
    <3>2. by_deadline[x] \ {s} = by_deadline[x]
      BY <3>1
    <3> QED BY <1>2, <2>1, <2>3, <3>2
  <2> QED BY <2>2, <2>3
<1>4. \A t \in Slots : t # s => by_slot'[t] = by_slot[t]
  BY <1>1 DEF WakeInv, WakeTypes
<1>5. by_slot'[s] = None
  BY <1>1 DEF WakeInv, WakeTypes
<1>6. \A x \in DOMAIN by_deadline' : x \in DOMAIN by_deadline /\ x # None
  BY <1>2 DEF WakeInv, WakeTypes, Wake!WakeAssumption
<1>7. \A t \in Slots, x \in DOMAIN by_deadline' : t \in by_deadline'[x] <=> by_slot'[t] = x
  BY <1>3, <1>4, <1>5, <1>6 DEF WakeInv, Wake!IndexesAgree
<1>8. ASSUME NEW t \in Slots, by_slot'[t] # None PROVE by_slot'[t] \in DOMAIN by_deadline'
  <2>1. t # s /\ by_slot'[t] = by_slot[t] /\ by_slot[t] \in DOMAIN by_deadline
    BY <1>4, <1>5, <1>8 DEF WakeInv, Wake!IndexesAgree
  <2>2. t \in by_deadline[by_slot[t]]
    BY <2>1 DEF WakeInv, Wake!IndexesAgree
  <2> QED BY <1>2, <2>1, <2>2
<1> QED BY <1>2, <1>3, <1>6, <1>7, <1>8 DEF Wake!IndexesAgree, WakeInv, WakeTypes

(* Whatever is due leaves both indexes.                                    *)
LEMMA DueAgrees ==
  ASSUME Wake!WakeAssumption, WakeInv, NEW t \in Nat, Wake!RemoveDue(t)
  PROVE  /\ by_slot' \in [Slots -> Nat \cup {None}]
         /\ DOMAIN by_deadline' \subseteq Nat
         /\ by_deadline' = [x \in DOMAIN by_deadline' |-> by_deadline'[x]]
         /\ \A x \in DOMAIN by_deadline' : by_deadline'[x] \subseteq Slots
         /\ Wake!IndexesAgree'
<1> DEFINE due == {d \in DOMAIN by_deadline : d <= t}
           gone == UNION {by_deadline[d] : d \in due}
<1>1. /\ by_deadline' = [x \in DOMAIN by_deadline \ due |-> by_deadline[x]]
      /\ by_slot' = [s \in Slots |-> IF s \in gone THEN None ELSE by_slot[s]]
  BY DEF Wake!RemoveDue, Wake!Restrict
<1>2. \A s \in Slots : s \in gone <=> by_slot[s] \in due
  BY DEF WakeInv, Wake!IndexesAgree, WakeTypes, Wake!WakeAssumption
<1> HIDE DEF gone
<1>3. by_slot' \in [Slots -> Nat \cup {None}]
  BY <1>1 DEF WakeInv, WakeTypes
<1>4. \A s \in Slots, x \in DOMAIN by_deadline' : s \in by_deadline'[x] <=> by_slot'[s] = x
  BY <1>1, <1>2 DEF WakeInv, Wake!IndexesAgree, WakeTypes, Wake!WakeAssumption
<1>5. \A s \in Slots : by_slot'[s] # None => by_slot'[s] \in DOMAIN by_deadline'
  BY <1>1, <1>2 DEF WakeInv, Wake!IndexesAgree
<1>6. \A x \in DOMAIN by_deadline' : by_deadline'[x] # {}
  BY <1>1 DEF WakeInv, Wake!IndexesAgree
<1> QED BY <1>1, <1>3, <1>4, <1>5, <1>6 DEF Wake!IndexesAgree, WakeInv, WakeTypes


LEMMA WakeTypesStep ==
  ASSUME Wake!WakeAssumption, WakeInv, [Wake!Next]_(Wake!vars)
  PROVE  WakeTypes' /\ Wake!IndexesAgree'
<1> DEFINE Kept == /\ UNCHANGED Wake!scheduleVars
                   /\ wake_now' \in Nat /\ wake_changes' \in Nat
                   /\ wake_worker_started' \in BOOLEAN
           Labels == {"idle", "schedule", "notify", "notify_cancel", "ensure", "cas", "spawn"}
           Workers == [at : {"off", "observe", "read", "sleep", "advance"},
                       seen : Nat, next : Nat \cup {None}]
<1>1. ASSUME Kept, wake_pc' \in [Users -> Labels], worker' \in Workers
      PROVE  WakeTypes' /\ Wake!IndexesAgree'
  BY <1>1 DEF WakeInv, WakeTypes, Wake!IndexesAgree, Wake!scheduleVars
<1>2. wake_now \in Nat /\ wake_changes \in Nat /\ wake_worker_started \in BOOLEAN
      /\ wake_pc \in [Users -> Labels] /\ worker \in Workers
  BY DEF WakeInv, WakeTypes
<1>3. CASE Wake!Tick \/ Wake!BeginDraining \/ UNCHANGED Wake!vars
  <2>1. Kept /\ UNCHANGED <<wake_pc, worker>>
    BY <1>2, <1>3 DEF Wake!Tick, Wake!BeginDraining, Wake!vars, Wake!scheduleVars
  <2> QED BY <1>1, <1>2, <2>1
<1>4. CASE Wake!Observe \/ Wake!ReadNextDeadline \/ Wake!WakeByChange \/ Wake!Advance
             \/ Wake!StopWorker
  <2>1. Kept /\ UNCHANGED wake_pc
    BY <1>2, <1>4 DEF Wake!Observe, Wake!ReadNextDeadline, Wake!WakeByChange, Wake!Advance,
       Wake!StopWorker, Wake!scheduleVars
  <2>2. worker' \in Workers
    <3>1. Wake!NextDeadline \in Nat \cup {None}
      BY NextDeadlineIs DEF WakeInv
    <3> QED BY <1>2, <1>4, <3>1 DEF Wake!Observe, Wake!ReadNextDeadline, Wake!WakeByChange,
               Wake!Advance, Wake!StopWorker
  <2> QED BY <1>1, <1>2, <2>1, <2>2
<1>5. CASE Wake!WakeByTimer
  <2>1. UNCHANGED <<wake_now, wake_changes, wake_worker_started, wake_pc>> /\ worker' \in Workers
    BY <1>2, <1>5 DEF Wake!WakeByTimer
  <2>2. Wake!RemoveDue(wake_now)
    BY <1>5 DEF Wake!WakeByTimer
  <2> QED BY <1>2, <2>1, <2>2, DueAgrees DEF WakeTypes
<1>6. ASSUME NEW c \in Users, Wake!CheckPhase(c) \/ Wake!Publish(c)
      PROVE WakeTypes' /\ Wake!IndexesAgree'
  <2>1. UNCHANGED Wake!scheduleVars /\ wake_now' \in Nat /\ wake_changes' \in Nat
    BY <1>2, <1>6 DEF Wake!CheckPhase, Wake!Publish, Wake!NotifyWakeWorker, Wake!EnsureCheck,
       Wake!CompareExchange, Wake!Spawn, Wake!scheduleVars
  <2>2. wake_worker_started' \in BOOLEAN
    BY <1>2, <1>6 DEF Wake!CheckPhase, Wake!Publish, Wake!NotifyWakeWorker, Wake!EnsureCheck,
       Wake!CompareExchange, Wake!Spawn
  <2>3. wake_pc' \in [Users -> Labels]
    BY <1>2, <1>6 DEF Wake!CheckPhase, Wake!Publish, Wake!NotifyWakeWorker, Wake!EnsureCheck,
       Wake!CompareExchange, Wake!Spawn, Wake!Goto
  <2>4. worker' \in Workers
    BY <1>2, <1>6 DEF Wake!CheckPhase, Wake!Publish, Wake!NotifyWakeWorker, Wake!EnsureCheck,
       Wake!CompareExchange, Wake!Spawn
  <2> QED BY <1>1, <2>1, <2>2, <2>3, <2>4
<1>7. ASSUME NEW c \in Users, NEW s \in Slots, Wake!Cancel(c, s)
      PROVE WakeTypes' /\ Wake!IndexesAgree'
  <2>1. UNCHANGED <<wake_now, wake_changes, wake_worker_started, worker>>
        /\ wake_pc' \in [Users -> Labels]
    BY <1>2, <1>7 DEF Wake!Cancel, Wake!Goto
  <2>2. by_slot' \in [Slots -> Nat \cup {None}]
    BY <1>7 DEF Wake!Cancel, WakeInv, WakeTypes
  <2> QED BY <1>2, <1>7, <2>1, <2>2, CancelAgrees DEF WakeTypes
<1>8. ASSUME NEW c \in Users, NEW s \in Slots, NEW d \in Wake!Deadlines, Wake!Schedule(c, s, d)
      PROVE  WakeTypes' /\ Wake!IndexesAgree'
  <2>1. d \in Nat
    BY <1>2 DEF Wake!Deadlines, Wake!WakeAssumption
  <2>2. UNCHANGED <<wake_now, wake_changes, wake_worker_started, worker>>
        /\ wake_pc' \in [Users -> Labels]
    BY <1>2, <1>8 DEF Wake!Schedule, Wake!Goto
  <2>3. CASE by_slot[s] = d
    <3>1. UNCHANGED Wake!scheduleVars
      BY <1>8, <2>3 DEF Wake!Schedule
    <3> QED BY <1>1, <1>2, <2>2, <3>1
  <2>4. CASE by_slot[s] # d
    <3>1. by_slot' \in [Slots -> Nat \cup {None}]
      BY <1>8, <2>1, <2>4 DEF Wake!Schedule, WakeInv, WakeTypes
    <3> QED BY <1>2, <1>8, <2>1, <2>2, <2>4, <3>1, ScheduleAgrees DEF WakeTypes
  <2> QED BY <2>3, <2>4
<1> QED BY <1>3, <1>4, <1>5, <1>6, <1>7, <1>8 DEF Wake!Next, Wake!Worker

(* Only the flag lets a client spawn, and whoever set it is alone.         *)
LEMMA OneWorkerStep ==
  ASSUME WakeInv, [Wake!Next]_(Wake!vars)
  PROVE  WorkerIsFlagged' /\ Wake!OneWorker'
<1>1. worker.seen \in Nat /\ wake_changes \in Nat /\ worker.seen <= wake_changes
      /\ DOMAIN wake_pc = Users /\ wake_worker_started \in BOOLEAN
  BY DEF WakeInv, WakeTypes, WorkerIsFlagged
<1>2. CASE Wake!Tick \/ Wake!BeginDraining \/ UNCHANGED Wake!vars
  BY <1>2 DEF Wake!Tick, Wake!BeginDraining, Wake!vars, WakeInv, WorkerIsFlagged, Wake!OneWorker
<1>3. CASE Wake!Worker
  <2>1. UNCHANGED <<wake_pc, wake_changes, wake_worker_started>> /\ worker.at # "off"
    BY <1>3 DEF Wake!Worker, Wake!Observe, Wake!ReadNextDeadline, Wake!WakeByChange,
       Wake!WakeByTimer, Wake!Advance, Wake!StopWorker
  <2>2. worker'.seen \in {worker.seen, wake_changes}
    BY <1>3 DEF Wake!Worker, Wake!Observe, Wake!ReadNextDeadline, Wake!WakeByChange,
       Wake!WakeByTimer, Wake!Advance, Wake!StopWorker, WakeInv, WakeTypes
  <2>3. wake_worker_started /\ \A c \in Users : wake_pc[c] # "spawn"
    BY <2>1 DEF WakeInv, WorkerIsFlagged, Wake!OneWorker
  <2> QED BY <1>1, <2>1, <2>2, <2>3 DEF WorkerIsFlagged, Wake!OneWorker
<1>4. ASSUME NEW c \in Users,
             \/ Wake!CheckPhase(c) \/ Wake!NotifyWakeWorker(c) \/ Wake!EnsureCheck(c)
             \/ \E s \in Slots : Wake!Cancel(c, s)
                  \/ \E d \in Wake!Deadlines : Wake!Schedule(c, s, d)
      PROVE  WorkerIsFlagged' /\ Wake!OneWorker'
  <2>1. /\ UNCHANGED <<worker, wake_worker_started>>
        /\ wake_changes' \in {wake_changes, wake_changes + 1}
    BY <1>4 DEF Wake!CheckPhase, Wake!NotifyWakeWorker, Wake!EnsureCheck, Wake!Cancel,
       Wake!Schedule
  <2>2. \A b \in Users : wake_pc'[b] = "spawn" => wake_pc[b] = "spawn"
    BY <1>1, <1>4 DEF Wake!CheckPhase, Wake!NotifyWakeWorker, Wake!EnsureCheck, Wake!Cancel,
       Wake!Schedule, Wake!Goto
  <2>3. worker'.seen <= wake_changes'
    BY <1>1, <2>1
  <2> QED BY <2>1, <2>2, <2>3 DEF WakeInv, WorkerIsFlagged, Wake!OneWorker
<1>5. ASSUME NEW c \in Users, Wake!CompareExchange(c) PROVE WorkerIsFlagged' /\ Wake!OneWorker'
  <2>1. UNCHANGED <<worker, wake_changes>> /\ wake_worker_started'
    BY <1>5 DEF Wake!CompareExchange
  <2>2. CASE wake_worker_started
    <3>1. \A b \in Users : wake_pc'[b] = "spawn" => wake_pc[b] = "spawn"
      BY <1>1, <1>5, <2>2 DEF Wake!CompareExchange, Wake!Goto
    <3> QED BY <1>1, <2>1, <3>1 DEF WakeInv, WorkerIsFlagged, Wake!OneWorker
  <2>3. CASE ~wake_worker_started
    <3>1. \A b \in Users : wake_pc'[b] = "spawn" => b = c
      BY <1>1, <1>5, <2>3 DEF Wake!CompareExchange, Wake!Goto, WakeInv, WorkerIsFlagged
    <3>2. worker.at = "off"
      BY <2>3 DEF WakeInv, WorkerIsFlagged
    <3> QED BY <1>1, <2>1, <3>1, <3>2 DEF WakeInv, WorkerIsFlagged, Wake!OneWorker
  <2> QED BY <2>2, <2>3
<1>6. ASSUME NEW c \in Users, Wake!Spawn(c) PROVE WorkerIsFlagged' /\ Wake!OneWorker'
  <2>1. wake_pc[c] = "spawn" /\ UNCHANGED wake_changes
    BY <1>6 DEF Wake!Spawn
  <2>2. worker.at = "off" /\ \A b \in Users : wake_pc[b] = "spawn" => b = c
    BY <2>1 DEF WakeInv, Wake!OneWorker
  <2>3. wake_worker_started
    BY <2>1 DEF WakeInv, WorkerIsFlagged
  <2>4. \A b \in Users : wake_pc'[b] # "spawn"
    BY <1>1, <1>6, <2>2 DEF Wake!Spawn, Wake!Goto
  <2>5. \/ UNCHANGED wake_worker_started /\ worker'.seen = wake_changes
        \/ UNCHANGED worker
    BY <1>6 DEF Wake!Spawn
  <2>6. worker'.seen <= wake_changes'
    BY <1>1, <2>1, <2>5
  <2> QED BY <2>2, <2>3, <2>4, <2>5, <2>6 DEF WorkerIsFlagged, Wake!OneWorker
<1> QED BY <1>2, <1>3, <1>4, <1>5, <1>6 DEF Wake!Next, Wake!Publish

(* A change of the schedule has its notification ahead of it, and sending  *)
(* it makes the generation differ from the one the worker has seen.        *)
LEMMA NeverOversleepsStep ==
  ASSUME Wake!WakeAssumption, WakeInv, [Wake!Next]_(Wake!vars)
  PROVE  Wake!NeverOversleeps'
<1> DEFINE Notified == \/ wake_changes # worker.seen
                       \/ \E c \in Users : wake_pc[c] \in {"notify", "notify_cancel"}
           Early(w, n) == n # None /\ (w.next = None \/ w.next > n)
<1>1. worker.seen \in Nat /\ wake_changes \in Nat /\ worker.seen <= wake_changes
      /\ DOMAIN wake_pc = Users
  BY DEF WakeInv, WakeTypes, WorkerIsFlagged
<1>2. worker.at = "sleep" /\ Early(worker, Wake!NextDeadline) => Notified
  BY DEF WakeInv, Wake!NeverOversleeps
<1>3. ASSUME worker'.at = "sleep" /\ Early(worker', Wake!NextDeadline') => Notified'
      PROVE  Wake!NeverOversleeps'
  BY <1>3 DEF Wake!NeverOversleeps
<1>4. ASSUME UNCHANGED Wake!scheduleVars PROVE Wake!NextDeadline' = Wake!NextDeadline
  BY <1>4 DEF Wake!NextDeadline, Wake!scheduleVars
<1>5. CASE Wake!Tick \/ Wake!BeginDraining \/ UNCHANGED Wake!vars
  <2>1. UNCHANGED <<worker, wake_changes, wake_pc>> /\ UNCHANGED Wake!scheduleVars
    BY <1>5 DEF Wake!Tick, Wake!BeginDraining, Wake!vars
  <2> QED BY <1>2, <1>3, <1>4, <2>1
<1>6. CASE Wake!Observe \/ Wake!WakeByChange \/ Wake!WakeByTimer \/ Wake!Advance
             \/ Wake!StopWorker
  <2>1. worker'.at # "sleep"
    BY <1>6 DEF Wake!Observe, Wake!WakeByChange, Wake!WakeByTimer, Wake!Advance,
       Wake!StopWorker, WakeInv, WakeTypes
  <2> QED BY <1>3, <2>1
<1>7. CASE Wake!ReadNextDeadline
  <2>1. worker'.next = Wake!NextDeadline /\ Wake!NextDeadline' = Wake!NextDeadline
    BY <1>4, <1>7 DEF Wake!ReadNextDeadline, WakeInv, WakeTypes
  <2>2. Wake!NextDeadline \in Nat \cup {None}
    BY NextDeadlineIs DEF WakeInv
  <2>3. ~Early(worker', Wake!NextDeadline')
    BY <2>1, <2>2
  <2> QED BY <1>3, <2>3
<1>8. ASSUME NEW c \in Users, Wake!NotifyWakeWorker(c) PROVE Wake!NeverOversleeps'
  <2>1. wake_changes' # worker'.seen
    BY <1>1, <1>8 DEF Wake!NotifyWakeWorker
  <2> QED BY <1>3, <2>1
<1>9. ASSUME NEW c \in Users, Wake!CheckPhase(c) \/ Wake!EnsureCheck(c) \/ Wake!CompareExchange(c)
      PROVE  Wake!NeverOversleeps'
  <2>1. UNCHANGED <<worker, wake_changes>> /\ UNCHANGED Wake!scheduleVars
    BY <1>9 DEF Wake!CheckPhase, Wake!EnsureCheck, Wake!CompareExchange
  <2>2. \A b \in Users : wake_pc[b] \in {"notify", "notify_cancel"} => wake_pc'[b] = wake_pc[b]
    BY <1>1, <1>9 DEF Wake!CheckPhase, Wake!EnsureCheck, Wake!CompareExchange, Wake!Goto
  <2> QED BY <1>2, <1>3, <1>4, <2>1, <2>2
<1>10. ASSUME NEW c \in Users, Wake!Spawn(c) PROVE Wake!NeverOversleeps'
  <2>1. worker.at = "off"
    BY <1>10 DEF Wake!Spawn, WakeInv, Wake!OneWorker
  <2>2. worker'.at # "sleep"
    BY <1>10, <2>1 DEF Wake!Spawn
  <2> QED BY <1>3, <2>2
<1>11. ASSUME NEW c \in Users, NEW s \in Slots, Wake!Cancel(c, s) PROVE Wake!NeverOversleeps'
  <2>1. wake_pc'[c] = "notify_cancel"
    BY <1>1, <1>11 DEF Wake!Cancel, Wake!Goto
  <2> QED BY <1>3, <2>1
<1>12. ASSUME NEW c \in Users, NEW s \in Slots, NEW d \in Wake!Deadlines, Wake!Schedule(c, s, d)
       PROVE  Wake!NeverOversleeps'
  <2>1. CASE by_slot[s] # d
    <3>1. wake_pc'[c] = "notify"
      BY <1>1, <1>12, <2>1 DEF Wake!Schedule, Wake!Goto
    <3> QED BY <1>3, <3>1
  <2>2. CASE by_slot[s] = d
    <3>1. UNCHANGED <<worker, wake_changes>> /\ UNCHANGED Wake!scheduleVars
      BY <1>12, <2>2 DEF Wake!Schedule
    <3>2. \A b \in Users : wake_pc[b] \in {"notify", "notify_cancel"} => wake_pc'[b] = wake_pc[b]
      BY <1>1, <1>12, <2>2 DEF Wake!Schedule, Wake!Goto
    <3> QED BY <1>2, <1>3, <1>4, <3>1, <3>2
  <2> QED BY <2>1, <2>2
<1> QED BY <1>5, <1>6, <1>7, <1>8, <1>9, <1>10, <1>11, <1>12 DEF Wake!Next, Wake!Worker,
           Wake!Publish

(* Racing clients start one worker, the two indexes of the wake schedule   *)
(* agree, and the worker never sleeps past the earliest deadline, for any  *)
(* number of slots and of threads that use them.                           *)
THEOREM ScheduledWakesAreKept ==
  ASSUME Wake!WakeAssumption
  PROVE  Wake!Spec => [](Wake!IndexesAgree /\ Wake!OneWorker /\ Wake!NeverOversleeps)
<1>1. Wake!Init => WakeInv
  <2> SUFFICES ASSUME Wake!Init PROVE WakeInv
    OBVIOUS
  <2>1. WakeTypes
    BY DEF Wake!Init, WakeTypes
  <2>2. Wake!NextDeadline = None
    BY DEF Wake!Init, Wake!NextDeadline
  <2> QED BY <2>1, <2>2 DEF Wake!Init, WakeInv, WorkerIsFlagged, Wake!IndexesAgree,
             Wake!OneWorker, Wake!NeverOversleeps
<1>2. WakeInv /\ [Wake!Next]_(Wake!vars) => WakeInv'
  BY WakeTypesStep, OneWorkerStep, NeverOversleepsStep DEF WakeInv
<1>3. WakeInv => Wake!IndexesAgree /\ Wake!OneWorker /\ Wake!NeverOversleeps
  BY DEF WakeInv
<1> QED BY <1>1, <1>2, <1>3, PTL DEF Wake!Spec


(* The health of an endpoint.  An attempt never started in the future, so  *)
(* a success clears only a cooldown that is over.                          *)
Attempting == [at : Health!Probing \cup {"idle", "check", "checked", "acquire", "succeeded"},
               clock : Nat, half_open : BOOLEAN, permit_at : Nat, started_at : Nat]
HealthTypes ==
  /\ health_now \in Nat /\ half_open_in_flight \in Nat
  /\ open_until \in Nat \cup {None} /\ last_failure_at \in Nat \cup {None}
  /\ transient_until \in Nat \cup {None}
  /\ attempt \in [EndpointUsers -> Attempting]
  /\ \A a \in EndpointUsers : attempt[a].started_at <= health_now

HealthInv == HealthTypes /\ Health!ProbesExact /\ Health!WakeArmed

LEMMA HealthCounts ==
  ASSUME NEW S
  PROVE  Health!Cardinality(S) = Cardinality(S) /\ (Health!IsFiniteSet(S) <=> IsFiniteSet(S))
BY DEF Health!Cardinality, Cardinality, Health!IsFiniteSet, IsFiniteSet

LEMMA HealthTypesStep ==
  ASSUME Health!HealthAssumption, HealthTypes, [Health!Next]_(Health!vars)
  PROVE  HealthTypes'
<1>1. CASE Health!Tick \/ Health!FireWake \/ UNCHANGED Health!vars
  BY <1>1 DEF Health!Tick, Health!FireWake, Health!vars, Health!circuitVars,
     Health!transientVars, HealthTypes, Attempting
<1>2. ASSUME NEW a \in EndpointUsers, Health!Begin(a) \/ Health!Acquire(a) \/ Health!Complete(a)
      PROVE  HealthTypes'
  <2>0. /\ health_now \in Nat /\ attempt \in [EndpointUsers -> Attempting]
        /\ attempt[a] \in Attempting /\ attempt[a].started_at <= health_now
        /\ half_open_in_flight \in Nat
    BY DEF HealthTypes
  <2>1. UNCHANGED health_now
    BY <1>2 DEF Health!Begin, Health!Acquire, Health!Complete, Health!ReadClock,
       Health!CheckTransient, Health!AcquireClosed, Health!AcquireProbe, Health!AcquireRefused,
       Health!StartAttempt, Health!CircuitSuccess, Health!TransientSuccess,
       Health!TransientFailure, Health!CircuitFailure, Health!DropPermit
  <2>2. \E r \in Attempting : r.started_at <= health_now /\ attempt' = [attempt EXCEPT ![a] = r]
    <3>1. Health!Idle \in Attempting /\ Health!Idle.started_at <= health_now
      BY <2>0 DEF Health!Idle, Attempting, Health!Probing
    <3>2. CASE \E from, to \in Health!Probing \cup {"idle", "check", "checked", "acquire"} :
                 Health!ReadClock(a, from, to)
      <4>1. PICK to \in Health!Probing \cup {"idle", "check", "checked", "acquire"} :
              attempt' = [attempt EXCEPT ![a] = [attempt[a] EXCEPT !.at = to,
                !.clock = health_now]]
        BY <3>2 DEF Health!ReadClock
      <4> QED BY <2>0, <4>1 DEF Attempting
    <3>3. CASE \E l \in Health!Probing \cup {"checked"} : Health!Goto(a, l)
      BY <2>0, <3>3 DEF Health!Goto, Attempting
    <3>4. CASE Health!Finish(a)
      BY <3>1, <3>4 DEF Health!Finish
    <3>5. CASE \E b \in BOOLEAN : Health!Permitted(a, b)
      BY <2>0, <3>5 DEF Health!Permitted, Attempting, Health!Probing
    <3>6. CASE Health!StartAttempt(a)
      <4> DEFINE r == [attempt[a] EXCEPT !.at = "running", !.started_at = health_now]
      <4>1. attempt' = [attempt EXCEPT ![a] = r]
        BY <3>6 DEF Health!StartAttempt
      <4>2. r \in Attempting
        BY <2>0 DEF Attempting, Health!Probing
      <4>3. r.started_at = health_now
        BY <2>0 DEF Attempting
      <4> HIDE DEF r
      <4>4. r.started_at <= health_now
        BY <2>0, <4>3
      <4> QED BY <4>1, <4>2, <4>4
    <3>7. CASE Health!Succeeded(a)
      BY <2>0, <3>7 DEF Health!Succeeded, Health!Idle, Attempting
    <3>8. \/ \E from, to \in Health!Probing \cup {"idle", "check", "checked", "acquire"} :
               Health!ReadClock(a, from, to)
          \/ \E l \in Health!Probing \cup {"checked"} : Health!Goto(a, l)
          \/ Health!Finish(a) \/ Health!StartAttempt(a) \/ Health!Succeeded(a)
          \/ \E b \in BOOLEAN : Health!Permitted(a, b)
      BY <1>2 DEF Health!Begin, Health!Acquire, Health!Complete, Health!CheckTransient,
         Health!AcquireClosed, Health!AcquireProbe, Health!AcquireRefused,
         Health!CircuitSuccess, Health!TransientSuccess, Health!TransientFailure,
         Health!CircuitFailure, Health!DropPermit, Health!Probing
    <3> QED BY <3>2, <3>3, <3>4, <3>5, <3>6, <3>7, <3>8
  <2>3. half_open_in_flight' \in Nat
    <3>1. \/ UNCHANGED half_open_in_flight \/ Health!ReleaseProbe(a)
          \/ half_open_in_flight' = half_open_in_flight + 1
      BY <1>2 DEF Health!Begin, Health!Acquire, Health!Complete, Health!ReadClock,
         Health!CheckTransient, Health!AcquireClosed, Health!AcquireProbe,
         Health!AcquireRefused, Health!StartAttempt, Health!CircuitSuccess,
         Health!TransientSuccess, Health!TransientFailure, Health!CircuitFailure,
         Health!DropPermit, Health!circuitVars
    <3> QED BY <2>0, <3>1 DEF Health!ReleaseProbe
  <2>4. open_until' \in Nat \cup {None} /\ last_failure_at' \in Nat \cup {None}
    <3>1. CASE Health!CircuitFailure(a)
      <4>1. attempt[a].clock \in Nat /\ attempt[a].clock + OpenDuration \in Nat
        BY <2>0 DEF Attempting, Health!HealthAssumption
      <4> QED BY <3>1, <4>1 DEF Health!CircuitFailure, HealthTypes
    <3>2. CASE Health!CircuitSuccess(a)
      BY <3>2 DEF Health!CircuitSuccess, HealthTypes
    <3>3. CASE ~Health!CircuitFailure(a) /\ ~Health!CircuitSuccess(a)
      <4>1. UNCHANGED <<open_until, last_failure_at>>
        BY <1>2, <3>3 DEF Health!Begin, Health!Acquire, Health!Complete, Health!ReadClock,
           Health!CheckTransient, Health!AcquireClosed, Health!AcquireProbe,
           Health!AcquireRefused, Health!StartAttempt, Health!TransientSuccess,
           Health!TransientFailure, Health!DropPermit, Health!circuitVars
      <4> QED BY <4>1 DEF HealthTypes
    <3> QED BY <3>1, <3>2, <3>3
  <2>5. transient_until' \in Nat \cup {None}
    <3>1. CASE Health!TransientFailure(a)
      <4>1. attempt[a].clock + Transient \in Nat
        BY <2>0 DEF Attempting, Health!HealthAssumption
      <4> QED BY <3>1, <4>1 DEF Health!TransientFailure, Health!Max, HealthTypes
    <3>2. CASE ~Health!TransientFailure(a)
      BY <1>2, <3>2 DEF Health!Begin, Health!Acquire, Health!Complete, Health!ReadClock,
         Health!CheckTransient, Health!AcquireClosed, Health!AcquireProbe,
         Health!AcquireRefused, Health!StartAttempt, Health!CircuitSuccess,
         Health!TransientSuccess, Health!CircuitFailure, Health!DropPermit,
         Health!transientVars, HealthTypes
    <3> QED BY <3>1, <3>2
  <2> QED BY <2>0, <2>1, <2>2, <2>3, <2>4, <2>5 DEF HealthTypes
<1> QED BY <1>1, <1>2 DEF Health!Next

(* The counter follows the permits of half-open probes.                    *)
LEMMA ProbesStep ==
  ASSUME Health!HealthAssumption, HealthTypes, Health!ProbesExact, [Health!Next]_(Health!vars)
  PROVE  Health!ProbesExact'
<1>0. IsFiniteSet(Health!Probes) /\ Cardinality(Health!Probes) \in Nat /\ MaxProbes \in Nat
  BY HealthCounts, FS_Subset, FS_CardinalityType DEF Health!HealthAssumption, Health!Probes
<1>1. CASE UNCHANGED Health!Probes /\ UNCHANGED half_open_in_flight
  BY <1>1, HealthCounts DEF Health!ProbesExact
<1>2. CASE Health!Tick \/ Health!FireWake \/ UNCHANGED Health!vars
  <2>1. UNCHANGED <<attempt, half_open_in_flight>>
    BY <1>2 DEF Health!Tick, Health!FireWake, Health!vars, Health!circuitVars
  <2> QED BY <1>1, <2>1 DEF Health!Probes
<1>3. ASSUME NEW a \in EndpointUsers, Health!Begin(a) \/ Health!Acquire(a) \/ Health!Complete(a)
      PROVE  Health!ProbesExact'
  <2>0. /\ attempt \in [EndpointUsers -> Attempting] /\ attempt[a] \in Attempting
        /\ half_open_in_flight \in Nat
    BY DEF HealthTypes
  <2>1. ASSUME NEW r, attempt' = [attempt EXCEPT ![a] = r],
               (r.half_open /\ r.at \in Health!Probing)
                 <=> (attempt[a].half_open /\ attempt[a].at \in Health!Probing)
        PROVE  UNCHANGED Health!Probes
    BY <2>0, <2>1 DEF Health!Probes
  <2>2. ASSUME NEW r, attempt' = [attempt EXCEPT ![a] = r], Health!ReleaseProbe(a),
               ~(r.half_open /\ r.at \in Health!Probing), attempt[a].at \in Health!Probing
        PROVE  Health!ProbesExact'
    <3>1. CASE attempt[a].half_open
      <4>1. a \in Health!Probes
        BY <2>2, <3>1 DEF Health!Probes
      <4>2. Health!Probes' = Health!Probes \ {a}
        BY <2>0, <2>2 DEF Health!Probes
      <4>3. /\ Cardinality(Health!Probes') = Cardinality(Health!Probes) - 1
            /\ Cardinality(Health!Probes) > 0
        BY <1>0, <4>1, <4>2, FS_RemoveElement, FS_EmptySet
      <4>4. half_open_in_flight' = half_open_in_flight - 1
        BY <2>2, <3>1, <4>3, HealthCounts DEF Health!ReleaseProbe, Health!ProbesExact
      <4> QED BY <1>0, <4>3, <4>4, HealthCounts DEF Health!ProbesExact
    <3>2. CASE ~attempt[a].half_open
      <4>1. UNCHANGED Health!Probes
        BY <2>0, <2>2, <3>2 DEF Health!Probes
      <4>2. UNCHANGED half_open_in_flight
        BY <2>2, <3>2 DEF Health!ReleaseProbe
      <4> QED BY <1>1, <4>1, <4>2
    <3> QED BY <3>1, <3>2
  <2>3. ASSUME NEW r, attempt' = [attempt EXCEPT ![a] = r],
               (r.half_open /\ r.at \in Health!Probing)
                 <=> (attempt[a].half_open /\ attempt[a].at \in Health!Probing),
               UNCHANGED half_open_in_flight
        PROVE  Health!ProbesExact'
    BY <1>1, <2>1, <2>3
  <2>4. CASE Health!AcquireProbe(a)
    <3>1. /\ attempt[a].at = "acquire" /\ half_open_in_flight < MaxProbes
          /\ half_open_in_flight' = half_open_in_flight + 1
          /\ attempt' = [attempt EXCEPT ![a] = [attempt[a] EXCEPT !.at = "permitted", !.clock = 0,
                           !.half_open = TRUE, !.permit_at = attempt[a].clock]]
      BY <2>4 DEF Health!AcquireProbe, Health!Permitted
    <3>2. a \notin Health!Probes
      BY <3>1 DEF Health!Probes, Health!Probing
    <3>3. Health!Probes' = Health!Probes \cup {a}
      BY <2>0, <3>1 DEF Health!Probes, Health!Probing, Attempting
    <3>4. Cardinality(Health!Probes') = Cardinality(Health!Probes) + 1
      BY <1>0, <3>2, <3>3, FS_AddElement
    <3> QED BY <1>0, <3>1, <3>4, HealthCounts DEF Health!ProbesExact
  <2>5. CASE Health!CircuitSuccess(a) \/ Health!CircuitFailure(a) \/ Health!DropPermit(a)
    <3>1. Health!ReleaseProbe(a) /\ attempt[a].at \in Health!Probing
      BY <2>5 DEF Health!CircuitSuccess, Health!CircuitFailure, Health!DropPermit,
         Health!Probing
    <3>2. \/ attempt' = [attempt EXCEPT ![a] = Health!Idle]
          \/ attempt' = [attempt EXCEPT ![a] =
                [Health!Idle EXCEPT !.at = "succeeded", !.started_at = attempt[a].started_at]]
      BY <2>5 DEF Health!CircuitSuccess, Health!CircuitFailure, Health!DropPermit,
         Health!Finish, Health!Succeeded
    <3>3. ~Health!Idle.half_open /\ ~[Health!Idle EXCEPT !.at = "succeeded",
                                          !.started_at = attempt[a].started_at].half_open
      BY DEF Health!Idle
    <3> QED BY <2>2, <3>1, <3>2, <3>3
  <2>6. CASE Health!AcquireClosed(a)
    <3>1. /\ attempt[a].at = "acquire" /\ UNCHANGED half_open_in_flight
          /\ attempt' = [attempt EXCEPT ![a] = [attempt[a] EXCEPT !.at = "permitted", !.clock = 0,
                           !.half_open = FALSE, !.permit_at = attempt[a].clock]]
      BY <2>6 DEF Health!AcquireClosed, Health!Permitted, Health!circuitVars
    <3>2. ~[attempt[a] EXCEPT !.at = "permitted", !.clock = 0,
                           !.half_open = FALSE, !.permit_at = attempt[a].clock].half_open
      BY <2>0 DEF Attempting
    <3>3. attempt[a].at \notin Health!Probing
      BY <3>1 DEF Health!Probing
    <3> QED BY <2>3, <3>1, <3>2, <3>3
  <2>7. CASE \/ Health!CheckTransient(a) \/ Health!AcquireRefused(a) \/ Health!TransientSuccess(a)
    <3>1. /\ UNCHANGED half_open_in_flight /\ attempt[a].at \notin Health!Probing
          /\ \/ attempt' = [attempt EXCEPT ![a] = Health!Idle]
             \/ attempt' = [attempt EXCEPT ![a] = [attempt[a] EXCEPT !.at = "checked",
                  !.clock = 0]]
      BY <2>7 DEF Health!CheckTransient, Health!AcquireRefused, Health!TransientSuccess,
         Health!Finish, Health!Goto, Health!circuitVars, Health!Probing
    <3>2. ~Health!Idle.half_open
      BY DEF Health!Idle
    <3>3. /\ [attempt[a] EXCEPT !.at = "checked", !.clock = 0].at = "checked"
          /\ "checked" \notin Health!Probing
      BY <2>0 DEF Attempting, Health!Probing
    <3> QED BY <2>3, <3>1, <3>2, <3>3
  <2>8. CASE Health!StartAttempt(a) \/ Health!TransientFailure(a)
    <3>1. /\ UNCHANGED half_open_in_flight /\ attempt[a].at \in Health!Probing
          /\ \/ attempt' = [attempt EXCEPT ![a] = [attempt[a] EXCEPT !.at = "running",
                  !.started_at = health_now]]
             \/ attempt' = [attempt EXCEPT ![a] = [attempt[a] EXCEPT !.at = "cooled",
                  !.clock = 0]]
      BY <2>8 DEF Health!StartAttempt, Health!TransientFailure, Health!Goto, Health!circuitVars,
         Health!Probing
    <3>2. [attempt[a] EXCEPT !.at = "running",
            !.started_at = health_now].half_open = attempt[a].half_open
          /\ [attempt[a] EXCEPT !.at = "running", !.started_at = health_now].at \in Health!Probing
      BY <2>0 DEF Attempting, Health!Probing
    <3>3. [attempt[a] EXCEPT !.at = "cooled", !.clock = 0].half_open = attempt[a].half_open
          /\ [attempt[a] EXCEPT !.at = "cooled", !.clock = 0].at \in Health!Probing
      BY <2>0 DEF Attempting, Health!Probing
    <3> QED BY <2>3, <3>1, <3>2, <3>3
  <2>9. ASSUME NEW from, NEW to \in Health!Probing \cup {"check", "acquire"},
               Health!ReadClock(a, from, to),
               from \in Health!Probing <=> to \in Health!Probing
        PROVE  Health!ProbesExact'
    <3>1. /\ UNCHANGED half_open_in_flight /\ attempt[a].at = from
          /\ attempt' = [attempt EXCEPT ![a] = [attempt[a] EXCEPT !.at = to,
               !.clock = health_now]]
      BY <2>9 DEF Health!ReadClock, Health!circuitVars
    <3>2. [attempt[a] EXCEPT !.at = to, !.clock = health_now].half_open = attempt[a].half_open
          /\ [attempt[a] EXCEPT !.at = to, !.clock = health_now].at = to
      BY <2>0 DEF Attempting
    <3> QED BY <2>3, <2>9, <3>1, <3>2
  <2>10. CASE Health!ReadClock(a, "idle", "check") \/ Health!ReadClock(a, "checked", "acquire")
    BY <2>9, <2>10 DEF Health!Probing
  <2>11. CASE Health!ReadClock(a, "running", "cooling")
                \/ Health!ReadClock(a, "cooled", "failing")
    BY <2>9, <2>11 DEF Health!Probing
  <2> QED BY <1>3, <2>4, <2>5, <2>6, <2>7, <2>8, <2>10, <2>11 DEF Health!Begin, Health!Acquire,
             Health!Complete
<1> QED BY <1>2, <1>3 DEF Health!Next

(* Both deadlines are written together with their wakes.                   *)
LEMMA ArmedStep ==
  ASSUME Health!HealthAssumption, HealthTypes, Health!WakeArmed, [Health!Next]_(Health!vars)
  PROVE  Health!WakeArmed'
<1>0. health_now \in Nat /\ open_until \in Nat \cup {None} /\ transient_until \in Nat \cup {None}
  BY DEF HealthTypes
<1>1. CASE Health!Tick
  BY <1>0, <1>1 DEF Health!Tick, Health!WakeArmed, Health!circuitVars, Health!transientVars
<1>2. CASE Health!FireWake
  BY <1>0, <1>2 DEF Health!FireWake, Health!WakeArmed
<1>3. CASE UNCHANGED Health!vars
  BY <1>3 DEF Health!vars, Health!circuitVars, Health!transientVars, Health!WakeArmed
<1>4. ASSUME NEW a \in EndpointUsers, Health!Begin(a) \/ Health!Acquire(a) \/ Health!Complete(a)
      PROVE  Health!WakeArmed'
  <2>1. CASE Health!CircuitSuccess(a) \/ Health!CircuitFailure(a)
    BY <2>1 DEF Health!CircuitSuccess, Health!CircuitFailure, Health!WakeArmed,
       Health!transientVars
  <2>2. CASE Health!TransientSuccess(a) \/ Health!TransientFailure(a)
    BY <2>2 DEF Health!TransientSuccess, Health!TransientFailure, Health!WakeArmed,
       Health!circuitVars, Health!transientVars
  <2>3. CASE ~(Health!CircuitSuccess(a) \/ Health!CircuitFailure(a)
               \/ Health!TransientSuccess(a) \/ Health!TransientFailure(a))
    <3>1. UNCHANGED <<health_now, open_until, circuit_wake, transient_until, transient_wake>>
      BY <1>4, <2>3 DEF Health!Begin, Health!Acquire, Health!Complete, Health!ReadClock,
         Health!CheckTransient, Health!AcquireClosed, Health!AcquireProbe,
         Health!AcquireRefused, Health!StartAttempt, Health!DropPermit, Health!circuitVars,
         Health!transientVars
    <3> QED BY <3>1 DEF Health!WakeArmed
  <2> QED BY <2>1, <2>2, <2>3
<1> QED BY <1>1, <1>2, <1>3, <1>4 DEF Health!Next


LEMMA HealthInvariant ==
  ASSUME Health!HealthAssumption
  PROVE  Health!Spec => []HealthInv
<1>1. Health!Init => HealthInv
  <2> SUFFICES ASSUME Health!Init PROVE HealthInv
    OBVIOUS
  <2>1. HealthTypes
    BY DEF Health!Init, HealthTypes, Health!Idle, Attempting, Health!HealthAssumption
  <2>2. Health!Probes = {}
    BY DEF Health!Init, Health!Probes, Health!Idle
  <2>3. Health!ProbesExact
    BY <2>2, FS_EmptySet, HealthCounts DEF Health!Init, Health!ProbesExact,
       Health!HealthAssumption
  <2> QED BY <2>1, <2>3 DEF Health!Init, HealthInv, Health!WakeArmed
<1>2. HealthInv /\ [Health!Next]_(Health!vars) => HealthInv'
  BY HealthTypesStep, ProbesStep, ArmedStep DEF HealthInv
<1> QED BY <1>1, <1>2, PTL DEF Health!Spec

(* The probes of a half-open circuit are counted exactly, and what shuts   *)
(* an endpoint has its wake scheduled, for any number of attempts and any  *)
(* thresholds.                                                             *)
THEOREM ShutEndpointsAreWoken ==
  ASSUME Health!HealthAssumption
  PROVE  Health!Spec => [](Health!ProbesExact /\ Health!WakeArmed)
<1>1. HealthInv => Health!ProbesExact /\ Health!WakeArmed
  BY DEF HealthInv
<1> QED BY <1>1, HealthInvariant, PTL

(* A cooldown is never cut short by a racing failure or an older success   *)
(* (EndpointHealthRuntime::success and transient).                         *)
THEOREM CooldownsRunOut ==
  ASSUME Health!HealthAssumption
  PROVE  Health!Spec => Health!CooldownKept
<1> DEFINE Kept == transient_until # None /\ transient_until' # transient_until =>
                     IF transient_until' = None THEN transient_until <= health_now
                                                ELSE transient_until' > transient_until
<1>1. HealthInv /\ [Health!Next]_(Health!vars) => [Kept]_(Health!vars)
  <2> SUFFICES ASSUME HealthInv, Health!Next, transient_until # None,
                      transient_until' # transient_until
               PROVE  IF transient_until' = None THEN transient_until <= health_now
                                                 ELSE transient_until' > transient_until
    OBVIOUS
  <2>1. transient_until \in Nat /\ None \notin Nat /\ health_now \in Nat /\ Transient \in Nat
    BY DEF HealthInv, HealthTypes, Health!HealthAssumption
  <2>2. PICK a \in EndpointUsers : Health!TransientSuccess(a) \/ Health!TransientFailure(a)
    BY DEF Health!Next, Health!Tick, Health!FireWake, Health!Begin, Health!Acquire,
       Health!Complete, Health!ReadClock, Health!CheckTransient, Health!AcquireClosed,
       Health!AcquireProbe, Health!AcquireRefused, Health!StartAttempt, Health!CircuitSuccess,
       Health!CircuitFailure, Health!DropPermit, Health!transientVars
  <2>3. CASE Health!TransientSuccess(a)
    <3>1. transient_until' = None /\ transient_until <= attempt[a].started_at
      BY <2>3 DEF Health!TransientSuccess, Health!transientVars
    <3>2. attempt[a].started_at \in Nat /\ attempt[a].started_at <= health_now
      BY DEF HealthInv, HealthTypes, Attempting
    <3> QED BY <2>1, <3>1, <3>2
  <2>4. CASE Health!TransientFailure(a)
    <3>1. attempt[a].clock + Transient \in Nat
      BY <2>1 DEF HealthInv, HealthTypes, Attempting
    <3>2. transient_until' = Health!Max({transient_until, attempt[a].clock + Transient})
      BY <2>4 DEF Health!TransientFailure
    <3>3. transient_until' \in Nat /\ transient_until' >= transient_until
      BY <2>1, <3>1, <3>2 DEF Health!Max
    <3> QED BY <2>1, <3>3
  <2> QED BY <2>2, <2>3, <2>4
<1> QED BY <1>1, HealthInvariant, PTL DEF Health!Spec, Health!CooldownKept

(* Scheduled wakes are kept: the two indexes of the wake schedule agree,   *)
(* its one worker never sleeps past a deadline, the probes of a half-open  *)
(* circuit are counted exactly, and an endpoint that is shut has its wake  *)
(* scheduled.                                                              *)
WakesAreKept ==
  /\ Wake!IndexesAgree /\ Wake!OneWorker /\ Wake!NeverOversleeps
  /\ Health!ProbesExact /\ Health!WakeArmed

(* Whatever is scheduled, cancelled and published, and however attempts    *)
(* succeed, fail and are dropped, no scheduled wake is slept past and no   *)
(* endpoint is shut without one (WakeSchedule, run_wake_worker and         *)
(* EndpointHealth).                                                        *)
THEOREM WakesKept ==
  ASSUME Wake!WakeAssumption, Health!HealthAssumption
  PROVE  Wake!Spec /\ Health!Spec => []WakesAreKept
BY ScheduledWakesAreKept, ShutEndpointsAreWoken, PTL DEF WakesAreKept
=============================================================================
