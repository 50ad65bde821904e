---------------------------- MODULE OAuthRefresh ----------------------------
(***************************************************************************)
(* Refreshing the token of one OAuth account.  Requests whose token was    *)
(* rejected and the scheduled scan queue at the account's gate; its holder *)
(* sends the refresh token to the identity provider and publishes what     *)
(* comes back.  A refresh token is consumed by the exchange, so what is    *)
(* sent twice or lost on the way matters.                                  *)
(*                                                                         *)
(* A token is its version.  The publication is one step: ConfigPublisher   *)
(* shows that publications happen one after the other.                     *)
(***************************************************************************)
EXTENDS Naturals, Sequences, FiniteSets

CONSTANTS
  Requests,   \* requests that may find their token rejected
  Scanner,    \* the scheduled refresh worker
  MaxVersion, \* bound: token versions
  MaxTries,   \* bound: refreshes begun by each caller
  None        \* nobody

ASSUME CallersAssumption ==
  /\ IsFiniteSet(Requests) /\ Scanner \notin Requests
  /\ None \notin Requests \union {Scanner} /\ None \notin Nat
ASSUME BoundsAssumption == {MaxVersion, MaxTries} \subseteq Nat

VARIABLES
  token_version,        \* of the published account; 0 once it is deleted
  due,                  \* the published token is within its lead time of expiry
  gates,                \* the gate the map points to; 0 when it has none
  holder, queue,        \* the mutex of each gate
  permanent_rejection,  \* the version recorded as rejected for good; 0: none
  failed_attempts,      \* version and number of failed exchanges
  failures,             \* the version of the failure shown to operators
  caller,               \* the callers
  tries,                \* refreshes begun by each caller
  consumed, lost,       \* history: versions exchanged; results thrown away
  condemned,            \* history: versions rejected for good
  spent                 \* history: failures that have let a waiter through

account == <<token_version, due>>
mutexes == <<gates, holder, queue>>
records == <<permanent_rejection, failed_attempts, failures>>
history == <<consumed, lost, condemned, spent>>
vars == <<account, mutexes, records, caller, tries, history>>

Callers == Requests \union {Scanner}
GateIds == 1..Cardinality(Callers)
NoAttempts == [version |-> 0, attempts |-> 0]
Idle == [at |-> "idle", observed |-> 0, waited |-> None, gate |-> 0, gone |-> FALSE]

At(c, l) == caller[c].at = l
Set(c, r) == caller' = [caller EXCEPT ![c] = r]
GoTo(c, l) == Set(c, [caller[c] EXCEPT !.at = l])

Init ==
  /\ token_version = 1 /\ due \in BOOLEAN
  /\ gates = 0
  /\ holder = [g \in GateIds |-> None] /\ queue = [g \in GateIds |-> <<>>]
  /\ permanent_rejection = 0 /\ failed_attempts = NoAttempts /\ failures = 0
  /\ caller = [c \in Callers |-> Idle]
  /\ tries = [c \in Callers |-> 0]
  /\ consumed = {} /\ lost = {} /\ condemned = {} /\ spent = {}

-----------------------------------------------------------------------------
(* The account under the refresher's feet.                                 *)

Expire ==
  /\ token_version # 0 /\ ~due
  /\ due' = TRUE
  /\ UNCHANGED <<token_version, mutexes, records, caller, tries, history>>

(* An operator logs in again: the account gets a new token.                *)
Reauthorize ==
  /\ token_version \in 1..(MaxVersion - 1)
  /\ token_version' = token_version + 1 /\ due' = FALSE
  /\ UNCHANGED <<mutexes, records, caller, tries, history>>

DeleteAccount ==
  /\ token_version # 0
  /\ token_version' = 0 /\ due' = FALSE
  /\ UNCHANGED <<mutexes, records, caller, tries, history>>

-----------------------------------------------------------------------------
(* Beginning.  A request acts on the token its attempt was sent with, the  *)
(* scan on the snapshot it read before it tidied up.                       *)

SendAttempt(c) ==
  /\ c \in Requests /\ At(c, "idle") /\ tries[c] < MaxTries /\ token_version # 0
  /\ tries' = [tries EXCEPT ![c] = @ + 1]
  /\ Set(c, [Idle EXCEPT !.at = "gate", !.observed = token_version])
  /\ UNCHANGED <<account, mutexes, records, history>>

ScanDueAccounts ==
  /\ At(Scanner, "idle") /\ tries[Scanner] < MaxTries
  /\ tries' = [tries EXCEPT ![Scanner] = @ + 1]
  /\ \/ due /\ Set(Scanner, [Idle EXCEPT !.at = "retain", !.observed = token_version])
     \/ ~due /\ Set(Scanner, [Idle EXCEPT !.at = "retain only", !.observed = token_version])
  /\ UNCHANGED <<account, mutexes, records, history>>

Retained(v) == IF v = caller[Scanner].observed THEN v ELSE 0

(* What is recorded about versions the scan did not see is dropped; so is  *)
(* the gate of a deleted account, unless somebody still has it.            *)
RetainActiveRefreshState ==
  /\ At(Scanner, "retain") \/ At(Scanner, "retain only")
  /\ gates' = IF caller[Scanner].observed = 0 /\ \A c \in Callers : caller[c].gate # gates
              THEN 0 ELSE gates
  /\ permanent_rejection' = Retained(permanent_rejection)
  /\ failed_attempts' = IF Retained(failed_attempts.version) = 0 THEN NoAttempts
                        ELSE failed_attempts
  /\ failures' = Retained(failures)
  /\ spent' = IF failed_attempts' = failed_attempts THEN spent ELSE {}
  /\ IF At(Scanner, "retain") THEN GoTo(Scanner, "gate") ELSE Set(Scanner, Idle)
  /\ UNCHANGED <<account, holder, queue, tries, consumed, lost, condemned>>

-----------------------------------------------------------------------------
(* The gate: a tokio mutex, found through a weak reference.                *)

AttemptsOf(v) == IF failed_attempts.version = v THEN failed_attempts.attempts ELSE 0

Gate(c) ==
  /\ At(c, "gate")
  /\ LET live == gates # 0 /\ \E d \in Callers : caller[d].gate = gates
         g == IF live THEN gates
              ELSE CHOOSE n \in GateIds : \A d \in Callers : caller[d].gate # n
     IN gates' = g /\ Set(c, [caller[c] EXCEPT !.at = "try", !.gate = g])
  /\ UNCHANGED <<account, holder, queue, records, tries, history>>

TryLock(c) ==
  LET g == caller[c].gate IN
  /\ At(c, "try")
  /\ \/ /\ holder[g] = None /\ queue[g] = <<>>
        /\ holder' = [holder EXCEPT ![g] = c] /\ GoTo(c, "check")
     \/ /\ holder[g] # None \/ queue[g] # <<>>
        /\ GoTo(c, "observe") /\ UNCHANGED holder
  /\ UNCHANGED <<account, gates, queue, records, tries, history>>

ObserveFailures(c) ==
  /\ At(c, "observe")
  /\ Set(c, [caller[c] EXCEPT !.at = "enqueue", !.waited = AttemptsOf(caller[c].observed)])
  /\ UNCHANGED <<account, mutexes, records, tries, history>>

Enqueue(c) ==
  LET g == caller[c].gate IN
  /\ At(c, "enqueue")
  /\ IF holder[g] = None
     THEN holder' = [holder EXCEPT ![g] = c] /\ GoTo(c, "check") /\ UNCHANGED queue
     ELSE queue' = [queue EXCEPT ![g] = Append(@, c)] /\ GoTo(c, "waiting") /\ UNCHANGED holder
  /\ UNCHANGED <<account, gates, records, tries, history>>

(* Unlocking hands the mutex to the first in the queue.  next is the       *)
(* unlocking caller's record; the handle goes with the guard.              *)
Unlock(c, next) ==
  LET g == caller[c].gate
      w == queue[g]
  IN IF w = <<>>
     THEN holder' = [holder EXCEPT ![g] = None] /\ UNCHANGED queue /\ Set(c, next)
     ELSE /\ holder' = [holder EXCEPT ![g] = Head(w)]
          /\ queue' = [queue EXCEPT ![g] = Tail(w)]
          /\ caller' = [caller EXCEPT ![c] = next, ![Head(w)].at = "check"]

-----------------------------------------------------------------------------
(* Under the gate.                                                         *)

Failure(c) == <<caller[c].observed, caller[c].waited>>

(* Faulty variant: every waiter that has seen a failure tries again.       *)
AnyWaiterMayRetry(c) ==
  IF caller[c].waited = None THEN TRUE
  ELSE AttemptsOf(caller[c].observed) > caller[c].waited

(* Whoever queued goes on only if exactly one attempt has failed since.    *)
WaiterMayRetry(c) ==
  IF caller[c].waited = None THEN TRUE
  ELSE AttemptsOf(caller[c].observed) = caller[c].waited + 1

MayExchange(c) ==
  /\ token_version = caller[c].observed
  /\ permanent_rejection # caller[c].observed
  /\ WaiterMayRetry(c)
  /\ c = Scanner => due

(* prepare_refresh gives up: the account is gone or has a newer token, the *)
(* token was rejected, another waiter retries, or it is not due.  Reading  *)
(* a stale rejection removes it.                                           *)
GiveUp(c) ==
  LET v == caller[c].observed IN
  /\ At(c, "check") /\ ~MayExchange(c)
  /\ permanent_rejection' = IF token_version = v /\ permanent_rejection # v THEN 0
                            ELSE permanent_rejection
  /\ Unlock(c, [Idle EXCEPT !.at = IF token_version > v \/ c = Scanner THEN "idle" ELSE "report",
                            !.observed = v])
  /\ UNCHANGED <<account, gates, failed_attempts, failures, tries, history>>

(* Without a refresh token there is nothing to send.                       *)
MissingRefreshToken(c) ==
  /\ At(c, "check") /\ MayExchange(c)
  /\ permanent_rejection' = 0
  /\ Unlock(c, [Idle EXCEPT !.at = "report", !.observed = caller[c].observed])
  /\ UNCHANGED <<account, gates, failed_attempts, failures, tries, history>>

SendRefreshToken(c) ==
  /\ At(c, "check") /\ MayExchange(c)
  /\ permanent_rejection' = 0
  /\ spent' = IF caller[c].waited = None THEN spent ELSE spent \union {Failure(c)}
  /\ GoTo(c, "exchange")
  /\ UNCHANGED <<account, mutexes, failed_attempts, failures, tries, consumed, lost, condemned>>

(* Faulty variant: the publication does not take the gate along.           *)
ExchangeReleasesGate(c) ==
  /\ At(c, "exchange")
  /\ consumed' = consumed \union {caller[c].observed}
  /\ Unlock(c, [caller[c] EXCEPT !.at = "publishing"])
  /\ UNCHANGED <<account, gates, records, tries, lost, condemned, spent>>

(* The identity provider takes the token and answers; the answer becomes a *)
(* publication, a task of its own that takes the gate along.               *)
ExchangeSucceeds(c) ==
  /\ At(c, "exchange")
  /\ consumed' = consumed \union {caller[c].observed}
  /\ GoTo(c, "publishing")
  /\ UNCHANGED <<account, mutexes, records, tries, lost, condemned, spent>>

(* Transport errors, refusals and answers that do not parse: the provider  *)
(* may have taken the token all the same.                                  *)
ExchangeFails(c, taken) ==
  /\ At(c, "exchange")
  /\ consumed' = IF taken THEN consumed \union {caller[c].observed} ELSE consumed
  /\ lost' = IF taken THEN lost \union {caller[c].observed} ELSE lost
  /\ GoTo(c, "failing")
  /\ UNCHANGED <<account, mutexes, records, tries, condemned, spent>>

ExchangeRejected(c) ==
  /\ At(c, "exchange")
  /\ permanent_rejection' = caller[c].observed
  /\ condemned' = condemned \union {caller[c].observed}
  /\ GoTo(c, "failing")
  /\ UNCHANGED <<account, mutexes, failed_attempts, failures, tries, consumed, lost, spent>>

RecordFailedAttempt(c) ==
  LET v == caller[c].observed IN
  /\ At(c, "failing")
  /\ failed_attempts' = [version |-> v, attempts |-> AttemptsOf(v) + 1]
  /\ Unlock(c, [Idle EXCEPT !.at = "report", !.observed = v])
  /\ UNCHANGED <<account, gates, permanent_rejection, failures, tries, history>>

(* record_refresh_failure, after the gate.                                 *)
ReportFailure(c) ==
  /\ At(c, "report")
  /\ failures' = caller[c].observed
  /\ Set(c, Idle)
  /\ UNCHANGED <<account, mutexes, permanent_rejection, failed_attempts, tries, history>>

-----------------------------------------------------------------------------
(* The publication: on top of a newer token or a deleted account it        *)
(* changes nothing.  Its caller may be gone by then.                       *)

PublishRefresh(c) ==
  LET v == caller[c].observed IN
  /\ At(c, "publishing")
  /\ token_version = v => v < MaxVersion
  /\ token_version' = IF token_version = v THEN v + 1 ELSE token_version
  /\ due' = IF token_version = v THEN FALSE ELSE due
  /\ Unlock(c, [Idle EXCEPT !.observed = v,
                  !.at = IF caller[c].gone THEN "idle"
                         ELSE IF token_version' > v THEN "recording"
                         ELSE IF c = Scanner THEN "idle" ELSE "report"])
  /\ UNCHANGED <<gates, records, tries, history>>

PublishFails(c) ==
  /\ At(c, "publishing")
  /\ lost' = lost \union {caller[c].observed}
  /\ spent' = spent \ {Failure(c)}
  /\ Unlock(c, [Idle EXCEPT !.at = IF caller[c].gone THEN "idle" ELSE "report",
                            !.observed = caller[c].observed])
  /\ UNCHANGED <<account, gates, records, tries, consumed, condemned>>

RecordSuccess(c) ==
  LET v == caller[c].observed IN
  /\ At(c, "recording")
  /\ failures' = IF failures <= v THEN 0 ELSE failures
  /\ permanent_rejection' = 0
  /\ failed_attempts' = NoAttempts /\ spent' = {}
  /\ Set(c, Idle)
  /\ UNCHANGED <<account, mutexes, tries, consumed, lost, condemned>>

(* A future that is dropped while it waits leaves the queue.               *)
LeaveQueue(c) ==
  LET g == caller[c].gate IN
  \E i \in 1..Len(queue[g]) :
    /\ queue[g][i] = c
    /\ queue' = [queue EXCEPT ![g] = [j \in 1..(Len(@) - 1) |-> IF j < i THEN @[j] ELSE @[j + 1]]]

(* Faulty variant: a caller that leaves during the exchange keeps the gate. *)
CancelKeepsGate(c) ==
  \/ /\ At(c, "waiting")
     /\ LeaveQueue(c)
     /\ Set(c, Idle)
     /\ UNCHANGED <<account, gates, holder, records, tries, history>>
  \/ /\ At(c, "exchange")
     /\ Set(c, [caller[c] EXCEPT !.at = "idle"])
     /\ UNCHANGED <<account, mutexes, records, tries, history>>

(* The client leaves, the request's time is up, the process drains: the    *)
(* future is dropped where it awaits.  A publication goes on alone.        *)
Cancel(c) ==
  \/ /\ At(c, "waiting")
     /\ LeaveQueue(c)
     /\ Set(c, Idle)
     /\ UNCHANGED <<account, gates, holder, records, tries, history>>
  \/ /\ At(c, "exchange")
     /\ \E taken \in BOOLEAN :
          /\ consumed' = IF taken THEN consumed \union {caller[c].observed} ELSE consumed
          /\ lost' = IF taken THEN lost \union {caller[c].observed} ELSE lost
     /\ spent' = spent \ {Failure(c)}
     /\ Unlock(c, Idle)
     /\ UNCHANGED <<account, gates, records, tries, condemned>>
  \/ /\ At(c, "publishing") /\ ~caller[c].gone
     /\ Set(c, [caller[c] EXCEPT !.gone = TRUE])
     /\ UNCHANGED <<account, mutexes, records, tries, history>>

-----------------------------------------------------------------------------
Act(c) ==
  \/ Gate(c) \/ TryLock(c) \/ ObserveFailures(c) \/ Enqueue(c)
  \/ GiveUp(c) \/ MissingRefreshToken(c) \/ SendRefreshToken(c)
  \/ ExchangeSucceeds(c) \/ ExchangeRejected(c)
  \/ \E taken \in BOOLEAN : ExchangeFails(c, taken)
  \/ RecordFailedAttempt(c) \/ ReportFailure(c)
  \/ PublishRefresh(c) \/ PublishFails(c) \/ RecordSuccess(c)

Next ==
  \/ Expire \/ Reauthorize \/ DeleteAccount
  \/ ScanDueAccounts \/ RetainActiveRefreshState
  \/ \E c \in Callers : SendAttempt(c) \/ Act(c) \/ Cancel(c)

(* A task that can run is polled, and every wait on the identity provider  *)
(* has a timeout.                                                          *)
Fairness ==
  /\ WF_vars(RetainActiveRefreshState)
  /\ \A c \in Callers : WF_vars(Act(c))

Spec == Init /\ [][Next]_vars /\ Fairness

-----------------------------------------------------------------------------
TypeOK ==
  /\ token_version \in 0..MaxVersion /\ due \in BOOLEAN
  /\ gates \in 0..Cardinality(Callers)
  /\ holder \in [GateIds -> Callers \union {None}]
  /\ \A g \in GateIds : queue[g] \in Seq(Callers)
  /\ permanent_rejection \in 0..MaxVersion
  /\ failed_attempts \in [version : 0..MaxVersion, attempts : Nat]
  /\ failures \in 0..MaxVersion
  /\ DOMAIN caller = Callers /\ tries \in [Callers -> 0..MaxTries]

(* A refresh token that the identity provider has taken is not sent again  *)
(* by anybody, unless its answer was lost: one exchange at a time through  *)
(* whichever gate, and the next holder sees what the last one published.   *)
TokensAreUsedOnce ==
  \A c \in Callers : At(c, "exchange") /\ caller[c].observed \in consumed =>
                       caller[c].observed \in lost

(* Everybody who queues is answered.                                       *)
RefreshesEnd ==
  \A c \in Callers : caller[c].at = "waiting" ~> caller[c].at # "waiting"

(* What the test permanent_rejection_is_not_retried_for_the_same_token_-   *)
(* version asks for: a token version the provider rejected for good is not *)
(* sent again.  The scan prunes the records of failures by the accounts of *)
(* its snapshot; a snapshot from before the version was published makes it *)
(* drop the rejection of that version.                                     *)
RejectionsStick ==
  [][\A c \in Callers : SendRefreshToken(c) => caller[c].observed \notin condemned]_vars

(* A failed attempt lets one of those who waited for it try again, so an  *)
(* outage does not fan out; a second one only when the first was cancelled *)
(* or could not publish, or the count was cleared.                         *)
OneRetryPerFailure ==
  \A c \in Callers : SendRefreshToken(c) => Failure(c) \notin spent

=============================================================================
